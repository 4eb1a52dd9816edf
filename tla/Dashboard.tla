----------------------------- MODULE Dashboard -----------------------------
(***************************************************************************)
(* The dashboard in the browser (internal/web/static/app.js) against the   *)
(* server it polls: one open page, the jobs the registry lists, and the    *)
(* snapshot the index has published.  The page learns of everything from   *)
(* fragments, each a reading of the snapshot and of the registry that may  *)
(* be stale when it arrives and may not arrive at all; from them it        *)
(* derives the toasts and, for each row that is not cloned yet, the        *)
(* spinner on its button, which it must also show between the click and    *)
(* the first fragment that knows the job.                                  *)
(*                                                                         *)
(* Of the registry and the index only what the page can tell is kept: how  *)
(* a record begins, ends and is forgotten (JobRegistry), and that a scan   *)
(* follows (Index).  A job is used once, because the page remembers IDs,   *)
(* and every target is a row the provider lists.                           *)
(***************************************************************************)
EXTENDS Naturals, FiniteSets, Sequences

CONSTANTS
    Jobs,           \* job IDs, which bound the number of clones
    Targets,
    NoTarget,       \* the target of an ID that is not used yet
    MaxJobs,        \* the registry's budget
    MaxLosses       \* the bound on requests of the page that fail

ASSUME NoTargetIsNone == NoTarget \notin Targets
ASSUME MaxJobsIsNat == MaxJobs \in Nat
ASSUME MaxLossesIsNat == MaxLosses \in Nat

VARIABLES
    job,        \* per ID, its record's state; "forgotten" once it is dropped
    target,     \* per ID, its record's target
    cloned,     \* the targets that are checkouts on disk
    snap,       \* the targets the published snapshot shows as checkouts
    wire,       \* /fragment/tree requests in flight: inFlight is wire # <<>>
    timer,      \* whether the timer is set that calls tick
    hidden,     \* document.hidden
    post,       \* per target, the clone request the page is waiting for
    row,        \* per target, its ghost row: "gone", or what its button shows
    pending,    \* pendingClones
    seen,       \* jobState
    dismissed,  \* jobDismissed
    toasts,     \* the jobs that have a toast on the screen; it says seen[j]
    losses      \* the failed requests so far

registry == <<job, target>>
server == <<cloned, snap>>
page == <<timer, hidden, row, pending, seen, dismissed, toasts>>
vars == <<registry, server, wire, post, page, losses>>

Outcomes == {"done", "failed"}
States == {"none", "running"} \cup Outcomes

\* "clicked": a spinner whose request is out; "released": a spinner whose
\* request was answered, on a button that works again; "spinning": a spinner
\* put there by applyCloneBusy
Buttons == {"ready", "clicked", "released", "spinning"}

\* A request for the fragment, and what is on its way back once rendered.
Fragment == [rendered : BOOLEAN,
             jobs : UNION {[S -> States] : S \in SUBSET Jobs},
             ghosts : SUBSET Targets]
Asked == [rendered |-> FALSE, jobs |-> [j \in {} |-> "none"], ghosts |-> {}]

TypeOK ==
    /\ job \in [Jobs -> States \cup {"forgotten"}]
    /\ target \in [Jobs -> Targets \cup {NoTarget}]
    /\ cloned \in SUBSET Targets
    /\ snap \in SUBSET Targets
    /\ wire \in Seq(Fragment)
    /\ timer \in BOOLEAN
    /\ hidden \in BOOLEAN
    /\ post \in [Targets -> {"none", "sent", "accepted", "refused"}]
    /\ row \in [Targets -> Buttons \cup {"gone"}]
    /\ pending \in SUBSET Targets
    /\ seen \in [Jobs -> States]
    /\ dismissed \in [Jobs -> States]
    /\ toasts \in SUBSET Jobs
    /\ losses \in 0 .. MaxLosses

----------------------------------------------------------------------------
(* The server.                                                             *)

Retained == {j \in Jobs : job[j] \in {"running"} \cup Outcomes}
Busy(t) == \E j \in Jobs : job[j] = "running" /\ target[j] = t

\* The next unused ID.
Unused == {j \in Jobs : job[j] = "none"}
Fresh == CHOOSE j \in Unused : TRUE

\* What evictLocked may drop once another job is in the map: finished records,
\* no more than are over the budget.  (Which, and how it comes that there are
\* fewer, is JobRegistry's business.)
MayGo(gone) ==
    /\ \A j \in gone : job[j] \in Outcomes
    /\ gone # {} => Cardinality(gone) + MaxJobs <= Cardinality(Retained) + 1

\* Clone's check of the disk and Registry.Start.
StartsClone(t) ==
    /\ t \notin cloned
    /\ ~Busy(t)
    /\ Unused # {}
    /\ \E gone \in SUBSET Retained :
         /\ MayGo(gone)
         /\ job' = [j \in Jobs |-> IF j = Fresh THEN "running"
                                  ELSE IF j \in gone THEN "forgotten" ELSE job[j]]
    /\ target' = [target EXCEPT ![Fresh] = t]

\* Another client (another tab, curl) starts a clone.
OthersClone(t) ==
    /\ StartsClone(t)
    /\ UNCHANGED <<server, wire, post, page, losses>>

\* git.Clone has returned, a failed one has removed what it wrote, and the
\* job's goroutine stores the outcome.
JobFinishes(j, outcome) ==
    /\ job[j] = "running"
    /\ job' = [job EXCEPT ![j] = outcome]
    /\ cloned' = IF outcome = "done" THEN cloned \cup {target[j]} ELSE cloned
    /\ UNCHANGED <<target, snap, wire, post, page, losses>>

\* The page has drawn a fragment since the job's end and waits for no other
\* that is older.
Drawn(j) ==
    /\ seen[j] = job[j]
    /\ target[j] \notin pending
    /\ \A i \in 1 .. Len(wire) : j \in DOMAIN wire[i].jobs => wire[i].jobs[j] = job[j]

\* The registry's expiry.  The TTL (30 minutes) is far longer than a request,
\* or than a visible page goes without a fragment; a hidden page may go
\* without for ever.
JobForgotten(j) ==
    /\ job[j] \in Outcomes
    /\ hidden \/ Drawn(j)
    /\ post[target[j]] = "none"
    /\ job' = [job EXCEPT ![j] = "forgotten"]
    /\ UNCHANGED <<target, server, wire, post, page, losses>>

\* The index publishes a scan (what it promises is Index's business).  A scan
\* may meet a checkout that git is still writing.
Rescan ==
    /\ \E partial \in SUBSET {t \in Targets : Busy(t)} : snap' = cloned \cup partial
    /\ snap' # snap
    /\ UNCHANGED <<registry, cloned, wire, post, page, losses>>

----------------------------------------------------------------------------
(* refresh and its timer.                                                  *)

\* Mutant: refresh does not look at inFlight.
RefreshAlways(set) ==
    /\ wire' = IF Len(wire) < 2 THEN Append(wire, Asked) ELSE wire
    /\ timer' = TRUE

\* refresh().then(schedule), by any caller: while a request is in flight
\* refresh returns at once and the timer is set; otherwise it is set again
\* when the request ends, and is left as it is until then.
Refresh(set) ==
    IF wire = <<>>
    THEN wire' = <<Asked>> /\ timer' = set
    ELSE timer' = TRUE /\ UNCHANGED wire

\* The timer fires: tick, which only sets it again on a hidden page.
Tick ==
    /\ timer
    /\ IF hidden THEN UNCHANGED <<wire, timer>> ELSE Refresh(FALSE)
    /\ UNCHANGED <<registry, server, post, hidden, row, pending, seen, dismissed, toasts, losses>>

\* What handleTreeFragment renders: the snapshot, then the registry's list.
Reading == [rendered |-> TRUE, jobs |-> [j \in Retained |-> job[j]], ghosts |-> Targets \ snap]

\* handleTreeFragment answers.  (A snapshot that is older than the list is a
\* snapshot the index had not replaced yet.)
Renders(i) ==
    /\ ~wire[i].rendered
    /\ wire' = [wire EXCEPT ![i] = Reading]
    /\ UNCHANGED <<registry, server, post, page, losses>>

\* The clone jobs of a fragment that are at work, and the ones that are not.
Running(f) == {target[j] : j \in {k \in DOMAIN f.jobs : f.jobs[k] = "running"}}
Over(f) == {target[j] : j \in {k \in DOMAIN f.jobs : f.jobs[k] # "running"}}

\* Mutant: only a job that is done clears the mark of its target.
StillPendingIfFailed(f) ==
    pending \ {target[j] : j \in {k \in DOMAIN f.jobs : f.jobs[k] = "done"}}

\* syncJobs on pendingClones.
StillPending(f) == pending \ Over(f)

\* Mutant: a toast that was dismissed stays away whatever becomes of the job.
NewsUnlessDismissed(f) ==
    {j \in DOMAIN f.jobs :
        /\ dismissed[j] = "none"
        /\ ~(seen[j] = f.jobs[j] /\ f.jobs[j] # "running")}

\* syncJobs: the jobs a fragment raises a toast for.
News(f) ==
    {j \in DOMAIN f.jobs :
        /\ dismissed[j] # f.jobs[j]
        /\ ~(seen[j] = f.jobs[j] /\ f.jobs[j] # "running")}

\* Mutant: the spinners are not put back after the swap.
RowsAsRendered(f, marks) == [t \in Targets |-> IF t \in f.ghosts THEN "ready" ELSE "gone"]

\* The swap of the region and applyCloneBusy.
Rows(f, marks) ==
    [t \in Targets |->
        IF t \notin f.ghosts THEN "gone"
        ELSE IF t \in Running(f) \cup marks THEN "spinning" ELSE "ready"]

\* A fragment arrives: swap, syncJobs, applyCloneBusy, and then schedule.
Arrives(i) ==
    LET f == wire[i]
    IN  /\ f.rendered
        /\ wire' = SubSeq(wire, 1, i - 1) \o SubSeq(wire, i + 1, Len(wire))
        /\ pending' = StillPending(f)
        /\ seen' = [j \in Jobs |-> IF j \in News(f) THEN f.jobs[j] ELSE seen[j]]
        /\ toasts' = toasts \cup News(f)
        /\ row' = Rows(f, pending')
        /\ timer' = TRUE
        /\ UNCHANGED <<registry, server, post, hidden, dismissed, losses>>

\* Mutant: schedule only follows a refresh that worked.
FragmentFailsForGood(i) ==
    /\ losses < MaxLosses
    /\ losses' = losses + 1
    /\ wire' = SubSeq(wire, 1, i - 1) \o SubSeq(wire, i + 1, Len(wire))
    /\ UNCHANGED <<registry, server, post, page>>

\* A refresh fails: a message, and schedule all the same.
FragmentFails(i) ==
    /\ losses < MaxLosses
    /\ losses' = losses + 1
    /\ wire' = SubSeq(wire, 1, i - 1) \o SubSeq(wire, i + 1, Len(wire))
    /\ timer' = TRUE
    /\ UNCHANGED <<registry, server, post, hidden, row, pending, seen, dismissed, toasts>>

\* visibilitychange.
Hides ==
    /\ ~hidden
    /\ hidden' = TRUE
    /\ timer' = TRUE
    /\ UNCHANGED <<registry, server, wire, post, row, pending, seen, dismissed, toasts, losses>>

ShowsAgain ==
    /\ hidden
    /\ hidden' = FALSE
    /\ Refresh(timer)
    /\ UNCHANGED <<registry, server, post, row, pending, seen, dismissed, toasts, losses>>

----------------------------------------------------------------------------
(* The user.                                                               *)

\* A click on a row's clone button, or the same request from the dialog, which
\* marks no row.  One request per target at a time (a bound of the model: a
\* swap that comes before the answer gives the row a button that works).
Asks(t) ==
    /\ post[t] = "none"
    /\ post' = [post EXCEPT ![t] = "sent"]
    /\ \/ row[t] \in {"ready", "released"} /\ row' = [row EXCEPT ![t] = "clicked"]
       \/ UNCHANGED row
    /\ UNCHANGED <<registry, server, wire, timer, hidden, pending, seen, dismissed, toasts, losses>>

\* handleClone: ErrExists, ErrBusy, or a job.
Serves(t) ==
    /\ post[t] = "sent"
    /\ \/ /\ t \in cloned \/ Busy(t)
          /\ post' = [post EXCEPT ![t] = "refused"]
          /\ UNCHANGED registry
       \/ /\ StartsClone(t)
          /\ post' = [post EXCEPT ![t] = "accepted"]
    /\ UNCHANGED <<server, wire, page, losses>>

\* The button whose request has ended, if no swap has replaced it.
Release(t) == row' = IF row[t] = "clicked" THEN [row EXCEPT ![t] = "released"] ELSE row

\* The answer arrives: the mark, the button, and a refresh.
Answered(t) ==
    /\ post[t] \in {"accepted", "refused"}
    /\ post' = [post EXCEPT ![t] = "none"]
    /\ pending' = IF post[t] = "accepted" THEN pending \cup {t} ELSE pending
    /\ Release(t)
    /\ Refresh(timer)
    /\ UNCHANGED <<registry, server, hidden, seen, dismissed, toasts, losses>>

\* The request fails, before or after the server has served it.
RequestFails(t) ==
    /\ post[t] # "none"
    /\ losses < MaxLosses
    /\ losses' = losses + 1
    /\ post' = [post EXCEPT ![t] = "none"]
    /\ Release(t)
    /\ Refresh(timer)
    /\ UNCHANGED <<registry, server, hidden, pending, seen, dismissed, toasts>>

\* A toast goes: the X, or for an outcome its 30 seconds.
ToastGoes(j) ==
    /\ j \in toasts
    /\ toasts' = toasts \ {j}
    /\ dismissed' = [dismissed EXCEPT ![j] = seen[j]]
    /\ UNCHANGED <<registry, server, wire, post, timer, hidden, row, pending, seen, losses>>

\* What a page makes of the region it is loaded with: the first pass of
\* syncJobs takes note of what is over and has toasts for what is not.
Loaded(f) ==
    /\ seen' = [j \in Jobs |-> IF j \in DOMAIN f.jobs THEN f.jobs[j] ELSE "none"]
    /\ toasts' = {j \in DOMAIN f.jobs : f.jobs[j] = "running"}
    /\ row' = Rows(f, {})

\* The page is loaded again, and nothing it remembered or waited for is left.
Reloads ==
    /\ Loaded(Reading)
    /\ pending' = {}
    /\ dismissed' = [j \in Jobs |-> "none"]
    /\ wire' = <<>>
    /\ post' = [t \in Targets |-> "none"]
    /\ timer' = TRUE
    /\ UNCHANGED <<registry, server, hidden, losses>>

----------------------------------------------------------------------------

Init ==
    /\ job = [j \in Jobs |-> "none"]
    /\ target = [j \in Jobs |-> NoTarget]
    /\ cloned = {}
    /\ snap = {}
    /\ wire = <<>>
    /\ timer = TRUE
    /\ hidden = FALSE
    /\ post = [t \in Targets |-> "none"]
    /\ row = [t \in Targets |-> "ready"]
    /\ pending = {}
    /\ seen = [j \in Jobs |-> "none"]
    /\ dismissed = [j \in Jobs |-> "none"]
    /\ toasts = {}
    /\ losses = 0

Server ==
    \/ \E t \in Targets : OthersClone(t) \/ Serves(t)
    \/ \E j \in Jobs :
         \/ \E outcome \in Outcomes : JobFinishes(j, outcome)
         \/ JobForgotten(j)
    \/ Rescan

Polling ==
    \/ Tick
    \/ \E i \in 1 .. Len(wire) : Renders(i) \/ Arrives(i) \/ FragmentFails(i)

User ==
    \/ Hides \/ ShowsAgain \/ Reloads
    \/ \E t \in Targets : Asks(t) \/ Answered(t) \/ RequestFails(t)
    \/ \E j \in Jobs : ToastGoes(j)

Next == Server \/ Polling \/ User

Spec == Init /\ [][Next]_vars

\* The timer fires and requests are answered, each in its time; the index
\* publishes what was signalled (Index: AnnouncedIsShown).  Nothing is said
\* of how long a clone takes or of what the user does.
Fairness ==
    /\ WF_vars(Tick)
    /\ WF_vars(\E i \in 1 .. Len(wire) : Renders(i) \/ Arrives(i))
    /\ WF_vars(Rescan)
    /\ \A t \in Targets : WF_vars(Serves(t) \/ Answered(t))

FairSpec == Spec /\ Fairness

----------------------------------------------------------------------------

\* While no refresh is out the timer is set, so polling never stops; and there
\* is one at a time.
PollingGoesOn == Len(wire) <= 1 /\ (wire = <<>> => timer)

\* A row the page knows to be cloning spins as long as it is drawn.
RowsSpin == \A j \in Retained : seen[j] = "running" => row[target[j]] # "ready"

\* What the page remembers of a job it was told, and it was told nothing but
\* what was so.
RemembersRight ==
    \A j \in Jobs :
        /\ job[j] # "none" => target[j] \in Targets
        /\ seen[j] # "none" => job[j] # "none"
        /\ seen[j] \in Outcomes => job[j] \in {seen[j], "forgotten"}
        /\ dismissed[j] \in Outcomes => dismissed[j] = seen[j]

\* A fragment on its way back was so when it was rendered, and that was after
\* the page was told what it remembers.
TellsRight(f) ==
    \A j \in Jobs :
        IF j \in DOMAIN f.jobs
        THEN /\ f.jobs[j] # "none" /\ job[j] # "none"
             /\ f.jobs[j] \in Outcomes => job[j] \in {f.jobs[j], "forgotten"}
             /\ seen[j] \in Outcomes => f.jobs[j] = seen[j]
        ELSE seen[j] = "running" => job[j] = "forgotten"

FragmentsTellRight == \A i \in 1 .. Len(wire) : wire[i].rendered => TellsRight(wire[i])

\* The inductive invariant of what the page and the server keep between them.
DashboardInv ==
    /\ TypeOK
    /\ PollingGoesOn
    /\ RowsSpin
    /\ RemembersRight
    /\ FragmentsTellRight

\* A toast goes forward: one that has told how its job ended never says that
\* it runs, and once it has gone it does not come back
\* (app.js: `a finished one is written once').
ToastsGoForward ==
    [][\A j \in Jobs :
         seen[j] \in Outcomes =>
            /\ seen'[j] # "running"
            /\ j \in toasts' => j \in toasts
      ]_vars

\* The job was forgotten before the page could read how it ended: its record
\* expired while the page was hidden, or went to make room for another.
Missed(j) == job[j] = "forgotten" /\ seen[j] \notin Outcomes

\* What a page says of the clones it knows is up to date: it does not say of one
\* that has ended that it runs, and offers none for cloning that is done.
Told ==
    \A j \in Jobs :
        /\ seen[j] = "running" => job[j] = "running" \/ Missed(j)
        /\ seen[j] = "done" => row[target[j]] = "gone"

\* A page that stays visible always comes to that again: it tells how every clone
\* ended that it has seen running, also when the toast was dismissed meanwhile
\* or requests have failed, and no longer offers it if it is done.
OutcomesAreTold == []<>(hidden \/ Told)

Spins(t) == row[t] \in Buttons \ {"ready"}

\* The page has a mark for t that no record is left to clear: they expired
\* while it was hidden, or went to make room for others.
Stranded(t) == t \in pending /\ \A j \in Jobs : target[j] = t => job[j] = "forgotten"

\* A page that stays visible always comes to show spinners on the rows something
\* is cloned into, and on no others: one that is left from a click, or from a
\* mark, goes, and a mark that was cleared too early for a retry, or set after
\* its row was drawn, is made good by the next fragment.
SpinsForAReason ==
    []<>(\/ hidden
         \/ \A t \in Targets :
              /\ Spins(t) => Busy(t) \/ Stranded(t)
              /\ Busy(t) => Spins(t) \/ row[t] = "gone")

\* A toast about a running operation `is sticky until the operation ends'
\* (README): on a visible page it then tells the outcome, or goes.
StickyUntilItEnds ==
    \A j \in Jobs :
        (j \in toasts /\ seen[j] = "running")
            ~> (j \notin toasts \/ seen[j] # "running" \/ job[j] = "running" \/ hidden)
=============================================================================
