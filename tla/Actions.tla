------------------------------ MODULE Actions ------------------------------
(***************************************************************************)
(* The write surface of repo-man: Service.Clone and Service.InitRepo of    *)
(* internal/actions/actions.go, the steps git.Clone and git.Init take on   *)
(* the file system (internal/git/git.go), the job registry they go through *)
(* (module JobRegistry), and the shutdown of cmd/repoman/main.go.          *)
(*                                                                         *)
(* A request is a handler of the HTTP server; it and every clone job run   *)
(* concurrently, one file-system call or critical section at a time.  The  *)
(* file system keeps one of four states per path.  The git child process   *)
(* is external: it creates its directory, and succeeds, fails, or dies.    *)
(* What it started (ssh, git-remote-https) may outlive it, and holds the   *)
(* pipe of its error output open: Clone waits for that too.                *)
(***************************************************************************)
EXTENDS JobRegistry

CONSTANTS
    CloneHandlers,                  \* handlers that can serve POST /clone
    InitHandlers,                   \* handlers that can serve POST /init
    Within                          \* Within[p]: p and the paths beneath it

ASSUME WithinIsTree ==
    /\ Within \in [Targets -> SUBSET Targets]
    /\ \A p \in Targets : p \in Within[p]
    /\ \A p, q \in Targets : q \in Within[p] => Within[q] \subseteq Within[p]
    /\ \A p, q \in Targets : p \in Within[q] /\ q \in Within[p] => p = q

VARIABLES
    disk,       \* what is at a path
    checked,    \* the destination a clone handler has found absent, if any
    gpc,        \* where a job's goroutine is in git.Clone
    made,       \* git.Clone's weCreatedIt
    result,     \* what git.Clone is about to return
    ipc,        \* where an init handler is
    idest,      \* the destination it serves, if any
    initing,    \* Service.initing
    signals,    \* index channels holding a token: "scanNow", "ghostsNow"
    main        \* where run() of cmd/repoman is; "exited" and "aborted" are the end

cloneVars == <<checked, gpc, made, result>>
initVars == <<ipc, idest, initing>>
vars == <<registryVars, disk, cloneVars, initVars, signals, main>>

\* "dir": a directory without a .git of its own; "partial": a repository that
\* git has begun and not completed.
Contents == {"absent", "dir", "partial", "repo"}
CloneSteps == {"none", "stat", "mkdir", "lstat", "exec", "git", "pipe", "cleanup", "return"}
InitSteps == {"idle", "lstat", "stat", "mkdir", "git"}

TypeOK ==
    /\ RegistryTypeOK
    /\ disk \in [Targets -> Contents]
    /\ checked \in [CloneHandlers -> Targets \cup {NoTarget}]
    /\ gpc \in [Jobs -> CloneSteps]
    /\ made \in [Jobs -> BOOLEAN]
    /\ result \in [Jobs -> Outcomes]
    /\ ipc \in [InitHandlers -> InitSteps]
    /\ idest \in [InitHandlers -> Targets \cup {NoTarget}]
    /\ initing \in SUBSET Targets
    /\ signals \in SUBSET {"scanNow", "ghostsNow"}
    /\ main \in {"serving", "draining", "waiting", "exited", "aborted"}

----------------------------------------------------------------------------
(* The file system. *)

Above(p) == {q \in Targets : p \in Within[q]}
Present == {p \in Targets : disk[p] = "repo"}

\* A directory nothing is in.
EmptyDir(p) ==
    /\ disk[p] = "dir"
    /\ \A q \in Within[p] \ {p} : disk[q] = "absent"

\* os.MkdirAll on the paths of P and everything above them.
WithDirs(P) ==
    [q \in Targets |->
        IF disk[q] = "absent" /\ \E p \in P : q \in Above(p) THEN "dir" ELSE disk[q]]

\* os.RemoveAll(p).
Without(p) == [q \in Targets |-> IF q \in Within[p] THEN "absent" ELSE disk[q]]

----------------------------------------------------------------------------

Init ==
    /\ RegistryInit
    /\ disk \in [Targets -> {"absent", "dir", "repo"}]
    /\ \A p \in Targets : disk[p] # "absent" =>
           \A q \in Above(p) : disk[q] # "absent"
    /\ checked = [h \in CloneHandlers |-> NoTarget]
    /\ gpc = [j \in Jobs |-> "none"]
    /\ made = [j \in Jobs |-> FALSE]
    /\ result = [j \in Jobs |-> "failed"]
    /\ ipc = [h \in InitHandlers |-> "idle"]
    /\ idest = [h \in InitHandlers |-> NoTarget]
    /\ initing = {}
    /\ signals = {}
    /\ main = "serving"

----------------------------------------------------------------------------
(* Service.Clone, in a handler. *)

\* The destination must be absent; a request for any other returns ErrExists
\* and changes nothing.
CloneLstat(h, p) ==
    /\ main = "serving"
    /\ checked[h] = NoTarget
    /\ disk[p] = "absent"
    /\ checked' = [checked EXCEPT ![h] = p]
    /\ UNCHANGED <<registryVars, disk, gpc, made, result, initVars, signals, main>>

\* Registry.Start accepts the job,
CloneStarts(h, j) ==
    /\ checked[h] # NoTarget
    /\ Start(j, checked[h])
    /\ checked' = [checked EXCEPT ![h] = NoTarget]
    /\ UNCHANGED <<disk, gpc, made, result, initVars, signals, main>>

\* and makes room for its record,
CloneEvicts(j) ==
    /\ phase[j] = "evicting"
    /\ (\E k \in Jobs : EvictReads(k)) \/ Evict(j)
    /\ UNCHANGED <<disk, cloneVars, initVars, signals, main>>

\* or returns ErrBusy.
CloneBusy(h) ==
    /\ checked[h] # NoTarget
    /\ Evicting = {}
    /\ Busy(checked[h])
    /\ checked' = [checked EXCEPT ![h] = NoTarget]
    /\ UNCHANGED <<registryVars, disk, gpc, made, result, initVars, signals, main>>

----------------------------------------------------------------------------
(* git.Clone, in a job's goroutine. *)

Goes(j, next) ==
    /\ gpc' = [gpc EXCEPT ![j] = next]
    /\ UNCHANGED <<registryVars, checked, initVars, signals, main>>

\* The handler calls wg.Add and starts the goroutine.
CloneLaunches(j) ==
    /\ Launch(j)
    /\ gpc' = [gpc EXCEPT ![j] = "stat"]
    /\ made' = [made EXCEPT ![j] = FALSE]
    /\ result' = [result EXCEPT ![j] = "failed"]
    /\ UNCHANGED <<disk, checked, initVars, signals, main>>

CloneStat(j) ==
    /\ gpc[j] = "stat"
    /\ disk[target[j]] = "absent"
    /\ Goes(j, "mkdir")
    /\ UNCHANGED <<disk, made, result>>

\* MkdirAll creates the parent only.
CloneMkdir(j) ==
    /\ gpc[j] = "mkdir"
    /\ disk' = [WithDirs({target[j]}) EXCEPT ![target[j]] = disk[target[j]]]
    /\ Goes(j, "lstat")
    /\ UNCHANGED <<made, result>>

\* Something exists already (Stat), or a call fails.
CloneGivesUp(j) ==
    /\ gpc[j] \in {"stat", "mkdir"}
    /\ Goes(j, "return")
    /\ UNCHANGED <<disk, made, result>>

\* Mutant: weCreatedIt trusts the Stat before MkdirAll.
CloneLstatTrusting(j) ==
    /\ gpc[j] = "lstat"
    /\ made' = [made EXCEPT ![j] = TRUE]
    /\ Goes(j, "exec")
    /\ UNCHANGED <<disk, result>>

\* Mutant: the test of weCreatedIt the wrong way round.
CloneLstatInverted(j) ==
    /\ gpc[j] = "lstat"
    /\ made' = [made EXCEPT ![j] = disk[target[j]] # "absent"]
    /\ Goes(j, "exec")
    /\ UNCHANGED <<disk, result>>

\* The check right before exec: weCreatedIt.
CloneLstatAgain(j) ==
    /\ gpc[j] = "lstat"
    /\ made' = [made EXCEPT ![j] = disk[target[j]] = "absent"]
    /\ Goes(j, "exec")
    /\ UNCHANGED <<disk, result>>

\* git runs: it creates the directory, or takes an existing empty one.
GitBegins(j) ==
    /\ gpc[j] = "exec"
    /\ ~cancelled
    /\ disk[target[j]] = "absent" \/ EmptyDir(target[j])
    /\ disk' = [WithDirs({target[j]}) EXCEPT ![target[j]] = "partial"]
    /\ Goes(j, "git")
    /\ UNCHANGED <<made, result>>

\* git refuses a directory that is not empty; exec refuses a dead context.
GitRefuses(j) ==
    /\ gpc[j] = "exec"
    /\ cancelled \/ ~(disk[target[j]] = "absent" \/ EmptyDir(target[j]))
    /\ Goes(j, "cleanup")
    /\ UNCHANGED <<disk, made, result>>

GitSucceeds(j) ==
    /\ gpc[j] = "git"
    /\ disk[target[j]] = "partial"
    /\ disk' = [disk EXCEPT ![target[j]] = "repo"]
    /\ result' = [result EXCEPT ![j] = "done"]
    /\ Goes(j, "pipe")
    /\ UNCHANGED made

\* git reports an error, having removed its junk, and the directory itself
\* if it was not there before.
GitFails(j) ==
    /\ gpc[j] = "git"
    /\ disk' = [Without(target[j]) EXCEPT
                  ![target[j]] = IF made[j] \/ disk[target[j]] = "absent"
                                 THEN "absent" ELSE "dir"]
    /\ Goes(j, "pipe")
    /\ UNCHANGED <<made, result>>

\* git is killed (by the context or otherwise) and removes nothing.
GitDies(j) ==
    /\ gpc[j] = "git"
    /\ Goes(j, "pipe")
    /\ UNCHANGED <<disk, made, result>>

\* git is gone and so is everything that held its error output: cmd.Run
\* returns.  (There is no WaitDelay, so it does not return before.)
PipeCloses(j) ==
    /\ gpc[j] = "pipe"
    /\ Goes(j, IF result[j] = "done" THEN "return" ELSE "cleanup")
    /\ UNCHANGED <<disk, made, result>>

\* Mutant: git is trusted to clean up.
CloneLeaves(j) ==
    /\ gpc[j] = "cleanup"
    /\ Goes(j, "return")
    /\ UNCHANGED <<disk, made, result>>

\* Clone's own cleanup: RemoveAll of what it believes is its wreckage.
CloneCleanup(j) ==
    /\ gpc[j] = "cleanup"
    /\ disk' = IF made[j] THEN Without(target[j]) ELSE disk
    /\ Goes(j, "return")
    /\ UNCHANGED <<made, result>>

\* runJob returns and the outcome is stored.
CloneReturns(j) ==
    /\ gpc[j] = "return"
    /\ Finish(j, result[j])
    /\ gpc' = [gpc EXCEPT ![j] = "none"]
    /\ UNCHANGED <<disk, checked, made, result, initVars, signals, main>>

\* onDone (Index.RefreshGhostsNow), then wg.Done.
JobExits(j) ==
    /\ Exit(j)
    /\ signals' = signals \cup {"ghostsNow"}
    /\ UNCHANGED <<disk, cloneVars, initVars, main>>

----------------------------------------------------------------------------
(* Service.InitRepo and git.Init, in a handler. *)

\* Mutant: beginInit overwrites a claim.
InitReclaims(h, p) ==
    /\ main = "serving"
    /\ ipc[h] = "idle"
    /\ \A q \in Above(p) \ {p} : disk[q] # "absent"
    /\ initing' = initing \cup {p}
    /\ idest' = [idest EXCEPT ![h] = p]
    /\ ipc' = [ipc EXCEPT ![h] = "lstat"]
    /\ UNCHANGED <<registryVars, disk, cloneVars, signals, main>>

\* beginInit claims the destination; a second claim returns ErrBusy and
\* changes nothing.  The parent directory exists (safepath.ResolveExisting).
InitBegins(h, p) ==
    /\ main = "serving"
    /\ ipc[h] = "idle"
    /\ p \notin initing
    /\ \A q \in Above(p) \ {p} : disk[q] # "absent"
    /\ initing' = initing \cup {p}
    /\ idest' = [idest EXCEPT ![h] = p]
    /\ ipc' = [ipc EXCEPT ![h] = "lstat"]
    /\ UNCHANGED <<registryVars, disk, cloneVars, signals, main>>

InitGoes(h, next) ==
    /\ ipc' = [ipc EXCEPT ![h] = next]
    /\ UNCHANGED <<registryVars, cloneVars, idest, initing, signals, main>>

\* InitRepo returns; its deferred endInit releases the claim.
InitReturns(h) ==
    /\ ipc' = [ipc EXCEPT ![h] = "idle"]
    /\ idest' = [idest EXCEPT ![h] = NoTarget]
    /\ initing' = initing \ {idest[h]}
    /\ UNCHANGED <<registryVars, cloneVars, main>>

InitLstat(h) ==
    /\ ipc[h] = "lstat"
    /\ disk[idest[h]] = "absent"
    /\ InitGoes(h, "stat")
    /\ UNCHANGED disk

\* git.Init looks again, and accepts an empty directory.
InitStat(h) ==
    /\ ipc[h] = "stat"
    /\ \/ disk[idest[h]] = "absent" /\ InitGoes(h, "mkdir")
       \/ EmptyDir(idest[h]) /\ InitGoes(h, "git")
    /\ UNCHANGED disk

InitMkdir(h) ==
    /\ ipc[h] = "mkdir"
    /\ disk' = WithDirs({idest[h]})
    /\ InitGoes(h, "git")

\* ErrExists, a branch name git.Init refuses, or a call that fails.
InitGivesUp(h) ==
    /\ ipc[h] \in {"lstat", "stat", "mkdir"}
    /\ InitReturns(h)
    /\ UNCHANGED <<disk, signals>>

\* git init completes (on a repository it changes nothing); onChange is
\* Index.ScanNow.
InitSucceeds(h) ==
    /\ ipc[h] = "git"
    /\ disk[idest[h]] # "absent"
    /\ disk' = [disk EXCEPT ![idest[h]] = IF @ = "dir" THEN "repo" ELSE @]
    /\ signals' = signals \cup {"scanNow"}
    /\ InitReturns(h)

\* git init fails, or dies with the request's context half way.
InitFails(h) ==
    /\ ipc[h] = "git"
    /\ \/ UNCHANGED disk
       \/ /\ disk[idest[h]] = "dir"
          /\ disk' = [disk EXCEPT ![idest[h]] = "partial"]
    /\ InitReturns(h)
    /\ UNCHANGED signals

----------------------------------------------------------------------------
(* The index, clocks and main. *)

\* Index.Run takes a token from a channel of depth one.
IndexTakes(s) ==
    /\ ~cancelled
    /\ s \in signals
    /\ signals' = signals \ {s}
    /\ UNCHANGED <<registryVars, disk, cloneVars, initVars, main>>

\* Time, the registry's expiry loop, and the signal that ends the service.
RegistryRuns ==
    /\ (\E j \in Jobs : Age(j)) \/ Expire \/ Cancel \/ StopSweeping
    /\ UNCHANGED <<disk, cloneVars, initVars, signals, main>>

\* ListenAndServe returns an error, and run with it: the process ends.
ListenerFails ==
    /\ main = "serving"
    /\ main' = "aborted"
    /\ UNCHANGED <<registryVars, disk, cloneVars, initVars, signals>>

\* httpSrv.Shutdown closes the listener,
ShutdownBegins ==
    /\ main = "serving"
    /\ cancelled
    /\ main' = "draining"
    /\ UNCHANGED <<registryVars, disk, cloneVars, initVars, signals>>

\* Mutant: Shutdown without a deadline waits for its handlers.
ShutdownDrains ==
    /\ main = "draining"
    /\ \A h \in CloneHandlers : checked[h] = NoTarget
    /\ \A h \in InitHandlers : ipc[h] = "idle"
    /\ main' = "waiting"
    /\ UNCHANGED <<registryVars, disk, cloneVars, initVars, signals>>

\* and returns when the handlers have, or after 15 seconds all the same.
ShutdownReturns ==
    /\ main = "draining"
    /\ main' = "waiting"
    /\ UNCHANGED <<registryVars, disk, cloneVars, initVars, signals>>

\* Mutant: run returns without reg.Wait.
ReturnsAtOnce ==
    /\ main = "waiting"
    /\ main' = "exited"
    /\ UNCHANGED <<registryVars, disk, cloneVars, initVars, signals>>

\* reg.Wait returns, run returns and the process exits.
WaitReturns ==
    /\ main = "waiting"
    /\ InFlight = {}
    /\ main' = "exited"
    /\ UNCHANGED <<registryVars, disk, cloneVars, initVars, signals>>

----------------------------------------------------------------------------

CloneRequest(h) ==
    \/ \E p \in Targets : CloneLstat(h, p)
    \/ \E j \in Jobs : CloneStarts(h, j)
    \/ CloneBusy(h)

GitClone(j) ==
    \/ CloneStat(j) \/ CloneMkdir(j) \/ CloneGivesUp(j) \/ CloneLstatAgain(j)
    \/ GitBegins(j) \/ GitRefuses(j) \/ GitSucceeds(j) \/ GitFails(j) \/ GitDies(j)
    \/ PipeCloses(j) \/ CloneCleanup(j)

CloneJob(j) ==
    \/ CloneEvicts(j) \/ CloneLaunches(j)
    \/ GitClone(j) \/ CloneReturns(j) \/ JobExits(j)

\* What a claimed InitRepo does.
InitStep(h) ==
    \/ InitLstat(h) \/ InitStat(h) \/ InitMkdir(h)
    \/ InitGivesUp(h) \/ InitSucceeds(h) \/ InitFails(h)

InitRequest(h) == InitStep(h) \/ \E p \in Targets : InitBegins(h, p)

Shutdown == ShutdownBegins \/ ShutdownReturns \/ WaitReturns

Main == Shutdown \/ ListenerFails

Ended == main \in {"exited", "aborted"}

\* Nothing of the process moves once it has ended.
Next ==
    /\ ~Ended
    /\ \/ \E h \in CloneHandlers : CloneRequest(h)
       \/ \E j \in Jobs : CloneJob(j)
       \/ \E h \in InitHandlers : InitRequest(h)
       \/ \E s \in signals : IndexTakes(s)
       \/ RegistryRuns
       \/ Main

Spec == Init /\ [][Next]_vars

\* A job's goroutine that is not waiting for git is scheduled again, and so is
\* the Start call that launches it; git dies at the latest when the context
\* kills it; main keeps going.  Nothing is assumed of other requests, of
\* clocks, of a git that is not killed, or of what git has started: only git
\* itself is killed.
Running(A) == ~Ended /\ A
Unhurried(j) ==
    /\ gpc[j] # "pipe"
    /\ gpc[j] # "git" \/ cancelled

Fairness ==
    /\ \A j \in Jobs : WF_vars(Running(Unhurried(j) /\ CloneJob(j)))
    /\ WF_vars(Running(Shutdown))

FairSpec == Spec /\ Fairness

----------------------------------------------------------------------------

\* Who writes at p right now, or is about to: git children, and the goroutines
\* past their last look at p.
ClonesInto(p) == {j \in Jobs : target[j] = p /\ gpc[j] \in {"exec", "git", "pipe", "cleanup"}}
InitsOf(p) == {h \in InitHandlers : idest[h] = p /\ ipc[h] \in {"stat", "mkdir", "git"}}

\* Two clones never work on one directory at a time, nor do two inits: the
\* registry's busy check and Service.initing are there for this.  (Nothing
\* keeps a clone and an init apart.)
OneWriterPerDirectory ==
    \A p \in Targets : Cardinality(ClonesInto(p)) <= 1 /\ Cardinality(InitsOf(p)) <= 1

\* A partial clone is one that git is writing or that its own goroutine
\* removes next (comment of git.Clone: a retry is not blocked by wreckage
\* from the failed attempt).
NoWreckage ==
    \A p \in Targets : disk[p] = "partial" =>
        \E j \in Jobs :
            /\ target[j] = p
            /\ phase[j] = "working"
            /\ \/ gpc[j] = "git"
               \/ gpc[j] \in {"pipe", "cleanup"} /\ made[j]

\* A shutdown does not exit on a half-written clone (comment of
\* Registry.Wait), although a job is counted only some time after it has been
\* registered and shutdown may give up on its handler.
CleanExit ==
    main = "exited" => \A p \in Targets : disk[p] # "partial"

\* The checkouts only grow.
Store == INSTANCE CheckoutStore WITH checkouts <- Present
NothingIsDeleted == Store!Spec

\* A checkout is settled once no clone that believes it created p, or a
\* directory above p, is still in flight.
Settled(p) ==
    /\ p \in Present
    /\ \A j \in Jobs : target[j] \in Above(p) =>
         ~ \/ gpc[j] = "git"
           \/ gpc[j] \in {"exec", "cleanup"} /\ made[j]
           \/ gpc[j] = "pipe" /\ made[j] /\ result[j] = "failed"

\* Whatever clones and inits follow, at, above or below it, a settled
\* checkout stays, and stays settled.
SettledStays == [][\A p \in Targets : Settled(p) => Settled(p)']_vars

\* What is there has everything above it.
Rooted ==
    \A p \in Targets : disk[p] # "absent" => \A q \in Above(p) : disk[q] # "absent"

\* Service.initing holds the destinations of the InitRepo calls that are under
\* way, one for each, and nothing else: a claim that outlived its call would
\* make its destination busy for ever.
Initing == {h \in InitHandlers : ipc[h] # "idle"}
ClaimsHeld ==
    /\ initing = {idest[h] : h \in Initing}
    /\ \A h, i \in Initing : idest[h] = idest[i] => h = i

\* The inductive invariant behind SettledStays and OneWriterPerDirectory:
\* git.Clone runs only while its goroutine is at work, what is at work has a
\* destination, and inits have one each.
ActionsInv ==
    /\ TypeOK
    /\ RegistryInv
    /\ Rooted
    /\ \A j \in Jobs : gpc[j] # "none" => phase[j] = "working"
    /\ \A j \in Jobs : phase[j] # "idle" => target[j] \in Targets
    /\ \A h \in InitHandlers : ipc[h] # "idle" => idest[h] \in Targets
    /\ ClaimsHeld

\* What is true between the steps of git.Clone when nothing else writes to its
\* destination: the inductive invariant behind NoWreckage and NothingIsDeleted
\* where destinations do not nest and nothing is initialised.
CloneOwnsDestination ==
    /\ \A j \in Jobs :
         /\ gpc[j] \in {"mkdir", "lstat", "exec"} => disk[target[j]] = "absent"
         /\ gpc[j] = "git" => disk[target[j]] = "partial"
         /\ gpc[j] = "pipe" =>
              disk[target[j]] \in IF result[j] = "done" THEN {"repo"} ELSE {"absent", "partial"}
         /\ gpc[j] = "cleanup" => disk[target[j]] \in {"absent", "partial"}
         /\ gpc[j] \in {"exec", "git", "pipe", "cleanup"} => made[j]
         /\ gpc[j] \in {"stat", "mkdir", "lstat", "exec", "git"} => result[j] = "failed"
    /\ NoWreckage

\* Nothing that git started holds its error output for ever.
PipesClose == \A j \in Jobs : []<>(gpc[j] # "pipe")

\* A signal ends the process, whatever requests and clones are under way, as
\* long as what git started ends when git does.  (Neither a signal nor the end
\* is ever taken back, so this is cancelled ~> Ended.)
ShutdownEnds == PipesClose => []<>(cancelled => Ended)
=============================================================================
