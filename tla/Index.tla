------------------------------- MODULE Index -------------------------------
(***************************************************************************)
(* The index of internal/index/index.go: one goroutine (Run) that lists    *)
(* owners, walks and inspects the tree, fetches, and publishes snapshots;  *)
(* the depth-1 channels it is woken through; and the requests and jobs     *)
(* that change a checkout and wake it.                                     *)
(*                                                                         *)
(* A checkout is known by its version, which grows when something changes  *)
(* it; 0 is `not there'.  What git and gh do is external.                  *)
(***************************************************************************)
EXTENDS Naturals, FiniteSets

CONSTANTS
    Checkouts,
    Remotes,            \* the primary checkouts that have an origin
    Owners,             \* config Owners, each with a lister
    Actors,             \* handlers and jobs that change checkouts
    FetchConcurrency,
    MaxVersion,         \* bound: versions of a checkout
    MaxWalkErrors       \* bound: walks that fail as a whole

ASSUME IndexConfig ==
    /\ Remotes \subseteq Checkouts
    /\ FetchConcurrency \in Nat \ {0}
    /\ MaxVersion \in Nat \ {0}
    /\ MaxWalkErrors \in Nat

VARIABLES
    world,      \* the version of each checkout on disk
    actor,      \* what each handler or job is doing
    announced,  \* history: the last version whose change was signalled
    tokens,     \* the channels that hold one
    pc,         \* where Run is
    toList,     \* owners refreshGhosts has not listed yet
    listing,    \* per owner: Index.ghosts is missing, current or older
    ghostWarn,  \* owners with an entry in Index.ghostWarn
    unvisited,  \* what scan.Walk has not reached
    toInspect,  \* checkouts found and not yet inspected
    seen,       \* what the inspections found, 0 for a checkout without one
    failed,     \* checkouts this scan has a warning for
    toFetch,    \* fetchAll's targets that wait for the semaphore
    fetching,   \* those that hold it
    snap,       \* the published Snapshot
    walkErrors,
    cancelled

listVars == <<toList, listing, ghostWarn>>
scanVars == <<unvisited, toInspect, seen, failed>>
fetchVars == <<toFetch, fetching>>
actorVars == <<actor, announced>>
vars == <<world, actorVars, tokens, pc, listVars, scanVars, fetchVars, snap,
          walkErrors, cancelled>>

Versions == 0 .. MaxVersion
Channels == {"scanNow", "fetchNow", "ghostsNow"}
Quiet == [step |-> "idle"]

\* "fetch" is FetchRepo or PullRepo, "init" InitRepo, "clone" a clone job
Doing == [step : {"fetch", "init", "clone"}, on : Checkouts]
            \cup [step : {"signal"}, on : Checkouts, channel : Channels]
            \cup {Quiet}

TypeOK ==
    /\ world \in [Checkouts -> Versions]
    /\ actor \in [Actors -> Doing]
    /\ announced \in [Checkouts -> Versions]
    /\ tokens \in SUBSET Channels
    /\ pc \in {"listing", "walking", "inspecting", "fetching", "waiting", "stopped"}
    /\ toList \in SUBSET Owners
    /\ listing \in [Owners -> {"none", "current", "old"}]
    /\ ghostWarn \in SUBSET Owners
    /\ unvisited \in SUBSET Checkouts
    /\ toInspect \in SUBSET Checkouts
    /\ seen \in [Checkouts -> Versions]
    /\ failed \in SUBSET Checkouts
    /\ toFetch \in SUBSET Remotes
    /\ fetching \in SUBSET Remotes
    /\ snap \in [shown : [Checkouts -> Versions], failed : SUBSET Checkouts,
                 listing : [Owners -> {"none", "current", "old"}],
                 warned : SUBSET Owners]
    /\ walkErrors \in 0 .. MaxWalkErrors
    /\ cancelled \in BOOLEAN

Nothing == [c \in Checkouts |-> 0]
Unlisted == [o \in Owners |-> "none"]

\* New, and Run up to its first listing.
Init ==
    /\ world \in [Checkouts -> {0, 1}]
    /\ actor = [a \in Actors |-> Quiet]
    /\ announced = Nothing
    /\ tokens = {}
    /\ pc = "listing"
    /\ toList = Owners
    /\ listing = Unlisted
    /\ ghostWarn = {}
    /\ unvisited = {}
    /\ toInspect = {}
    /\ seen = Nothing
    /\ failed = {}
    /\ toFetch = {}
    /\ fetching = {}
    /\ snap = [shown |-> Nothing, failed |-> {}, listing |-> Unlisted, warned |-> {}]
    /\ walkErrors = 0
    /\ cancelled = FALSE

----------------------------------------------------------------------------
(* Handlers and jobs. *)

\* Mutant: channels without a buffer.
SignalUnbuffered(channel) ==
    tokens' = IF pc = "waiting" THEN tokens \cup {channel} ELSE tokens

\* ScanNow, FetchNow and RefreshGhostsNow: a token that is already there
\* stands for this signal as well.
Signal(channel) == tokens' = tokens \cup {channel}

\* A request is served, or a job started, on a checkout that is there
\* (FetchRepo and PullRepo), or on a destination that is not.
ActorBegins(a, doing) ==
    /\ actor[a] = Quiet
    /\ doing.step = "fetch" <=> world[doing.on] # 0
    /\ actor' = [actor EXCEPT ![a] = doing]
    /\ UNCHANGED <<world, announced, tokens, pc, listVars, scanVars, fetchVars, snap,
                   walkErrors, cancelled>>

Changes(c) ==
    /\ world[c] < MaxVersion
    /\ world' = [world EXCEPT ![c] = @ + 1]

\* git has returned.  A failed fetch or clone is signalled like any other
\* (FetchRepo, PullRepo, the registry's OnDone); a failed init is not.
ActorEnds(a) ==
    /\ actor[a].step \in {"fetch", "init", "clone"}
    /\ LET c == actor[a].on
           tells(channel) == actor' = [actor EXCEPT ![a] =
                               [step |-> "signal", on |-> c, channel |-> channel]]
       IN  \/ Changes(c) /\ tells(IF actor[a].step = "clone" THEN "ghostsNow" ELSE "scanNow")
           \/ UNCHANGED world /\ actor[a].step = "clone" /\ tells("ghostsNow")
           \/ UNCHANGED world /\ actor[a].step = "fetch" /\ tells("scanNow")
           \/ UNCHANGED world /\ actor[a].step = "init" /\ actor' = [actor EXCEPT ![a] = Quiet]
    /\ UNCHANGED <<announced, tokens, pc, listVars, scanVars, fetchVars, snap,
                   walkErrors, cancelled>>

ActorSignals(a) ==
    /\ actor[a].step = "signal"
    /\ Signal(actor[a].channel)
    /\ announced' = [announced EXCEPT ![actor[a].on] = world[actor[a].on]]
    /\ actor' = [actor EXCEPT ![a] = Quiet]
    /\ UNCHANGED <<world, pc, listVars, scanVars, fetchVars, snap, walkErrors, cancelled>>

\* POST /refresh, with and without fetch=1.
Refresh ==
    /\ Signal("scanNow") \/ Signal("fetchNow")
    /\ UNCHANGED <<world, actorVars, pc, listVars, scanVars, fetchVars, snap,
                   walkErrors, cancelled>>

Cancel ==
    /\ ~cancelled
    /\ cancelled' = TRUE
    /\ UNCHANGED <<world, actorVars, tokens, pc, listVars, scanVars, fetchVars, snap,
                   walkErrors>>

----------------------------------------------------------------------------
(* scan. *)

BeginsScan ==
    /\ pc' = "walking"
    /\ unvisited' = Checkouts
    /\ toInspect' = {}
    /\ seen' = Nothing
    /\ failed' = {}

\* scan returns; what it gathered goes with it.
EndsScan ==
    /\ pc' = "waiting"
    /\ unvisited' = {}
    /\ toInspect' = {}
    /\ seen' = Nothing
    /\ failed' = {}

\* Mutant: a directory that cannot be read is skipped.
WalkSkips(c) ==
    /\ pc = "walking"
    /\ ~cancelled
    /\ c \in unvisited
    /\ unvisited' = unvisited \ {c}
    /\ toInspect' \in {toInspect, toInspect \cup (IF world[c] = 0 THEN {} ELSE {c})}
    /\ pc' = IF unvisited' = {} THEN "inspecting" ELSE pc
    /\ UNCHANGED <<world, actorVars, tokens, listVars, seen, failed, fetchVars, snap,
                   walkErrors, cancelled>>

\* scan.Walk reaches a directory; one it cannot read gets a warning.
WalkVisits(c) ==
    /\ pc = "walking"
    /\ ~cancelled
    /\ c \in unvisited
    /\ unvisited' = unvisited \ {c}
    /\ \/ toInspect' = toInspect \cup (IF world[c] = 0 THEN {} ELSE {c}) /\ UNCHANGED failed
       \/ world[c] # 0 /\ failed' = failed \cup {c} /\ UNCHANGED toInspect
    /\ pc' = IF unvisited' = {} THEN "inspecting" ELSE pc
    /\ UNCHANGED <<world, actorVars, tokens, listVars, seen, fetchVars, snap,
                   walkErrors, cancelled>>

\* Mutant: Run returns when a walk fails.
WalkEndsRun ==
    /\ pc = "walking"
    /\ \/ cancelled /\ UNCHANGED walkErrors
       \/ /\ walkErrors < MaxWalkErrors
          /\ unvisited = Checkouts
          /\ walkErrors' = walkErrors + 1
    /\ pc' = "stopped"
    /\ UNCHANGED <<world, actorVars, tokens, listVars, scanVars, fetchVars, snap, cancelled>>

\* scan.Walk fails, on the root itself or on the context: no snapshot.
WalkFails ==
    /\ pc = "walking"
    /\ \/ cancelled /\ UNCHANGED walkErrors
       \/ /\ walkErrors < MaxWalkErrors
          /\ unvisited = Checkouts
          /\ walkErrors' = walkErrors + 1
    /\ EndsScan
    /\ UNCHANGED <<world, actorVars, tokens, listVars, fetchVars, snap, cancelled>>

\* git.Inspect returns what it found, or an error that becomes a warning.
Inspects(c) ==
    /\ pc = "inspecting"
    /\ c \in toInspect
    /\ toInspect' = toInspect \ {c}
    /\ \/ ~cancelled /\ seen' = [seen EXCEPT ![c] = world[c]] /\ UNCHANGED failed
       \/ failed' = failed \cup {c} /\ UNCHANGED seen
    /\ UNCHANGED <<world, actorVars, tokens, pc, listVars, unvisited, fetchVars, snap,
                   walkErrors, cancelled>>

\* After wg.Wait: a scan that was cancelled publishes nothing, and any other
\* publishes with the listings as they are now.
Publishes ==
    /\ pc = "inspecting"
    /\ toInspect = {}
    /\ snap' = IF cancelled THEN snap
               ELSE [shown |-> seen, failed |-> failed, listing |-> listing, warned |-> ghostWarn]
    /\ EndsScan
    /\ UNCHANGED <<world, actorVars, tokens, listVars, fetchVars, walkErrors, cancelled>>

----------------------------------------------------------------------------
(* refreshGhosts and fetchAll. *)

\* Mutant: a failed listing replaces the last one.
ListsAnything(o) ==
    /\ pc = "listing"
    /\ o \in toList
    /\ toList' = toList \ {o}
    /\ \/ /\ ~cancelled
          /\ listing' = [listing EXCEPT ![o] = "current"]
          /\ ghostWarn' = ghostWarn \ {o}
       \/ /\ listing' = [listing EXCEPT ![o] = "none"]
          /\ ghostWarn' = ghostWarn \cup {o}
    /\ UNCHANGED <<world, actorVars, tokens, pc, scanVars, fetchVars, snap,
                   walkErrors, cancelled>>

\* ListOwner answers: with a list, or with an error that leaves the last list
\* in place.
Lists(o) ==
    /\ pc = "listing"
    /\ o \in toList
    /\ toList' = toList \ {o}
    /\ \/ /\ ~cancelled
          /\ listing' = [listing EXCEPT ![o] = "current"]
          /\ ghostWarn' = ghostWarn \ {o}
       \/ /\ listing' = [listing EXCEPT ![o] = IF @ = "none" THEN "none" ELSE "old"]
          /\ ghostWarn' = ghostWarn \cup {o}
    /\ UNCHANGED <<world, actorVars, tokens, pc, scanVars, fetchVars, snap,
                   walkErrors, cancelled>>

\* One of fetchAll's goroutines gets the semaphore,
FetchBegins(c) ==
    /\ pc = "fetching"
    /\ c \in toFetch
    /\ Cardinality(fetching) < FetchConcurrency
    /\ toFetch' = toFetch \ {c}
    /\ fetching' = fetching \cup {c}
    /\ UNCHANGED <<world, actorVars, tokens, pc, listVars, scanVars, snap,
                   walkErrors, cancelled>>

\* or gives up with the context.
FetchSkips(c) ==
    /\ pc = "fetching"
    /\ cancelled
    /\ c \in toFetch
    /\ toFetch' = toFetch \ {c}
    /\ UNCHANGED <<world, actorVars, tokens, pc, listVars, scanVars, fetching, snap,
                   walkErrors, cancelled>>

\* fetchOne returns, at FetchTimeout at the latest.
FetchEnds(c) ==
    /\ pc = "fetching"
    /\ c \in fetching
    /\ fetching' = fetching \ {c}
    /\ Changes(c) \/ UNCHANGED world
    /\ UNCHANGED <<actorVars, tokens, pc, listVars, scanVars, toFetch, snap,
                   walkErrors, cancelled>>

\* Mutant: fetchAll does not wait for its goroutines.
RoundEndsEarly ==
    /\ \/ pc = "listing" /\ toList = {}
       \/ pc = "fetching" /\ toFetch = {}
    /\ BeginsScan
    /\ UNCHANGED <<world, actorVars, tokens, listVars, fetchVars, snap, walkErrors, cancelled>>

\* Either is followed by a scan.
RoundEnds ==
    /\ \/ pc = "listing" /\ toList = {}
       \/ pc = "fetching" /\ toFetch \cup fetching = {}
    /\ BeginsScan
    /\ UNCHANGED <<world, actorVars, tokens, listVars, fetchVars, snap, walkErrors, cancelled>>

----------------------------------------------------------------------------
(* Run's select.  A ticker or a token may be ready; Go picks any that is. *)

\* Mutant: no tickers.
ReadyOnDemand(channel) ==
    /\ pc = "waiting"
    /\ channel \in tokens
    /\ tokens' = tokens \ {channel}
    /\ UNCHANGED <<world, actorVars, snap, walkErrors, cancelled>>

Ready(channel) ==
    /\ pc = "waiting"
    /\ tokens' \in {tokens, tokens \ {channel}}     \* the ticker's arm, the channel's
    /\ UNCHANGED <<world, actorVars, snap, walkErrors, cancelled>>

SelectScan == Ready("scanNow") /\ BeginsScan /\ UNCHANGED <<listVars, fetchVars>>

SelectGhosts ==
    /\ Ready("ghostsNow")
    /\ pc' = "listing"
    /\ toList' = Owners
    /\ UNCHANGED <<listing, ghostWarn, scanVars, fetchVars>>

\* fetchAll takes its targets from the published snapshot.
SelectFetch ==
    /\ Ready("fetchNow")
    /\ pc' = "fetching"
    /\ toFetch' = {c \in Remotes : snap.shown[c] # 0}
    /\ fetching' = {}
    /\ UNCHANGED <<listVars, scanVars>>

SelectDone ==
    /\ pc = "waiting"
    /\ cancelled
    /\ pc' = "stopped"
    /\ UNCHANGED <<world, actorVars, tokens, listVars, scanVars, fetchVars, snap,
                   walkErrors, cancelled>>

----------------------------------------------------------------------------

Act(a) == (\E doing \in Doing \ {Quiet} : doing.step # "signal" /\ ActorBegins(a, doing))
              \/ ActorEnds(a) \/ ActorSignals(a)

Scan ==
    \/ \E c \in Checkouts : WalkVisits(c) \/ Inspects(c)
    \/ WalkFails \/ Publishes

FetchAll == \E c \in Remotes : FetchBegins(c) \/ FetchSkips(c) \/ FetchEnds(c)

Select == SelectScan \/ SelectGhosts \/ SelectFetch \/ SelectDone

Next ==
    \/ \E a \in Actors : Act(a)
    \/ Refresh
    \/ Cancel
    \/ Scan
    \/ \E o \in Owners : Lists(o)
    \/ FetchAll
    \/ RoundEnds
    \/ Select

Spec == Init /\ [][Next]_vars

\* Run is scheduled and its tickers fire; local git and a fetch (which has a
\* timeout) come back.  Nothing makes gh come back: ListOwner has no timeout.
RunFairness == WF_vars(Scan \/ FetchAll \/ RoundEnds \/ Select)
RunSpec == Spec /\ RunFairness

\* The same, with a gh that answers or fails.
AnsweringSpec == RunSpec /\ WF_vars(\E o \in Owners : Lists(o))

----------------------------------------------------------------------------

\* A fetch round, a listing and a scan never overlap, and leave nothing to the
\* next: Run waits for the goroutines of each (wg.Wait in fetchAll, scan).
StagesAreApart ==
    /\ pc # "listing" => toList = {}
    /\ pc # "fetching" => toFetch \cup fetching = {}
    /\ pc # "walking" => unvisited = {}
    /\ pc \notin {"walking", "inspecting"} => toInspect \cup failed = {}

\* What was signalled, seen or shown was there.
NothingIsMadeUp ==
    \A c \in Checkouts :
        announced[c] <= world[c] /\ seen[c] <= world[c] /\ snap.shown[c] <= world[c]

\* A scan has seen a checkout it is done with, if without a warning, as it was
\* shown before at least, and as it was signalled, or a signal is pending.
ScanKeepsUp ==
    pc \in {"walking", "inspecting"} =>
        \A c \in Checkouts \ (unvisited \cup toInspect \cup failed) :
            /\ seen[c] >= snap.shown[c]
            /\ seen[c] >= announced[c] \/ tokens # {}

\* Run sits in its select, with no signal pending, when all is shown.
RunMayWait ==
    pc = "waiting" /\ tokens = {} /\ walkErrors = 0 /\ ~cancelled =>
        \A c \in Checkouts \ snap.failed : snap.shown[c] >= announced[c]

\* A list that is not current has its warning, in the index and in a snapshot;
\* and the index has a list of every owner that a snapshot has one of.
ListingsAreTold ==
    \A o \in Owners :
        /\ listing[o] = "old" => o \in ghostWarn
        /\ snap.listing[o] = "old" => o \in snap.warned
        /\ snap.listing[o] # "none" => listing[o] # "none"

\* The inductive invariant behind the properties of the index.
IndexInv ==
    /\ TypeOK
    /\ StagesAreApart
    /\ NothingIsMadeUp
    /\ ScanKeepsUp
    /\ RunMayWait
    /\ ListingsAreTold

\* A snapshot that shows c as it is by now is on its way.
OnItsWay(c) ==
    \/ tokens # {}
    \/ pc \in {"listing", "fetching", "stopped"}
    \/ pc = "walking" /\ c \in unvisited
    \/ pc \in {"walking", "inspecting"} /\
         (c \in toInspect \cup failed \/ seen[c] >= announced[c])

\* A change that was signalled is in the snapshot, or a scan that will see it
\* is due, without waiting for the ticker: a signal dropped because one is
\* pending already (comment of scanNow) loses nothing, whatever stage the
\* index was in when it came.  (Unless the walk fails as a whole.)
NoLostWakeup ==
    walkErrors = 0 =>
        \A c \in Checkouts :
            announced[c] > snap.shown[c] =>
                c \in snap.failed \/ cancelled \/ OnItsWay(c)

\* A checkout that is in the snapshot stays in it and never goes back to an
\* older version, unless the new snapshot has a warning for it (comment of
\* Snapshot.Warnings: a partial tree must not look complete).
NothingVanishesSilently ==
    [][\A c \in Checkouts :
         snap'.shown[c] < snap.shown[c] => c \in snap'.failed]_vars

\* What readers of snapshots may rely on: nothing is shown that was not there;
\* nothing is taken back in silence; every owner is named whose listing is from
\* an earlier refresh, and no failed refresh empties what an earlier one listed
\* (comments of Snapshot.Warnings and of Index.ghosts).
Readers == INSTANCE Snapshots
SnapshotsAreHonest == Readers!Spec

\* Every signalled change is shown, until shutdown.
AnnouncedIsShown ==
    \A c \in Checkouts, v \in Versions :
        announced[c] >= v ~> snap.shown[c] >= v \/ c \in snap.failed \/ cancelled

\* The tree is walked again and again (project README: `every 60s').
ScansGoOn == []<>(pc = "walking" \/ cancelled)
=============================================================================
