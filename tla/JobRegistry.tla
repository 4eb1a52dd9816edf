---------------------------- MODULE JobRegistry ----------------------------
(***************************************************************************)
(* The job registry of internal/jobs/jobs.go: it starts at most one        *)
(* running job per target, runs each in a goroutine of its own, remembers  *)
(* finished jobs for a while, and lets shutdown wait for the rest.         *)
(*                                                                         *)
(* A job of the model is a slot for one entry and its goroutine.  A slot   *)
(* is used again once the registry has forgotten its record and its        *)
(* goroutine has returned, so a fixed set of slots stands for any number   *)
(* of random IDs.  `Started' timestamps are kept as the order of insertion *)
(* (they are read under the registry lock); of `Finished' what matters is  *)
(* whether it lies more than the TTL in the past.                          *)
(*                                                                         *)
(* The registry lock covers the map, not the entries: evictLocked reads    *)
(* them one by one, each under its own lock, while goroutines store their  *)
(* outcomes.  The other two scans under the lock are single steps: the     *)
(* busy scan of Start either meets a running job of the target, and then   *)
(* changes nothing, or has read them all as finished, which they stay; and *)
(* a job that finishes while Run expires records is younger than Run's     *)
(* cutoff.                                                                 *)
(***************************************************************************)
EXTENDS Naturals, FiniteSets

CONSTANTS
    Jobs,       \* slots for entries
    Targets,    \* the targets (root-relative paths) jobs may be started for
    NoTarget,   \* the target of a slot that never held an entry
    MaxJobs     \* Options.MaxJobs: the cap on retained records

ASSUME JobsFinite == IsFiniteSet(Jobs)
ASSUME MaxJobsPositive == MaxJobs \in Nat \ {0}
ASSUME NoTargetIsNone == NoTarget \notin Targets

VARIABLES
    retained,   \* the IDs in the registry's map
    state,      \* Job.State of a slot's latest entry ("none" before the first)
    target,     \* Job.Target of that entry
    earlier,    \* the retained records inserted before it
    aged,       \* the finished records whose TTL has passed
    phase,      \* where the entry's goroutine is
    cancelled,  \* whether the base context is done
    sweeping,   \* whether Registry.Run is still in its loop
    unread,     \* the entries evictLocked has yet to read
    found,      \* the ones it has read as finished
    late        \* history: the jobs that finished while it was reading

scanVars == <<unread, found, late>>
registryVars ==
    <<retained, state, target, earlier, aged, phase, cancelled, sweeping, scanVars>>

Outcomes == {"done", "failed"}

\* "evicting": inserted in the map, Start holds the lock in evictLocked
\* "registered": the lock is free again, wg.Add not yet called
\* "working": inside runJob; "reporting": finished, inside onDone
Phases == {"idle", "evicting", "registered", "working", "reporting"}
Unfinished == {"evicting", "registered", "working"}

RegistryTypeOK ==
    /\ retained \in SUBSET Jobs
    /\ state \in [Jobs -> {"none", "running"} \cup Outcomes]
    /\ target \in [Jobs -> Targets \cup {NoTarget}]
    /\ earlier \in [Jobs -> SUBSET Jobs]
    /\ aged \in SUBSET Jobs
    /\ phase \in [Jobs -> Phases]
    /\ cancelled \in BOOLEAN
    /\ sweeping \in BOOLEAN
    /\ unread \in SUBSET Jobs
    /\ found \in SUBSET Jobs
    /\ late \in SUBSET Jobs

----------------------------------------------------------------------------

Finished == {j \in retained : state[j] # "running"}

\* What Start's scan and Active look at: only records still in the map.
Busy(t) == \E j \in retained : state[j] = "running" /\ target[j] = t

\* Jobs the WaitGroup counts.
InFlight == {j \in Jobs : phase[j] \in {"working", "reporting"}}

\* The Start calls that hold the registry lock between two steps.
Evicting == {j \in Jobs : phase[j] = "evicting"}

\* Mutant: evictLocked stops one record early (< for <=).
ExcessShort ==
    LET size == Cardinality(retained)
    IN  IF size > MaxJobs + 1 THEN size - MaxJobs - 1 ELSE 0

\* How many records evictLocked has to drop.
Excess ==
    LET size == Cardinality(retained)
    IN  IF size > MaxJobs THEN size - MaxJobs ELSE 0

\* Mutant: evictLocked takes running records too.
EvictionsOfAny ==
    {V \in SUBSET retained : Cardinality(V) = Excess}

\* Mutant: evictLocked sorts the other way round.
EvictionsOfNewest ==
    {V \in SUBSET found :
        /\ Cardinality(V) <= Excess
        /\ Cardinality(V) = Excess \/ V = found
        /\ \A v \in V, k \in found : v \in earlier[k] => k \in V}

\* The sets evictLocked may drop once it has read every entry: as many as the
\* excess asks for, or all it found finished if there are fewer, the oldest
\* first.
Evictions ==
    {V \in SUBSET found :
        /\ Cardinality(V) <= Excess
        /\ Cardinality(V) = Excess \/ V = found
        /\ \A v \in V : found \cap earlier[v] \subseteq V}

----------------------------------------------------------------------------

RegistryInit ==
    /\ retained = {}
    /\ state = [j \in Jobs |-> "none"]
    /\ target = [j \in Jobs |-> NoTarget]
    /\ earlier = [j \in Jobs |-> {}]
    /\ aged = {}
    /\ phase = [j \in Jobs |-> "idle"]
    /\ cancelled = FALSE
    /\ sweeping = TRUE
    /\ unread = {}
    /\ found = {}
    /\ late = {}

\* The entry goes into the map, and evictLocked returns at once or begins to
\* read.
Inserts(j, t) ==
    /\ retained' = retained \cup {j}
    /\ state' = [state EXCEPT ![j] = "running"]
    /\ target' = [target EXCEPT ![j] = t]
    /\ earlier' = [earlier EXCEPT ![j] = retained]
    /\ IF Cardinality(retained \cup {j}) <= MaxJobs
       THEN /\ phase' = [phase EXCEPT ![j] = "registered"]
            /\ UNCHANGED scanVars
       ELSE /\ phase' = [phase EXCEPT ![j] = "evicting"]
            /\ unread' = retained \cup {j}
            /\ UNCHANGED <<found, late>>
    /\ UNCHANGED <<aged, cancelled, sweeping>>

\* Mutant: Start does not look for a running job.
StartUnchecked(j, t) ==
    /\ Evicting = {}
    /\ j \notin retained
    /\ phase[j] = "idle"
    /\ Inserts(j, t)

\* Registry.Start takes the lock: no running job has the target.
Start(j, t) ==
    /\ Evicting = {}
    /\ j \notin retained
    /\ phase[j] = "idle"
    /\ ~Busy(t)
    /\ Inserts(j, t)

\* evictLocked reads an entry, under that entry's lock.
EvictReads(j) ==
    /\ j \in unread
    /\ unread' = unread \ {j}
    /\ found' = IF state[j] = "running" THEN found ELSE found \cup {j}
    /\ UNCHANGED <<retained, state, target, earlier, aged, phase, cancelled, sweeping, late>>

\* It has read them all, drops what it has to, and Start unlocks.
Evict(j) ==
    /\ phase[j] = "evicting"
    /\ unread = {}
    /\ \E V \in Evictions :
         /\ retained' = retained \ V
         /\ earlier' = [k \in Jobs |-> IF k \in V THEN {} ELSE earlier[k] \ V]
         /\ aged' = aged \ V
    /\ phase' = [phase EXCEPT ![j] = "registered"]
    /\ found' = {}
    /\ late' = {}
    /\ UNCHANGED <<state, target, cancelled, sweeping, unread>>

\* The rest of Start: wg.Add and the go statement, after the unlock.
Launch(j) ==
    /\ phase[j] = "registered"
    /\ phase' = [phase EXCEPT ![j] = "working"]
    /\ UNCHANGED <<retained, state, target, earlier, aged, cancelled, sweeping, scanVars>>

\* runJob has returned (an error and a recovered panic are both "failed") and
\* the goroutine stores the outcome under the entry's lock only: evictLocked may
\* be half way.
Finish(j, outcome) ==
    /\ phase[j] = "working"
    /\ state' = [state EXCEPT ![j] = outcome]
    /\ phase' = [phase EXCEPT ![j] = "reporting"]
    /\ late' = IF Evicting = {} THEN late ELSE late \cup {j}
    /\ UNCHANGED <<retained, target, earlier, aged, cancelled, sweeping, unread, found>>

\* onDone has returned; the deferred wg.Done runs.
Exit(j) ==
    /\ phase[j] = "reporting"
    /\ phase' = [phase EXCEPT ![j] = "idle"]
    /\ UNCHANGED <<retained, state, target, earlier, aged, cancelled, sweeping, scanVars>>

\* A finished job's TTL passes.
Age(j) ==
    /\ j \in Finished \ aged
    /\ aged' = aged \cup {j}
    /\ UNCHANGED <<retained, state, target, earlier, phase, cancelled, sweeping, scanVars>>

\* Mutant: Run forgets the jobs that are done, and keeps those that failed.
ExpireDone ==
    LET done == {j \in aged : state[j] = "done"}
    IN  /\ sweeping
        /\ Evicting = {}
        /\ done # {}
        /\ retained' = retained \ done
        /\ earlier' = [j \in Jobs |-> IF j \in done THEN {} ELSE earlier[j] \ done]
        /\ aged' = aged \ done
        /\ UNCHANGED <<state, target, phase, cancelled, sweeping, scanVars>>

\* One pass of Registry.Run over the map, under r.mu.
Expire ==
    /\ sweeping
    /\ Evicting = {}
    /\ aged # {}
    /\ retained' = retained \ aged
    /\ earlier' = [j \in Jobs |-> IF j \in aged THEN {} ELSE earlier[j] \ aged]
    /\ aged' = {}
    /\ UNCHANGED <<state, target, phase, cancelled, sweeping, scanVars>>

\* A signal cancels the base context (cmd/repoman/main.go).
Cancel ==
    /\ ~cancelled
    /\ cancelled' = TRUE
    /\ UNCHANGED <<retained, state, target, earlier, aged, phase, sweeping, scanVars>>

\* Registry.Run notices; until then a tick may still win its select.
StopSweeping ==
    /\ cancelled /\ sweeping
    /\ sweeping' = FALSE
    /\ UNCHANGED <<retained, state, target, earlier, aged, phase, cancelled, scanVars>>

JobStep(j) ==
    \/ \E t \in Targets : Start(j, t)
    \/ EvictReads(j)
    \/ Evict(j)
    \/ Launch(j)
    \/ \E outcome \in Outcomes : Finish(j, outcome)
    \/ Exit(j)
    \/ Age(j)

RegistryNext ==
    \/ \E j \in Jobs : JobStep(j)
    \/ Expire
    \/ Cancel
    \/ StopSweeping

RegistrySpec == RegistryInit /\ [][RegistryNext]_registryVars

\* Clocks advance, evictLocked goes on, and the expiry loop's ticker keeps
\* firing: a sync.RWMutex lets a waiting writer in, however many Start calls
\* want the lock too, hence the strong fairness.  Nothing is said of how long
\* a job takes, nor that any request arrives.
RegistryFairness ==
    /\ \A j \in Jobs : WF_registryVars(Age(j)) /\ WF_registryVars(EvictReads(j) \/ Evict(j))
    /\ SF_registryVars(Expire)

RegistryFairSpec == RegistrySpec /\ RegistryFairness

----------------------------------------------------------------------------

\* A job at work is a running job in the map: the record is the only handle
\* the UI has on it (comment of evictLocked), and the busy scan sees nothing
\* else.
RunningRetained ==
    \A j \in Jobs :
        phase[j] \in Unfinished => j \in retained /\ state[j] = "running"

\* At most one goroutine is at work on a target, whatever was evicted or has
\* expired since each was started.
OneWorkerPerTarget ==
    \A i, j \in Jobs :
        /\ phase[i] \in Unfinished
        /\ phase[j] \in Unfinished
        /\ target[i] = target[j]
        => i = j

\* While evictLocked reads, one Start holds the lock, and a finished record
\* is one it has read as finished, one it has yet to read, or one that
\* finished meanwhile.  Nothing is left over from a scan once it has ended.
ScanMissesLateOnly ==
    /\ \A i, j \in Evicting : i = j
    /\ unread \subseteq retained
    /\ found \subseteq Finished
    /\ Evicting # {} => Finished \subseteq found \cup unread \cup late
    /\ Evicting = {} => unread = {} /\ found = {} /\ late = {}

\* The inductive invariant: a record says running exactly while its goroutine
\* has not stored an outcome, the records inserted before another are
\* records, and a scan misses late finishers only.
RegistryInv ==
    /\ RegistryTypeOK
    /\ RunningRetained
    /\ OneWorkerPerTarget
    /\ \A j \in Jobs : state[j] = "running" => phase[j] \in Unfinished
    /\ aged \subseteq Finished
    /\ \A j \in retained : state[j] # "none"
    /\ \A j \in Jobs : earlier[j] \subseteq retained
    /\ ScanMissesLateOnly

\* A finished job stays readable for the TTL, unless the registry is over its
\* budget and it is the oldest finished record: a finished record that was
\* started before it survives the step that drops it only if it finished
\* while evictLocked was reading the entries.
ForgottenOnlyWhenDue ==
    [][\A j \in retained \ retained' :
         /\ state[j] \in Outcomes
         /\ \/ j \in aged
            \/ /\ Cardinality(retained) > MaxJobs
               /\ \A k \in retained' \cap earlier[j] :
                    state[k] \in Outcomes => k \in late
      ]_registryVars

\* Start leaves the map over its budget only with records of running jobs and
\* of jobs that finished while it was looking for something to drop.
BudgetKept ==
    [][\A j \in Jobs : phase[j] # "registered" /\ phase'[j] = "registered" =>
         \/ Cardinality(retained') <= MaxJobs
         \/ \A k \in retained' : state'[k] = "running" \/ k \in late
      ]_registryVars

\* Until shutdown, a finished job is eventually forgotten.
FinishedIsForgotten ==
    \A j \in Jobs :
        (j \in retained /\ state[j] \in Outcomes)
            ~> (j \notin retained \/ cancelled)
=============================================================================
