------------------------- MODULE JobRegistryProofs -------------------------
(***************************************************************************)
(* Theorems about JobRegistry, for any number of slots, any targets and    *)
(* any budget.                                                             *)
(***************************************************************************)
EXTENDS MCJobRegistry, FunctionProofs, FiniteSetTheorems, TLAPS

\* The parts of the inductive invariant that tie a record to its goroutine
\* and a flag to its record.
RunningIsWorking ==
    \A j \in Jobs : state[j] = "running" => phase[j] \in Unfinished
AgedIsFinished == aged \subseteq Finished
RecordsAreUsed == \A j \in retained : state[j] # "none"
EarlierAreRecords == \A j \in Jobs : earlier[j] \subseteq retained

\* The parts of ScanMissesLateOnly.
OneScan == \A i, j \in Evicting : i = j
ReadsRecords == unread \subseteq retained
FindsFinished == found \subseteq Finished
MissesLateOnly == Evicting # {} => Finished \subseteq found \cup unread \cup late
NothingLeftOver == Evicting = {} => unread = {} /\ found = {} /\ late = {}

LEMMA RegistryInvParts ==
    RegistryInv <=> /\ RegistryTypeOK
             /\ RunningRetained
             /\ OneWorkerPerTarget
             /\ RunningIsWorking
             /\ AgedIsFinished
             /\ RecordsAreUsed
             /\ EarlierAreRecords
             /\ OneScan
             /\ ReadsRecords
             /\ FindsFinished
             /\ MissesLateOnly
             /\ NothingLeftOver
BY DEF RegistryInv, RunningIsWorking, AgedIsFinished, RecordsAreUsed, EarlierAreRecords,
       ScanMissesLateOnly, OneScan, ReadsRecords, FindsFinished, MissesLateOnly, NothingLeftOver

\* The registry starts with an empty map and no goroutine.
LEMMA InitEstablishes == RegistryInit => RegistryInv
BY NoTargetIsNone
   DEF RegistryInit, RegistryInv, RegistryTypeOK, Outcomes, Phases, Unfinished,
       RunningRetained, OneWorkerPerTarget, Finished, ScanMissesLateOnly, Evicting

\* Start keeps the invariant: the target is not busy, so no goroutine at work
\* has it, and a scan that begins has everything yet to read.
LEMMA StartPreserves ==
    ASSUME RegistryInv, NEW j \in Jobs, NEW t \in Targets, Start(j, t)
    PROVE  RegistryInv'
<1> USE DEF Start, Inserts, RegistryTypeOK, Phases, Unfinished, scanVars
<1> DEFINE next == IF Cardinality(retained \cup {j}) <= MaxJobs THEN "registered" ELSE "evicting"
<1>1. RegistryTypeOK /\ RunningRetained /\ OneWorkerPerTarget /\ RunningIsWorking
      /\ AgedIsFinished /\ RecordsAreUsed /\ EarlierAreRecords /\ NothingLeftOver
  BY RegistryInvParts
<1>2. /\ phase' = [phase EXCEPT ![j] = next]
      /\ next \in {"registered", "evicting"}
      /\ unread' \in {unread, retained \cup {j}}
      /\ UNCHANGED <<found, late, aged>>
  OBVIOUS
<1>3. RegistryTypeOK'
  BY <1>1, <1>2
<1>4. RunningRetained'
  BY <1>1, <1>2 DEF RunningRetained
<1>5. OneWorkerPerTarget'
  <2>1. \A k \in Jobs : phase[k] \in Unfinished => target[k] # t
    BY <1>1 DEF Busy, RunningRetained
  <2> QED
    BY <1>1, <1>2, <2>1 DEF OneWorkerPerTarget
<1>6. RunningIsWorking'
  BY <1>1, <1>2 DEF RunningIsWorking
<1>7. AgedIsFinished'
  BY <1>1, <1>2 DEF AgedIsFinished, Finished
<1>8. RecordsAreUsed'
  BY <1>1 DEF RecordsAreUsed
<1>9. EarlierAreRecords'
  BY <1>1 DEF EarlierAreRecords
<1>10. unread = {} /\ found = {} /\ late = {}
  BY <1>1 DEF NothingLeftOver
<1>11. OneScan' /\ ReadsRecords' /\ FindsFinished' /\ NothingLeftOver'
  <2>1. Evicting' \subseteq {j}
    BY <1>1, <1>2 DEF Evicting
  <2>2. unread' # {} => Evicting' = {j}
    BY <1>1, <1>10 DEF Evicting
  <2> QED
    BY <1>2, <1>10, <2>1, <2>2 DEF OneScan, ReadsRecords, FindsFinished, NothingLeftOver
<1>12. MissesLateOnly'
  <2>1. Evicting' # {} => unread' = retained'
    BY <1>1 DEF Evicting
  <2> QED
    BY <2>1 DEF MissesLateOnly, Finished
<1> QED
  BY <1>3, <1>4, <1>5, <1>6, <1>7, <1>8, <1>9, <1>11, <1>12
     DEF RegistryInv, RunningIsWorking, AgedIsFinished, RecordsAreUsed, EarlierAreRecords,
         ScanMissesLateOnly, OneScan, ReadsRecords, FindsFinished, MissesLateOnly, NothingLeftOver

\* Reading an entry moves it from those yet to read to those found finished,
\* unless it is running.
LEMMA EvictReadsPreserves ==
    ASSUME RegistryInv, NEW j \in Jobs, EvictReads(j)
    PROVE  RegistryInv'
<1> USE DEF EvictReads, RegistryInv
<1>1. RegistryTypeOK'
  BY DEF RegistryTypeOK
<1>2. RunningRetained' /\ OneWorkerPerTarget'
  BY DEF RunningRetained, OneWorkerPerTarget
<1>3. UNCHANGED <<Finished, Evicting>>
  BY DEF Finished, Evicting
<1>4. ScanMissesLateOnly'
  BY <1>3 DEF ScanMissesLateOnly, Finished
<1> QED
  BY <1>1, <1>2, <1>3, <1>4

\* What is evicted was read as finished, so it is finished still.
LEMMA EvictPreserves ==
    ASSUME RegistryInv, NEW j \in Jobs, Evict(j)
    PROVE  RegistryInv'
<1>1. PICK V \in Evictions :
         /\ retained' = retained \ V
         /\ earlier' = [k \in Jobs |-> IF k \in V THEN {} ELSE earlier[k] \ V]
         /\ aged' = aged \ V
  BY DEF Evict
<1>2. V \subseteq Finished
  BY DEF Evictions, RegistryInv, ScanMissesLateOnly
<1>3. RegistryTypeOK'
  BY <1>1 DEF Evict, RegistryInv, RegistryTypeOK, Phases
<1>4. RunningRetained' /\ OneWorkerPerTarget'
  BY <1>1, <1>2 DEF Evict, RegistryInv, RegistryTypeOK, Unfinished, Phases, Finished, RunningRetained, OneWorkerPerTarget
<1>5. Evicting' = {}
  BY DEF Evict, Evicting, RegistryInv, RegistryTypeOK, ScanMissesLateOnly
<1>6. ScanMissesLateOnly'
  BY <1>5 DEF Evict, ScanMissesLateOnly
<1>7. \A k \in Jobs : state'[k] = "running" => phase'[k] \in Unfinished
  BY DEF Evict, RegistryInv, RegistryTypeOK, Unfinished
<1>8. (aged \subseteq Finished)'
  BY <1>1 DEF Evict, RegistryInv, Finished
<1>9. (\A k \in retained : state[k] # "none")' /\ (\A k \in Jobs : earlier[k] \subseteq retained)'
  BY <1>1 DEF Evict, RegistryInv
<1> QED
  BY <1>3, <1>4, <1>6, <1>7, <1>8, <1>9 DEF RegistryInv

\* A job that finishes while evictLocked reads is a late one.
LEMMA FinishPreserves ==
    ASSUME RegistryInv, NEW j \in Jobs, NEW outcome \in Outcomes, Finish(j, outcome)
    PROVE  RegistryInv'
<1> USE DEF Finish, RegistryInv
<1>1. RegistryTypeOK'
  BY DEF RegistryTypeOK, Outcomes, Phases
<1>2. RunningRetained' /\ OneWorkerPerTarget'
  BY DEF RegistryTypeOK, Outcomes, Phases, Unfinished, RunningRetained, OneWorkerPerTarget
<1>3. Evicting' = Evicting
  BY DEF Evicting, RegistryTypeOK
<1>4. Finished \subseteq Finished' /\ Finished' \subseteq Finished \cup {j}
  BY DEF Finished, RegistryTypeOK, Outcomes
<1>5. ScanMissesLateOnly'
  BY <1>3, <1>4 DEF ScanMissesLateOnly
<1>6. \A k \in Jobs : state'[k] = "running" => phase'[k] \in Unfinished
  BY DEF RegistryTypeOK, Unfinished, Outcomes
<1>7. (\A k \in retained : state[k] # "none")'
  BY DEF RegistryTypeOK, Outcomes
<1> QED
  BY <1>1, <1>2, <1>4, <1>5, <1>6, <1>7

\* A pass of Run happens between scans, and takes finished records.
LEMMA ExpirePreserves ==
    ASSUME RegistryInv, Expire
    PROVE  RegistryInv'
<1> USE DEF Expire, RegistryInv, scanVars
<1>1. RegistryTypeOK'
  BY DEF RegistryTypeOK
<1>2. RunningRetained' /\ OneWorkerPerTarget'
  BY DEF RegistryTypeOK, Finished, RunningRetained, OneWorkerPerTarget
<1>3. Evicting' = {}
  BY DEF Evicting
<1>4. ScanMissesLateOnly'
  BY <1>3 DEF ScanMissesLateOnly
<1> QED
  BY <1>1, <1>2, <1>4

\* The other steps move one goroutine, one clock or one flag.
LEMMA OthersPreserve ==
    ASSUME RegistryInv,
           \/ \E j \in Jobs : Launch(j) \/ Exit(j) \/ Age(j)
           \/ Cancel \/ StopSweeping \/ UNCHANGED registryVars
    PROVE  RegistryInv'
<1>1. ASSUME NEW j \in Jobs, Launch(j)
      PROVE  RegistryInv'
  <2> USE <1>1 DEF Launch, RegistryInv, scanVars
  <2>1. RegistryTypeOK' /\ RunningRetained' /\ OneWorkerPerTarget'
    BY DEF RegistryTypeOK, Phases, Unfinished, RunningRetained, OneWorkerPerTarget
  <2>2. Evicting' = Evicting /\ Finished' = Finished
    BY DEF Evicting, Finished, RegistryTypeOK
  <2>3. \A k \in Jobs : state'[k] = "running" => phase'[k] \in Unfinished
    BY DEF RegistryTypeOK, Unfinished
  <2> QED
    BY <2>1, <2>2, <2>3 DEF ScanMissesLateOnly
<1>2. ASSUME NEW j \in Jobs, Exit(j)
      PROVE  RegistryInv'
  <2> USE <1>2 DEF Exit, RegistryInv, scanVars
  <2>1. RegistryTypeOK' /\ RunningRetained' /\ OneWorkerPerTarget'
    BY DEF RegistryTypeOK, Phases, Unfinished, RunningRetained, OneWorkerPerTarget
  <2>2. Evicting' = Evicting /\ Finished' = Finished
    BY DEF Evicting, Finished, RegistryTypeOK
  <2>3. \A k \in Jobs : state'[k] = "running" => phase'[k] \in Unfinished
    BY DEF RegistryTypeOK, Unfinished
  <2> QED
    BY <2>1, <2>2, <2>3 DEF ScanMissesLateOnly
<1>3. ASSUME NEW j \in Jobs, Age(j)
      PROVE  RegistryInv'
  BY <1>3 DEF Age, scanVars, RegistryInv, RegistryTypeOK, RunningRetained, OneWorkerPerTarget, Finished, Evicting, ScanMissesLateOnly
<1>4. ASSUME Cancel \/ StopSweeping \/ UNCHANGED registryVars
      PROVE  RegistryInv'
  BY <1>4 DEF Cancel, StopSweeping, registryVars, scanVars, RegistryInv, RegistryTypeOK, RunningRetained,
              OneWorkerPerTarget, Finished, Evicting, ScanMissesLateOnly
<1> QED
  BY <1>1, <1>2, <1>3, <1>4

\* Every step keeps the invariant.
LEMMA StepPreserves == RegistryInv /\ [RegistryNext]_registryVars => RegistryInv'
BY StartPreserves, EvictReadsPreserves, EvictPreserves, FinishPreserves, ExpirePreserves, OthersPreserve
   DEF RegistryNext, JobStep

\* In every reachable state the registry's types are right, every job at work
\* is a running record of the map, and no two jobs are at work on one target.
THEOREM RegistryInvariant == RegistrySpec => []RegistryInv
BY InitEstablishes, StepPreserves, PTL DEF RegistrySpec

\* At most one goroutine is at work on a target (Registry.Start returns
\* ErrBusy to the others), whatever eviction and expiry have dropped.
THEOREM OneWorkerAtATime == RegistrySpec => []OneWorkerPerTarget
<1>1. RegistryInv => OneWorkerPerTarget
  BY DEF RegistryInv
<1> QED
  BY <1>1, RegistryInvariant, PTL

\* Eviction and expiry never drop the record of a job at work.
THEOREM WorkingIsRetained == RegistrySpec => []RunningRetained
<1>1. RegistryInv => RunningRetained
  BY DEF RegistryInv
<1> QED
  BY <1>1, RegistryInvariant, PTL

----------------------------------------------------------------------------
(* What is forgotten, and when. *)

\* Eviction takes exactly the excess, unless it found too few finished
\* records.
LEMMA EvictionFits ==
    ASSUME RegistryInv, NEW V \in Evictions
    PROVE  Cardinality(retained \ V) <= MaxJobs \/ V = found
<1>1. retained \in SUBSET Jobs /\ V \in SUBSET retained
  BY DEF RegistryInv, RegistryTypeOK, ScanMissesLateOnly, Evictions, Finished
<1>2. IsFiniteSet(retained) /\ Cardinality(retained) \in Nat
  BY <1>1, JobsFinite, FS_Subset, FS_CardinalityType
<1>3. IsFiniteSet(V) /\ Cardinality(V) \in Nat
  BY <1>1, <1>2, FS_Subset, FS_CardinalityType
<1>4. Cardinality(retained \ V) = Cardinality(retained) - Cardinality(V)
  <2>1. retained \cap V = V
    BY <1>1
  <2> QED
    BY <1>2, <1>3, <2>1, FS_Difference
<1>5. CASE V = found
  BY <1>5
<1>6. CASE Cardinality(V) = Excess
  <2>1. Cardinality(retained \ V) <= MaxJobs
    BY <1>2, <1>3, <1>4, <1>6, MaxJobsPositive DEF Excess
  <2> QED
    BY <2>1
<1> QED
  BY <1>5, <1>6 DEF Evictions

\* Eviction happens over the budget only.
LEMMA EvictionIsNeeded ==
    ASSUME RegistryInv, NEW V \in Evictions, V # {}
    PROVE  Cardinality(retained) > MaxJobs
<1>1. IsFiniteSet(retained) /\ Cardinality(retained) \in Nat
  BY JobsFinite, FS_Subset, FS_CardinalityType DEF RegistryInv, RegistryTypeOK
<1>2. V \subseteq retained
  BY DEF RegistryInv, ScanMissesLateOnly, Evictions, Finished
<1>3. IsFiniteSet(V) /\ Cardinality(V) \in Nat
  BY <1>1, <1>2, FS_Subset, FS_CardinalityType
<1>4. Cardinality(V) # 0
  BY <1>3, FS_EmptySet
<1>5. Cardinality(V) <= Excess
  BY DEF Evictions
<1> QED
  BY <1>1, <1>3, <1>4, <1>5, MaxJobsPositive DEF Excess

\* The map shrinks by Evict and Expire only.
LEMMA MapShrinks ==
    ASSUME [RegistryNext]_registryVars, retained \ retained' # {}
    PROVE  (\E j \in Jobs : Evict(j)) \/ Expire
BY DEF RegistryNext, JobStep, Start, Inserts, EvictReads, Launch, Finish, Exit, Age, Cancel, StopSweeping, registryVars

\* Start ends where it inserts, or where it has evicted.
LEMMA StartEnds ==
    ASSUME RegistryTypeOK, [RegistryNext]_registryVars,
           NEW j \in Jobs, phase[j] # "registered", phase'[j] = "registered"
    PROVE  (\E t \in Targets : Start(j, t)) \/ Evict(j)
<1>1. ASSUME NEW i \in Jobs, NEW t \in Targets, Start(i, t)
      PROVE  i = j
  BY <1>1 DEF Start, Inserts, RegistryTypeOK
<1>2. ASSUME NEW i \in Jobs, Evict(i)
      PROVE  i = j
  BY <1>2 DEF Evict, RegistryTypeOK
<1>3. ASSUME NEW i \in Jobs, EvictReads(i) \/ Launch(i) \/ Exit(i) \/ Age(i)
      PROVE  FALSE
  BY <1>3 DEF EvictReads, Launch, Exit, Age, RegistryTypeOK
<1>4. ASSUME NEW i \in Jobs, NEW outcome \in Outcomes, Finish(i, outcome)
      PROVE  FALSE
  BY <1>4 DEF Finish, RegistryTypeOK
<1>5. ASSUME Expire \/ Cancel \/ StopSweeping \/ UNCHANGED registryVars
      PROVE  FALSE
  BY <1>5 DEF Expire, Cancel, StopSweeping, registryVars
<1> QED
  BY <1>1, <1>2, <1>3, <1>4, <1>5 DEF RegistryNext, JobStep

\* Where Start ends, the records beyond the budget are of running jobs and of
\* late ones: what evictLocked has read as finished is gone.
LEMMA BudgetStep ==
    ASSUME RegistryInv, [RegistryNext]_registryVars,
           NEW j \in Jobs, phase[j] # "registered", phase'[j] = "registered"
    PROVE  \/ Cardinality(retained') <= MaxJobs
           \/ \A k \in retained' : state'[k] = "running" \/ k \in late
<1>1. ASSUME NEW t \in Targets, Start(j, t)
      PROVE  Cardinality(retained') <= MaxJobs
  BY <1>1 DEF Start, Inserts, RegistryInv, RegistryTypeOK
<1>2. ASSUME Evict(j)
      PROVE  \/ Cardinality(retained') <= MaxJobs
             \/ \A k \in retained' : state'[k] = "running" \/ k \in late
  <2>1. PICK V \in Evictions : retained' = retained \ V
    BY <1>2 DEF Evict
  <2>2. Finished \subseteq found \cup late
    BY <1>2 DEF Evict, RegistryInv, ScanMissesLateOnly, Evicting
  <2>3. CASE V = found
    BY <1>2, <2>1, <2>2, <2>3 DEF Evict, Finished
  <2> QED
    BY <2>1, <2>3, EvictionFits
<1> QED
  BY <1>1, <1>2, StartEnds DEF RegistryInv

\* What a step forgets is finished, and aged or evicted over the budget
\* before anything younger that evictLocked read as finished.
LEMMA ForgettingStep ==
    ASSUME RegistryInv, [RegistryNext]_registryVars, NEW j \in retained \ retained'
    PROVE  /\ state[j] \in Outcomes
           /\ \/ j \in aged
              \/ /\ Cardinality(retained) > MaxJobs
                 /\ \A k \in retained' \cap earlier[j] :
                      state[k] \in Outcomes => k \in late
<1>1. ASSUME j \in Finished
      PROVE  state[j] \in Outcomes
  BY <1>1 DEF RegistryInv, RegistryTypeOK, Finished
<1>2. CASE Expire
  BY <1>1, <1>2 DEF Expire, RegistryInv
<1>3. ASSUME NEW i \in Jobs, Evict(i)
      PROVE  /\ state[j] \in Outcomes
             /\ Cardinality(retained) > MaxJobs
             /\ \A k \in retained' \cap earlier[j] : state[k] \in Outcomes => k \in late
  <2>1. PICK V \in Evictions : retained' = retained \ V
    BY <1>3 DEF Evict
  <2>2. j \in V /\ V \subseteq Finished
    BY <2>1 DEF Evictions, RegistryInv, ScanMissesLateOnly
  <2>3. Cardinality(retained) > MaxJobs
    BY <2>2, EvictionIsNeeded
  <2>4. ASSUME NEW k \in retained' \cap earlier[j], state[k] \in Outcomes, k \notin late
        PROVE  FALSE
    <3>1. k \in Finished
      BY <2>1, <2>4 DEF Finished, Outcomes
    <3>2. Finished \subseteq found \cup late
      BY <1>3 DEF Evict, RegistryInv, ScanMissesLateOnly, Evicting
    <3> QED
      BY <2>1, <2>2, <2>4, <3>1, <3>2 DEF Evictions
  <2> QED
    BY <1>1, <2>2, <2>3, <2>4
<1> QED
  BY <1>2, <1>3, MapShrinks

\* No step of the registry drops a record that runs, nor a finished one before
\* its TTL, unless the registry is over its budget and every finished record
\* that was started earlier and survives finished during the scan.
THEOREM ForgettingIsDue == RegistrySpec => ForgottenOnlyWhenDue
<1>1. RegistryInv /\ [RegistryNext]_registryVars =>
        [\A j \in retained \ retained' :
         /\ state[j] \in Outcomes
         /\ \/ j \in aged
            \/ /\ Cardinality(retained) > MaxJobs
               /\ \A k \in retained' \cap earlier[j] :
                    state[k] \in Outcomes => k \in late]_registryVars
  BY ForgettingStep
<1> QED
  BY <1>1, RegistryInvariant, PTL DEF RegistrySpec, ForgottenOnlyWhenDue

\* Start leaves the map within its budget, or with records of running jobs and
\* of jobs that finished during the scan.
THEOREM BudgetIsKept == RegistrySpec => BudgetKept
<1>1. RegistryInv /\ [RegistryNext]_registryVars =>
        [\A j \in Jobs : phase[j] # "registered" /\ phase'[j] = "registered" =>
         \/ Cardinality(retained') <= MaxJobs
         \/ \A k \in retained' : state'[k] = "running" \/ k \in late]_registryVars
  BY BudgetStep
<1> QED
  BY <1>1, RegistryInvariant, PTL DEF RegistrySpec, BudgetKept

----------------------------------------------------------------------------
(* What a record shows. *)

\* A finished job's record shows the end of what a terminal would show of its
\* output, however the output is divided into writes (OutputEndsAreShown, of
\* the buffers and the output that the runs take).
THEOREM EndOfOutputIsAlwaysShown == RegistrySpec => []EndOfOutputIsShown
<1>1. EndOfOutputIsShown
  <2>1. ASSUME NEW limit \in 1 .. 3 PROVE OutputIsATail(limit, 5)
    <3>1. limit \in Nat /\ 5 \in Nat
      OBVIOUS
    <3> QED
      BY <3>1, OutputEndsAreShown
  <2> QED
    BY <2>1 DEF EndOfOutputIsShown, ShownAsATail
<1> QED
  BY <1>1, PTL
=============================================================================
