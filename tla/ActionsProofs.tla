--------------------------- MODULE ActionsProofs ---------------------------
(***************************************************************************)
(* Theorems about the write surface, for any tree of destinations, any     *)
(* number of handlers and jobs, and any budget of the registry.            *)
(***************************************************************************)
EXTENDS Actions, JobRegistryProofs

GitAtWork == \A j \in Jobs : gpc[j] # "none" => phase[j] = "working"
DestinationsKnown ==
    /\ \A j \in Jobs : phase[j] # "idle" => target[j] \in Targets
    /\ \A h \in InitHandlers : ipc[h] # "idle" => idest[h] \in Targets

LEMMA ActionsInvParts ==
    ActionsInv <=> /\ TypeOK /\ RegistryInv /\ Rooted /\ GitAtWork
                   /\ DestinationsKnown /\ ClaimsHeld
BY DEF ActionsInv, GitAtWork, DestinationsKnown

----------------------------------------------------------------------------
(* The actions, grouped by what they change. *)

\* Steps that leave the file system and git.Clone's goroutines alone.
LEMMA RequestSteps ==
    ASSUME ActionsInv, NEW h \in CloneHandlers, CloneRequest(h)
    PROVE  /\ [RegistryNext]_registryVars
           /\ UNCHANGED <<disk, gpc, made>>
<1>1. ASSUME NEW j \in Jobs, CloneStarts(h, j)
      PROVE  [RegistryNext]_registryVars
  <2>1. checked[h] \in Targets
    BY <1>1 DEF CloneStarts, ActionsInv, TypeOK
  <2> QED
    BY <1>1, <2>1 DEF CloneStarts, RegistryNext, JobStep
<1> QED
  BY <1>1 DEF CloneRequest, CloneLstat, CloneStarts, CloneBusy

\* Every step of the write surface is a step of the registry, or leaves the
\* registry alone.
LEMMA ImplementsRegistry == ActionsInv /\ [Next]_vars => [RegistryNext]_registryVars
<1> SUFFICES ASSUME ActionsInv, [Next]_vars
             PROVE  [RegistryNext]_registryVars
  OBVIOUS
<1>1. ASSUME NEW h \in CloneHandlers, CloneRequest(h)
      PROVE  [RegistryNext]_registryVars
  BY <1>1, RequestSteps
<1>2. ASSUME NEW j \in Jobs, CloneJob(j)
      PROVE  [RegistryNext]_registryVars
  <2>1. CASE CloneEvicts(j) \/ CloneLaunches(j)
    BY <2>1 DEF CloneEvicts, CloneLaunches, RegistryNext, JobStep
  <2>2. CASE GitClone(j)
    BY <2>2 DEF GitClone, CloneStat, CloneMkdir, CloneGivesUp, CloneLstatAgain,
       GitBegins, GitRefuses, GitSucceeds, GitFails, GitDies, PipeCloses, CloneCleanup, Goes
  <2>3. CASE CloneReturns(j)
    <3>1. result[j] \in Outcomes
      BY DEF ActionsInv, TypeOK
    <3> QED
      BY <2>3, <3>1 DEF CloneReturns, RegistryNext, JobStep
  <2>4. CASE JobExits(j)
    BY <2>4 DEF JobExits, RegistryNext, JobStep
  <2> QED
    BY <1>2, <2>1, <2>2, <2>3, <2>4 DEF CloneJob
<1>3. ASSUME NEW h \in InitHandlers, InitRequest(h)
      PROVE  [RegistryNext]_registryVars
  BY <1>3 DEF InitRequest, InitStep, InitBegins, InitLstat, InitStat, InitMkdir,
     InitGivesUp, InitSucceeds, InitFails, InitGoes, InitReturns
<1>4. ASSUME NEW s \in signals, IndexTakes(s)
      PROVE  [RegistryNext]_registryVars
  BY <1>4 DEF IndexTakes
<1>5. CASE RegistryRuns
  BY <1>5 DEF RegistryRuns, RegistryNext, JobStep
<1>6. CASE Main
  BY <1>6 DEF Main, Shutdown, ShutdownBegins, ShutdownReturns, WaitReturns, ListenerFails
<1>7. CASE UNCHANGED vars
  BY <1>7 DEF vars
<1> QED
  BY <1>1, <1>2, <1>3, <1>4, <1>5, <1>6, <1>7 DEF Next

----------------------------------------------------------------------------
(* Types. *)

LEMMA TypeInit == Init => TypeOK
BY NoTargetIsNone, InitEstablishes
   DEF Init, TypeOK, Contents, CloneSteps, InitSteps, Outcomes, RegistryInv

LEMMA TypeStep == ActionsInv /\ [Next]_vars => TypeOK'
<1> SUFFICES ASSUME ActionsInv, [Next]_vars
             PROVE  TypeOK'
  OBVIOUS
<1>1. RegistryTypeOK'
  BY ImplementsRegistry, StepPreserves DEF ActionsInv, RegistryInv
<1> USE <1>1 DEF ActionsInv, TypeOK, Contents, CloneSteps, InitSteps, Outcomes
<1>2. ASSUME NEW h \in CloneHandlers, CloneRequest(h)
      PROVE  TypeOK'
  <2>1. ASSUME NEW p \in Targets, CloneLstat(h, p)
        PROVE  TypeOK'
    BY <2>1 DEF CloneLstat, initVars
  <2>2. ASSUME NEW j \in Jobs, CloneStarts(h, j)
        PROVE  TypeOK'
    BY <2>2 DEF CloneStarts, initVars
  <2>3. CASE CloneBusy(h)
    BY <2>3 DEF CloneBusy, initVars
  <2> QED
    BY <1>2, <2>1, <2>2, <2>3 DEF CloneRequest
<1>3. ASSUME NEW j \in Jobs, CloneJob(j)
      PROVE  TypeOK'
  <2>1. CASE CloneEvicts(j) \/ CloneLaunches(j)
    BY <2>1 DEF CloneEvicts, CloneLaunches, cloneVars, initVars
  <2>2. CASE GitClone(j)
    <3>1. WithDirs({target[j]}) \in [Targets -> Contents]
      BY DEF WithDirs
    <3>2. Without(target[j]) \in [Targets -> Contents]
      BY DEF Without
    <3>3. \A next \in CloneSteps : [gpc EXCEPT ![j] = next] \in [Jobs -> CloneSteps]
      OBVIOUS
    <3>4. CASE CloneStat(j) \/ CloneGivesUp(j) \/ CloneLstatAgain(j) \/ GitRefuses(j)
                 \/ GitDies(j) \/ PipeCloses(j)
      BY <3>3, <3>4 DEF CloneStat, CloneGivesUp, CloneLstatAgain, GitRefuses, GitDies, PipeCloses,
         Goes, initVars
    <3>5. CASE CloneMkdir(j)
      BY <3>1, <3>3, <3>5 DEF CloneMkdir, Goes, initVars
    <3>6. CASE GitBegins(j)
      BY <3>1, <3>3, <3>6 DEF GitBegins, Goes, initVars
    <3>7. CASE GitSucceeds(j)
      BY <3>3, <3>7 DEF GitSucceeds, Goes, initVars
    <3>8. CASE GitFails(j)
      BY <3>2, <3>3, <3>8 DEF GitFails, Goes, initVars
    <3>9. CASE CloneCleanup(j)
      BY <3>2, <3>3, <3>9 DEF CloneCleanup, Goes, initVars
    <3> QED
      BY <2>2, <3>4, <3>5, <3>6, <3>7, <3>8, <3>9 DEF GitClone
  <2>3. CASE CloneReturns(j)
    BY <2>3 DEF CloneReturns, initVars
  <2>4. CASE JobExits(j)
    BY <2>4 DEF JobExits, initVars, cloneVars
  <2> QED
    BY <1>3, <2>1, <2>2, <2>3, <2>4 DEF CloneJob
<1>4. ASSUME NEW h \in InitHandlers, InitRequest(h)
      PROVE  TypeOK'
  <2>1. ASSUME NEW p \in Targets, InitBegins(h, p)
        PROVE  TypeOK'
    BY <2>1 DEF InitBegins, cloneVars
  <2>2. CASE InitLstat(h) \/ InitStat(h)
    BY <2>2 DEF InitLstat, InitStat, InitGoes, cloneVars
  <2>3. CASE InitMkdir(h)
    <3>1. WithDirs({idest[h]}) \in [Targets -> Contents]
      BY DEF WithDirs
    <3> QED
      BY <2>3, <3>1 DEF InitMkdir, InitGoes, cloneVars
  <2>4. CASE InitGivesUp(h)
    BY <2>4 DEF InitGivesUp, InitReturns, cloneVars
  <2>5. CASE InitSucceeds(h)
    BY <2>5 DEF InitSucceeds, InitReturns, cloneVars
  <2>6. CASE InitFails(h)
    BY <2>6 DEF InitFails, InitReturns, cloneVars
  <2> QED
    BY <1>4, <2>1, <2>2, <2>3, <2>4, <2>5, <2>6 DEF InitRequest, InitStep
<1>5. ASSUME NEW s \in signals, IndexTakes(s)
      PROVE  TypeOK'
  BY <1>5 DEF IndexTakes, cloneVars, initVars
<1>6. CASE RegistryRuns
  BY <1>6 DEF RegistryRuns, cloneVars, initVars
<1>7. CASE Main
  BY <1>7 DEF Main, Shutdown, ShutdownBegins, ShutdownReturns, WaitReturns, ListenerFails, cloneVars, initVars
<1>8. CASE UNCHANGED vars
  BY <1>8 DEF vars, cloneVars, initVars
<1> QED
  BY <1>2, <1>3, <1>4, <1>5, <1>6, <1>7, <1>8 DEF Next

----------------------------------------------------------------------------
(* What is at work has a destination. *)

LEMMA WorkStep == ActionsInv /\ [Next]_vars => GitAtWork' /\ DestinationsKnown'
<1> SUFFICES ASSUME ActionsInv, [Next]_vars
             PROVE  GitAtWork' /\ DestinationsKnown'
  OBVIOUS
<1> USE DEF ActionsInv, TypeOK, RegistryTypeOK, GitAtWork, DestinationsKnown
<1>1. ASSUME NEW h \in CloneHandlers, NEW p \in Targets, CloneLstat(h, p)
      PROVE  GitAtWork' /\ DestinationsKnown'
  BY <1>1 DEF CloneLstat, registryVars, initVars
<1>2. ASSUME NEW h \in CloneHandlers, NEW j \in Jobs, CloneStarts(h, j)
      PROVE  GitAtWork' /\ DestinationsKnown'
  BY <1>2 DEF CloneStarts, Start, Inserts, initVars
<1>3. ASSUME NEW h \in CloneHandlers, CloneBusy(h)
      PROVE  GitAtWork' /\ DestinationsKnown'
  BY <1>3 DEF CloneBusy, registryVars, initVars
<1>4. ASSUME NEW j \in Jobs, CloneLaunches(j)
      PROVE  GitAtWork' /\ DestinationsKnown'
  BY <1>4 DEF CloneLaunches, Launch, initVars
<1>5. ASSUME NEW j \in Jobs, GitClone(j)
      PROVE  GitAtWork' /\ DestinationsKnown'
  <2>1. \E next \in CloneSteps : Goes(j, next)
    BY <1>5 DEF GitClone, CloneStat, CloneMkdir, CloneGivesUp, CloneLstatAgain, GitBegins,
       GitRefuses, GitSucceeds, GitFails, GitDies, PipeCloses, CloneCleanup, CloneSteps
  <2>2. gpc[j] # "none"
    BY <1>5 DEF GitClone, CloneStat, CloneMkdir, CloneGivesUp, CloneLstatAgain, GitBegins,
       GitRefuses, GitSucceeds, GitFails, GitDies, PipeCloses, CloneCleanup
  <2> QED
    BY <2>1, <2>2 DEF Goes, registryVars, initVars
<1>6. ASSUME NEW j \in Jobs, CloneReturns(j)
      PROVE  GitAtWork' /\ DestinationsKnown'
  BY <1>6 DEF CloneReturns, Finish, initVars
<1>7. ASSUME NEW j \in Jobs, JobExits(j)
      PROVE  GitAtWork' /\ DestinationsKnown'
  BY <1>7 DEF JobExits, Exit, cloneVars, initVars
<1>8. ASSUME NEW h \in InitHandlers, InitRequest(h)
      PROVE  GitAtWork' /\ DestinationsKnown'
  <2>1. UNCHANGED <<registryVars, cloneVars>>
    BY <1>8 DEF InitRequest, InitStep, InitBegins, InitLstat, InitStat, InitMkdir,
       InitGivesUp, InitSucceeds, InitFails, InitGoes, InitReturns
  <2>2. GitAtWork' /\ \A j \in Jobs : phase'[j] # "idle" => target'[j] \in Targets
    BY <2>1 DEF registryVars, cloneVars
  <2>3. \A i \in InitHandlers : ipc'[i] # "idle" => idest'[i] \in Targets
    BY <1>8 DEF InitRequest, InitStep, InitBegins, InitLstat, InitStat, InitMkdir,
       InitGivesUp, InitSucceeds, InitFails, InitGoes, InitReturns
  <2> QED
    BY <2>2, <2>3
<1>9. ASSUME NEW s \in signals, IndexTakes(s)
      PROVE  GitAtWork' /\ DestinationsKnown'
  BY <1>9 DEF IndexTakes, registryVars, cloneVars, initVars
<1>10. CASE RegistryRuns
  BY <1>10 DEF RegistryRuns, Age, Expire, Cancel, StopSweeping, cloneVars, initVars
<1>11. CASE Main
  BY <1>11 DEF Main, Shutdown, ShutdownBegins, ShutdownReturns, WaitReturns, ListenerFails, registryVars,
     cloneVars, initVars
<1>12. CASE UNCHANGED vars
  BY <1>12 DEF vars, registryVars, cloneVars, initVars
<1>13. ASSUME NEW j \in Jobs, CloneEvicts(j)
      PROVE  GitAtWork' /\ DestinationsKnown'
  BY <1>13 DEF CloneEvicts, EvictReads, Evict, cloneVars, initVars
<1> QED
  BY <1>1, <1>2, <1>3, <1>4, <1>5, <1>6, <1>7, <1>8, <1>9, <1>10, <1>11, <1>12, <1>13
     DEF Next, CloneRequest, CloneJob

----------------------------------------------------------------------------
(* The file system stays a tree. *)

\* Filling in or replacing what exists.
LEMMA RootedWhenReplaced ==
    ASSUME Rooted,
           \A p \in Targets : disk[p] = "absent" <=> disk'[p] = "absent"
    PROVE  Rooted'
BY DEF Rooted, Above

\* MkdirAll for p, with or without p itself.
LEMMA RootedWhenCreated ==
    ASSUME Rooted, NEW p \in Targets, disk \in [Targets -> Contents],
           NEW c \in Contents \ {"absent"},
           \/ disk' = WithDirs({p})
           \/ disk' = [WithDirs({p}) EXCEPT ![p] = disk[p]]
           \/ disk' = [WithDirs({p}) EXCEPT ![p] = c]
    PROVE  Rooted'
<1> SUFFICES ASSUME NEW q \in Targets, disk'[q] # "absent",
                    NEW r \in Above(q)
             PROVE  disk'[r] # "absent"
  BY DEF Rooted, Above
<1>1. \A s \in Targets : s # p =>
        disk'[s] = IF disk[s] = "absent" /\ p \in Within[s] THEN "dir" ELSE disk[s]
  BY DEF WithDirs, Above
<1>2. disk[p] # "absent" => disk'[p] # "absent"
  BY DEF WithDirs
<1>3. r \in Targets /\ q \in Within[r]
  BY DEF Above
<1>4. CASE disk[q] # "absent"
  <2>1. disk[r] # "absent"
    BY <1>4 DEF Rooted
  <2> QED
    BY <2>1, <1>1, <1>2, <1>3
<1>5. CASE disk[q] = "absent" /\ q = p
  BY <1>1, <1>3, <1>5
<1>6. CASE disk[q] = "absent" /\ q # p
  <2>1. p \in Within[q]
    BY <1>1, <1>6
  <2>2. p \in Within[r]
    BY <2>1, <1>3, WithinIsTree
  <2>3. r # p
    BY <2>1, <1>3, <1>6, WithinIsTree
  <2> QED
    BY <2>2, <2>3, <1>1, <1>3
<1> QED
  BY <1>4, <1>5, <1>6

\* RemoveAll of p, or removal of everything beneath it.
LEMMA RootedWhenRemoved ==
    ASSUME Rooted, NEW p \in Targets, disk \in [Targets -> Contents],
           NEW c \in Contents, disk[p] = "absent" => c = "absent",
           disk' = [Without(p) EXCEPT ![p] = c] \/ disk' = Without(p)
    PROVE  Rooted'
<1> SUFFICES ASSUME NEW q \in Targets, disk'[q] # "absent",
                    NEW r \in Above(q)
             PROVE  disk'[r] # "absent"
  BY DEF Rooted, Above
<1>1. \A s \in Targets : s # p =>
        disk'[s] = IF s \in Within[p] THEN "absent" ELSE disk[s]
  BY DEF Without
<1>2. r \in Targets /\ q \in Within[r]
  BY DEF Above
<1>3. disk[q] # "absent"
  <2>1. CASE q = p
    BY <2>1, WithinIsTree DEF Without
  <2>2. CASE q # p
    BY <2>2, <1>1
  <2> QED
    BY <2>1, <2>2
<1>4. disk[r] # "absent"
  BY <1>3 DEF Rooted
<1>5. CASE r = q
  BY <1>5
<1>6. CASE r # q
  <2>1. r \notin Within[p]
    <3>1. ASSUME r \in Within[p]
          PROVE  FALSE
      <4>1. q \in Within[p]
        BY <3>1, <1>2, WithinIsTree
      <4>2. q = p
        BY <4>1, <1>1
      <4> QED
        BY <4>2, <3>1, <1>2, <1>6, WithinIsTree
    <3> QED
      BY <3>1
  <2>2. r # p
    BY <2>1, WithinIsTree
  <2> QED
    BY <2>1, <2>2, <1>1, <1>2, <1>4
<1> QED
  BY <1>5, <1>6

LEMMA RootedStep == ActionsInv /\ [Next]_vars => Rooted'
<1> SUFFICES ASSUME ActionsInv, [Next]_vars
             PROVE  Rooted'
  OBVIOUS
<1>1. Rooted /\ disk \in [Targets -> Contents]
  BY DEF ActionsInv, TypeOK
<1>2. ASSUME UNCHANGED disk
      PROVE  Rooted'
  BY <1>1, <1>2, RootedWhenReplaced
<1>3. ASSUME NEW j \in Jobs, GitClone(j)
      PROVE  Rooted'
  <2>1. target[j] \in Targets
    BY <1>3 DEF ActionsInv, GitClone, CloneStat, CloneMkdir, CloneGivesUp, CloneLstatAgain,
       GitBegins, GitRefuses, GitSucceeds, GitFails, GitDies, PipeCloses, CloneCleanup
  <2>2. CASE CloneStat(j) \/ CloneGivesUp(j) \/ CloneLstatAgain(j) \/ GitRefuses(j)
               \/ GitDies(j) \/ PipeCloses(j)
    BY <1>2, <2>2 DEF CloneStat, CloneGivesUp, CloneLstatAgain, GitRefuses, GitDies, PipeCloses
  <2>3. CASE CloneMkdir(j)
    BY <1>1, <2>1, <2>3, RootedWhenCreated DEF CloneMkdir, Contents
  <2>4. CASE GitBegins(j)
    <3>1. "partial" \in Contents \ {"absent"}
      BY DEF Contents
    <3> QED
      BY <1>1, <2>1, <2>4, <3>1, RootedWhenCreated DEF GitBegins
  <2>5. CASE GitSucceeds(j)
    <3>1. disk[target[j]] = "partial" /\ disk' = [disk EXCEPT ![target[j]] = "repo"]
      BY <2>5 DEF GitSucceeds
    <3>2. \A p \in Targets : disk[p] = "absent" <=> disk'[p] = "absent"
      BY <1>1, <3>1
    <3> QED
      BY <1>1, <3>2, RootedWhenReplaced
  <2>6. CASE GitFails(j)
    <3> DEFINE c == IF made[j] \/ disk[target[j]] = "absent" THEN "absent" ELSE "dir"
    <3>1. c \in Contents /\ (disk[target[j]] = "absent" => c = "absent")
      BY DEF Contents
    <3>2. disk' = [Without(target[j]) EXCEPT ![target[j]] = c]
      BY <2>6 DEF GitFails
    <3> HIDE DEF c
    <3> QED
      BY <1>1, <2>1, <3>1, <3>2, RootedWhenRemoved
  <2>7. CASE CloneCleanup(j)
    <3>1. CASE made[j]
      <4>1. disk' = Without(target[j])
        BY <2>7, <3>1 DEF CloneCleanup
      <4>2. "absent" \in Contents
        BY DEF Contents
      <4> QED
        BY <1>1, <2>1, <4>1, <4>2, RootedWhenRemoved
    <3>2. CASE ~made[j]
      BY <1>2, <2>7, <3>2 DEF CloneCleanup
    <3> QED
      BY <3>1, <3>2
  <2> QED
    BY <1>3, <2>2, <2>3, <2>4, <2>5, <2>6, <2>7 DEF GitClone
<1>4. ASSUME NEW h \in InitHandlers, InitRequest(h)
      PROVE  Rooted'
  <2>1. CASE InitMkdir(h)
    <3>1. idest[h] \in Targets
      BY <2>1 DEF InitMkdir, ActionsInv
    <3> QED
      BY <1>1, <2>1, <3>1, RootedWhenCreated DEF InitMkdir, Contents
  <2>2. CASE InitSucceeds(h) \/ InitFails(h)
    <3>1. \A p \in Targets : disk[p] = "absent" <=> disk'[p] = "absent"
      BY <1>1, <2>2 DEF InitSucceeds, InitFails
    <3> QED
      BY <1>1, <3>1, RootedWhenReplaced
  <2>3. CASE InitLstat(h) \/ InitStat(h) \/ InitGivesUp(h)
               \/ \E p \in Targets : InitBegins(h, p)
    BY <1>2, <2>3 DEF InitLstat, InitStat, InitGivesUp, InitBegins
  <2> QED
    BY <1>4, <2>1, <2>2, <2>3 DEF InitRequest, InitStep
<1>5. ASSUME NEW h \in CloneHandlers, CloneRequest(h)
      PROVE  Rooted'
  BY <1>2, <1>5 DEF CloneRequest, CloneLstat, CloneStarts, CloneBusy
<1>6. ASSUME NEW j \in Jobs, CloneEvicts(j) \/ CloneLaunches(j) \/ CloneReturns(j) \/ JobExits(j)
      PROVE  Rooted'
  BY <1>2, <1>6 DEF CloneEvicts, CloneLaunches, CloneReturns, JobExits
<1>7. ASSUME NEW s \in signals, IndexTakes(s)
      PROVE  Rooted'
  BY <1>2, <1>7 DEF IndexTakes
<1>8. CASE RegistryRuns
  BY <1>2, <1>8 DEF RegistryRuns
<1>9. CASE Main
  BY <1>2, <1>9 DEF Main, Shutdown, ShutdownBegins, ShutdownReturns, WaitReturns, ListenerFails
<1>10. CASE UNCHANGED vars
  BY <1>2, <1>10 DEF vars
<1> QED
  BY <1>3, <1>4, <1>5, <1>6, <1>7, <1>8, <1>9, <1>10 DEF Next, CloneJob

----------------------------------------------------------------------------

(* Claims. *)

\* beginInit adds a destination that nobody has claimed; endInit takes away the
\* one its call has.
LEMMA ClaimsStep == ActionsInv /\ [Next]_vars => ClaimsHeld'
<1> SUFFICES ASSUME ActionsInv, [Next]_vars
             PROVE  ClaimsHeld'
  OBVIOUS
<1> USE DEF ActionsInv, TypeOK, InitSteps
<1>1. ASSUME UNCHANGED initVars
      PROVE  ClaimsHeld'
  BY <1>1 DEF initVars, ClaimsHeld, Initing
<1>2. ASSUME NEW h \in InitHandlers, NEW p \in Targets, InitBegins(h, p)
      PROVE  ClaimsHeld'
  <2>1. Initing' = Initing \cup {h} /\ h \notin Initing
    BY <1>2 DEF InitBegins, Initing
  <2>2. idest'[h] = p /\ \A i \in Initing : idest'[i] = idest[i]
    BY <1>2, <2>1 DEF InitBegins, Initing
  <2>3. \A i \in Initing : idest[i] # p
    BY <1>2 DEF InitBegins, ClaimsHeld
  <2>4. initing' = initing \cup {p}
    BY <1>2 DEF InitBegins
  <2> QED
    BY <2>1, <2>2, <2>3, <2>4 DEF ClaimsHeld
<1>3. ASSUME NEW h \in InitHandlers, NEW next \in InitSteps \ {"idle"}, InitGoes(h, next),
             ipc[h] # "idle"
      PROVE  ClaimsHeld'
  <2>1. Initing' = Initing
    BY <1>3 DEF InitGoes, Initing
  <2> QED
    BY <1>3, <2>1 DEF InitGoes, ClaimsHeld
<1>4. ASSUME NEW h \in InitHandlers, InitReturns(h), ipc[h] # "idle"
      PROVE  ClaimsHeld'
  <2>1. Initing' = Initing \ {h} /\ h \in Initing
    BY <1>4 DEF InitReturns, Initing
  <2>2. \A i \in Initing \ {h} : idest'[i] = idest[i] /\ idest[i] # idest[h]
    BY <1>4, <2>1 DEF InitReturns, Initing, ClaimsHeld
  <2>3. initing' = initing \ {idest[h]}
    BY <1>4 DEF InitReturns
  <2> QED
    BY <2>1, <2>2, <2>3 DEF ClaimsHeld
<1>5. ASSUME NEW h \in InitHandlers, InitStep(h)
      PROVE  ClaimsHeld'
  <2>1. ipc[h] # "idle"
    BY <1>5 DEF InitStep, InitLstat, InitStat, InitMkdir, InitGivesUp, InitSucceeds, InitFails
  <2>2. CASE InitReturns(h)
    BY <1>4, <2>1, <2>2
  <2>3. CASE \E next \in InitSteps \ {"idle"} : InitGoes(h, next)
    BY <1>3, <2>1, <2>3
  <2> QED
    BY <1>5, <2>2, <2>3
       DEF InitStep, InitLstat, InitStat, InitMkdir, InitGivesUp, InitSucceeds, InitFails
<1>6. ASSUME NEW h \in CloneHandlers, CloneRequest(h)
      PROVE  UNCHANGED initVars
  BY <1>6 DEF CloneRequest, CloneLstat, CloneStarts, CloneBusy
<1>7. ASSUME NEW j \in Jobs, CloneJob(j)
      PROVE  UNCHANGED initVars
  <2>1. CASE GitClone(j)
    BY <2>1 DEF GitClone, CloneStat, CloneMkdir, CloneGivesUp, CloneLstatAgain, GitBegins,
       GitRefuses, GitSucceeds, GitFails, GitDies, PipeCloses, CloneCleanup, Goes
  <2> QED
    BY <1>7, <2>1 DEF CloneJob, CloneEvicts, CloneLaunches, CloneReturns, JobExits
<1>8. ASSUME (\E s \in signals : IndexTakes(s)) \/ RegistryRuns \/ Main
      PROVE  UNCHANGED initVars
  BY <1>8 DEF IndexTakes, RegistryRuns, Main, Shutdown, ShutdownBegins, ShutdownReturns,
     WaitReturns, ListenerFails
<1>9. CASE UNCHANGED vars
  BY <1>1, <1>9 DEF vars
<1> QED
  BY <1>1, <1>2, <1>5, <1>6, <1>7, <1>8, <1>9 DEF Next, InitRequest

LEMMA ActionsInvInit == Init => ActionsInv
<1> SUFFICES ASSUME Init
             PROVE  ActionsInv
  OBVIOUS
<1>1. TypeOK
  BY TypeInit
<1>2. RegistryInv
  BY InitEstablishes DEF Init
<1>3. Rooted
  BY DEF Init, Rooted
<1>4. GitAtWork /\ DestinationsKnown
  BY DEF Init, RegistryInit, GitAtWork, DestinationsKnown
<1>5. ClaimsHeld
  BY DEF Init, ClaimsHeld, Initing
<1> QED
  BY <1>1, <1>2, <1>3, <1>4, <1>5, ActionsInvParts

LEMMA ActionsInvStep == ActionsInv /\ [Next]_vars => ActionsInv'
<1> SUFFICES ASSUME ActionsInv, [Next]_vars
             PROVE  ActionsInv'
  OBVIOUS
<1>1. RegistryInv'
  BY ImplementsRegistry, StepPreserves DEF ActionsInv
<1> QED
  BY <1>1, TypeStep, RootedStep, WorkStep, ClaimsStep
     DEF ActionsInv, GitAtWork, DestinationsKnown

\* In every reachable state the types are right, the registry's invariant
\* holds, the paths form a tree, and git.Clone runs only inside a job at work.
THEOREM ActionsInvariant == Spec => []ActionsInv
BY ActionsInvInit, ActionsInvStep, PTL DEF Spec

\* The write surface drives the registry by the registry's own steps only, so
\* what is proved of JobRegistry holds of it.
THEOREM ActionsImplementRegistry == Spec => RegistrySpec
<1>1. Init => RegistryInit
  BY DEF Init
<1>2. ActionsInv /\ [Next]_vars => [RegistryNext]_registryVars
  BY ImplementsRegistry
<1> QED
  BY <1>1, <1>2, ActionsInvariant, PTL DEF Spec, RegistrySpec

----------------------------------------------------------------------------
(* Writers, and the end of the process. *)

LEMMA AtMostOne ==
    ASSUME NEW S, \A x, y \in S : x = y
    PROVE  Cardinality(S) <= 1
<1>1. CASE S = {}
  BY <1>1, FS_EmptySet
<1>2. CASE S # {}
  <2>1. PICK x \in S : TRUE
    BY <1>2
  <2>2. S = {x}
    BY <2>1
  <2> QED
    BY <2>2, FS_Singleton
<1> QED
  BY <1>1, <1>2

\* No two clones and no two inits are ever at work on one directory, however
\* destinations nest.
THEOREM WritersAreApart == Spec => []OneWriterPerDirectory
<1>1. ASSUME ActionsInv
      PROVE  OneWriterPerDirectory
  <2> SUFFICES ASSUME NEW p \in Targets
               PROVE  Cardinality(ClonesInto(p)) <= 1 /\ Cardinality(InitsOf(p)) <= 1
    BY DEF OneWriterPerDirectory
  <2>1. \A i, j \in ClonesInto(p) : i = j
    BY <1>1 DEF ClonesInto, ActionsInv, RegistryInv, OneWorkerPerTarget, Unfinished
  <2>2. \A h, i \in InitsOf(p) : h = i
    BY <1>1 DEF InitsOf, ActionsInv, ClaimsHeld, Initing
  <2> QED
    BY <2>1, <2>2, AtMostOne
<1> QED
  BY <1>1, ActionsInvariant, PTL

\* Once run has returned from reg.Wait no job is in git.Clone.
ExitedAfterGit == main = "exited" => \A j \in Jobs : gpc[j] = "none"

\* When the process exits at the end of a shutdown, no git.Clone is under way
\* in it, not even of a job that reg.Wait did not count because its handler had
\* not launched it, and wherever destinations nest.
THEOREM ExitWaitsForGit == Spec => []ExitedAfterGit
<1>1. Init => ExitedAfterGit
  BY DEF Init, ExitedAfterGit
<1>2. ASSUME ActionsInv, ExitedAfterGit, [Next]_vars
      PROVE  ExitedAfterGit'
  <2>1. CASE WaitReturns
    BY <1>2, <2>1 DEF WaitReturns, ActionsInv, InFlight, cloneVars, ExitedAfterGit
  <2>2. CASE main' = main
    BY <1>2, <2>2 DEF Next, Ended, vars, cloneVars, ExitedAfterGit
  <2>3. main' = main \/ main' # "exited" \/ WaitReturns
    <3>1. CASE Main
      BY <3>1 DEF Main, Shutdown, ShutdownBegins, ShutdownReturns, ListenerFails
    <3>2. ASSUME NEW h \in CloneHandlers, CloneRequest(h)
          PROVE  main' = main
      BY <3>2 DEF CloneRequest, CloneLstat, CloneStarts, CloneBusy
    <3>3. ASSUME NEW j \in Jobs, GitClone(j)
          PROVE  main' = main
      BY <3>3 DEF GitClone, CloneStat, CloneMkdir, CloneGivesUp, CloneLstatAgain, GitBegins,
         GitRefuses, GitSucceeds, GitFails, GitDies, PipeCloses, CloneCleanup, Goes
    <3>4. ASSUME NEW j \in Jobs, CloneEvicts(j) \/ CloneLaunches(j) \/ CloneReturns(j) \/ JobExits(j)
          PROVE  main' = main
      BY <3>4 DEF CloneEvicts, CloneLaunches, CloneReturns, JobExits
    <3>5. ASSUME NEW h \in InitHandlers, InitRequest(h)
          PROVE  main' = main
      BY <3>5 DEF InitRequest, InitStep, InitBegins, InitLstat, InitStat, InitMkdir,
         InitGivesUp, InitSucceeds, InitFails, InitGoes, InitReturns
    <3>6. ASSUME (\E s \in signals : IndexTakes(s)) \/ RegistryRuns \/ UNCHANGED vars
          PROVE  main' = main
      BY <3>6 DEF IndexTakes, RegistryRuns, vars
    <3> QED
      BY <1>2, <3>1, <3>2, <3>3, <3>4, <3>5, <3>6 DEF Next, CloneJob
  <2>4. CASE main' # "exited"
    BY <2>4 DEF ExitedAfterGit
  <2> QED
    BY <2>1, <2>2, <2>3, <2>4
<1> QED
  BY <1>1, <1>2, ActionsInvariant, PTL DEF Spec

----------------------------------------------------------------------------
(* Settled checkouts. *)

\* No job counts as a creator of p, or of a directory above it.
NoCreator(p) ==
    \A j \in Jobs : target[j] \in Above(p) =>
        ~ \/ gpc[j] = "git"
          \/ gpc[j] \in {"exec", "cleanup"} /\ made[j]
          \/ gpc[j] = "pipe" /\ made[j] /\ result[j] = "failed"

LEMMA SettledParts ==
    ASSUME NEW p \in Targets
    PROVE  /\ Settled(p) <=> disk[p] = "repo" /\ NoCreator(p)
           /\ Settled(p)' <=> disk'[p] = "repo" /\ NoCreator(p)'
BY DEF Settled, NoCreator, Present

\* The steps of one job's git.Clone: where p exists, everything above it does,
\* so the job cannot come to believe that it created any of that.
LEMMA CloneKeepsSettled ==
    ASSUME ActionsInv, NEW p \in Targets, Settled(p), NEW j \in Jobs, GitClone(j)
    PROVE  Settled(p)'
<1> USE DEF ActionsInv, TypeOK, RegistryTypeOK
<1>1. disk[p] = "repo" /\ NoCreator(p)
  BY SettledParts
<1>2. target[j] \in Targets /\ UNCHANGED target
  BY DEF GitClone, CloneStat, CloneMkdir, CloneGivesUp, CloneLstatAgain, GitBegins,
     GitRefuses, GitSucceeds, GitFails, GitDies, PipeCloses, CloneCleanup, Goes, registryVars
<1>3. target[j] \in Above(p) => disk[target[j]] # "absent"
  BY <1>1 DEF Rooted
<1>4. target[j] \in Above(p) => ~EmptyDir(target[j])
  <2> SUFFICES ASSUME target[j] \in Above(p), EmptyDir(target[j])
               PROVE  FALSE
    OBVIOUS
  <2>1. p \in Within[target[j]]
    BY DEF Above
  <2>2. p # target[j]
    BY <1>1 DEF EmptyDir
  <2> QED
    BY <1>1, <2>1, <2>2 DEF EmptyDir
<1>5. CASE CloneStat(j) \/ CloneMkdir(j) \/ CloneGivesUp(j)
  <2>1. disk'[p] = "repo"
    BY <1>1, <1>2, <1>5 DEF CloneStat, CloneMkdir, CloneGivesUp, WithDirs
  <2>2. NoCreator(p)'
    BY <1>1, <1>2, <1>5 DEF CloneStat, CloneMkdir, CloneGivesUp, Goes, NoCreator, Above
  <2> QED
    BY <2>1, <2>2, SettledParts
<1>6. CASE CloneLstatAgain(j)
  <2>1. disk'[p] = "repo"
    BY <1>1, <1>6 DEF CloneLstatAgain
  <2>2. NoCreator(p)'
    BY <1>1, <1>2, <1>3, <1>6 DEF CloneLstatAgain, Goes, NoCreator, Above
  <2> QED
    BY <2>1, <2>2, SettledParts
<1>7. CASE GitBegins(j)
  <2>1. target[j] \notin Above(p)
    BY <1>3, <1>4, <1>7 DEF GitBegins
  <2>2. target[j] # p
    BY <2>1, WithinIsTree DEF Above
  <2>3. disk'[p] = "repo"
    BY <1>1, <1>2, <1>7, <2>2 DEF GitBegins, WithDirs
  <2>4. NoCreator(p)'
    BY <1>1, <1>2, <1>7, <2>1 DEF GitBegins, Goes, NoCreator, Above
  <2> QED
    BY <2>3, <2>4, SettledParts
<1>8. CASE GitRefuses(j)
  <2>1. disk'[p] = "repo"
    BY <1>1, <1>8 DEF GitRefuses
  <2>2. NoCreator(p)'
    BY <1>1, <1>2, <1>8 DEF GitRefuses, Goes, NoCreator, Above
  <2> QED
    BY <2>1, <2>2, SettledParts
<1>9. CASE GitSucceeds(j)
  <2>1. disk'[p] = "repo"
    BY <1>1, <1>2, <1>9 DEF GitSucceeds
  <2>2. NoCreator(p)'
    BY <1>1, <1>2, <1>9 DEF GitSucceeds, Goes, NoCreator, Above
  <2> QED
    BY <2>1, <2>2, SettledParts
<1>10. CASE GitFails(j) \/ GitDies(j)
  <2>1. target[j] \notin Above(p)
    BY <1>1, <1>10 DEF GitFails, GitDies, NoCreator
  <2>2. p \notin Within[target[j]] /\ p # target[j]
    BY <2>1, <1>2, WithinIsTree DEF Above
  <2>3. disk'[p] = "repo"
    BY <1>1, <1>10, <2>2 DEF GitFails, GitDies, Without
  <2>4. NoCreator(p)'
    BY <1>1, <1>2, <1>10, <2>1 DEF GitFails, GitDies, Goes, NoCreator, Above
  <2> QED
    BY <2>3, <2>4, SettledParts
<1>11. CASE CloneCleanup(j)
  <2>1. made[j] => target[j] \notin Above(p)
    BY <1>1, <1>11 DEF CloneCleanup, NoCreator
  <2>2. made[j] => p \notin Within[target[j]]
    BY <2>1, <1>2 DEF Above
  <2>3. disk'[p] = "repo"
    BY <1>1, <1>11, <2>2 DEF CloneCleanup, Without
  <2>4. NoCreator(p)'
    BY <1>1, <1>2, <1>11 DEF CloneCleanup, Goes, NoCreator, Above
  <2> QED
    BY <2>3, <2>4, SettledParts
<1>12. CASE PipeCloses(j)
  <2>1. disk'[p] = "repo"
    BY <1>1, <1>12 DEF PipeCloses
  <2>2. NoCreator(p)'
    <3>1. result[j] \in {"done", "failed"} /\ UNCHANGED <<made, result>> /\ gpc[j] = "pipe"
      BY <1>12 DEF PipeCloses, Outcomes
    <3>2. gpc'[j] \in {"return", "cleanup"} /\ (gpc'[j] = "cleanup" => result[j] = "failed")
      BY <1>12, <3>1 DEF PipeCloses, Goes
    <3>3. \A i \in Jobs \ {j} : gpc'[i] = gpc[i]
      BY <1>12 DEF PipeCloses, Goes
    <3> QED
      BY <1>1, <1>2, <3>1, <3>2, <3>3 DEF NoCreator, Above
  <2> QED
    BY <2>1, <2>2, SettledParts
<1> QED
  BY <1>5, <1>6, <1>7, <1>8, <1>9, <1>10, <1>11, <1>12 DEF GitClone

LEMMA StepKeepsSettled ==
    ASSUME ActionsInv, [Next]_vars, NEW p \in Targets, Settled(p)
    PROVE  Settled(p)'
<1> USE DEF ActionsInv, TypeOK, RegistryTypeOK
<1>1. disk[p] = "repo" /\ NoCreator(p)
  BY SettledParts
<1>2. ASSUME UNCHANGED <<target, gpc, made, result>>, disk'[p] = "repo"
      PROVE  Settled(p)'
  <2>1. NoCreator(p)'
    BY <1>1, <1>2 DEF NoCreator, Above
  <2> QED
    BY <1>2, <2>1, SettledParts
<1>3. ASSUME NEW h \in CloneHandlers, NEW j \in Jobs, CloneStarts(h, j)
      PROVE  Settled(p)'
  <2>1. gpc[j] = "none"
    BY <1>3 DEF CloneStarts, Start
  <2>2. NoCreator(p)'
    BY <1>1, <1>3, <2>1 DEF CloneStarts, Start, Inserts, NoCreator, Above
  <2>3. disk'[p] = "repo"
    BY <1>1, <1>3 DEF CloneStarts
  <2> QED
    BY <2>2, <2>3, SettledParts
<1>4. ASSUME NEW j \in Jobs, CloneLaunches(j)
      PROVE  Settled(p)'
  <2>1. NoCreator(p)'
    BY <1>1, <1>4 DEF CloneLaunches, Launch, NoCreator, Above
  <2>2. disk'[p] = "repo"
    BY <1>1, <1>4 DEF CloneLaunches
  <2> QED
    BY <2>1, <2>2, SettledParts
<1>5. ASSUME NEW j \in Jobs, CloneReturns(j)
      PROVE  Settled(p)'
  <2>1. NoCreator(p)'
    BY <1>1, <1>5 DEF CloneReturns, Finish, NoCreator, Above
  <2>2. disk'[p] = "repo"
    BY <1>1, <1>5 DEF CloneReturns
  <2> QED
    BY <2>1, <2>2, SettledParts
<1>6. ASSUME NEW j \in Jobs, JobExits(j)
      PROVE  Settled(p)'
  BY <1>1, <1>2, <1>6 DEF JobExits, Exit, cloneVars
<1>7. ASSUME NEW h \in InitHandlers, InitRequest(h)
      PROVE  Settled(p)'
  <2>1. UNCHANGED <<target, gpc, made, result>>
    BY <1>7 DEF InitRequest, InitStep, InitBegins, InitLstat, InitStat, InitMkdir,
       InitGivesUp, InitSucceeds, InitFails, InitGoes, InitReturns, registryVars, cloneVars
  <2>2. disk'[p] = "repo"
    BY <1>1, <1>7 DEF InitRequest, InitStep, InitBegins, InitLstat, InitStat, InitMkdir,
       InitGivesUp, InitSucceeds, InitFails, WithDirs
  <2> QED
    BY <1>2, <2>1, <2>2
<1>8. ASSUME NEW h \in CloneHandlers, (\E q \in Targets : CloneLstat(h, q)) \/ CloneBusy(h)
      PROVE  Settled(p)'
  BY <1>1, <1>2, <1>8 DEF CloneLstat, CloneBusy, registryVars
<1>9. ASSUME NEW s \in signals, IndexTakes(s)
      PROVE  Settled(p)'
  BY <1>1, <1>2, <1>9 DEF IndexTakes, registryVars, cloneVars
<1>10. CASE RegistryRuns
  BY <1>1, <1>2, <1>10 DEF RegistryRuns, Age, Expire, Cancel, StopSweeping, cloneVars
<1>11. CASE Main
  BY <1>1, <1>2, <1>11 DEF Main, Shutdown, ShutdownBegins, ShutdownReturns, WaitReturns, ListenerFails,
     registryVars, cloneVars
<1>12. CASE UNCHANGED vars
  BY <1>1, <1>2, <1>12 DEF vars, registryVars, cloneVars
<1>13. ASSUME NEW j \in Jobs, CloneEvicts(j)
      PROVE  Settled(p)'
  BY <1>1, <1>2, <1>13 DEF CloneEvicts, EvictReads, Evict, cloneVars
<1> QED
  BY <1>3, <1>4, <1>5, <1>6, <1>7, <1>8, <1>9, <1>10, <1>11, <1>12, <1>13, CloneKeepsSettled
     DEF Next, CloneRequest, CloneJob

\* Once a checkout exists at a moment when no clone that believes it created
\* it, or a directory above it, is in flight, no clone or init removes it.
THEOREM SettledCheckoutsStay == Spec => SettledStays
<1>1. ActionsInv /\ [Next]_vars => [\A p \in Targets : Settled(p) => Settled(p)']_vars
  BY StepKeepsSettled
<1> QED
  BY <1>1, ActionsInvariant, PTL DEF Spec, SettledStays

----------------------------------------------------------------------------
(* Clones on their own: destinations that do not nest, nothing initialised. *)

ClonesAlone == InitHandlers = {} /\ \A p \in Targets : Within[p] = {p}

\* A step of git.Clone changes nothing but its destination.
LEMMA CloneIsLocal ==
    ASSUME ClonesAlone, ActionsInv, NEW j \in Jobs, GitClone(j)
    PROVE  /\ target[j] \in Targets
           /\ phase[j] = "working"
           /\ \A q \in Targets : q # target[j] => disk'[q] = disk[q]
           /\ UNCHANGED <<target, phase>>
           /\ \A i \in Jobs : i # j =>
                gpc'[i] = gpc[i] /\ made'[i] = made[i] /\ result'[i] = result[i]
<1> USE DEF ActionsInv, TypeOK, RegistryTypeOK
<1>1. gpc[j] # "none"
  BY DEF GitClone, CloneStat, CloneMkdir, CloneGivesUp, CloneLstatAgain, GitBegins,
     GitRefuses, GitSucceeds, GitFails, GitDies, PipeCloses, CloneCleanup
<1>2. target[j] \in Targets /\ phase[j] = "working"
  BY <1>1
<1>3. UNCHANGED <<target, phase>> /\ \A i \in Jobs : i # j => gpc'[i] = gpc[i]
  BY DEF GitClone, CloneStat, CloneMkdir, CloneGivesUp, CloneLstatAgain, GitBegins,
     GitRefuses, GitSucceeds, GitFails, GitDies, PipeCloses, CloneCleanup, Goes, registryVars
<1>4. \A i \in Jobs : i # j => made'[i] = made[i] /\ result'[i] = result[i]
  BY DEF GitClone, CloneStat, CloneMkdir, CloneGivesUp, CloneLstatAgain, GitBegins,
     GitRefuses, GitSucceeds, GitFails, GitDies, PipeCloses, CloneCleanup
<1>5. ASSUME NEW q \in Targets, q # target[j]
      PROVE  disk'[q] = disk[q]
  <2>1. WithDirs({target[j]})[q] = disk[q] /\ Without(target[j])[q] = disk[q]
    BY <1>2, <1>5 DEF ClonesAlone, WithDirs, Without, Above
  <2>2. q \in DOMAIN WithDirs({target[j]}) /\ q \in DOMAIN Without(target[j])
    BY DEF WithDirs, Without
  <2>3. CASE CloneMkdir(j) \/ GitBegins(j)
    BY <1>5, <2>1, <2>2, <2>3 DEF CloneMkdir, GitBegins
  <2>4. CASE GitFails(j) \/ CloneCleanup(j)
    BY <1>5, <2>1, <2>2, <2>4 DEF GitFails, CloneCleanup
  <2>5. CASE GitSucceeds(j)
    BY <1>5, <2>5 DEF GitSucceeds
  <2>6. CASE CloneStat(j) \/ CloneGivesUp(j) \/ CloneLstatAgain(j) \/ GitRefuses(j)
               \/ GitDies(j) \/ PipeCloses(j)
    BY <2>6 DEF CloneStat, CloneGivesUp, CloneLstatAgain, GitRefuses, GitDies, PipeCloses
  <2> QED
    BY <2>3, <2>4, <2>5, <2>6 DEF GitClone
<1> QED
  BY <1>2, <1>3, <1>4, <1>5

\* What the invariant says of one job, and of one destination.
OwnsDestination(j) ==
    /\ gpc[j] \in {"mkdir", "lstat", "exec"} => disk[target[j]] = "absent"
    /\ gpc[j] = "git" => disk[target[j]] = "partial"
    /\ gpc[j] = "pipe" =>
         disk[target[j]] \in IF result[j] = "done" THEN {"repo"} ELSE {"absent", "partial"}
    /\ gpc[j] = "cleanup" => disk[target[j]] \in {"absent", "partial"}
    /\ gpc[j] \in {"exec", "git", "pipe", "cleanup"} => made[j]
    /\ gpc[j] \in {"stat", "mkdir", "lstat", "exec", "git"} => result[j] = "failed"
Attended(p) ==
    disk[p] = "partial" => \E j \in Jobs :
        /\ target[j] = p
        /\ phase[j] = "working"
        /\ \/ gpc[j] = "git"
           \/ gpc[j] \in {"pipe", "cleanup"} /\ made[j]

LEMMA OwnershipParts ==
    CloneOwnsDestination <=> /\ \A j \in Jobs : OwnsDestination(j)
                             /\ \A p \in Targets : Attended(p)
BY DEF CloneOwnsDestination, NoWreckage, OwnsDestination, Attended

LEMMA OwnJobStep ==
    ASSUME ClonesAlone, ActionsInv, CloneOwnsDestination, NEW j \in Jobs, GitClone(j)
    PROVE  /\ OwnsDestination(j)'
           /\ Attended(target[j])'
           /\ disk[target[j]] = "repo" => disk'[target[j]] = "repo"
<1> DEFINE t == target[j]
<1> USE DEF ActionsInv, TypeOK, RegistryTypeOK
<1>1. t \in Targets /\ phase'[j] = "working" /\ target'[j] = t /\ UNCHANGED target
  BY CloneIsLocal
<1>2. OwnsDestination(j) /\ Attended(t)
  BY <1>1, OwnershipParts
<1>3. WithDirs({t})[t] = (IF disk[t] = "absent" THEN "dir" ELSE disk[t])
      /\ Without(t)[t] = "absent"
      /\ t \in DOMAIN WithDirs({t}) /\ t \in DOMAIN Without(t)
  BY <1>1, WithinIsTree DEF WithDirs, Without, Above
<1>4. CASE CloneStat(j) \/ CloneMkdir(j) \/ CloneGivesUp(j)
  <2>1. disk'[t] = disk[t] /\ UNCHANGED <<made, result>>
    BY <1>3, <1>4 DEF CloneStat, CloneMkdir, CloneGivesUp
  <2>2. gpc[j] \in {"stat", "mkdir"} /\ gpc'[j] \in {"mkdir", "lstat", "return"}
        /\ (gpc'[j] # "return" => disk'[t] = "absent")
        /\ \A i \in Jobs : i # j => gpc'[i] = gpc[i]
    BY <1>2, <1>4, <2>1 DEF CloneStat, CloneMkdir, CloneGivesUp, Goes, OwnsDestination
  <2>3. UNCHANGED phase
    BY CloneIsLocal
  <2> QED
    BY <1>1, <1>2, <2>1, <2>2, <2>3 DEF OwnsDestination, Attended
<1>5. CASE CloneLstatAgain(j)
  BY <1>1, <1>2, <1>5 DEF CloneLstatAgain, Goes, OwnsDestination, Attended
<1>6. CASE GitBegins(j)
  <2>1. disk'[t] = "partial" /\ gpc'[j] = "git" /\ UNCHANGED <<made, result>> /\ gpc[j] = "exec"
    BY <1>3, <1>6 DEF GitBegins, Goes
  <2> QED
    BY <1>1, <1>2, <2>1 DEF OwnsDestination, Attended
<1>7. CASE GitRefuses(j) \/ GitDies(j)
  <2>1. disk'[t] = disk[t] /\ UNCHANGED <<made, result>>
        /\ \/ gpc[j] = "exec" /\ gpc'[j] = "cleanup"
           \/ gpc[j] = "git" /\ gpc'[j] = "pipe"
    BY <1>7 DEF GitRefuses, GitDies, Goes
  <2>2. result[j] = "failed" \/ gpc[j] = "exec"
    BY <1>2, <2>1 DEF OwnsDestination
  <2> QED
    BY <1>1, <1>2, <2>1, <2>2 DEF OwnsDestination, Attended
<1>8. CASE GitSucceeds(j)
  <2>1. disk'[t] = "repo" /\ gpc'[j] = "pipe" /\ result'[j] = "done" /\ UNCHANGED made /\ gpc[j] = "git"
    BY <1>1, <1>8 DEF GitSucceeds, Goes
  <2> QED
    BY <1>1, <1>2, <2>1 DEF OwnsDestination, Attended
<1>9. CASE GitFails(j)
  <2>1. made[j] /\ disk[t] = "partial"
    BY <1>2, <1>9 DEF GitFails, OwnsDestination
  <2>2. disk'[t] = "absent" /\ gpc'[j] = "pipe" /\ UNCHANGED <<made, result>> /\ gpc[j] = "git"
    BY <1>3, <1>9, <2>1 DEF GitFails, Goes
  <2>3. result[j] = "failed"
    BY <1>2, <2>2 DEF OwnsDestination
  <2> QED
    BY <1>1, <2>1, <2>2, <2>3 DEF OwnsDestination, Attended
<1>11. CASE PipeCloses(j)
  <2>1. disk'[t] = disk[t] /\ UNCHANGED <<made, result>> /\ gpc[j] = "pipe"
        /\ gpc'[j] = IF result[j] = "done" THEN "return" ELSE "cleanup"
    BY <1>11 DEF PipeCloses, Goes
  <2> QED
    BY <1>1, <1>2, <2>1 DEF OwnsDestination, Attended
<1>10. CASE CloneCleanup(j)
  <2>1. made[j] /\ disk[t] # "repo"
    BY <1>2, <1>10 DEF CloneCleanup, OwnsDestination
  <2>2. disk'[t] = "absent" /\ gpc'[j] = "return"
    BY <1>3, <1>10, <2>1 DEF CloneCleanup, Goes
  <2> QED
    BY <1>1, <2>1, <2>2 DEF OwnsDestination, Attended
<1> QED
  BY <1>4, <1>5, <1>6, <1>7, <1>8, <1>9, <1>10, <1>11 DEF GitClone

\* Two jobs at work have different destinations, so a step of one is nothing
\* to the other.
LEMMA OwnershipClone ==
    ASSUME ClonesAlone, ActionsInv, CloneOwnsDestination, NEW j \in Jobs, GitClone(j)
    PROVE  CloneOwnsDestination'
<1>1. ASSUME NEW i \in Jobs
      PROVE  OwnsDestination(i)'
  <2>1. CASE i = j
    BY <2>1, OwnJobStep
  <2>2. CASE i # j /\ gpc[i] # "none"
    <3>1. target[i] # target[j] /\ target[i] \in Targets
      BY <2>2, CloneIsLocal DEF ActionsInv, RegistryInv, OneWorkerPerTarget, Unfinished
    <3>2. OwnsDestination(i)
      BY OwnershipParts
    <3> QED
      BY <2>2, <3>1, <3>2, CloneIsLocal DEF OwnsDestination
  <2>3. CASE i # j /\ gpc[i] = "none"
    BY <2>3, CloneIsLocal DEF OwnsDestination
  <2> QED
    BY <2>1, <2>2, <2>3
<1>2. ASSUME NEW p \in Targets
      PROVE  Attended(p)'
  <2>1. CASE p = target[j]
    BY <2>1, OwnJobStep, CloneIsLocal DEF Attended
  <2>2. CASE p # target[j]
    <3>1. Attended(p)
      BY OwnershipParts
    <3> QED
      BY <2>2, <3>1, CloneIsLocal DEF Attended
  <2> QED
    BY <2>1, <2>2
<1> QED
  BY <1>1, <1>2 DEF CloneOwnsDestination, NoWreckage, OwnsDestination, Attended

\* Steps that are not git.Clone's: none of them writes to the file system, and
\* a slot is taken, launched or released only while its goroutine is idle.
LEMMA OwnershipOther ==
    ASSUME ClonesAlone, ActionsInv, CloneOwnsDestination, [Next]_vars,
           ~ \E j \in Jobs : GitClone(j)
    PROVE  /\ CloneOwnsDestination'
           /\ UNCHANGED disk
<1> USE DEF ActionsInv, TypeOK, RegistryTypeOK
<1>1. ASSUME UNCHANGED <<disk, target, phase, gpc, made, result>>
      PROVE  CloneOwnsDestination'
  BY <1>1 DEF CloneOwnsDestination, NoWreckage
<1>2. ASSUME NEW h \in CloneHandlers, NEW j \in Jobs, CloneStarts(h, j)
      PROVE  CloneOwnsDestination' /\ UNCHANGED disk
  <2>1. phase[j] = "idle" /\ gpc[j] = "none"
    BY <1>2 DEF CloneStarts, Start
  <2>2. UNCHANGED <<disk, gpc, made, result>>
        /\ \A i \in Jobs : i # j => target'[i] = target[i] /\ phase'[i] = phase[i]
    BY <1>2 DEF CloneStarts, Start, Inserts
  <2> QED
    BY <2>1, <2>2 DEF CloneOwnsDestination, NoWreckage
<1>3. ASSUME NEW j \in Jobs, CloneLaunches(j)
      PROVE  CloneOwnsDestination' /\ UNCHANGED disk
  <2>1. phase[j] = "registered" /\ UNCHANGED <<disk, target>> /\ gpc'[j] = "stat" /\ result'[j] = "failed"
        /\ \A i \in Jobs : i # j =>
              gpc'[i] = gpc[i] /\ made'[i] = made[i] /\ result'[i] = result[i] /\ phase'[i] = phase[i]
    BY <1>3 DEF CloneLaunches, Launch
  <2> QED
    BY <2>1 DEF CloneOwnsDestination, NoWreckage
<1>4. ASSUME NEW j \in Jobs, CloneReturns(j)
      PROVE  CloneOwnsDestination' /\ UNCHANGED disk
  <2>1. gpc[j] = "return" /\ gpc'[j] = "none" /\ UNCHANGED <<disk, target, made, result>>
        /\ \A i \in Jobs : i # j => gpc'[i] = gpc[i] /\ phase'[i] = phase[i]
    BY <1>4 DEF CloneReturns, Finish
  <2> QED
    BY <2>1 DEF CloneOwnsDestination, NoWreckage
<1>5. ASSUME NEW j \in Jobs, JobExits(j)
      PROVE  CloneOwnsDestination' /\ UNCHANGED disk
  <2>1. phase[j] = "reporting" /\ UNCHANGED <<disk, target, gpc, made, result>>
        /\ \A i \in Jobs : i # j => phase'[i] = phase[i]
    BY <1>5 DEF JobExits, Exit, cloneVars
  <2> QED
    BY <2>1 DEF CloneOwnsDestination, NoWreckage
<1>6. ASSUME NEW h \in CloneHandlers, (\E q \in Targets : CloneLstat(h, q)) \/ CloneBusy(h)
      PROVE  CloneOwnsDestination' /\ UNCHANGED disk
  BY <1>1, <1>6 DEF CloneLstat, CloneBusy, registryVars
<1>7. ASSUME NEW s \in signals, IndexTakes(s)
      PROVE  CloneOwnsDestination' /\ UNCHANGED disk
  BY <1>1, <1>7 DEF IndexTakes, registryVars, cloneVars
<1>8. CASE RegistryRuns
  BY <1>1, <1>8 DEF RegistryRuns, Age, Expire, Cancel, StopSweeping, cloneVars
<1>9. CASE Main
  BY <1>1, <1>9 DEF Main, Shutdown, ShutdownBegins, ShutdownReturns, WaitReturns, ListenerFails, registryVars,
     cloneVars
<1>10. CASE UNCHANGED vars
  BY <1>1, <1>10 DEF vars, registryVars, cloneVars
<1>11. ASSUME NEW j \in Jobs, CloneEvicts(j)
      PROVE  CloneOwnsDestination' /\ UNCHANGED disk
  <2>1. UNCHANGED <<disk, target, gpc, made, result>>
        /\ \A i \in Jobs : phase[i] = "working" => phase'[i] = "working"
    BY <1>11 DEF CloneEvicts, EvictReads, Evict, cloneVars
  <2> QED
    BY <2>1 DEF CloneOwnsDestination, NoWreckage
<1> QED
  BY <1>2, <1>3, <1>4, <1>5, <1>6, <1>7, <1>8, <1>9, <1>10, <1>11
     DEF Next, CloneRequest, CloneJob, ClonesAlone

LEMMA OwnershipInit == Init => CloneOwnsDestination
BY DEF Init, CloneOwnsDestination, NoWreckage

LEMMA OwnershipStep ==
    ASSUME ClonesAlone, ActionsInv, CloneOwnsDestination, [Next]_vars
    PROVE  CloneOwnsDestination'
BY OwnershipClone, OwnershipOther

\* Only git.Clone's own wreckage is ever removed: the checkouts grow.
LEMMA StoreStep ==
    ASSUME ClonesAlone, ActionsInv, CloneOwnsDestination, [Next]_vars
    PROVE  [Store!Next]_Present
<1>1. ASSUME NEW j \in Jobs, GitClone(j)
      PROVE  [Store!Next]_Present
  <2>1. target[j] \in Targets
    BY <1>1, CloneIsLocal
  <2>2. \A q \in Targets : q # target[j] => disk'[q] = disk[q]
    BY <1>1, CloneIsLocal
  <2>3. disk[target[j]] = "repo" => disk'[target[j]] = "repo"
    BY <1>1, OwnJobStep
  <2>4. Present' = Present \/ Present' = Present \cup {target[j]}
    BY <2>1, <2>2, <2>3 DEF Present
  <2> QED
    BY <2>1, <2>4 DEF Store!Next, Store!Create
<1>2. CASE UNCHANGED disk
  BY <1>2 DEF Present
<1> QED
  BY <1>1, <1>2, OwnershipOther

\* Among clones whose destinations do not nest, a clone finds its destination
\* between its steps as it left it, and believes that it created it.
THEOREM ClonesOwnTheirDestinations ==
    ASSUME ClonesAlone PROVE Spec => []CloneOwnsDestination
<1>1. ActionsInv /\ CloneOwnsDestination /\ [Next]_vars => CloneOwnsDestination'
  BY OwnershipStep
<1> QED
  BY <1>1, OwnershipInit, ActionsInvariant, PTL DEF Spec

\* Among such clones a partial clone is always attended by the job that will
\* finish or remove it.
THEOREM ClonesLeaveNoWreckage == ASSUME ClonesAlone PROVE Spec => []NoWreckage
<1>1. CloneOwnsDestination => NoWreckage
  BY DEF CloneOwnsDestination
<1> QED
  BY <1>1, ClonesOwnTheirDestinations, PTL

\* Among such clones none ever deletes a checkout: the write surface implements
\* the abstract store that only grows.
THEOREM ClonesDeleteNothing == ASSUME ClonesAlone PROVE Spec => NothingIsDeleted
<1>1. ActionsInv /\ CloneOwnsDestination /\ [Next]_vars => [Store!Next]_Present
  BY StoreStep
<1>2. Init => Store!Init
  BY DEF Store!Init, Present
<1> QED
  BY <1>1, <1>2, ClonesOwnTheirDestinations, ActionsInvariant, PTL
     DEF Spec, NothingIsDeleted, Store!Spec

\* Among such clones a shutdown leaves no half-written one behind.
THEOREM ClonesExitCleanly == ASSUME ClonesAlone PROVE Spec => []CleanExit
<1>1. ExitedAfterGit /\ CloneOwnsDestination => CleanExit
  BY DEF ExitedAfterGit, CloneOwnsDestination, NoWreckage, CleanExit
<1> QED
  BY <1>1, ClonesOwnTheirDestinations, ExitWaitsForGit, PTL
=============================================================================
