---------------------------- MODULE IndexProofs ----------------------------
(***************************************************************************)
(* Theorems about Index, for any tree of checkouts, any owners, and any    *)
(* number of handlers and jobs.                                            *)
(***************************************************************************)
EXTENDS Index, TLAPS

\* The variables by component, and how the versions compare.
LEMMA Types ==
    ASSUME TypeOK
    PROVE  /\ MaxVersion \in Nat /\ \A v \in Versions : v \in Nat
           /\ \A c \in Checkouts :
                world[c] \in Nat /\ announced[c] \in Nat /\ seen[c] \in Nat /\ snap.shown[c] \in Nat
           /\ \A a \in Actors : actor[a] \in Doing
BY IndexConfig DEF TypeOK, Versions

\* What an actor is doing.
LEMMA ActorStates ==
    ASSUME NEW d \in Doing
    PROVE  /\ d.step \in {"fetch", "init", "clone"} => d.on \in Checkouts
           /\ d.step = "signal" => d.on \in Checkouts /\ d.channel \in Channels
           /\ \A c \in Checkouts, ch \in Channels :
                [step |-> "signal", on |-> c, channel |-> ch] \in Doing
           /\ Quiet \in Doing
BY DEF Doing, Quiet

LEMMA IndexInit == Init => IndexInv
<1> SUFFICES ASSUME Init
             PROVE  IndexInv
  OBVIOUS
<1>1. 0 \in Versions /\ 1 \in Versions
  BY IndexConfig DEF Versions
<1>2. TypeOK
  <2>1. Nothing \in [Checkouts -> Versions] /\ Unlisted \in [Owners -> {"none", "current", "old"}]
    BY <1>1 DEF Nothing, Unlisted
  <2>2. world \in [Checkouts -> Versions] /\ actor \in [Actors -> Doing]
    BY <1>1 DEF Init, Doing
  <2>3. announced \in [Checkouts -> Versions] /\ seen \in [Checkouts -> Versions]
        /\ listing \in [Owners -> {"none", "current", "old"}]
    BY <2>1 DEF Init
  <2>4. snap \in [shown : [Checkouts -> Versions], failed : SUBSET Checkouts,
                  listing : [Owners -> {"none", "current", "old"}], warned : SUBSET Owners]
    BY <2>1 DEF Init
  <2>5. /\ tokens \in SUBSET Channels /\ toList \in SUBSET Owners /\ ghostWarn \in SUBSET Owners
        /\ unvisited \in SUBSET Checkouts /\ toInspect \in SUBSET Checkouts
        /\ failed \in SUBSET Checkouts /\ toFetch \in SUBSET Remotes /\ fetching \in SUBSET Remotes
        /\ pc = "listing"
    BY DEF Init
  <2>6. 0 \in 0 .. MaxWalkErrors
    BY IndexConfig
  <2>7. walkErrors \in 0 .. MaxWalkErrors /\ cancelled \in BOOLEAN
    BY <2>6 DEF Init
  <2> QED
    BY <2>2, <2>3, <2>4, <2>5, <2>7 DEF TypeOK
<1>3. StagesAreApart
  BY DEF Init, StagesAreApart
<1>4. NothingIsMadeUp
  BY DEF Init, NothingIsMadeUp, Nothing
<1>5. ScanKeepsUp /\ RunMayWait
  BY DEF Init, ScanKeepsUp, RunMayWait
<1>6. ListingsAreTold
  BY DEF Init, ListingsAreTold, Unlisted
<1> QED
  BY <1>2, <1>3, <1>4, <1>5, <1>6 DEF IndexInv

\* A version grows by what changes a checkout.
LEMMA Growth ==
    ASSUME TypeOK, NEW c \in Checkouts, Changes(c)
    PROVE  world' \in [Checkouts -> Versions] /\ \A d \in Checkouts : world[d] <= world'[d]
<1>1. world[c] + 1 \in Versions
  BY Types DEF Changes, Versions
<1> QED
  BY <1>1, Types DEF Changes, TypeOK

LEMMA TypesStep == TypeOK /\ [Next]_vars => TypeOK'
<1> SUFFICES ASSUME TypeOK, [Next]_vars
             PROVE  TypeOK'
  OBVIOUS
<1> USE DEF TypeOK, listVars, scanVars, fetchVars, actorVars
<1>1. ASSUME NEW a \in Actors, NEW doing \in Doing \ {Quiet}, ActorBegins(a, doing)
      PROVE  TypeOK'
  BY <1>1 DEF ActorBegins
<1>2. ASSUME NEW a \in Actors, ActorEnds(a)
      PROVE  TypeOK'
  <2> DEFINE c == actor[a].on
  <2>1. c \in Checkouts
    BY <1>2, Types, ActorStates DEF ActorEnds
  <2>2. world' \in [Checkouts -> Versions]
    BY <1>2, <2>1, Growth DEF ActorEnds
  <2>3. \E d \in Doing : actor' = [actor EXCEPT ![a] = d]
    <3>1. Quiet \in Doing /\ \A ch \in Channels : [step |-> "signal", on |-> c, channel |-> ch] \in Doing
      BY <2>1, ActorStates DEF Doing
    <3>2. "scanNow" \in Channels /\ "ghostsNow" \in Channels
      BY DEF Channels
    <3>3. CASE actor' = [actor EXCEPT ![a] = Quiet]
      BY <3>1, <3>3
    <3>4. CASE \E ch \in Channels :
                 actor' = [actor EXCEPT ![a] = [step |-> "signal", on |-> c, channel |-> ch]]
      BY <3>1, <3>4
    <3> QED
      BY <1>2, <3>2, <3>3, <3>4 DEF ActorEnds
  <2> QED
    BY <1>2, <2>2, <2>3 DEF ActorEnds
<1>3. ASSUME NEW a \in Actors, ActorSignals(a)
      PROVE  TypeOK'
  <2>1. actor[a].on \in Checkouts /\ actor[a].channel \in Channels /\ Quiet \in Doing
    BY <1>3, Types, ActorStates DEF ActorSignals
  <2> QED
    BY <1>3, <2>1 DEF ActorSignals, Signal
<1>4. CASE Refresh \/ Cancel
  BY <1>4 DEF Refresh, Cancel, Signal, Channels
<1>5. ASSUME NEW c \in Checkouts, WalkVisits(c)
      PROVE  TypeOK'
  BY <1>5 DEF WalkVisits
<1>6. ASSUME NEW c \in Checkouts, Inspects(c)
      PROVE  TypeOK'
  BY <1>6 DEF Inspects
<1>7. 0 \in Versions /\ Nothing \in [Checkouts -> Versions]
  BY IndexConfig DEF Nothing, Versions
<1>8. CASE WalkFails
  <2>1. walkErrors' \in 0 .. MaxWalkErrors
    BY <1>8, IndexConfig DEF WalkFails
  <2> QED
    BY <1>7, <1>8, <2>1 DEF WalkFails, EndsScan
<1>9. CASE Publishes
  BY <1>7, <1>9 DEF Publishes, EndsScan
<1>10. ASSUME NEW o \in Owners, Lists(o)
       PROVE  TypeOK'
  BY <1>10 DEF Lists
<1>11. ASSUME NEW c \in Remotes, FetchBegins(c) \/ FetchSkips(c)
       PROVE  TypeOK'
  BY <1>11 DEF FetchBegins, FetchSkips
<1>12. ASSUME NEW c \in Remotes, FetchEnds(c)
       PROVE  TypeOK'
  <2>1. world' \in [Checkouts -> Versions]
    BY <1>12, IndexConfig, Growth DEF FetchEnds
  <2> QED
    BY <1>12, <2>1 DEF FetchEnds
<1>13. CASE RoundEnds
  BY <1>7, <1>13 DEF RoundEnds, BeginsScan
<1>14. CASE SelectScan
  BY <1>7, <1>14 DEF SelectScan, Ready, BeginsScan
<1>15. CASE SelectGhosts
  BY <1>15 DEF SelectGhosts, Ready
<1>16. CASE SelectFetch
  BY <1>16 DEF SelectFetch, Ready
<1>17. CASE SelectDone
  BY <1>17 DEF SelectDone
<1>18. CASE UNCHANGED vars
  BY <1>18 DEF vars
<1> QED
  BY <1>1, <1>2, <1>3, <1>4, <1>5, <1>6, <1>8, <1>9, <1>10, <1>11, <1>12, <1>13, <1>14, <1>15,
     <1>16, <1>17, <1>18 DEF Next, Act, Scan, FetchAll, Select

----------------------------------------------------------------------------

LEMMA StagesStep == TypeOK /\ StagesAreApart /\ [Next]_vars => StagesAreApart'
<1> SUFFICES ASSUME TypeOK, StagesAreApart, [Next]_vars
             PROVE  StagesAreApart'
  OBVIOUS
<1> USE DEF StagesAreApart, listVars, scanVars, fetchVars
<1>1. CASE UNCHANGED <<pc, listVars, scanVars, fetchVars>>
  BY <1>1
<1>2. ASSUME NEW a \in Actors, Act(a)
      PROVE  StagesAreApart'
  BY <1>1, <1>2 DEF Act, ActorBegins, ActorEnds, ActorSignals
<1>3. CASE Refresh \/ Cancel \/ UNCHANGED vars
  BY <1>1, <1>3 DEF Refresh, Cancel, vars
<1>4. ASSUME NEW c \in Checkouts, WalkVisits(c) \/ Inspects(c)
      PROVE  StagesAreApart'
  BY <1>4 DEF WalkVisits, Inspects
<1>5. CASE WalkFails \/ Publishes
  BY <1>5 DEF WalkFails, Publishes, EndsScan
<1>6. ASSUME NEW o \in Owners, Lists(o)
      PROVE  StagesAreApart'
  BY <1>6 DEF Lists
<1>7. ASSUME NEW c \in Remotes, FetchBegins(c) \/ FetchSkips(c) \/ FetchEnds(c)
      PROVE  StagesAreApart'
  BY <1>7 DEF FetchBegins, FetchSkips, FetchEnds
<1>8. CASE RoundEnds
  BY <1>8 DEF RoundEnds, BeginsScan
<1>9. CASE Select
  BY <1>9 DEF Select, SelectScan, SelectGhosts, SelectFetch, SelectDone, Ready, BeginsScan
<1> QED
  BY <1>2, <1>3, <1>4, <1>5, <1>6, <1>7, <1>8, <1>9 DEF Next, Scan, FetchAll

\* No step takes a version back.
LEMMA WorldGrows ==
    ASSUME TypeOK, [Next]_vars
    PROVE  \A c \in Checkouts : world[c] <= world'[c]
<1>1. CASE UNCHANGED world
  BY <1>1, Types
<1>2. ASSUME NEW a \in Actors, ActorEnds(a)
      PROVE  \A c \in Checkouts : world[c] <= world'[c]
  <2>1. actor[a].on \in Checkouts
    BY <1>2, Types, ActorStates DEF ActorEnds
  <2> QED
    BY <1>1, <1>2, <2>1, Growth DEF ActorEnds
<1>3. ASSUME NEW c \in Remotes, FetchEnds(c)
      PROVE  \A d \in Checkouts : world[d] <= world'[d]
  BY <1>1, <1>3, IndexConfig, Growth DEF FetchEnds
<1> QED
  BY <1>1, <1>2, <1>3 DEF Next, Act, ActorBegins, ActorSignals, Refresh, Cancel, Scan, WalkVisits,
     Inspects, WalkFails, Publishes, Lists, FetchAll, FetchBegins, FetchSkips, RoundEnds, Select,
     SelectScan, SelectGhosts, SelectFetch, SelectDone, Ready, vars

\* How versions are signalled, seen and shown.
LEMMA SignalledHow ==
    ASSUME TypeOK, [Next]_vars
    PROVE  \A c \in Checkouts : announced'[c] = announced[c]
                                  \/ (announced'[c] = world[c] /\ world' = world /\ tokens' # {})
<1>1. CASE announced' = announced
  BY <1>1
<1>2. ASSUME NEW a \in Actors, ActorSignals(a)
      PROVE  \A c \in Checkouts : announced'[c] = announced[c]
                                    \/ (announced'[c] = world[c] /\ world' = world /\ tokens' # {})
  BY <1>2 DEF ActorSignals, Signal, TypeOK
<1> QED
  BY <1>1, <1>2 DEF Next, Act, ActorBegins, ActorEnds, Refresh, Cancel, Scan, WalkVisits,
     Inspects, WalkFails, Publishes, Lists, FetchAll, FetchBegins, FetchSkips, FetchEnds, RoundEnds,
     Select, SelectScan, SelectGhosts, SelectFetch, SelectDone, Ready, vars, actorVars

LEMMA SeenHow ==
    ASSUME TypeOK, [Next]_vars
    PROVE  \A c \in Checkouts : seen'[c] \in {seen[c], 0, world[c]}
<1>1. CASE seen' = seen
  BY <1>1
<1>2. CASE seen' = Nothing
  BY <1>2 DEF Nothing
<1>3. ASSUME NEW c \in Checkouts, Inspects(c)
      PROVE  \A d \in Checkouts : seen'[d] \in {seen[d], 0, world[d]}
  BY <1>3 DEF Inspects, TypeOK
<1> QED
  BY <1>1, <1>2, <1>3 DEF Next, Act, ActorBegins, ActorEnds, ActorSignals, Refresh, Cancel, Scan,
     WalkVisits, WalkFails, Publishes, EndsScan, BeginsScan, Lists, FetchAll, FetchBegins,
     FetchSkips, FetchEnds, RoundEnds, Select, SelectScan, SelectGhosts, SelectFetch, SelectDone,
     Ready, vars, scanVars

\* Only a scan that was not cancelled changes the snapshot.
LEMMA ShownHow ==
    ASSUME [Next]_vars
    PROVE  \/ snap' = snap
           \/ /\ Publishes
              /\ ~cancelled
              /\ snap' = [shown |-> seen, failed |-> failed, listing |-> listing, warned |-> ghostWarn]
BY DEF Next, Act, ActorBegins, ActorEnds, ActorSignals, Refresh, Cancel, Scan,
     WalkVisits, Inspects, WalkFails, Publishes, Lists, FetchAll, FetchBegins,
     FetchSkips, FetchEnds, RoundEnds, Select, SelectScan, SelectGhosts, SelectFetch, SelectDone,
     Ready, vars

LEMMA NothingIsMadeUpStep ==
    ASSUME TypeOK, NothingIsMadeUp, [Next]_vars
    PROVE  NothingIsMadeUp'
<1> SUFFICES ASSUME NEW c \in Checkouts
             PROVE  announced'[c] <= world'[c] /\ seen'[c] <= world'[c] /\ snap'.shown[c] <= world'[c]
  BY DEF NothingIsMadeUp
<1>1. /\ world[c] <= world'[c] /\ world[c] \in Nat /\ world'[c] \in Nat
      /\ announced[c] \in Nat /\ seen[c] \in Nat /\ snap.shown[c] \in Nat
      /\ announced[c] <= world[c] /\ seen[c] <= world[c] /\ snap.shown[c] <= world[c]
  <2>1. TypeOK'
    BY TypesStep
  <2> QED
    BY <2>1, WorldGrows, Types DEF NothingIsMadeUp, TypeOK, Versions
<1>2. announced'[c] \in {announced[c], world[c]}
  BY SignalledHow
<1>3. seen'[c] \in {seen[c], 0, world[c]}
  BY SeenHow
<1>4. snap'.shown[c] \in {snap.shown[c], seen[c]}
  BY ShownHow
<1> QED
  BY <1>1, <1>2, <1>3, <1>4

----------------------------------------------------------------------------
(* Scans. *)

\* The checkouts a scan is done with, without a warning.
Seen == Checkouts \ (unvisited \cup toInspect \cup failed)

LEMMA ScanKeepsUpStep ==
    ASSUME TypeOK, NothingIsMadeUp, ScanKeepsUp, [Next]_vars
    PROVE  ScanKeepsUp'
<1> USE DEF Seen
<1>0. TypeOK'
  BY TypesStep
\* Outside of a scan's own steps: a signal, at most, and its token stays.
<1>1. ASSUME UNCHANGED <<pc, scanVars, snap>>, tokens # {} => tokens' # {}
      PROVE  ScanKeepsUp'
  <2> SUFFICES ASSUME pc \in {"walking", "inspecting"}, NEW c \in Seen
               PROVE  seen[c] >= snap.shown[c] /\ (seen[c] >= announced'[c] \/ tokens' # {})
    BY <1>1 DEF ScanKeepsUp, scanVars
  <2>1. seen[c] >= snap.shown[c] /\ (seen[c] >= announced[c] \/ tokens # {})
    BY DEF ScanKeepsUp
  <2> QED
    BY <1>1, <2>1, SignalledHow
<1>2. CASE pc' \notin {"walking", "inspecting"}
  BY <1>2 DEF ScanKeepsUp
<1>3. ASSUME NEW a \in Actors, Act(a)
      PROVE  ScanKeepsUp'
  BY <1>1, <1>3 DEF Act, ActorBegins, ActorEnds, ActorSignals, Signal
<1>4. CASE Refresh \/ Cancel \/ UNCHANGED vars
  BY <1>1, <1>4 DEF Refresh, Cancel, Signal, vars
<1>5. ASSUME NEW c \in Checkouts, WalkVisits(c)
      PROVE  ScanKeepsUp'
  <2> SUFFICES ASSUME NEW d \in Seen'
               PROVE  seen[d] >= snap.shown[d] /\ (seen[d] >= announced[d] \/ tokens # {})
    BY <1>5 DEF ScanKeepsUp, WalkVisits, actorVars
  <2>1. CASE d \in Seen
    BY <1>5, <2>1 DEF ScanKeepsUp, WalkVisits
  <2>2. CASE d \notin Seen
    <3>1. d = c /\ world[c] = 0
      BY <1>5, <2>2 DEF WalkVisits
    <3>2. /\ world[c] \in Nat /\ announced[c] \in Nat /\ seen[c] \in Nat /\ snap.shown[c] \in Nat
          /\ announced[c] <= world[c] /\ snap.shown[c] <= world[c]
      BY Types DEF NothingIsMadeUp
    <3> QED
      BY <3>1, <3>2
  <2> QED
    BY <2>1, <2>2
<1>6. ASSUME NEW c \in Checkouts, Inspects(c)
      PROVE  ScanKeepsUp'
  <2> SUFFICES ASSUME NEW d \in Seen'
               PROVE  seen'[d] >= snap.shown[d] /\ (seen'[d] >= announced[d] \/ tokens # {})
    BY <1>6 DEF ScanKeepsUp, Inspects, actorVars
  <2>1. CASE d # c
    <3>1. d \in Seen /\ seen'[d] = seen[d]
      BY <1>6, <2>1 DEF Inspects, TypeOK
    <3> QED
      BY <1>6, <3>1 DEF ScanKeepsUp, Inspects
  <2>2. CASE d = c
    <3>1. seen'[c] = world[c]
      BY <1>6, <2>2 DEF Inspects, TypeOK
    <3>2. /\ world[c] \in Nat /\ announced[c] \in Nat /\ snap.shown[c] \in Nat
          /\ announced[c] <= world[c] /\ snap.shown[c] <= world[c]
      BY Types DEF NothingIsMadeUp
    <3> QED
      BY <2>2, <3>1, <3>2
  <2> QED
    BY <2>1, <2>2
<1>7. CASE WalkFails \/ Publishes
  BY <1>2, <1>7 DEF WalkFails, Publishes, EndsScan
<1>8. ASSUME NEW o \in Owners, Lists(o)
      PROVE  ScanKeepsUp'
  BY <1>1, <1>8 DEF Lists
<1>9. ASSUME NEW c \in Remotes, FetchBegins(c) \/ FetchSkips(c) \/ FetchEnds(c)
      PROVE  ScanKeepsUp'
  BY <1>1, <1>9 DEF FetchBegins, FetchSkips, FetchEnds
<1>10. CASE BeginsScan
  BY <1>0, <1>10 DEF BeginsScan, ScanKeepsUp
<1>11. CASE RoundEnds \/ SelectScan
  BY <1>10, <1>11 DEF RoundEnds, SelectScan
<1>12. CASE SelectGhosts \/ SelectFetch \/ SelectDone
  BY <1>2, <1>12 DEF SelectGhosts, SelectFetch, SelectDone
<1> QED
  BY <1>3, <1>4, <1>5, <1>6, <1>7, <1>8, <1>9, <1>11, <1>12 DEF Next, Scan, FetchAll, Select

\* What a scan publishes is as new as what was shown, and as what was signalled.
LEMMA RunMayWaitStep ==
    ASSUME TypeOK, StagesAreApart, ScanKeepsUp, RunMayWait, [Next]_vars
    PROVE  RunMayWait'
<1> SUFFICES ASSUME pc' = "waiting", tokens' = {}, walkErrors' = 0, ~cancelled',
                    NEW c \in Checkouts \ snap'.failed
             PROVE  snap'.shown[c] >= announced'[c]
  BY DEF RunMayWait
<1>0. TypeOK' /\ walkErrors \in Nat
  BY TypesStep, IndexConfig DEF TypeOK
<1>1. ASSUME UNCHANGED <<pc, snap, announced, walkErrors, cancelled>>, tokens = {}
      PROVE  snap'.shown[c] >= announced'[c]
  BY <1>1 DEF RunMayWait
<1>2. ASSUME NEW a \in Actors, Act(a)
      PROVE  snap'.shown[c] >= announced'[c]
  BY <1>1, <1>2 DEF Act, ActorBegins, ActorEnds, ActorSignals, Signal
<1>3. CASE Refresh \/ Cancel \/ UNCHANGED vars
  BY <1>1, <1>3 DEF Refresh, Cancel, Signal, vars, actorVars
<1>4. ASSUME NEW d \in Checkouts, WalkVisits(d) \/ Inspects(d)
      PROVE  FALSE
  BY <1>4 DEF WalkVisits, Inspects
<1>5. CASE WalkFails
  <2>1. walkErrors' = walkErrors + 1 \/ cancelled'
    BY <1>5 DEF WalkFails
  <2> QED
    BY <1>0, <2>1
<1>6. CASE Publishes
  <2>1. /\ unvisited = {} /\ toInspect = {} /\ pc = "inspecting" /\ tokens = {}
        /\ snap'.shown = seen /\ snap'.failed = failed /\ announced' = announced
    BY <1>6 DEF Publishes, StagesAreApart, actorVars
  <2>2. c \in Checkouts \ (unvisited \cup toInspect \cup failed)
    BY <2>1
  <2> QED
    BY <2>1, <2>2 DEF ScanKeepsUp
<1>7. ASSUME NEW o \in Owners, Lists(o)
      PROVE  FALSE
  BY <1>7 DEF Lists
<1>8. ASSUME NEW d \in Remotes, FetchBegins(d) \/ FetchSkips(d) \/ FetchEnds(d)
      PROVE  FALSE
  BY <1>8 DEF FetchBegins, FetchSkips, FetchEnds
<1>9. CASE RoundEnds \/ Select
  BY <1>9 DEF RoundEnds, Select, SelectScan, SelectGhosts, SelectFetch, SelectDone, BeginsScan
<1> QED
  BY <1>2, <1>3, <1>4, <1>5, <1>6, <1>7, <1>8, <1>9 DEF Next, Scan, FetchAll

LEMMA ListingsAreToldStep ==
    ASSUME TypeOK, ListingsAreTold, [Next]_vars
    PROVE  ListingsAreTold'
<1> SUFFICES ASSUME NEW o \in Owners
             PROVE  /\ listing'[o] = "old" => o \in ghostWarn'
                    /\ snap'.listing[o] = "old" => o \in snap'.warned
                    /\ snap'.listing[o] # "none" => listing'[o] # "none"
  BY DEF ListingsAreTold
<1>1. /\ listing[o] = "old" => o \in ghostWarn
      /\ snap.listing[o] = "old" => o \in snap.warned
      /\ snap.listing[o] # "none" => listing[o] # "none"
  BY DEF ListingsAreTold
<1>2. \/ UNCHANGED <<listing, ghostWarn>>
      \/ snap' = snap /\ \E p \in Owners : Lists(p)
  BY DEF Next, Act, ActorBegins, ActorEnds, ActorSignals, Refresh, Cancel, Scan,
     WalkVisits, Inspects, WalkFails, Publishes, Lists, FetchAll, FetchBegins,
     FetchSkips, FetchEnds, RoundEnds, Select, SelectScan, SelectGhosts, SelectFetch, SelectDone,
     Ready, vars, listVars
<1>3. CASE UNCHANGED <<listing, ghostWarn>>
  <2>1. CASE snap' = snap
    BY <1>1, <1>3, <2>1
  <2>2. CASE snap' = [shown |-> seen, failed |-> failed, listing |-> listing, warned |-> ghostWarn]
    BY <1>1, <1>3, <2>2
  <2> QED
    BY <2>1, <2>2, ShownHow
<1>4. ASSUME snap' = snap, NEW p \in Owners, Lists(p)
      PROVE  /\ listing'[o] = "old" => o \in ghostWarn'
             /\ listing[o] # "none" => listing'[o] # "none"
  <2>1. CASE o = p
    BY <1>4, <2>1 DEF Lists, TypeOK
  <2>2. CASE o # p
    BY <1>1, <1>4, <2>2 DEF Lists, TypeOK
  <2> QED
    BY <2>1, <2>2
<1> QED
  BY <1>1, <1>2, <1>3, <1>4

----------------------------------------------------------------------------
(* The theorems. *)

\* In every reachable state: listings, fetch rounds and scans are apart; a scan
\* keeps up with the last snapshot and with the signals; Run waits only when
\* everything signalled is shown; and an old listing has its warning.
THEOREM IndexInvariant == Spec => []IndexInv
<1>1. IndexInv /\ [Next]_vars => IndexInv'
  BY TypesStep, StagesStep, NothingIsMadeUpStep, ScanKeepsUpStep, RunMayWaitStep,
     ListingsAreToldStep DEF IndexInv
<1> QED
  BY <1>1, IndexInit, PTL DEF Spec

\* No signal is lost: the depth-1 channels may drop it, and Run be at any
\* stage, but a scan that will see the change is due.
THEOREM WakeupsAreNotLost == Spec => []NoLostWakeup
<1>1. IndexInv => NoLostWakeup
  <2> SUFFICES ASSUME IndexInv, walkErrors = 0, NEW c \in Checkouts, announced[c] > snap.shown[c],
                      c \notin snap.failed, ~cancelled
               PROVE  OnItsWay(c)
    BY DEF NoLostWakeup
  <2>1. TypeOK /\ announced[c] \in Nat /\ snap.shown[c] \in Nat
    BY Types DEF IndexInv
  <2>2. CASE pc = "waiting"
    <3>1. tokens # {}
      BY <2>1, <2>2 DEF IndexInv, RunMayWait
    <3> QED
      BY <3>1 DEF OnItsWay
  <2>3. CASE pc \in {"walking", "inspecting"}
    BY <2>3 DEF IndexInv, ScanKeepsUp, StagesAreApart, OnItsWay
  <2> QED
    BY <2>1, <2>2, <2>3 DEF TypeOK, OnItsWay
<1> QED
  BY <1>1, IndexInvariant, PTL

\* A snapshot takes nothing back that it does not have a warning for.
THEOREM SnapshotsTakeNothingBack == Spec => NothingVanishesSilently
<1>1. ASSUME IndexInv, [Next]_vars, NEW c \in Checkouts, snap'.shown[c] < snap.shown[c]
      PROVE  c \in snap'.failed
  <2>1. TypeOK /\ seen[c] \in Nat /\ snap.shown[c] \in Nat
    BY <1>1, Types DEF IndexInv
  <2>2. /\ Publishes
        /\ snap' = [shown |-> seen, failed |-> failed, listing |-> listing, warned |-> ghostWarn]
    BY <1>1, <2>1, ShownHow
  <2>3. unvisited = {} /\ toInspect = {} /\ pc = "inspecting"
    BY <1>1, <2>2 DEF Publishes, IndexInv, StagesAreApart
  <2>4. ~(seen[c] >= snap.shown[c])
    BY <1>1, <2>1, <2>2
  <2>5. c \in failed
    BY <1>1, <2>3, <2>4 DEF IndexInv, ScanKeepsUp
  <2> QED
    BY <2>2, <2>5
<1>2. IndexInv /\ [Next]_vars =>
        [\A c \in Checkouts : snap'.shown[c] < snap.shown[c] => c \in snap'.failed]_vars
  BY <1>1
<1> QED
  BY <1>2, IndexInvariant, PTL DEF Spec, NothingVanishesSilently

----------------------------------------------------------------------------
(* What readers see. *)

LEMMA ReadersInit == Init => Readers!Init
<1> SUFFICES ASSUME Init
             PROVE  Readers!Init
  OBVIOUS
<1>1. world \in [Checkouts -> Nat]
  BY DEF Init
<1> QED
  BY <1>1 DEF Init, Nothing, Unlisted, Readers!Init

\* A step of the index publishes, or changes the disk, or is not seen.
LEMMA ReadersStep ==
    ASSUME IndexInv, IndexInv', [Next]_vars
    PROVE  [Readers!Next]_(Readers!vars)
<1>1. CASE UNCHANGED snap
  <2>1. world' \in [Checkouts -> Nat] /\ \A c \in Checkouts : world'[c] >= world[c]
    <3>1. TypeOK /\ TypeOK'
      BY DEF IndexInv
    <3>2. \A c \in Checkouts : world[c] \in Nat /\ world'[c] \in Nat /\ world[c] <= world'[c]
      BY <3>1, Types, WorldGrows DEF TypeOK, Versions
    <3>3. world' \in [Checkouts -> Versions]
      BY <3>1 DEF TypeOK
    <3> QED
      BY <3>2, <3>3
  <2> QED
    BY <1>1, <2>1 DEF Readers!Next, Readers!Change
<1>2. CASE snap' # snap
  <2>1. /\ Publishes
        /\ snap' = [shown |-> seen, failed |-> failed, listing |-> listing, warned |-> ghostWarn]
    BY <1>2, ShownHow
  <2>2. UNCHANGED world
    BY <2>1 DEF Publishes
  <2>3. snap' \in Readers!Snapshot
    <3>1. /\ seen \in [Checkouts -> Versions] /\ failed \in SUBSET Checkouts
          /\ listing \in [Owners -> {"none", "current", "old"}] /\ ghostWarn \in SUBSET Owners
      BY DEF IndexInv, TypeOK
    <3>2. \A c \in Checkouts : seen[c] \in Nat
      BY Types DEF IndexInv
    <3>3. seen \in [Checkouts -> Nat]
      BY <3>1, <3>2
    <3> QED
      BY <2>1, <3>1, <3>3 DEF Readers!Snapshot
  <2>4. \A c \in Checkouts : snap'.shown[c] <= world[c]
    BY <2>1 DEF IndexInv, NothingIsMadeUp
  <2>5. \A c \in Checkouts : snap'.shown[c] >= snap.shown[c] \/ c \in snap'.failed
    <3>1. unvisited = {} /\ toInspect = {} /\ pc = "inspecting"
      BY <2>1 DEF Publishes, IndexInv, StagesAreApart
    <3> QED
      BY <2>1, <3>1 DEF IndexInv, ScanKeepsUp
  <2>6. \A o \in Owners : /\ snap'.listing[o] = "none" => snap.listing[o] = "none"
                          /\ snap'.listing[o] = "old" => o \in snap'.warned
    BY <2>1 DEF IndexInv, ListingsAreTold
  <2> QED
    BY <2>2, <2>3, <2>4, <2>5, <2>6
       DEF Readers!Next, Readers!Publish, Readers!Follows
<1> QED
  BY <1>1, <1>2

\* The index, whatever is requested of it and whatever changes under it,
\* implements what its readers may rely on.
THEOREM IndexImplementsSnapshots == Spec => SnapshotsAreHonest
<1>1. IndexInv /\ IndexInv' /\ [Next]_vars => [Readers!Next]_(Readers!vars)
  BY ReadersStep
<1> QED
  BY <1>1, ReadersInit, IndexInvariant, PTL DEF Spec, SnapshotsAreHonest, Readers!Spec
=============================================================================
