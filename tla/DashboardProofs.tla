-------------------------- MODULE DashboardProofs --------------------------
(***************************************************************************)
(* Theorems about Dashboard, for any jobs, any rows and any number of      *)
(* failed requests.                                                        *)
(***************************************************************************)
EXTENDS Dashboard, SequenceTheorems, TLAPS

\* What goes over the wire is a fragment.
LEMMA Fragments ==
    ASSUME TypeOK
    PROVE  Asked \in Fragment /\ Reading \in Fragment
<1>1. [j \in {} |-> "none"] \in [{} -> States] /\ {} \in SUBSET Jobs
  OBVIOUS
<1>2. [j \in Retained |-> job[j]] \in [Retained -> States] /\ Retained \in SUBSET Jobs
  BY DEF TypeOK, Retained, States
<1>3. Targets \ snap \in SUBSET Targets
  OBVIOUS
<1> QED
  BY <1>1, <1>2, <1>3 DEF Fragment, Asked, Reading

\* A fragment's list is one of jobs.
LEMMA FragmentFields ==
    ASSUME NEW f \in Fragment
    PROVE  /\ DOMAIN f.jobs \in SUBSET Jobs
           /\ \A j \in DOMAIN f.jobs : f.jobs[j] \in States
           /\ f.ghosts \in SUBSET Targets
BY DEF Fragment

\* With at most one request in flight, the one that ends leaves none, and the
\* one that is rendered is the reading.
LEMMA OneRequest ==
    ASSUME TypeOK, PollingGoesOn, NEW i \in 1 .. Len(wire)
    PROVE  /\ i = 1 /\ Len(wire) = 1
           /\ wire[i] \in Fragment
           /\ SubSeq(wire, 1, i - 1) \o SubSeq(wire, i + 1, Len(wire)) = << >>
           /\ [wire EXCEPT ![i] = Reading] = <<Reading>>
<1>1. wire \in Seq(Fragment) /\ Len(wire) \in Nat
  BY DEF TypeOK
<1>2. i = 1 /\ Len(wire) = 1
  <2>1. Len(wire) <= 1
    BY DEF PollingGoesOn
  <2>2. i \in Nat /\ 1 <= i /\ i <= Len(wire)
    BY <1>1
  <2>3. \A n \in Nat : n <= 1 /\ 1 <= i /\ i <= n => i = 1 /\ n = 1
    BY <2>2
  <2> QED
    BY <1>1, <2>1, <2>2, <2>3
<1>3. wire[i] \in Fragment
  BY <1>1, <1>2
<1>4. SubSeq(wire, 1, 0) = << >> /\ SubSeq(wire, 2, 1) = << >>
  BY <1>1, <1>2
<1>5. << >> \o << >> = << >>
  OBVIOUS
<1>6. SubSeq(wire, 1, i - 1) \o SubSeq(wire, i + 1, Len(wire)) = << >>
  <2>1. i - 1 = 0 /\ i + 1 = 2
    BY <1>2
  <2> QED
    BY <1>2, <1>4, <1>5, <2>1
<1>7. [wire EXCEPT ![i] = Reading] = <<Reading>>
  BY <1>1, <1>2
<1> QED
  BY <1>2, <1>3, <1>6, <1>7

\* What a step may do to the wire.
WireMoves == wire' \in {wire, << >>, <<Asked>>, <<Reading>>}

\* A refresh asks for a fragment unless one is out, and polling goes on.
LEMMA RefreshPolls ==
    ASSUME NEW set \in BOOLEAN, Refresh(set), PollingGoesOn
    PROVE  wire' \in {wire, <<Asked>>} /\ timer' \in BOOLEAN /\ PollingGoesOn'
<1>1. CASE wire = << >>
  <2>1. wire' = <<Asked>> /\ timer' = set
    BY <1>1 DEF Refresh
  <2>2. Len(<<Asked>>) = 1 /\ <<Asked>> # << >>
    OBVIOUS
  <2> QED
    BY <2>1, <2>2 DEF PollingGoesOn
<1>2. CASE wire # << >>
  <2>1. wire' = wire /\ timer' = TRUE
    BY <1>2 DEF Refresh
  <2> QED
    BY <2>1 DEF PollingGoesOn
<1> QED
  BY <1>1, <1>2

LEMMA FreshIsUnused == Unused # {} => Fresh \in Jobs /\ job[Fresh] = "none"
BY DEF Unused, Fresh

LEMMA DashboardInit == Init => DashboardInv
<1> SUFFICES ASSUME Init
             PROVE  DashboardInv
  OBVIOUS
<1>1. TypeOK
  <2>1. 0 \in 0 .. MaxLosses
    BY MaxLossesIsNat
  <2>2. << >> \in Seq(Fragment)
    OBVIOUS
  <2>3. "none" \in States /\ "ready" \in Buttons
    BY DEF States, Buttons
  <2>4. wire \in Seq(Fragment) /\ losses \in 0 .. MaxLosses
    BY <2>1, <2>2 DEF Init
  <2>5. /\ job \in [Jobs -> States \cup {"forgotten"}]
        /\ target \in [Jobs -> Targets \cup {NoTarget}]
        /\ seen \in [Jobs -> States] /\ dismissed \in [Jobs -> States]
    BY <2>3 DEF Init
  <2>6. /\ post \in [Targets -> {"none", "sent", "accepted", "refused"}]
        /\ row \in [Targets -> Buttons \cup {"gone"}]
    BY <2>3 DEF Init
  <2> QED
    BY <2>4, <2>5, <2>6 DEF Init, TypeOK
<1>2. PollingGoesOn
  BY DEF Init, PollingGoesOn
<1>3. RowsSpin
  BY DEF Init, RowsSpin, Retained, Outcomes
<1>4. RemembersRight
  BY DEF Init, RemembersRight, Outcomes
<1>5. FragmentsTellRight
  BY DEF Init, FragmentsTellRight
<1> QED
  BY <1>1, <1>2, <1>3, <1>4, <1>5 DEF DashboardInv

----------------------------------------------------------------------------
(* Polling.                                                                *)

LEMMA PollingStep ==
    ASSUME TypeOK, PollingGoesOn, [Next]_vars
    PROVE  PollingGoesOn' /\ WireMoves
<1> USE DEF registry, server, page
<1>0. timer \in BOOLEAN
  BY DEF TypeOK
<1>1. ASSUME wire' = wire, timer' \in {timer, TRUE}
      PROVE  PollingGoesOn' /\ WireMoves
  BY <1>1 DEF PollingGoesOn, WireMoves
<1>2. ASSUME wire' = << >>, timer' = TRUE
      PROVE  PollingGoesOn' /\ WireMoves
  BY <1>2 DEF PollingGoesOn, WireMoves
<1>3. ASSUME NEW set \in BOOLEAN, Refresh(set)
      PROVE  PollingGoesOn' /\ WireMoves
  BY <1>3, RefreshPolls DEF WireMoves
<1>4. CASE Server \/ UNCHANGED vars
  BY <1>1, <1>4 DEF Server, OthersClone, Serves, JobFinishes, JobForgotten, Rescan, vars
<1>5. CASE Tick
  BY <1>1, <1>3, <1>5 DEF Tick
<1>6. ASSUME NEW i \in 1 .. Len(wire), Renders(i)
      PROVE  PollingGoesOn' /\ WireMoves
  <2>1. wire' = <<Reading>>
    BY <1>6, OneRequest DEF Renders
  <2> QED
    BY <2>1 DEF PollingGoesOn, WireMoves
<1>7. ASSUME NEW i \in 1 .. Len(wire), Arrives(i) \/ FragmentFails(i)
      PROVE  PollingGoesOn' /\ WireMoves
  BY <1>2, <1>7, OneRequest DEF Arrives, FragmentFails
<1>8. CASE Hides \/ Reloads
  BY <1>1, <1>2, <1>8 DEF Hides, Reloads
<1>9. CASE ShowsAgain
  BY <1>0, <1>3, <1>9 DEF ShowsAgain
<1>10. ASSUME NEW t \in Targets, Asks(t)
       PROVE  PollingGoesOn' /\ WireMoves
  BY <1>1, <1>10 DEF Asks
<1>11. ASSUME NEW t \in Targets, Answered(t) \/ RequestFails(t)
       PROVE  PollingGoesOn' /\ WireMoves
  BY <1>0, <1>3, <1>11 DEF Answered, RequestFails
<1>12. ASSUME NEW j \in Jobs, ToastGoes(j)
       PROVE  PollingGoesOn' /\ WireMoves
  BY <1>1, <1>12 DEF ToastGoes
<1> QED
  BY <1>4, <1>5, <1>6, <1>7, <1>8, <1>9, <1>10, <1>11, <1>12 DEF Next, Polling, User

----------------------------------------------------------------------------
(* Types.                                                                  *)

LEMMA WireTypes ==
    ASSUME TypeOK, WireMoves
    PROVE  wire' \in Seq(Fragment)
<1>1. wire \in Seq(Fragment)
  BY DEF TypeOK
<1>2. Asked \in Fragment /\ Reading \in Fragment
  BY Fragments
<1>3. << >> \in Seq(Fragment) /\ <<Asked>> \in Seq(Fragment) /\ <<Reading>> \in Seq(Fragment)
  BY <1>2
<1> QED
  BY <1>1, <1>3 DEF WireMoves

LEMMA RowsTypes ==
    ASSUME NEW f, NEW marks
    PROVE  Rows(f, marks) \in [Targets -> Buttons \cup {"gone"}]
BY DEF Rows, Buttons

\* The records of the registry.
LEMMA RegistryTypes ==
    ASSUME TypeOK, [Next]_vars
    PROVE  /\ job' \in [Jobs -> States \cup {"forgotten"}]
           /\ target' \in [Jobs -> Targets \cup {NoTarget}]
<1> USE DEF TypeOK, registry, server, page
<1>1. ASSUME NEW t \in Targets, StartsClone(t)
      PROVE  /\ job' \in [Jobs -> States \cup {"forgotten"}]
             /\ target' \in [Jobs -> Targets \cup {NoTarget}]
  BY <1>1, FreshIsUnused DEF StartsClone, States
<1>2. CASE UNCHANGED registry
  BY <1>2
<1>3. CASE Server
  BY <1>1, <1>2, <1>3 DEF Server, OthersClone, Serves, JobFinishes, JobForgotten, Rescan, States
<1>4. CASE Polling \/ User \/ UNCHANGED vars
  BY <1>2, <1>4 DEF Polling, User, Tick, Renders, Arrives, FragmentFails, Hides, ShowsAgain, Reloads,
                    Asks, Answered, RequestFails, ToastGoes, vars
<1> QED
  BY <1>3, <1>4 DEF Next

\* The disk and the snapshot.
LEMMA ServerTypes ==
    ASSUME TypeOK, RemembersRight, [Next]_vars
    PROVE  cloned' \in SUBSET Targets /\ snap' \in SUBSET Targets
<1> USE DEF TypeOK, registry, server, page
<1>1. CASE UNCHANGED server
  BY <1>1
<1>2. ASSUME NEW j \in Jobs, NEW outcome \in Outcomes, JobFinishes(j, outcome)
      PROVE  cloned' \in SUBSET Targets /\ snap' \in SUBSET Targets
  BY <1>2 DEF JobFinishes, RemembersRight
<1>3. CASE Rescan
  BY <1>3 DEF Rescan
<1>4. CASE UNCHANGED vars \/ Polling \/ User
  BY <1>1, <1>4 DEF Polling, User, Tick, Renders, Arrives, FragmentFails, Hides, ShowsAgain, Reloads,
                    Asks, Answered, RequestFails, ToastGoes, vars
<1> QED
  BY <1>1, <1>2, <1>3, <1>4 DEF Next, Server, OthersClone, Serves, JobForgotten

LEMMA PageTypes ==
    ASSUME TypeOK, PollingGoesOn, [Next]_vars
    PROVE  /\ timer' \in BOOLEAN /\ hidden' \in BOOLEAN
           /\ post' \in [Targets -> {"none", "sent", "accepted", "refused"}]
           /\ row' \in [Targets -> Buttons \cup {"gone"}]
           /\ pending' \in SUBSET Targets
           /\ losses' \in 0 .. MaxLosses
<1> DEFINE Goal == /\ timer' \in BOOLEAN /\ hidden' \in BOOLEAN
                   /\ post' \in [Targets -> {"none", "sent", "accepted", "refused"}]
                   /\ row' \in [Targets -> Buttons \cup {"gone"}]
                   /\ pending' \in SUBSET Targets
                   /\ losses' \in 0 .. MaxLosses
<1> USE DEF TypeOK, registry, server, page
<1>0. timer \in BOOLEAN /\ FALSE \in BOOLEAN
  OBVIOUS
<1>1. CASE Server \/ UNCHANGED vars
  BY <1>1 DEF Server, OthersClone, Serves, JobFinishes, JobForgotten, Rescan, vars
<1>2. CASE Tick
  <2>1. timer' \in BOOLEAN
    BY <1>0, <1>2, RefreshPolls DEF Tick
  <2> QED
    BY <1>2, <2>1 DEF Tick
<1>3. ASSUME NEW i \in 1 .. Len(wire), Renders(i)
      PROVE  Goal
  BY <1>3 DEF Renders
<1>4. ASSUME NEW i \in 1 .. Len(wire), Arrives(i)
      PROVE  Goal
  <2>1. row' \in [Targets -> Buttons \cup {"gone"}]
    BY <1>4, RowsTypes DEF Arrives
  <2>2. pending' \in SUBSET Targets
    BY <1>4 DEF Arrives, StillPending
  <2> QED
    BY <1>4, <2>1, <2>2 DEF Arrives
<1>5. ASSUME NEW i \in 1 .. Len(wire), FragmentFails(i)
      PROVE  Goal
  BY <1>5, MaxLossesIsNat DEF FragmentFails
<1>6. CASE Hides
  BY <1>6 DEF Hides
<1>7. CASE ShowsAgain
  <2>1. timer' \in BOOLEAN
    BY <1>0, <1>7, RefreshPolls DEF ShowsAgain
  <2> QED
    BY <1>7, <2>1 DEF ShowsAgain
<1>8. CASE Reloads
  <2>1. row' \in [Targets -> Buttons \cup {"gone"}]
    BY <1>8, RowsTypes DEF Reloads, Loaded
  <2> QED
    BY <1>8, <2>1 DEF Reloads
<1>9. ASSUME NEW t \in Targets, Asks(t)
      PROVE  Goal
  BY <1>9 DEF Asks, Buttons
<1>10. ASSUME NEW t \in Targets, Answered(t) \/ RequestFails(t)
       PROVE  Goal
  <2>1. timer' \in BOOLEAN
    BY <1>0, <1>10, RefreshPolls DEF Answered, RequestFails
  <2>2. row' \in [Targets -> Buttons \cup {"gone"}]
    BY <1>10 DEF Answered, RequestFails, Release, Buttons
  <2>3. losses' \in 0 .. MaxLosses
    BY <1>10, MaxLossesIsNat DEF Answered, RequestFails
  <2>4. hidden' \in BOOLEAN /\ pending' \in SUBSET Targets
    BY <1>10 DEF Answered, RequestFails
  <2>5. post' \in [Targets -> {"none", "sent", "accepted", "refused"}]
    BY <1>10 DEF Answered, RequestFails
  <2> QED
    BY <2>1, <2>2, <2>3, <2>4, <2>5
<1>11. ASSUME NEW j \in Jobs, ToastGoes(j)
       PROVE  Goal
  BY <1>11 DEF ToastGoes
<1> QED
  BY <1>1, <1>2, <1>3, <1>4, <1>5, <1>6, <1>7, <1>8, <1>9, <1>10, <1>11 DEF Next, Polling, User

\* What the page remembers and shows of the jobs.
LEMMA MemoryTypes ==
    ASSUME TypeOK, PollingGoesOn, [Next]_vars
    PROVE  /\ seen' \in [Jobs -> States] /\ dismissed' \in [Jobs -> States]
           /\ toasts' \in SUBSET Jobs
<1> DEFINE Goal == /\ seen' \in [Jobs -> States] /\ dismissed' \in [Jobs -> States]
                   /\ toasts' \in SUBSET Jobs
<1> USE DEF TypeOK, registry, server, page
<1>1. CASE Server \/ UNCHANGED vars
  BY <1>1 DEF Server, OthersClone, Serves, JobFinishes, JobForgotten, Rescan, vars
<1>2. CASE UNCHANGED <<seen, dismissed, toasts>>
  BY <1>2
<1>3. ASSUME NEW i \in 1 .. Len(wire), Arrives(i)
      PROVE  Goal
  <2>1. wire[i] \in Fragment
    BY OneRequest
  <2>2. News(wire[i]) \in SUBSET Jobs /\ \A j \in News(wire[i]) : wire[i].jobs[j] \in States
    BY <2>1, FragmentFields DEF News
  <2> QED
    BY <1>3, <2>2 DEF Arrives
<1>4. CASE Reloads
  <2>1. "none" \in States
    BY DEF States
  <2>2. DOMAIN Reading.jobs \in SUBSET Jobs /\ \A j \in DOMAIN Reading.jobs : Reading.jobs[j] \in States
    BY Fragments, FragmentFields
  <2> QED
    BY <1>4, <2>1, <2>2 DEF Reloads, Loaded
<1>5. ASSUME NEW j \in Jobs, ToastGoes(j)
      PROVE  Goal
  BY <1>5 DEF ToastGoes
<1> QED
  BY <1>1, <1>2, <1>3, <1>4, <1>5
     DEF Next, Polling, User, Tick, Renders, FragmentFails, Hides, ShowsAgain, Asks, Answered, RequestFails

LEMMA TypesStep ==
    ASSUME TypeOK, PollingGoesOn, RemembersRight, [Next]_vars
    PROVE  TypeOK'
<1>1. wire' \in Seq(Fragment)
  BY PollingStep, WireTypes
<1> QED
  BY <1>1, RegistryTypes, ServerTypes, PageTypes, MemoryTypes DEF TypeOK

----------------------------------------------------------------------------
(* What the page and its fragments know of the jobs.                       *)

\* What is known of a job is what the registry held, holds or has forgotten:
\* it survives every step of the registry.
RegistryMoves ==
    \A j \in Jobs :
        /\ job[j] # "none" => job'[j] # "none" /\ target'[j] = target[j]
        /\ job[j] \in Outcomes \cup {"forgotten"} => job'[j] \in {job[j], "forgotten"}
        /\ job[j] = "none" => job'[j] \in {"none", "running"}
        /\ job[j] = "none" /\ job'[j] # "none" => target'[j] \in Targets

LEMMA RegistryStep ==
    ASSUME TypeOK, [Next]_vars
    PROVE  RegistryMoves
<1> USE DEF TypeOK, registry, server, page
<1>1. ASSUME NEW t \in Targets, StartsClone(t)
      PROVE  RegistryMoves
  <2>1. Fresh \in Jobs /\ job[Fresh] = "none" /\ target' = [target EXCEPT ![Fresh] = t]
    BY <1>1, FreshIsUnused DEF StartsClone
  <2>2. PICK gone \in SUBSET Retained :
           /\ \A j \in gone : job[j] \in Outcomes
           /\ job' = [j \in Jobs |-> IF j = Fresh THEN "running"
                                    ELSE IF j \in gone THEN "forgotten" ELSE job[j]]
    BY <1>1 DEF StartsClone, MayGo
  <2> HIDE DEF Fresh
  <2>3. \A j \in Jobs \ {Fresh} :
           /\ target'[j] = target[j]
           /\ job'[j] = job[j] \/ (job[j] \in Outcomes /\ job'[j] = "forgotten")
    BY <2>1, <2>2
  <2>4. job'[Fresh] = "running" /\ target'[Fresh] = t
    BY <2>1, <2>2
  <2>5. \A j \in Jobs \ {Fresh} :
           /\ job[j] # "none" => job'[j] # "none"
           /\ job[j] = "none" => job'[j] = "none"
           /\ job[j] \in Outcomes \cup {"forgotten"} => job'[j] \in {job[j], "forgotten"}
    BY <2>3 DEF Outcomes
  <2> QED
    BY <2>1, <2>3, <2>4, <2>5 DEF RegistryMoves, Outcomes
<1>2. CASE UNCHANGED registry
  BY <1>2 DEF RegistryMoves
<1>3. ASSUME NEW j \in Jobs, NEW outcome \in Outcomes, JobFinishes(j, outcome)
      PROVE  RegistryMoves
  BY <1>3 DEF JobFinishes, RegistryMoves, Outcomes
<1>4. ASSUME NEW j \in Jobs, JobForgotten(j)
      PROVE  RegistryMoves
  BY <1>4 DEF JobForgotten, RegistryMoves, Outcomes
<1>5. CASE Rescan \/ Polling \/ User \/ UNCHANGED vars
  BY <1>2, <1>5 DEF Rescan, Polling, User, Tick, Renders, Arrives, FragmentFails, Hides, ShowsAgain,
                    Reloads, Asks, Answered, RequestFails, ToastGoes, vars
<1> QED
  BY <1>1, <1>2, <1>3, <1>4, <1>5 DEF Next, Server, OthersClone, Serves

\* A fragment told right goes on telling right while the page remembers the
\* same.
LEMMA TellsOn ==
    ASSUME TypeOK, RegistryMoves, UNCHANGED seen, NEW f, f' = f, TellsRight(f)
    PROVE  TellsRight(f)'
BY DEF TypeOK, RegistryMoves, TellsRight, States, Outcomes

\* A reading tells right when it is made.
LEMMA ReadingTellsRight ==
    ASSUME TypeOK, RemembersRight
    PROVE  TellsRight(Reading)
<1> SUFFICES ASSUME NEW j \in Jobs
             PROVE  IF j \in Retained
                    THEN /\ job[j] # "none"
                         /\ job[j] \in Outcomes => job[j] \in {job[j], "forgotten"}
                         /\ seen[j] \in Outcomes => job[j] = seen[j]
                    ELSE seen[j] = "running" => job[j] = "forgotten"
  BY DEF Reading, TellsRight
<1> QED
  BY DEF TypeOK, RemembersRight, Retained, States, Outcomes

\* What the page makes of a fragment that told right.
LEMMA ArrivalIsRemembered ==
    ASSUME TypeOK, PollingGoesOn, RemembersRight, FragmentsTellRight,
           NEW i \in 1 .. Len(wire), Arrives(i)
    PROVE  /\ wire' = << >>
           /\ \A j \in Jobs :
                /\ seen[j] \in Outcomes => j \notin News(wire[i]) /\ seen'[j] = seen[j]
                /\ seen'[j] # "none" => job[j] # "none"
                /\ seen'[j] \in Outcomes => job[j] \in {seen'[j], "forgotten"}
                /\ dismissed[j] \in Outcomes => seen'[j] = seen[j]
                /\ j \in Retained /\ seen'[j] = "running" =>
                     j \in DOMAIN wire[i].jobs /\ wire[i].jobs[j] = "running"
<1> DEFINE f == wire[i]
<1>1. wire' = << >> /\ f \in Fragment
  BY OneRequest DEF Arrives
<1>2. TellsRight(f)
  BY DEF Arrives, FragmentsTellRight
<1>3. ASSUME NEW j \in Jobs
      PROVE  /\ seen[j] \in Outcomes => j \notin News(f) /\ seen'[j] = seen[j]
             /\ seen'[j] # "none" => job[j] # "none"
             /\ seen'[j] \in Outcomes => job[j] \in {seen'[j], "forgotten"}
             /\ dismissed[j] \in Outcomes => seen'[j] = seen[j]
             /\ j \in Retained /\ seen'[j] = "running" =>
                  j \in DOMAIN f.jobs /\ f.jobs[j] = "running"
  <2> DEFINE told == f.jobs[j]
  <2>1. seen'[j] = IF j \in News(f) THEN told ELSE seen[j]
    BY DEF Arrives
  <2>2. j \in DOMAIN f.jobs => told \in {"running"} \cup Outcomes
    BY <1>1, <1>2, FragmentFields DEF TellsRight, States
  <2>3. j \in News(f) <=> /\ j \in DOMAIN f.jobs
                          /\ dismissed[j] # told
                          /\ ~(seen[j] = told /\ told # "running")
    BY DEF News
  <2>4. /\ job[j] \in States \cup {"forgotten"} /\ seen[j] \in States
        /\ seen[j] # "none" => job[j] # "none"
        /\ seen[j] \in Outcomes => job[j] \in {seen[j], "forgotten"}
        /\ dismissed[j] \in Outcomes => dismissed[j] = seen[j]
    BY DEF TypeOK, RemembersRight
  <2>5. j \in DOMAIN f.jobs =>
          /\ job[j] # "none"
          /\ told \in Outcomes => job[j] \in {told, "forgotten"}
          /\ seen[j] \in Outcomes => told = seen[j]
    BY <1>2 DEF TellsRight
  <2>6. j \notin DOMAIN f.jobs => (seen[j] = "running" => job[j] = "forgotten")
    BY <1>2 DEF TellsRight
  <2>7. j \in Retained => job[j] # "forgotten"
    BY DEF Retained, Outcomes
  <2> HIDE DEF f, told
  <2>8. seen[j] \in Outcomes => j \notin News(f) /\ seen'[j] = seen[j]
    BY <2>1, <2>3, <2>5 DEF Outcomes
  <2>9. seen'[j] # "none" => job[j] # "none"
    BY <2>1, <2>3, <2>4, <2>5
  <2>10. seen'[j] \in Outcomes => job[j] \in {seen'[j], "forgotten"}
    BY <2>1, <2>3, <2>4, <2>5
  <2>11. dismissed[j] \in Outcomes => seen'[j] = seen[j]
    BY <2>4, <2>8
  <2>12. ASSUME j \in Retained, seen'[j] = "running"
         PROVE  j \in DOMAIN f.jobs /\ told = "running"
    <3>1. CASE j \in News(f)
      BY <2>1, <2>3, <2>12, <3>1
    <3>2. CASE j \notin News(f)
      <4>1. seen[j] = "running" /\ j \in DOMAIN f.jobs
        BY <2>1, <2>6, <2>7, <2>12, <3>2
      <4> QED
        BY <2>2, <2>3, <2>4, <3>2, <4>1 DEF Outcomes
    <3> QED
      BY <3>1, <3>2
  <2> QED
    BY <2>8, <2>9, <2>10, <2>11, <2>12 DEF told
<1> QED
  BY <1>1, <1>3

\* What a page that is loaded makes of its region.
LEMMA ReloadIsRemembered ==
    ASSUME TypeOK, RemembersRight, Reloads
    PROVE  /\ wire' = << >> /\ UNCHANGED registry
           /\ row' = Rows(Reading, {})
           /\ \A j \in Jobs :
                /\ seen'[j] = IF j \in Retained THEN job[j] ELSE "none"
                /\ dismissed'[j] = "none"
                /\ j \in toasts' => job[j] = "running"
BY DEF Reloads, Loaded, Reading

LEMMA RemembersStep ==
    ASSUME TypeOK, PollingGoesOn, RemembersRight, FragmentsTellRight, [Next]_vars
    PROVE  RemembersRight'
<1> USE DEF registry, server, page
<1>0. RegistryMoves
  BY RegistryStep
<1>1. CASE UNCHANGED <<seen, dismissed>>
  BY <1>0, <1>1 DEF TypeOK, RegistryMoves, RemembersRight, States, Outcomes
<1>2. ASSUME NEW i \in 1 .. Len(wire), Arrives(i)
      PROVE  RemembersRight'
  <2>1. job' = job /\ target' = target /\ dismissed' = dismissed
    BY <1>2 DEF Arrives
  <2> QED
    BY <1>2, <2>1, ArrivalIsRemembered DEF RemembersRight
<1>3. CASE Reloads
  BY <1>3, ReloadIsRemembered DEF RemembersRight, Retained, Outcomes
<1>4. ASSUME NEW j \in Jobs, ToastGoes(j)
      PROVE  RemembersRight'
  BY <1>4 DEF TypeOK, ToastGoes, RemembersRight
<1>5. CASE Server \/ UNCHANGED vars
  BY <1>1, <1>5 DEF Server, OthersClone, Serves, JobFinishes, JobForgotten, Rescan, vars
<1> QED
  BY <1>1, <1>2, <1>3, <1>4, <1>5
     DEF Next, Polling, User, Tick, Renders, FragmentFails, Hides, ShowsAgain, Asks, Answered, RequestFails

LEMMA FragmentsStep ==
    ASSUME TypeOK, PollingGoesOn, RemembersRight, FragmentsTellRight, [Next]_vars
    PROVE  FragmentsTellRight'
<1> USE DEF registry, server, page
<1>0. RegistryMoves
  BY RegistryStep
<1>1. CASE wire' = << >>
  BY <1>1 DEF FragmentsTellRight
<1>2. CASE wire' = <<Asked>>
  BY <1>2 DEF FragmentsTellRight, Asked
<1>3. CASE wire' = wire /\ UNCHANGED seen
  BY <1>0, <1>3 DEF TypeOK, RegistryMoves, FragmentsTellRight, TellsRight, States, Outcomes
<1>4. ASSUME NEW i \in 1 .. Len(wire), Renders(i)
      PROVE  FragmentsTellRight'
  <2>1. wire' = <<Reading>> /\ UNCHANGED <<job, seen>>
    BY <1>4, OneRequest DEF Renders
  <2>2. \A k \in 1 .. Len(wire') : wire'[k] = Reading
    BY <2>1
  <2>3. TellsRight(Reading)
    BY ReadingTellsRight
  <2> QED
    BY <2>1, <2>2, <2>3 DEF FragmentsTellRight, TellsRight
<1>5. ASSUME NEW i \in 1 .. Len(wire), Arrives(i) \/ FragmentFails(i)
      PROVE  FragmentsTellRight'
  BY <1>1, <1>5, OneRequest DEF Arrives, FragmentFails
<1>6. CASE Reloads
  BY <1>1, <1>6 DEF Reloads
<1>7. CASE Server \/ UNCHANGED vars
  BY <1>3, <1>7 DEF Server, OthersClone, Serves, JobFinishes, JobForgotten, Rescan, vars
<1>8. CASE Tick \/ ShowsAgain \/ Hides
  BY <1>2, <1>3, <1>8 DEF Tick, ShowsAgain, Hides, Refresh
<1>9. ASSUME NEW t \in Targets, Asks(t) \/ Answered(t) \/ RequestFails(t)
      PROVE  FragmentsTellRight'
  BY <1>2, <1>3, <1>9 DEF Asks, Answered, RequestFails, Refresh
<1>10. ASSUME NEW j \in Jobs, ToastGoes(j)
       PROVE  FragmentsTellRight'
  BY <1>3, <1>10 DEF ToastGoes
<1> QED
  BY <1>4, <1>5, <1>6, <1>7, <1>8, <1>9, <1>10 DEF Next, Polling, User

----------------------------------------------------------------------------
(* The rows.                                                               *)

LEMMA RowsStep ==
    ASSUME TypeOK, PollingGoesOn, RemembersRight, FragmentsTellRight, RowsSpin, [Next]_vars
    PROVE  RowsSpin'
<1> USE DEF registry, server, page
<1>0. /\ RegistryMoves
      /\ \A j \in Jobs : /\ job[j] # "none" => target[j] \in Targets
                         /\ job[j] = "none" => seen[j] = "none"
  BY RegistryStep DEF RemembersRight
<1>1. CASE UNCHANGED <<seen, row>>
  BY <1>0, <1>1 DEF TypeOK, RegistryMoves, RowsSpin, Retained, States, Outcomes
<1>2. ASSUME NEW i \in 1 .. Len(wire), Arrives(i)
      PROVE  RowsSpin'
  <2> SUFFICES ASSUME NEW j \in Retained, seen'[j] = "running"
               PROVE  row'[target[j]] # "ready"
    BY <1>2 DEF Arrives, RowsSpin, Retained
  <2>1. j \in Jobs /\ target[j] \in Targets
    BY <1>0 DEF Retained, Outcomes
  <2>2. target[j] \in Running(wire[i])
    BY <1>2, <2>1, ArrivalIsRemembered DEF Running
  <2> QED
    BY <1>2, <2>1, <2>2 DEF Arrives, Rows
<1>3. CASE Reloads
  <2> SUFFICES ASSUME NEW j \in Retained, seen'[j] = "running"
               PROVE  row'[target[j]] # "ready"
    BY <1>3 DEF Reloads, RowsSpin, Retained
  <2>1. j \in Jobs /\ target[j] \in Targets /\ job[j] = "running"
    BY <1>0, <1>3, ReloadIsRemembered DEF Retained, Outcomes
  <2>2. target[j] \in Running(Reading)
    BY <2>1 DEF Running, Reading
  <2> QED
    BY <1>3, <2>1, <2>2, ReloadIsRemembered DEF Rows
<1>4. ASSUME UNCHANGED <<seen, job, target>>,
             \A t \in Targets : row'[t] = "ready" => row[t] = "ready"
      PROVE  RowsSpin'
  BY <1>0, <1>4 DEF RowsSpin, Retained, Outcomes
<1>5. ASSUME NEW t \in Targets, Asks(t) \/ Answered(t) \/ RequestFails(t)
      PROVE  RowsSpin'
  BY <1>4, <1>5 DEF TypeOK, Asks, Answered, RequestFails, Release
<1>6. CASE Server \/ UNCHANGED vars
  BY <1>1, <1>6 DEF Server, OthersClone, Serves, JobFinishes, JobForgotten, Rescan, vars
<1> QED
  BY <1>1, <1>2, <1>3, <1>5, <1>6
     DEF Next, Polling, User, Tick, Renders, FragmentFails, Hides, ShowsAgain, ToastGoes

----------------------------------------------------------------------------

LEMMA DashboardStep == DashboardInv /\ [Next]_vars => DashboardInv'
<1> SUFFICES ASSUME DashboardInv, [Next]_vars
             PROVE  DashboardInv'
  OBVIOUS
<1>1. TypeOK /\ PollingGoesOn /\ RowsSpin /\ RemembersRight /\ FragmentsTellRight
  BY DEF DashboardInv
<1> QED
  BY <1>1, TypesStep, PollingStep, RowsStep, RemembersStep, FragmentsStep DEF DashboardInv

\* However requests are lost, however stale a fragment is, and whatever the
\* user does between: polling goes on with one request at a time, a row whose
\* clone the page knows spins, and neither the page nor a fragment on its way
\* says of a job what was not so (app.js: refresh, syncJobs, applyCloneBusy).
THEOREM DashboardInvariant == Spec => []DashboardInv
<1>1. Init => DashboardInv
  BY DashboardInit
<1>2. DashboardInv /\ [Next]_vars => DashboardInv'
  BY DashboardStep
<1> QED
  BY <1>1, <1>2, PTL DEF Spec

LEMMA ToastsStep ==
    ASSUME DashboardInv, [Next]_vars, NEW j \in Jobs, seen[j] \in Outcomes
    PROVE  /\ seen'[j] # "running"
           /\ j \in toasts' => j \in toasts
<1> USE DEF registry, server, page
<1>1. TypeOK /\ PollingGoesOn /\ RemembersRight /\ FragmentsTellRight
  BY DEF DashboardInv
<1>2. CASE UNCHANGED seen /\ toasts' \in SUBSET toasts
  BY <1>2 DEF Outcomes
<1>3. ASSUME NEW i \in 1 .. Len(wire), Arrives(i)
      PROVE  /\ seen'[j] # "running"
             /\ j \in toasts' => j \in toasts
  <2>1. j \notin News(wire[i]) /\ seen'[j] = seen[j]
    BY <1>1, <1>3, ArrivalIsRemembered
  <2> QED
    BY <1>3, <2>1 DEF Arrives, Outcomes
<1>4. CASE Reloads
  <2>1. job[j] \in {seen[j], "forgotten"}
    BY <1>1 DEF RemembersRight
  <2> QED
    BY <1>1, <1>4, <2>1, ReloadIsRemembered DEF Outcomes
<1>5. CASE Server \/ UNCHANGED vars
  BY <1>2, <1>5 DEF Server, OthersClone, Serves, JobFinishes, JobForgotten, Rescan, vars
<1> QED
  BY <1>2, <1>3, <1>4, <1>5
     DEF Next, Polling, User, Tick, Renders, FragmentFails, Hides, ShowsAgain, Asks, Answered,
         RequestFails, ToastGoes

\* A toast that has told how its job ended never says again that it runs, and
\* does not come back once it has gone, whatever fragments, losses and reloads
\* follow (syncJobs in app.js).
THEOREM ToastsStayFinished == Spec => ToastsGoForward
<1>1. DashboardInv /\ [Next]_vars =>
        [\A j \in Jobs :
           seen[j] \in Outcomes =>
              /\ seen'[j] # "running"
              /\ j \in toasts' => j \in toasts
        ]_vars
  BY ToastsStep
<1> QED
  BY <1>1, DashboardInvariant, PTL DEF Spec, ToastsGoForward

=============================================================================
