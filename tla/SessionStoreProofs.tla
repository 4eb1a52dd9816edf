------------------------- MODULE SessionStoreProofs -------------------------
(***************************************************************************)
(* Theorems about SessionStore, for any lifetimes, any number of handlers, *)
(* browsers and sessions.                                                  *)
(***************************************************************************)
EXTENDS SessionStore, FiniteSetTheorems, TLAPS

\* The type invariant as the proofs use it.
LEMMA Types ==
    ASSUME TypeOK
    PROVE  /\ clock \in Nat /\ clock \in Time /\ Time \subseteq Nat /\ 0 \in Time
           /\ SessionTTL \in Nat /\ ReissueInterval \in Nat
           /\ \A id \in IDs : cookieIssued[id] \in Nat /\ required[id] \in Nat /\ astray[id] \in Nat
           /\ \A b \in Browsers : cookie[b].id \in IDs \cup {None} /\ cookie[b].until \in Nat
           /\ \A r \in Requests :
                /\ handler[r].step \in Steps
                /\ handler[r].from \in Browsers \cup {None}
                /\ handler[r].id \in IDs \cup {None}
                /\ handler[r].at \in Time /\ handler[r].at \in Nat
BY SessionLimits DEF TypeOK, Time, Handler

LEMMA Records ==
    ASSUME NEW step \in Steps, NEW from \in Browsers \cup {None}, NEW id \in IDs \cup {None},
           NEW at \in Time
    PROVE  [step |-> step, from |-> from, id |-> id, at |-> at] \in Handler
BY DEF Handler

LEMMA IdleIsAState == Idle \in Handler
BY SessionLimits DEF Idle, Handler, Steps, Time

\* What a handler turns into, by its step.
LEMMA Becoming ==
    ASSUME TypeOK, NEW r \in Requests, NEW step \in Steps,
           NEW from \in Browsers \cup {None}, NEW id \in IDs \cup {None}, NEW at \in Time,
           Becomes(r, step, from, id, at)
    PROVE  /\ handler' \in [Requests -> Handler]
           /\ handler'[r].step = step /\ handler'[r].from = from
           /\ handler'[r].id = id /\ handler'[r].at = at
           /\ \A q \in Requests \ {r} : handler'[q] = handler[q]
BY Records DEF TypeOK, Becomes

LEMMA Continuing ==
    ASSUME TypeOK, NEW r \in Requests, NEW step \in Steps, NEW at \in Time,
           Continues(r, step, at)
    PROVE  /\ handler' \in [Requests -> Handler]
           /\ handler'[r].step = step /\ handler'[r].from = handler[r].from
           /\ handler'[r].id = handler[r].id /\ handler'[r].at = at
           /\ \A q \in Requests \ {r} : handler'[q] = handler[q]
<1>1. handler[r].from \in Browsers \cup {None} /\ handler[r].id \in IDs \cup {None}
  BY Types
<1> QED
  BY <1>1, Becoming DEF Continues

LEMMA Ending ==
    ASSUME TypeOK, NEW r \in Requests, Ends(r)
    PROVE  /\ handler' \in [Requests -> Handler]
           /\ handler'[r] = Idle /\ handler'[r].step = "idle"
           /\ handler'[r].id = None /\ handler'[r].at = 0
           /\ \A q \in Requests \ {r} : handler'[q] = handler[q]
BY IdleIsAState DEF TypeOK, Ends, Idle

LEMMA Dropping ==
    ASSUME TypeOK, NEW V \in SUBSET IDs, Drops(V)
    PROVE  /\ byID' = byID \ V /\ byID' \in SUBSET IDs
           /\ created' \in [IDs -> Time] /\ expires' \in [IDs -> Nat]
           /\ cookieIssued' \in [IDs -> Time]
           /\ \A id \in IDs \ V : cookieIssued'[id] = cookieIssued[id]
           /\ \A id \in V : cookieIssued'[id] = 0
BY Types DEF TypeOK, Drops, Without

\* create makes room by dropping one session or none.
LEMMA Victims == Oldest \in SUBSET SUBSET byID
BY DEF Oldest

----------------------------------------------------------------------------

LEMMA SessionsInit == Init => SessionInv
<1> SUFFICES ASSUME Init
             PROVE  SessionInv
  OBVIOUS
<1>1. TypeOK
  BY SessionLimits, IdleIsAState DEF Init, TypeOK, Time, NoCookie
<1>2. ReadingsAreOld
  BY SessionLimits DEF Init, ReadingsAreOld, Idle
<1>3. DrawnOnce
  BY DEF Init, DrawnOnce, Drawn, Idle, NoCookie
<1>4. OneBrowserEach
  BY DEF Init, OneBrowserEach, Idle, NoCookie
<1>5. CookiesGoOut
  BY DEF Init, CookiesGoOut
<1> QED
  BY <1>1, <1>2, <1>3, <1>4, <1>5 DEF SessionInv

LEMMA TypesStep == TypeOK /\ OneBrowserEach /\ [Next]_vars => TypeOK'
<1> SUFFICES ASSUME TypeOK, OneBrowserEach, [Next]_vars
             PROVE  TypeOK'
  OBVIOUS
<1>0. /\ clock \in Time /\ clock \in Nat /\ SessionTTL \in Nat
      /\ \A t \in Time : t \in Nat /\ t + SessionTTL \in Nat
      /\ {"idle", "creating", "touching", "asking", "touched", "marking", "answering",
          "deleting", "clearing"} = Steps
      /\ None \in Browsers \cup {None} /\ None \in IDs \cup {None} /\ 0 \in Time
      /\ MaxTime \in Nat /\ Time = 0 .. MaxTime
  BY Types, SessionLimits DEF Steps, Time
<1>t. ASSUME NEW r \in Requests
      PROVE  /\ handler[r].from \in Browsers \cup {None} /\ handler[r].id \in IDs \cup {None}
             /\ handler[r].at \in Time
             /\ handler[r].step \notin {"idle", "clearing"} => handler[r].id \in IDs
             /\ handler[r].step # "idle" => handler[r].from \in Browsers
  BY Types DEF OneBrowserEach
<1>1. CASE Tick
  <2>1. clock' \in Time
    BY <1>0, <1>1 DEF Tick
  <2> QED
    BY <1>1, <2>1 DEF Tick, TypeOK, records, history
<1>2. ASSUME NEW r \in Requests, NEW b \in Browsers, NEW id \in IDs, LoginPasses(r, b, id)
      PROVE  TypeOK'
  <2>1. handler' \in [Requests -> Handler]
    BY <1>0, <1>2, Becoming DEF LoginPasses
  <2> QED
    BY <1>2, <2>1 DEF LoginPasses, TypeOK, records, history
<1>3. ASSUME NEW r \in Requests, NEW b \in Browsers, NEW step \in {"touching", "asking"},
             Arrives(r, b, step)
      PROVE  TypeOK'
  <2>1. handler' \in [Requests -> Handler]
    <3>1. cookie[b].id \in IDs \cup {None} /\ step \in Steps
      BY <1>0, Types
    <3> QED
      BY <1>0, <1>3, <3>1, Becoming DEF Arrives
  <2> QED
    BY <1>3, <2>1 DEF Arrives, TypeOK, records, history
<1>4. ASSUME NEW r \in Requests, Creates(r)
      PROVE  TypeOK'
  <2> DEFINE id == handler[r].id
             now == handler[r].at
  <2>1. id \in IDs /\ now \in Time /\ now + SessionTTL \in Nat
    BY <1>0, <1>4, <1>t DEF Creates
  <2>2. PICK V \in Oldest :
          /\ byID' = (byID \ V) \cup {id}
          /\ created' = [Without(created, V) EXCEPT ![id] = now]
          /\ expires' = [Without(expires, V) EXCEPT ![id] = now + SessionTTL]
          /\ cookieIssued' = [Without(cookieIssued, V) EXCEPT ![id] = now]
    BY <1>4 DEF Creates
  <2>3. handler' \in [Requests -> Handler]
    BY <1>0, <1>4, <2>1, Continuing DEF Creates
  <2>4. /\ byID' \in SUBSET IDs /\ created' \in [IDs -> Time] /\ expires' \in [IDs -> Nat]
        /\ cookieIssued' \in [IDs -> Time]
    BY <1>0, <2>1, <2>2 DEF TypeOK, Without
  <2> QED
    BY <1>4, <2>3, <2>4 DEF Creates, TypeOK, history
<1>5. ASSUME NEW r \in Requests, Touch(r)
      PROVE  TypeOK'
  <2> DEFINE id == handler[r].id
             now == handler[r].at
  <2>1. id \in IDs /\ now \in Time /\ now + SessionTTL \in Nat
    BY <1>0, <1>5, <1>t DEF Touch
  <2>2. CASE Touches(r)
    <3>1. /\ expires' \in [IDs -> Nat] /\ UNCHANGED <<byID, created, cookieIssued>>
      BY <2>1, <2>2 DEF Touches, TypeOK
    <3>2. handler' \in [Requests -> Handler]
      BY <1>0, <2>1, <2>2, Continuing, Ending DEF Touches, TypeOK
    <3>3. required' \in [IDs -> Time]
      BY <2>1, <2>2 DEF Touches, TypeOK
    <3> QED
      BY <1>5, <3>1, <3>2, <3>3 DEF Touch, TypeOK
  <2>3. CASE Refuses(r)
    <3>1. Drops({id}) /\ Ends(r) /\ UNCHANGED required
      BY <2>3 DEF Refuses
    <3>2. /\ byID' \in SUBSET IDs /\ created' \in [IDs -> Time] /\ expires' \in [IDs -> Nat]
          /\ cookieIssued' \in [IDs -> Time]
      BY <2>1, <3>1, Dropping
    <3> QED
      BY <1>5, <3>1, <3>2, Ending DEF Touch, TypeOK
  <2> QED
    BY <1>5, <2>2, <2>3 DEF Touch
<1>6. ASSUME NEW r \in Requests, Requires(r)
      PROVE  TypeOK'
  <2>1. handler' \in [Requests -> Handler]
    BY <1>0, <1>6, Continuing, Ending DEF Requires
  <2> QED
    BY <1>6, <2>1 DEF Requires, TypeOK, records, history
<1>7. ASSUME NEW r \in Requests, Marks(r)
      PROVE  TypeOK'
  <2>1. handler' \in [Requests -> Handler]
    BY <1>0, <1>7, <1>t, Continuing DEF Marks
  <2>2. cookieIssued' \in [IDs -> Time]
    BY <1>7, <1>t DEF Marks, TypeOK
  <2> QED
    BY <1>7, <2>1, <2>2 DEF Marks, TypeOK, history
<1>8. ASSUME NEW r \in Requests, Answered(r)
      PROVE  TypeOK'
  <2>1. handler' \in [Requests -> Handler]
    BY <1>8, Ending DEF Answered
  <2>2. [id |-> handler[r].id, until |-> clock + SessionTTL] \in [id : IDs \cup {None}, until : Nat]
    BY <1>0, <1>t
  <2>3. /\ cookie' \in [Browsers -> [id : IDs \cup {None}, until : Nat]]
        /\ displaced' \in SUBSET IDs
    <3> DEFINE new == [id |-> handler[r].id, until |-> clock + SessionTTL]
    <3> HIDE DEF new
    <3>1. /\ cookie' = [cookie EXCEPT ![handler[r].from] = new]
          /\ displaced' = (displaced \cup ({cookie[handler[r].from].id} \ {None})) \ {handler[r].id}
      BY <1>8 DEF Answered, new
    <3>2. new \in [id : IDs \cup {None}, until : Nat]
      BY <2>2 DEF new
    <3>3. cookie[handler[r].from].id \in IDs \cup {None}
      BY <1>8, <1>t, Types DEF Answered
    <3> QED
      BY <3>1, <3>2, <3>3 DEF TypeOK
  <2> QED
    BY <1>8, <2>1, <2>3 DEF Answered, TypeOK, records
<1>9. ASSUME NEW r \in Requests, NEW b \in Browsers, LogoutArrives(r, b)
      PROVE  TypeOK'
  <2>1. handler' \in [Requests -> Handler]
    <3>1. cookie[b].id \in IDs \cup {None}
      BY Types
    <3> QED
      BY <1>0, <1>9, <3>1, Becoming DEF LogoutArrives
  <2> QED
    BY <1>9, <2>1 DEF LogoutArrives, TypeOK, records, history
<1>10. ASSUME NEW r \in Requests, Deletes(r)
       PROVE  TypeOK'
  <2>1. handler' \in [Requests -> Handler]
    BY <1>0, <1>10, <1>t, Becoming DEF Deletes
  <2>2. /\ byID' \in SUBSET IDs /\ created' \in [IDs -> Time] /\ expires' \in [IDs -> Nat]
        /\ cookieIssued' \in [IDs -> Time]
    <3>1. handler[r].id \in IDs
      BY <1>10, <1>t DEF Deletes
    <3> QED
      BY <1>10, <3>1, Dropping DEF Deletes
  <2> QED
    BY <1>10, <2>1, <2>2 DEF Deletes, TypeOK, history
<1>11. ASSUME NEW r \in Requests, Cleared(r)
       PROVE  TypeOK'
  <2>1. handler' \in [Requests -> Handler]
    BY <1>11, Ending DEF Cleared
  <2>2. /\ cookie' \in [Browsers -> [id : IDs \cup {None}, until : Nat]]
        /\ displaced' \in SUBSET IDs
    <3>1. NoCookie \in [id : IDs \cup {None}, until : Nat]
      BY DEF NoCookie
    <3>2. cookie[handler[r].from].id \in IDs \cup {None}
      BY <1>11, <1>t, Types DEF Cleared
    <3>3. /\ cookie' = [cookie EXCEPT ![handler[r].from] = NoCookie]
          /\ displaced' = displaced \cup ({cookie[handler[r].from].id} \ {None})
      BY <1>11 DEF Cleared
    <3> QED
      BY <3>1, <3>2, <3>3 DEF TypeOK
  <2> QED
    BY <1>11, <2>1, <2>2 DEF Cleared, TypeOK, records
<1>12. ASSUME NEW r \in Requests, Lost(r)
       PROVE  TypeOK'
  <2>1. handler' \in [Requests -> Handler]
    BY <1>12, Ending DEF Lost
  <2>2. astray' \in [IDs -> Time]
    BY <1>12, <1>t DEF Lost, TypeOK
  <2> QED
    BY <1>12, <2>1, <2>2 DEF Lost, TypeOK, records
<1>13. CASE GC
  <2>1. /\ byID' \in SUBSET IDs /\ created' \in [IDs -> Time] /\ expires' \in [IDs -> Nat]
        /\ cookieIssued' \in [IDs -> Time]
    <3>1. {id \in byID : clock > expires[id]} \in SUBSET IDs
      BY DEF TypeOK
    <3> QED
      BY <1>13, <3>1, Dropping DEF GC
  <2> QED
    BY <1>13, <2>1 DEF GC, TypeOK, history
<1>14. CASE UNCHANGED vars
  BY <1>14 DEF vars, TypeOK, records, history
<1> QED
  BY <1>1, <1>2, <1>3, <1>4, <1>5, <1>6, <1>7, <1>8, <1>9, <1>10, <1>11, <1>12, <1>13, <1>14
    DEF Next, Serve

----------------------------------------------------------------------------
(* Clock readings. *)

LEMMA ReadingsStep ==
    ASSUME TypeOK, OneBrowserEach, ReadingsAreOld, [Next]_vars
    PROVE  ReadingsAreOld'
<1>0. /\ clock \in Nat /\ clock \in Time /\ 0 <= clock
      /\ \A r \in Requests : handler[r].at <= clock /\ handler[r].at \in Nat /\ handler[r].at \in Time
      /\ \A id \in IDs : /\ required[id] <= clock /\ required[id] \in Nat
                         /\ cookieIssued[id] <= clock /\ cookieIssued[id] \in Nat
      /\ {"idle", "creating", "touching", "asking", "touched", "marking", "answering",
          "deleting", "clearing"} = Steps
      /\ None \in Browsers \cup {None} /\ None \in IDs \cup {None} /\ 0 \in Time
  BY Types DEF ReadingsAreOld, Steps
<1>t. ASSUME NEW r \in Requests
      PROVE  /\ handler[r].from \in Browsers \cup {None} /\ handler[r].id \in IDs \cup {None}
             /\ handler[r].step \notin {"idle", "clearing"} => handler[r].id \in IDs
  BY Types DEF OneBrowserEach
<1>h. ASSUME NEW r \in Requests, handler'[r].at <= clock, UNCHANGED clock,
             \A q \in Requests \ {r} : handler'[q] = handler[q],
             \A id \in IDs : required'[id] <= clock /\ cookieIssued'[id] <= clock
      PROVE  ReadingsAreOld'
  BY <1>0, <1>h DEF ReadingsAreOld
<1>1. CASE Tick
  <2>1. clock' = clock + 1 /\ UNCHANGED <<handler, required, cookieIssued>>
    BY <1>1 DEF Tick, records, history
  <2>2. \A n \in Nat : n <= clock => n <= clock'
    BY <1>0, <2>1
  <2> QED
    BY <1>0, <2>1, <2>2 DEF ReadingsAreOld
<1>2. ASSUME NEW r \in Requests, NEW b \in Browsers, NEW id \in IDs, LoginPasses(r, b, id)
      PROVE  ReadingsAreOld'
  <2>1. handler'[r].at = clock /\ \A q \in Requests \ {r} : handler'[q] = handler[q]
    BY <1>0, <1>2, Becoming DEF LoginPasses
  <2>2. UNCHANGED <<clock, required, cookieIssued>>
    BY <1>2 DEF LoginPasses, records, history
  <2> QED
    BY <1>0, <1>h, <2>1, <2>2
<1>3. ASSUME NEW r \in Requests, NEW b \in Browsers, NEW step \in {"touching", "asking"},
             Arrives(r, b, step)
      PROVE  ReadingsAreOld'
  <2>1. cookie[b].id \in IDs \cup {None} /\ step \in Steps
    BY <1>0, Types
  <2>2. handler'[r].at = clock /\ \A q \in Requests \ {r} : handler'[q] = handler[q]
    BY <1>0, <1>3, <2>1, Becoming DEF Arrives
  <2>3. UNCHANGED <<clock, required, cookieIssued>>
    BY <1>3 DEF Arrives, records, history
  <2> QED
    BY <1>0, <1>h, <2>2, <2>3
<1>4. ASSUME NEW r \in Requests, Creates(r)
      PROVE  ReadingsAreOld'
  <2>1. PICK V \in Oldest :
          cookieIssued' = [Without(cookieIssued, V) EXCEPT ![handler[r].id] = handler[r].at]
    BY <1>4 DEF Creates
  <2>2. \A id \in IDs : cookieIssued'[id] <= clock
    BY <1>0, <2>1 DEF Without
  <2>3. handler'[r].at = handler[r].at /\ \A q \in Requests \ {r} : handler'[q] = handler[q]
    BY <1>0, <1>4, Continuing DEF Creates
  <2>4. UNCHANGED <<clock, required>>
    BY <1>4 DEF Creates, history
  <2> QED
    BY <1>0, <1>h, <2>2, <2>3, <2>4
<1>5. ASSUME NEW r \in Requests, Touch(r)
      PROVE  ReadingsAreOld'
  <2>1. UNCHANGED clock /\ handler[r].id \in IDs
    BY <1>5, <1>t DEF Touch
  <2>2. CASE Touches(r)
    <3>1. UNCHANGED cookieIssued /\ \A id \in IDs : required'[id] <= clock
      BY <1>0, <2>1, <2>2 DEF Touches, TypeOK
    <3>2. /\ handler'[r].at <= clock
          /\ \A q \in Requests \ {r} : handler'[q] = handler[q]
      <4>1. cookieIssued[handler[r].id] \in Time /\ cookieIssued[handler[r].id] <= clock
        BY <1>0, <2>1 DEF TypeOK
      <4>2. Continues(r, "touched", cookieIssued[handler[r].id]) \/ Ends(r)
        BY <2>2 DEF Touches
      <4>3. CASE Continues(r, "touched", cookieIssued[handler[r].id])
        <5>1. "touched" \in Steps
          BY <1>0
        <5>2. /\ handler'[r].at = cookieIssued[handler[r].id]
              /\ \A q \in Requests \ {r} : handler'[q] = handler[q]
          BY <4>1, <4>3, <5>1, Continuing
        <5> QED
          BY <4>1, <5>2
      <4>4. CASE Ends(r)
        BY <1>0, <4>4, Ending
      <4> QED
        BY <4>2, <4>3, <4>4
    <3> QED
      BY <1>0, <1>h, <2>1, <3>1, <3>2
  <2>3. CASE Refuses(r)
    <3>1. Drops({handler[r].id}) /\ Ends(r) /\ UNCHANGED required
      BY <2>3 DEF Refuses
    <3>2. \A id \in IDs : cookieIssued'[id] <= clock
      BY <1>0, <2>1, <3>1, Dropping
    <3>3. handler'[r].at <= clock /\ \A q \in Requests \ {r} : handler'[q] = handler[q]
      BY <1>0, <3>1, Ending
    <3> QED
      BY <1>0, <1>h, <2>1, <3>1, <3>2, <3>3
  <2> QED
    BY <1>5, <2>2, <2>3 DEF Touch
<1>6. ASSUME NEW r \in Requests, Requires(r)
      PROVE  ReadingsAreOld'
  <2>1. handler'[r].at <= clock /\ \A q \in Requests \ {r} : handler'[q] = handler[q]
    <3>1. Continues(r, "marking", clock) \/ Ends(r)
      BY <1>6 DEF Requires
    <3> QED
      BY <1>0, <3>1, Continuing, Ending
  <2>2. UNCHANGED <<clock, required, cookieIssued>>
    BY <1>6 DEF Requires, records, history
  <2> QED
    BY <1>0, <1>h, <2>1, <2>2
<1>7. ASSUME NEW r \in Requests, Marks(r)
      PROVE  ReadingsAreOld'
  <2>1. handler'[r].at = handler[r].at /\ \A q \in Requests \ {r} : handler'[q] = handler[q]
    BY <1>0, <1>7, Continuing DEF Marks
  <2>2. UNCHANGED <<clock, required>> /\ \A id \in IDs : cookieIssued'[id] <= clock
    BY <1>0, <1>7 DEF Marks, history, TypeOK
  <2> QED
    BY <1>0, <1>h, <2>1, <2>2
<1>8. ASSUME NEW r \in Requests, Answered(r) \/ Cleared(r) \/ Lost(r)
      PROVE  ReadingsAreOld'
  <2>1. Ends(r) /\ UNCHANGED <<clock, required, cookieIssued>>
    BY <1>8 DEF Answered, Cleared, Lost, records
  <2>2. handler'[r].at <= clock /\ \A q \in Requests \ {r} : handler'[q] = handler[q]
    BY <1>0, <2>1, Ending
  <2> QED
    BY <1>0, <1>h, <2>1, <2>2
<1>9. ASSUME NEW r \in Requests, NEW b \in Browsers, LogoutArrives(r, b)
      PROVE  ReadingsAreOld'
  <2>1. handler'[r].at = 0 /\ \A q \in Requests \ {r} : handler'[q] = handler[q]
    <3>1. cookie[b].id \in IDs \cup {None}
      BY Types
    <3> QED
      BY <1>0, <1>9, <3>1, Becoming DEF LogoutArrives
  <2>2. UNCHANGED <<clock, required, cookieIssued>>
    BY <1>9 DEF LogoutArrives, records, history
  <2> QED
    BY <1>0, <1>h, <2>1, <2>2
<1>10. ASSUME NEW r \in Requests, Deletes(r)
       PROVE  ReadingsAreOld'
  <2>1. handler'[r].at = 0 /\ \A q \in Requests \ {r} : handler'[q] = handler[q]
    BY <1>0, <1>10, <1>t, Becoming, ZenonT(60) DEF Deletes
  <2>2. UNCHANGED <<clock, required>> /\ \A id \in IDs : cookieIssued'[id] <= clock
    <3>1. handler[r].id \in IDs
      BY <1>10, <1>t DEF Deletes
    <3> QED
      BY <1>0, <1>10, <3>1, Dropping DEF Deletes, history
  <2> QED
    BY <1>0, <1>h, <2>1, <2>2
<1>11. CASE GC
  <2>1. \A id \in IDs : cookieIssued'[id] <= clock
    <3>1. {id \in byID : clock > expires[id]} \in SUBSET IDs
      BY DEF TypeOK
    <3> QED
      BY <1>0, <1>11, <3>1, Dropping DEF GC
  <2>2. UNCHANGED <<clock, handler, required>>
    BY <1>11 DEF GC, history
  <2> QED
    BY <1>0, <2>1, <2>2 DEF ReadingsAreOld
<1>12. CASE UNCHANGED vars
  BY <1>12 DEF vars, ReadingsAreOld, records, history
<1> QED
  BY <1>1, <1>2, <1>3, <1>4, <1>5, <1>6, <1>7, <1>8, <1>9, <1>10, <1>11, <1>12 DEF Next, Serve

----------------------------------------------------------------------------
(* Whose a session is. *)

\* A step that draws no ID leaves the IDs that are only drawn alone.
LEMMA DrawnIsKept ==
    ASSUME TypeOK, OneBrowserEach, DrawnOnce, NEW r \in Requests, UNCHANGED owner,
           \A q \in Requests \ {r} : handler'[q] = handler[q],
           handler'[r].step # "creating",
           \/ handler'[r].id \in {None, handler[r].id}
           \/ \E b \in Browsers : handler'[r].id = cookie[b].id,
           \A id \in byID' : id \in byID \/ (id \in IDs /\ id = handler[r].id),
           \A id \in IDs : required'[id] = required[id] \/ id \in byID,
           \A b \in Browsers : cookie'[b].id \in {cookie[b].id, None, handler[r].id}
    PROVE  DrawnOnce'
<1>1. Drawn' = Drawn /\ None \notin IDs
  BY NoneIsNeither DEF Drawn
<1>2. ASSUME NEW q \in Requests, handler'[q].id # None
      PROVE  handler'[q].id \in Drawn'
  BY <1>1, <1>2 DEF DrawnOnce
<1>3. ASSUME NEW id \in IDs, id \in byID'
      PROVE  id \in Drawn'
  BY <1>1, <1>3 DEF DrawnOnce
<1>4. ASSUME NEW b \in Browsers, cookie'[b].id # None
      PROVE  cookie'[b].id \in Drawn'
  BY <1>1, <1>4 DEF DrawnOnce
<1>5. ASSUME NEW id \in IDs \ Drawn'
      PROVE  required'[id] = 0
  BY <1>1, <1>5 DEF DrawnOnce
<1>6. ASSUME NEW q \in Requests, handler'[q].step = "creating"
      PROVE  /\ handler'[q].id \notin byID'
             /\ required'[handler'[q].id] = 0
             /\ \A b \in Browsers : cookie'[b].id # handler'[q].id
             /\ \A o \in Requests \ {q} : handler'[o].id # handler'[q].id
  <2>1. q # r /\ handler'[q] = handler[q] /\ handler[q].step = "creating"
    BY <1>6
  <2>2. handler[q].id \in IDs
    BY <2>1, Types DEF OneBrowserEach
  <2>3. /\ handler[q].id \notin byID /\ required[handler[q].id] = 0
        /\ \A b \in Browsers : cookie[b].id # handler[q].id
        /\ \A o \in Requests \ {q} : handler[o].id # handler[q].id
    BY <2>1 DEF DrawnOnce
  <2> QED
    BY <1>1, <2>1, <2>2, <2>3
<1> QED
  BY <1>2, <1>3, <1>4, <1>5, <1>6 DEF DrawnOnce

LEMMA DrawnOnceStep ==
    ASSUME TypeOK, OneBrowserEach, DrawnOnce, [Next]_vars
    PROVE  DrawnOnce'
<1>0. /\ {"idle", "creating", "touching", "asking", "touched", "marking", "answering",
          "deleting", "clearing"} = Steps
      /\ None \in Browsers \cup {None} /\ None \in IDs \cup {None} /\ 0 \in Time
      /\ clock \in Time
  BY Types DEF Steps
<1>t. ASSUME NEW r \in Requests
      PROVE  /\ handler[r].from \in Browsers \cup {None} /\ handler[r].id \in IDs \cup {None}
             /\ handler[r].at \in Time
             /\ handler[r].step \notin {"idle", "clearing"} => handler[r].id \in IDs
             /\ handler[r].step # "idle" => handler[r].from \in Browsers
  BY Types DEF OneBrowserEach
<1>1. CASE Tick \/ UNCHANGED vars
  <2>1. UNCHANGED <<byID, owner, handler, cookie, required>>
    BY <1>1 DEF Tick, vars, history
  <2> QED
    BY <2>1 DEF DrawnOnce, Drawn
<1>2. ASSUME NEW r \in Requests, NEW b \in Browsers, NEW id \in IDs, LoginPasses(r, b, id)
      PROVE  DrawnOnce'
  <2>1. /\ handler'[r].step = "creating" /\ handler'[r].id = id
        /\ \A q \in Requests \ {r} : handler'[q] = handler[q]
    BY <1>0, <1>2, Becoming, SMTT(30) DEF LoginPasses
  <2>2. UNCHANGED <<byID, cookie, required>> /\ id \notin Drawn /\ id # None
    BY <1>2, NoneIsNeither DEF LoginPasses, history
  <2>3. Drawn' = Drawn \cup {id}
    BY <1>2, NoneIsNeither DEF LoginPasses, TypeOK, Drawn
  <2>4. \A q \in Requests : handler[q].id # id
    BY <2>2 DEF DrawnOnce
  <2>5. id \notin byID /\ required[id] = 0 /\ \A o \in Browsers : cookie[o].id # id
    BY <2>2 DEF DrawnOnce
  <2>6. ASSUME NEW q \in Requests \ {r}, handler'[q].step = "creating"
        PROVE  /\ handler'[q].id \notin byID'
               /\ required'[handler'[q].id] = 0
               /\ \A o \in Browsers : cookie'[o].id # handler'[q].id
               /\ \A o \in Requests \ {q} : handler'[o].id # handler'[q].id
    BY <2>1, <2>2, <2>4, <2>6 DEF DrawnOnce
  <2>7. /\ \A q \in Requests : handler'[q].id # None => handler'[q].id \in Drawn'
        /\ \A i \in IDs : i \in byID' => i \in Drawn'
        /\ \A o \in Browsers : cookie'[o].id # None => cookie'[o].id \in Drawn'
        /\ \A i \in IDs \ Drawn' : required'[i] = 0
    BY <2>1, <2>2, <2>3 DEF DrawnOnce
  <2>8. /\ id \notin byID' /\ required'[id] = 0 /\ \A o \in Browsers : cookie'[o].id # id
        /\ \A o \in Requests \ {r} : handler'[o].id # id
    BY <2>1, <2>2, <2>4, <2>5
  <2> QED
    BY <2>1, <2>6, <2>7, <2>8 DEF DrawnOnce
<1>3. ASSUME NEW r \in Requests, NEW b \in Browsers, NEW step \in {"touching", "asking"},
             Arrives(r, b, step)
      PROVE  DrawnOnce'
  <2>1. cookie[b].id \in IDs \cup {None} /\ step \in Steps
    BY <1>0, Types
  <2>2. /\ handler'[r].step = step /\ handler'[r].id = cookie[b].id
        /\ \A q \in Requests \ {r} : handler'[q] = handler[q]
    BY <1>0, <1>3, <2>1, Becoming DEF Arrives
  <2>3. UNCHANGED <<byID, owner, cookie, required>>
    BY <1>3 DEF Arrives, history
  <2> QED
    BY <2>2, <2>3, DrawnIsKept
<1>4. ASSUME NEW r \in Requests, Creates(r)
      PROVE  DrawnOnce'
  <2>1. PICK V \in Oldest : byID' = (byID \ V) \cup {handler[r].id}
    BY <1>4 DEF Creates
  <2>2. /\ handler'[r].step = "answering" /\ handler'[r].id = handler[r].id
        /\ \A q \in Requests \ {r} : handler'[q] = handler[q]
    BY <1>0, <1>4, <1>t, Continuing DEF Creates
  <2>3. UNCHANGED <<owner, cookie, required>> /\ handler[r].id \in IDs
    BY <1>4, <1>t DEF Creates, history
  <2> QED
    BY <2>1, <2>2, <2>3, DrawnIsKept
<1>5. ASSUME NEW r \in Requests, Touch(r)
      PROVE  DrawnOnce'
  <2>1. UNCHANGED <<owner, cookie>> /\ handler[r].id \in IDs
    BY <1>5, <1>t DEF Touch
  <2>2. CASE Touches(r)
    <3>1. UNCHANGED byID /\ \A id \in IDs : required'[id] = required[id] \/ id \in byID
      BY <2>1, <2>2 DEF Touches, TypeOK
    <3>2. /\ handler'[r].step # "creating" /\ handler'[r].id \in {None, handler[r].id}
          /\ \A q \in Requests \ {r} : handler'[q] = handler[q]
      <4>1. cookieIssued[handler[r].id] \in Time
        BY <2>1 DEF TypeOK
      <4>2. Continues(r, "touched", cookieIssued[handler[r].id]) \/ Ends(r)
        BY <2>2 DEF Touches
      <4> QED
        BY <1>0, <4>1, <4>2, Continuing, Ending
    <3> QED
      BY <2>1, <3>1, <3>2, DrawnIsKept
  <2>3. CASE Refuses(r)
    <3>1. Drops({handler[r].id}) /\ Ends(r) /\ UNCHANGED required
      BY <2>3 DEF Refuses
    <3>2. byID' \subseteq byID
      BY <2>1, <3>1, Dropping
    <3>3. /\ handler'[r].step # "creating" /\ handler'[r].id = None
          /\ \A q \in Requests \ {r} : handler'[q] = handler[q]
      BY <3>1, Ending
    <3> QED
      BY <2>1, <3>1, <3>2, <3>3, DrawnIsKept
  <2> QED
    BY <1>5, <2>2, <2>3 DEF Touch
<1>6. ASSUME NEW r \in Requests, Requires(r)
      PROVE  DrawnOnce'
  <2>1. /\ handler'[r].step # "creating" /\ handler'[r].id \in {None, handler[r].id}
        /\ \A q \in Requests \ {r} : handler'[q] = handler[q]
    <3>1. Continues(r, "marking", clock) \/ Ends(r)
      BY <1>6 DEF Requires
    <3> QED
      BY <1>0, <3>1, Continuing, Ending
  <2>2. UNCHANGED <<byID, owner, cookie, required>>
    BY <1>6 DEF Requires, history
  <2> QED
    BY <2>1, <2>2, DrawnIsKept
<1>7. ASSUME NEW r \in Requests, Marks(r)
      PROVE  DrawnOnce'
  <2>1. /\ handler'[r].step = "answering" /\ handler'[r].id = handler[r].id
        /\ \A q \in Requests \ {r} : handler'[q] = handler[q]
    BY <1>0, <1>7, <1>t, Continuing DEF Marks
  <2>2. UNCHANGED <<byID, owner, cookie, required>>
    BY <1>7 DEF Marks, history
  <2> QED
    BY <2>1, <2>2, DrawnIsKept
<1>8. ASSUME NEW r \in Requests, Answered(r) \/ Cleared(r) \/ Lost(r)
      PROVE  DrawnOnce'
  <2>1. Ends(r) /\ UNCHANGED <<byID, owner, required>>
    BY <1>8 DEF Answered, Cleared, Lost
  <2>2. \A b \in Browsers : cookie'[b].id \in {cookie[b].id, None, handler[r].id}
    <3>1. CASE Answered(r)
      <4> DEFINE new == [id |-> handler[r].id, until |-> clock + SessionTTL]
      <4>1. cookie' = [cookie EXCEPT ![handler[r].from] = new] /\ new.id = handler[r].id
        BY <3>1 DEF Answered
      <4> HIDE DEF new
      <4> QED
        BY <4>1 DEF TypeOK
    <3>2. CASE Cleared(r)
      <4>1. cookie' = [cookie EXCEPT ![handler[r].from] = NoCookie] /\ NoCookie.id = None
        BY <3>2 DEF Cleared, NoCookie
      <4> QED
        BY <4>1 DEF TypeOK
    <3>3. CASE Lost(r)
      BY <3>3 DEF Lost
    <3> QED
      BY <1>8, <3>1, <3>2, <3>3
  <2>3. /\ handler'[r].step # "creating" /\ handler'[r].id = None
        /\ \A q \in Requests \ {r} : handler'[q] = handler[q]
    BY <2>1, Ending
  <2> QED
    BY <2>1, <2>2, <2>3, DrawnIsKept
<1>9. ASSUME NEW r \in Requests, NEW b \in Browsers, LogoutArrives(r, b)
      PROVE  DrawnOnce'
  <2>1. /\ handler'[r].step # "creating" /\ handler'[r].id \in {None, cookie[b].id}
        /\ \A q \in Requests \ {r} : handler'[q] = handler[q]
    <3>1. cookie[b].id \in IDs \cup {None}
      BY Types
    <3> QED
      BY <1>0, <1>9, <3>1, Becoming DEF LogoutArrives
  <2>2. UNCHANGED <<byID, owner, cookie, required>>
    BY <1>9 DEF LogoutArrives, history
  <2> QED
    BY <2>1, <2>2, DrawnIsKept
<1>10. ASSUME NEW r \in Requests, Deletes(r)
       PROVE  DrawnOnce'
  <2>0. Becomes(r, "clearing", handler[r].from, None, 0) /\ handler[r].from \in Browsers
    BY <1>10, <1>t DEF Deletes
  <2>1. /\ handler'[r].step = "clearing" /\ handler'[r].from = handler[r].from
        /\ handler'[r].id = None
        /\ \A q \in Requests \ {r} : handler'[q] = handler[q]
    <3>1. /\ handler[r].from \in Browsers \cup {None} /\ "clearing" \in Steps
          /\ None \in IDs \cup {None} /\ 0 \in Time
      BY <1>0, <1>t
    <3> QED
      BY <2>0, <3>1, Becoming, ZenonT(60)
  <2>2. UNCHANGED <<owner, cookie, required>> /\ byID' \subseteq byID
    <3>1. handler[r].id \in IDs
      BY <1>10, <1>t DEF Deletes
    <3> QED
      BY <1>10, <3>1, Dropping DEF Deletes, history
  <2> QED
    BY <2>1, <2>2, DrawnIsKept
<1>11. CASE GC
  <2>1. byID' \subseteq byID
    <3>1. {id \in byID : clock > expires[id]} \in SUBSET IDs
      BY DEF TypeOK
    <3> QED
      BY <1>11, <3>1, Dropping DEF GC
  <2>2. UNCHANGED <<owner, handler, cookie, required>>
    BY <1>11 DEF GC, history
  <2> QED
    BY <2>1, <2>2 DEF DrawnOnce, Drawn
<1> QED
  BY <1>1, <1>2, <1>3, <1>4, <1>5, <1>6, <1>7, <1>8, <1>9, <1>10, <1>11 DEF Next, Serve

LEMMA OneBrowserStep ==
    ASSUME TypeOK, OneBrowserEach, DrawnOnce, [Next]_vars
    PROVE  OneBrowserEach'
<1>0. /\ {"idle", "creating", "touching", "asking", "touched", "marking", "answering",
          "deleting", "clearing"} = Steps
      /\ None \in Browsers \cup {None} /\ None \in IDs \cup {None} /\ 0 \in Time
      /\ clock \in Time /\ None \notin IDs /\ None \notin Browsers
      /\ clock \in Nat /\ Idle.step = "idle" /\ Idle.id = None
  BY Types, NoneIsNeither DEF Steps, Idle
<1>t. ASSUME NEW r \in Requests
      PROVE  /\ handler[r].from \in Browsers \cup {None} /\ handler[r].id \in IDs \cup {None}
             /\ handler[r].at \in Time
             /\ handler[r].step \notin {"idle", "clearing"} => handler[r].id \in IDs
             /\ handler[r].step # "idle" => handler[r].from \in Browsers
             /\ handler[r].id # None => owner[handler[r].id] = handler[r].from
  BY Types DEF OneBrowserEach
<1> DEFINE HandlerOK(r) ==
             /\ handler'[r].step = "idle" <=> handler'[r] = Idle
             /\ handler'[r].step \notin {"idle", "clearing"} => handler'[r].id # None
             /\ handler'[r].step # "idle" => handler'[r].from \in Browsers
             /\ handler'[r].id # None => owner'[handler'[r].id] = handler'[r].from
           CookieOK(b) ==
             IF cookie'[b].id = None THEN cookie'[b].until = 0 ELSE owner'[cookie'[b].id] = b
<1>a. ASSUME NEW r \in Requests, HandlerOK(r), UNCHANGED owner,
             \A q \in Requests \ {r} : handler'[q] = handler[q],
             \A b \in Browsers : CookieOK(b)
      PROVE  OneBrowserEach'
  <2>1. \A q \in Requests \ {r} : HandlerOK(q)
    BY <1>a DEF OneBrowserEach
  <2>2. \A q \in Requests : HandlerOK(q)
    BY <1>a, <2>1
  <2> QED
    BY <1>a, <2>2 DEF OneBrowserEach
<1>b. UNCHANGED <<owner, cookie>> => \A b \in Browsers : CookieOK(b)
  BY DEF OneBrowserEach
<1>c. ASSUME NEW r \in Requests, handler'[r] = Idle
      PROVE  HandlerOK(r)
  BY <1>0, <1>c
<1>d. ASSUME NEW r \in Requests, handler'[r].step \in Steps \ {"idle"},
             handler'[r].id = None => handler'[r].step = "clearing",
             handler'[r].from \in Browsers,
             handler'[r].id # None => owner'[handler'[r].id] = handler'[r].from
      PROVE  HandlerOK(r)
  BY <1>0, <1>d
<1> HIDE DEF HandlerOK, CookieOK
<1>1. CASE Tick \/ UNCHANGED vars
  <2>1. UNCHANGED <<owner, handler, cookie>>
    BY <1>1 DEF Tick, vars
  <2> QED
    BY <2>1 DEF OneBrowserEach
<1>2. ASSUME NEW r \in Requests, NEW b \in Browsers, NEW id \in IDs, LoginPasses(r, b, id)
      PROVE  OneBrowserEach'
  <2>1. /\ handler'[r].step = "creating" /\ handler'[r].id = id /\ handler'[r].from = b
        /\ \A q \in Requests \ {r} : handler'[q] = handler[q]
    BY <1>0, <1>2, Becoming, SMTT(30) DEF LoginPasses
  <2>2. /\ UNCHANGED cookie /\ id \notin Drawn /\ owner'[id] = b
        /\ \A i \in IDs \ {id} : owner'[i] = owner[i]
    BY <1>2 DEF LoginPasses, TypeOK
  <2>3. HandlerOK(r)
    BY <1>0, <1>d, <2>1, <2>2
  <2>4. \A q \in Requests \ {r} : HandlerOK(q)
    <3> SUFFICES ASSUME NEW q \in Requests \ {r}
                 PROVE  HandlerOK(q)
      OBVIOUS
    <3>1. handler[q].id \in (IDs \ {id}) \cup {None}
      BY <1>t, <2>2 DEF DrawnOnce
    <3>2. handler'[q] = handler[q]
      BY <2>1
    <3>3. handler'[q].id # None => owner'[handler'[q].id] = handler'[q].from
      BY <1>t, <2>2, <3>1, <3>2
    <3> QED
      BY <3>2, <3>3 DEF OneBrowserEach, HandlerOK
  <2>5. \A o \in Browsers : CookieOK(o)
    <3> SUFFICES ASSUME NEW o \in Browsers
                 PROVE  CookieOK(o)
      OBVIOUS
    <3>1. cookie[o].id \in (IDs \ {id}) \cup {None}
      BY <2>2, Types DEF DrawnOnce
    <3> QED
      BY <2>2, <3>1 DEF OneBrowserEach, CookieOK
  <2> QED
    BY <2>3, <2>4, <2>5 DEF OneBrowserEach, HandlerOK, CookieOK
<1>3. ASSUME NEW r \in Requests, NEW b \in Browsers, NEW step \in {"touching", "asking"},
             Arrives(r, b, step)
      PROVE  OneBrowserEach'
  <2>1. /\ cookie[b].id \in IDs \cup {None} /\ step \in Steps \ {"idle"}
        /\ clock < cookie[b].until /\ cookie[b].until \in Nat
    BY <1>0, <1>3, Types DEF Arrives
  <2>2. cookie[b].id # None /\ owner[cookie[b].id] = b
    BY <1>0, <2>1 DEF OneBrowserEach
  <2>3. /\ handler'[r].step = step /\ handler'[r].id = cookie[b].id /\ handler'[r].from = b
        /\ \A q \in Requests \ {r} : handler'[q] = handler[q]
    BY <1>0, <1>3, <2>1, Becoming DEF Arrives
  <2>4. UNCHANGED <<owner, cookie>>
    BY <1>3 DEF Arrives
  <2>5. HandlerOK(r)
    BY <1>d, <2>1, <2>2, <2>3, <2>4
  <2> QED
    BY <1>a, <1>b, <2>3, <2>4, <2>5
<1>4. ASSUME NEW r \in Requests, NEW step \in Steps \ {"idle"}, NEW at \in Time,
             Continues(r, step, at), handler[r].step \notin {"idle", "clearing"},
             UNCHANGED <<owner, cookie>>
      PROVE  OneBrowserEach'
  <2>1. /\ handler'[r].step = step /\ handler'[r].id = handler[r].id
        /\ handler'[r].from = handler[r].from
        /\ \A q \in Requests \ {r} : handler'[q] = handler[q]
    BY <1>4, Continuing
  <2>2. handler[r].id # None /\ handler[r].from \in Browsers
        /\ owner[handler[r].id] = handler[r].from
    BY <1>0, <1>4, <1>t
  <2>3. HandlerOK(r)
    BY <1>4, <1>d, <2>1, <2>2
  <2> QED
    BY <1>4, <1>a, <1>b, <2>1, <2>3
<1>5. ASSUME NEW r \in Requests, Ends(r), UNCHANGED owner, \A b \in Browsers : CookieOK(b)
      PROVE  OneBrowserEach'
  <2>1. handler'[r] = Idle /\ \A q \in Requests \ {r} : handler'[q] = handler[q]
    BY <1>5, Ending
  <2> QED
    BY <1>5, <1>a, <1>c, <2>1
<1>6. ASSUME NEW r \in Requests, Creates(r) \/ Marks(r)
      PROVE  OneBrowserEach'
  <2>1. /\ Continues(r, "answering", handler[r].at) /\ UNCHANGED <<owner, cookie>>
        /\ handler[r].step \notin {"idle", "clearing"}
    BY <1>6 DEF Creates, Marks
  <2>2. "answering" \in Steps \ {"idle"} /\ handler[r].at \in Time
    BY <1>0, <1>t
  <2> QED
    BY <1>4, <2>1, <2>2
<1>7. ASSUME NEW r \in Requests, Touch(r)
      PROVE  OneBrowserEach'
  <2>1. UNCHANGED <<owner, cookie>> /\ handler[r].id \in IDs
        /\ handler[r].step \notin {"idle", "clearing"}
    BY <1>7, <1>t DEF Touch
  <2>2. Continues(r, "touched", cookieIssued[handler[r].id]) \/ Ends(r)
    BY <1>7 DEF Touch, Touches, Refuses
  <2>3. cookieIssued[handler[r].id] \in Time /\ "touched" \in Steps \ {"idle"}
    BY <1>0, <2>1 DEF TypeOK
  <2>4. CASE Continues(r, "touched", cookieIssued[handler[r].id])
    BY <1>4, <2>1, <2>3, <2>4
  <2>5. CASE Ends(r)
    BY <1>5, <1>b, <2>1, <2>5
  <2> QED
    BY <2>2, <2>4, <2>5
<1>8. ASSUME NEW r \in Requests, Requires(r)
      PROVE  OneBrowserEach'
  <2>1. UNCHANGED <<owner, cookie>> /\ handler[r].step \notin {"idle", "clearing"}
    BY <1>8 DEF Requires
  <2>2. Continues(r, "marking", clock) \/ Ends(r)
    BY <1>8 DEF Requires
  <2>3. clock \in Time /\ "marking" \in Steps \ {"idle"}
    BY <1>0
  <2>4. CASE Continues(r, "marking", clock)
    BY <1>4, <2>1, <2>3, <2>4
  <2>5. CASE Ends(r)
    BY <1>5, <1>b, <2>1, <2>5
  <2> QED
    BY <2>2, <2>4, <2>5
<1>9. ASSUME NEW r \in Requests, Answered(r)
      PROVE  OneBrowserEach'
  <2> DEFINE b == handler[r].from
             new == [id |-> handler[r].id, until |-> clock + SessionTTL]
  <2>1. /\ b \in Browsers /\ handler[r].id # None /\ owner[handler[r].id] = b
    BY <1>0, <1>9, <1>t DEF Answered
  <2>2. /\ cookie' = [cookie EXCEPT ![b] = new] /\ new.id = handler[r].id
        /\ Ends(r) /\ UNCHANGED owner
    BY <1>9 DEF Answered
  <2> HIDE DEF new
  <2>3. ASSUME NEW o \in Browsers
        PROVE  CookieOK(o)
    <3>1. cookie'[o] = IF o = b THEN new ELSE cookie[o]
      BY <2>2 DEF TypeOK
    <3> QED
      BY <2>1, <2>2, <3>1 DEF CookieOK, OneBrowserEach
  <2> QED
    BY <1>5, <2>2, <2>3
<1>10. ASSUME NEW r \in Requests, NEW b \in Browsers, LogoutArrives(r, b)
       PROVE  OneBrowserEach'
  <2>1. UNCHANGED <<owner, cookie>> /\ cookie[b].id \in IDs \cup {None} /\ cookie[b].until \in Nat
    BY <1>10, Types DEF LogoutArrives
  <2>2. /\ handler'[r].step \in {"deleting", "clearing"} /\ handler'[r].from = b
        /\ handler'[r].id = None => handler'[r].step = "clearing"
        /\ handler'[r].id # None => handler'[r].id = cookie[b].id
        /\ \A q \in Requests \ {r} : handler'[q] = handler[q]
    <3>1. CASE clock < cookie[b].until /\ Becomes(r, "deleting", b, cookie[b].id, 0)
      <4>1. cookie[b].id # None
        BY <1>0, <2>1, <3>1 DEF OneBrowserEach
      <4> QED
        BY <1>0, <2>1, <3>1, <4>1, Becoming, SMTT(30)
    <3>2. CASE Becomes(r, "clearing", b, None, 0)
      BY <1>0, <3>2, Becoming
    <3> QED
      BY <1>10, <3>1, <3>2 DEF LogoutArrives
  <2>3. HandlerOK(r)
    <3>1. handler'[r].id # None => owner'[handler'[r].id] = b
      BY <2>1, <2>2 DEF OneBrowserEach
    <3> QED
      BY <1>0, <1>d, <2>2, <3>1
  <2> QED
    BY <1>a, <1>b, <2>1, <2>2, <2>3
<1>11. ASSUME NEW r \in Requests, Deletes(r)
       PROVE  OneBrowserEach'
  <2>1. /\ Becomes(r, "clearing", handler[r].from, None, 0) /\ UNCHANGED <<owner, cookie>>
        /\ handler[r].from \in Browsers
    BY <1>11, <1>t DEF Deletes
  <2>2. /\ handler'[r].step = "clearing" /\ handler'[r].from = handler[r].from
        /\ handler'[r].id = None
        /\ \A q \in Requests \ {r} : handler'[q] = handler[q]
    <3>1. /\ handler[r].from \in Browsers \cup {None} /\ "clearing" \in Steps
          /\ None \in IDs \cup {None} /\ 0 \in Time
      BY <1>0, <1>t
    <3> QED
      BY <2>1, <3>1, Becoming, ZenonT(60)
  <2>3. HandlerOK(r)
    BY <1>0, <1>d, <2>1, <2>2
  <2> QED
    BY <1>a, <1>b, <2>1, <2>2, <2>3
<1>12. ASSUME NEW r \in Requests, Cleared(r)
       PROVE  OneBrowserEach'
  <2>1. /\ cookie' = [cookie EXCEPT ![handler[r].from] = NoCookie]
        /\ Ends(r) /\ UNCHANGED owner
    BY <1>12 DEF Cleared
  <2>2. ASSUME NEW o \in Browsers
        PROVE  CookieOK(o)
    <3>1. cookie'[o] = IF o = handler[r].from THEN NoCookie ELSE cookie[o]
      BY <2>1 DEF TypeOK
    <3>2. NoCookie.id = None /\ NoCookie.until = 0
      BY DEF NoCookie
    <3> QED
      BY <2>1, <3>1, <3>2 DEF CookieOK, OneBrowserEach
  <2> QED
    BY <1>5, <2>1, <2>2
<1>13. ASSUME NEW r \in Requests, Lost(r)
       PROVE  OneBrowserEach'
  BY <1>5, <1>b, <1>13 DEF Lost
<1>14. CASE GC
  <2>1. UNCHANGED <<owner, handler, cookie>>
    BY <1>14 DEF GC
  <2> QED
    BY <2>1 DEF OneBrowserEach
<1> QED
  BY <1>1, <1>2, <1>3, <1>6, <1>7, <1>8, <1>9, <1>10, <1>11, <1>12, <1>13, <1>14 DEF Next, Serve

----------------------------------------------------------------------------
(* Cookies. *)

\* Held after a step, for a time that the step does not move.
HeldNext(id, time) ==
    \/ \E b \in Browsers : /\ owner'[id] = b
                           /\ cookie'[b].id = id
                           /\ cookie'[b].until >= time + SessionTTL
    \/ \E r \in Requests : /\ handler'[r].id = id
                           /\ handler'[r].step = "answering"
                           /\ handler'[r].at >= time
    \/ astray'[id] >= time
    \/ id \in displaced'

\* A step that settles no answer leaves every cookie held.
LEMMA HeldKept ==
    ASSUME NEW id \in IDs, NEW time, Held(id, time), UNCHANGED <<cookie, astray, displaced>>,
           owner[id] \in Browsers => owner'[id] = owner[id],
           \A q \in Requests : handler[q].step = "answering" => handler'[q] = handler[q]
    PROVE  HeldNext(id, time)
<1>1. CASE \E b \in Browsers : /\ owner[id] = b
                               /\ cookie[b].id = id
                               /\ cookie[b].until >= time + SessionTTL
  BY <1>1 DEF HeldNext
<1>2. CASE \E r \in Requests : /\ handler[r].id = id
                               /\ handler[r].step = "answering"
                               /\ handler[r].at >= time
  BY <1>2 DEF HeldNext
<1>3. CASE astray[id] >= time \/ id \in displaced
  BY <1>3 DEF HeldNext
<1> QED
  BY <1>1, <1>2, <1>3 DEF Held

\* Nor does an answer that arrives or is lost: what it takes away from a cookie
\* it makes up for, or takes note of.
LEMMA HeldStep ==
    ASSUME TypeOK, ReadingsAreOld, OneBrowserEach, [Next]_vars,
           NEW id \in IDs, NEW time \in Int, time <= clock, Held(id, time)
    PROVE  HeldNext(id, time)
<1>0. /\ {"idle", "creating", "touching", "asking", "touched", "marking", "answering",
          "deleting", "clearing"} = Steps
      /\ None \in Browsers \cup {None} /\ None \in IDs \cup {None} /\ 0 \in Time
      /\ clock \in Time /\ clock \in Nat /\ SessionTTL \in Nat
      /\ Idle.step = "idle" /\ None \notin IDs /\ None \notin Browsers
  BY Types, NoneIsNeither DEF Steps, Idle
<1>t. ASSUME NEW r \in Requests
      PROVE  /\ handler[r].id \in IDs \cup {None} /\ handler[r].at \in Nat
             /\ handler[r].step \notin {"idle", "clearing"} => handler[r].id \in IDs
             /\ handler[r].step # "idle" => handler[r].from \in Browsers
             /\ handler[r].id # None => owner[handler[r].id] = handler[r].from
  BY Types DEF OneBrowserEach
<1>u. ASSUME NEW r \in Requests, handler[r].step # "answering",
             \/ UNCHANGED handler
             \/ \E h : handler' = [handler EXCEPT ![r] = h]
      PROVE  \A q \in Requests : handler[q].step = "answering" => handler'[q] = handler[q]
  BY <1>u DEF TypeOK
<1>1. CASE Tick \/ GC \/ UNCHANGED vars
  <2>1. UNCHANGED <<owner, handler, cookie, astray, displaced>>
    BY <1>1 DEF Tick, GC, vars, history
  <2> QED
    BY <2>1, HeldKept
<1>2. ASSUME NEW r \in Requests, NEW b \in Browsers, NEW i \in IDs, LoginPasses(r, b, i)
      PROVE  HeldNext(id, time)
  <2>1. UNCHANGED <<cookie, astray, displaced>> /\ handler[r].step # "answering"
    BY <1>0, <1>2 DEF LoginPasses, history
  <2>2. \A q \in Requests : handler[q].step = "answering" => handler'[q] = handler[q]
    BY <1>2, <1>u, <2>1 DEF LoginPasses, Becomes
  <2>3. owner[id] \in Browsers => owner'[id] = owner[id]
    BY <1>0, <1>2 DEF LoginPasses, Drawn, TypeOK
  <2> QED
    BY <2>1, <2>2, <2>3, HeldKept
<1>3. ASSUME NEW r \in Requests, handler[r].step # "answering",
             UNCHANGED <<owner, cookie, astray, displaced>>,
             \E h : handler' = [handler EXCEPT ![r] = h]
      PROVE  HeldNext(id, time)
  <2>1. \A q \in Requests : handler[q].step = "answering" => handler'[q] = handler[q]
    BY <1>3, <1>u
  <2> QED
    BY <1>3, <2>1, HeldKept
<1>4. ASSUME NEW r \in Requests, NEW b \in Browsers, NEW step \in {"touching", "asking"},
             Arrives(r, b, step)
      PROVE  HeldNext(id, time)
  BY <1>0, <1>3, <1>4 DEF Arrives, Becomes, history
<1>5. ASSUME NEW r \in Requests, Creates(r)
      PROVE  HeldNext(id, time)
  BY <1>3, <1>5 DEF Creates, Continues, Becomes, history
<1>6. ASSUME NEW r \in Requests, Touch(r)
      PROVE  HeldNext(id, time)
  <2>1. UNCHANGED <<owner, cookie, astray, displaced>> /\ handler[r].step # "answering"
    BY <1>6 DEF Touch
  <2>2. Touches(r) \/ Refuses(r)
    BY <1>6 DEF Touch
  <2>3. \E h : handler' = [handler EXCEPT ![r] = h]
    BY <2>2 DEF Touches, Refuses, Continues, Becomes, Ends
  <2> QED
    BY <1>3, <2>1, <2>3
<1>7. ASSUME NEW r \in Requests, Requires(r)
      PROVE  HeldNext(id, time)
  <2>1. Continues(r, "marking", clock) \/ Ends(r)
    BY <1>7 DEF Requires
  <2>2. \E h : handler' = [handler EXCEPT ![r] = h]
    BY <2>1 DEF Continues, Becomes, Ends
  <2> QED
    BY <1>3, <1>7, <2>2 DEF Requires, history
<1>8. ASSUME NEW r \in Requests, Marks(r)
      PROVE  HeldNext(id, time)
  BY <1>3, <1>8 DEF Marks, Continues, Becomes, history
<1>9. ASSUME NEW r \in Requests, NEW b \in Browsers, LogoutArrives(r, b)
      PROVE  HeldNext(id, time)
  <2>1. \E h : handler' = [handler EXCEPT ![r] = h]
    BY <1>9 DEF LogoutArrives, Becomes
  <2> QED
    BY <1>0, <1>3, <1>9, <2>1 DEF LogoutArrives, history
<1>10. ASSUME NEW r \in Requests, Deletes(r)
       PROVE  HeldNext(id, time)
  BY <1>3, <1>10 DEF Deletes, Becomes, history
<1>h. ASSUME NEW r \in Requests, Ends(r)
      PROVE  \A q \in Requests \ {r} : handler'[q] = handler[q]
  BY <1>h, Ending
<1>11. ASSUME NEW r \in Requests, Answered(r)
       PROVE  HeldNext(id, time)
  <2> DEFINE b == handler[r].from
             new == [id |-> handler[r].id, until |-> clock + SessionTTL]
  <2>1. b \in Browsers /\ handler[r].id \in IDs /\ owner[handler[r].id] = b
    BY <1>0, <1>11, <1>t DEF Answered
  <2>2. /\ cookie' = [cookie EXCEPT ![b] = new]
        /\ new.id = handler[r].id /\ new.until = clock + SessionTTL
        /\ displaced' = (displaced \cup ({cookie[b].id} \ {None})) \ {handler[r].id}
        /\ UNCHANGED <<owner, astray>>
        /\ \A q \in Requests \ {r} : handler'[q] = handler[q]
    BY <1>11, <1>h DEF Answered
  <2> HIDE DEF b, new
  <2>3. cookie'[b] = new /\ \A o \in Browsers \ {b} : cookie'[o] = cookie[o]
    BY <2>1, <2>2 DEF TypeOK
  <2>4. CASE id = handler[r].id
    <3>1. cookie'[b].until >= time + SessionTTL
      BY <1>0, <2>2, <2>3
    <3> QED
      BY <2>1, <2>2, <2>3, <2>4, <3>1 DEF HeldNext
  <2>5. CASE id # handler[r].id
    <3>1. ASSUME NEW o \in Browsers, owner[id] = o, cookie[o].id = id,
                 cookie[o].until >= time + SessionTTL
          PROVE  HeldNext(id, time)
      <4>1. CASE o = b
        <5>1. id \in displaced'
          BY <1>0, <2>2, <2>5, <3>1, <4>1
        <5> QED
          BY <5>1 DEF HeldNext
      <4>2. CASE o # b
        BY <2>2, <2>3, <3>1, <4>2 DEF HeldNext
      <4> QED
        BY <4>1, <4>2
    <3>2. ASSUME NEW q \in Requests, handler[q].id = id, handler[q].step = "answering",
                 handler[q].at >= time
          PROVE  HeldNext(id, time)
      <4>1. handler'[q] = handler[q]
        BY <2>2, <2>5, <3>2
      <4> QED
        BY <3>2, <4>1 DEF HeldNext
    <3>3. CASE astray[id] >= time
      BY <2>2, <3>3 DEF HeldNext
    <3>4. CASE id \in displaced
      <4>1. id \in displaced'
        BY <2>2, <2>5, <3>4
      <4> QED
        BY <4>1 DEF HeldNext
    <3> QED
      BY <3>1, <3>2, <3>3, <3>4 DEF Held
  <2> QED
    BY <2>4, <2>5
<1>12. ASSUME NEW r \in Requests, Cleared(r)
       PROVE  HeldNext(id, time)
  <2> DEFINE b == handler[r].from
  <2>1. b \in Browsers /\ handler[r].step = "clearing"
    BY <1>12, <1>t DEF Cleared
  <2>2. /\ cookie' = [cookie EXCEPT ![b] = NoCookie]
        /\ displaced' = displaced \cup ({cookie[b].id} \ {None})
        /\ UNCHANGED <<owner, astray>>
        /\ \A q \in Requests \ {r} : handler'[q] = handler[q]
    BY <1>12, <1>h DEF Cleared
  <2> HIDE DEF b
  <2>3. \A o \in Browsers \ {b} : cookie'[o] = cookie[o]
    BY <2>1, <2>2 DEF TypeOK
  <2>4. ASSUME NEW o \in Browsers, owner[id] = o, cookie[o].id = id,
               cookie[o].until >= time + SessionTTL
        PROVE  HeldNext(id, time)
    <3>1. CASE o = b
      <4>1. id \in displaced'
        BY <1>0, <2>2, <2>4, <3>1
      <4> QED
        BY <4>1 DEF HeldNext
    <3>2. CASE o # b
      BY <2>2, <2>3, <2>4, <3>2 DEF HeldNext
    <3> QED
      BY <3>1, <3>2
  <2>5. ASSUME NEW q \in Requests, handler[q].id = id, handler[q].step = "answering",
               handler[q].at >= time
        PROVE  HeldNext(id, time)
    <3>1. handler'[q] = handler[q]
      BY <2>1, <2>2, <2>5
    <3> QED
      BY <2>5, <3>1 DEF HeldNext
  <2>6. CASE astray[id] >= time \/ id \in displaced
    BY <2>2, <2>6 DEF HeldNext
  <2> QED
    BY <2>4, <2>5, <2>6 DEF Held
<1>13. ASSUME NEW r \in Requests, Lost(r)
       PROVE  HeldNext(id, time)
  <2>1. /\ UNCHANGED <<owner, cookie, displaced>>
        /\ \A q \in Requests \ {r} : handler'[q] = handler[q]
    BY <1>13, <1>h DEF Lost
  <2>2. /\ astray'[id] \in Int /\ astray'[id] >= astray[id] /\ astray[id] \in Int
        /\ handler[r].step = "answering" /\ handler[r].id = id => astray'[id] >= handler[r].at
    BY <1>13, <1>t, Types DEF Lost, TypeOK
  <2>3. ASSUME NEW q \in Requests, handler[q].id = id, handler[q].step = "answering",
               handler[q].at >= time
        PROVE  HeldNext(id, time)
    <3>1. CASE q = r
      <4>1. astray'[id] >= time
        BY <1>t, <2>2, <2>3, <3>1
      <4> QED
        BY <4>1 DEF HeldNext
    <3>2. CASE q # r
      <4>1. handler'[q] = handler[q]
        BY <2>1, <3>2
      <4> QED
        BY <2>3, <4>1 DEF HeldNext
    <3> QED
      BY <3>1, <3>2
  <2>4. CASE astray[id] >= time
    <3>1. astray'[id] >= time
      BY <2>2, <2>4
    <3> QED
      BY <3>1 DEF HeldNext
  <2>5. CASE id \in displaced
    BY <2>1, <2>5 DEF HeldNext
  <2>6. ASSUME NEW o \in Browsers, owner[id] = o, cookie[o].id = id,
               cookie[o].until >= time + SessionTTL
        PROVE  HeldNext(id, time)
    BY <2>1, <2>6 DEF HeldNext
  <2> QED
    BY <2>3, <2>4, <2>5, <2>6 DEF Held
<1> QED
  BY <1>1, <1>2, <1>4, <1>5, <1>6, <1>7, <1>8, <1>9, <1>10, <1>11, <1>12, <1>13 DEF Next, Serve

\* The three parts of GoesOut after a step.
LEMMA GoesOutNext ==
    ASSUME NEW id \in IDs,
           HeldNext(id, cookieIssued'[id]),
           \A q \in Requests : handler'[q].id = id /\ handler'[q].step = "touched"
                                 => HeldNext(id, handler'[q].at),
           \/ HeldNext(id, required'[id] - ReissueInterval)
           \/ \E q \in Requests :
                /\ handler'[q].id = id
                /\ \/ handler'[q].step = "touched"
                   \/ /\ handler'[q].step = "marking"
                      /\ handler'[q].at >= required'[id] - ReissueInterval
    PROVE  GoesOut(id)'
BY DEF GoesOut, Held, HeldNext

\* Steps that neither use a request of the session nor its record.
LEMMA GoesOutKept ==
    ASSUME TypeOK, ReadingsAreOld, OneBrowserEach, [Next]_vars,
           NEW id \in IDs, GoesOut(id),
           cookieIssued'[id] = cookieIssued[id], required'[id] = required[id],
           \A q \in Requests : handler'[q].id = id /\ handler'[q].step = "touched"
                                 => handler'[q] = handler[q],
           \A q \in Requests : handler[q].id = id /\ handler[q].step \in {"touched", "marking"}
                                 => handler'[q] = handler[q]
    PROVE  GoesOut(id)'
<1>1. /\ cookieIssued[id] \in Int /\ cookieIssued[id] <= clock
      /\ required[id] - ReissueInterval \in Int /\ required[id] - ReissueInterval <= clock
      /\ \A q \in Requests : handler[q].at \in Int /\ handler[q].at <= clock
  BY Types DEF ReadingsAreOld
<1>2. HeldNext(id, cookieIssued'[id])
  <2>1. Held(id, cookieIssued[id])
    BY DEF GoesOut
  <2> QED
    BY <1>1, <2>1, HeldStep
<1>3. ASSUME NEW q \in Requests, handler'[q].id = id, handler'[q].step = "touched"
      PROVE  HeldNext(id, handler'[q].at)
  <2>1. handler'[q] = handler[q]
    BY <1>3
  <2>2. Held(id, handler[q].at)
    BY <1>3, <2>1 DEF GoesOut
  <2>3. HeldNext(id, handler[q].at)
    BY <1>1, <2>2, HeldStep
  <2> QED
    BY <2>1, <2>3
<1>4. \/ HeldNext(id, required'[id] - ReissueInterval)
      \/ \E q \in Requests :
           /\ handler'[q].id = id
           /\ \/ handler'[q].step = "touched"
              \/ handler'[q].step = "marking" /\ handler'[q].at >= required'[id] - ReissueInterval
  <2>1. CASE Held(id, required[id] - ReissueInterval)
    <3>1. HeldNext(id, required[id] - ReissueInterval)
      BY <1>1, <2>1, HeldStep
    <3> QED
      BY <3>1
  <2>2. ASSUME NEW q \in Requests, handler[q].id = id,
               \/ handler[q].step = "touched"
               \/ handler[q].step = "marking" /\ handler[q].at >= required[id] - ReissueInterval
        PROVE  \E o \in Requests :
                 /\ handler'[o].id = id
                 /\ \/ handler'[o].step = "touched"
                    \/ /\ handler'[o].step = "marking"
                       /\ handler'[o].at >= required'[id] - ReissueInterval
    BY <2>2
  <2> QED
    BY <2>1, <2>2 DEF GoesOut
<1> QED
  BY <1>2, <1>3, <1>4, GoesOutNext

LEMMA CookiesStep ==
    ASSUME TypeOK, ReadingsAreOld, DrawnOnce, OneBrowserEach, CookiesGoOut, [Next]_vars
    PROVE  CookiesGoOut'
<1> SUFFICES ASSUME NEW id \in IDs, id \in byID'
             PROVE  GoesOut(id)'
  <2>1. TypeOK'
    BY TypesStep
  <2> QED
    BY <2>1 DEF TypeOK, CookiesGoOut
<1>0. /\ {"idle", "creating", "touching", "asking", "touched", "marking", "answering",
          "deleting", "clearing"} = Steps
      /\ None \in Browsers \cup {None} /\ None \in IDs \cup {None} /\ 0 \in Time
      /\ clock \in Time /\ clock \in Nat /\ ReissueInterval \in Nat /\ ReissueInterval > 0
      /\ None \notin IDs /\ None \notin Browsers
  BY Types, NoneIsNeither, SessionLimits DEF Steps
<1>t. ASSUME NEW r \in Requests
      PROVE  /\ handler[r].id \in IDs \cup {None} /\ handler[r].at \in Nat /\ handler[r].at \in Time
             /\ handler[r].at <= clock
             /\ handler[r].step \notin {"idle", "clearing"} => handler[r].id \in IDs
  BY Types DEF OneBrowserEach, ReadingsAreOld
<1>i. /\ cookieIssued[id] \in Nat /\ cookieIssued[id] \in Time /\ cookieIssued[id] <= clock
      /\ required[id] \in Nat /\ required[id] <= clock
  BY Types DEF ReadingsAreOld, TypeOK
<1>s. id \in byID => GoesOut(id)
  BY DEF CookiesGoOut
\* A handler takes a step that is of another session, or of none that matters.
<1>k. ASSUME NEW r \in Requests, id \in byID,
             cookieIssued'[id] = cookieIssued[id], required'[id] = required[id],
             \A q \in Requests \ {r} : handler'[q] = handler[q],
             handler'[r].id = id => handler'[r].step # "touched",
             handler[r].id = id => handler[r].step \notin {"touched", "marking"}
      PROVE  GoesOut(id)'
  <2>1. /\ \A q \in Requests : handler'[q].id = id /\ handler'[q].step = "touched"
                                 => handler'[q] = handler[q]
        /\ \A q \in Requests : handler[q].id = id /\ handler[q].step \in {"touched", "marking"}
                                 => handler'[q] = handler[q]
    BY <1>k
  <2> QED
    BY <1>k, <1>s, <2>1, GoesOutKept
<1>1. CASE Tick \/ UNCHANGED vars
  <2>1. UNCHANGED <<byID, cookieIssued, required, handler>>
    BY <1>1 DEF Tick, vars, records, history
  <2> QED
    BY <1>s, <2>1, GoesOutKept
<1>2. ASSUME NEW r \in Requests, NEW b \in Browsers, NEW i \in IDs, LoginPasses(r, b, i)
      PROVE  GoesOut(id)'
  <2>1. UNCHANGED <<byID, cookieIssued, required>> /\ handler[r].step = "idle"
    BY <1>2 DEF LoginPasses, records, history, Idle
  <2>2. handler'[r].step = "creating" /\ \A q \in Requests \ {r} : handler'[q] = handler[q]
    BY <1>0, <1>2, Becoming DEF LoginPasses
  <2> QED
    BY <1>k, <2>1, <2>2
<1>3. ASSUME NEW r \in Requests, NEW b \in Browsers, NEW step \in {"touching", "asking"},
             Arrives(r, b, step)
      PROVE  GoesOut(id)'
  <2>1. /\ UNCHANGED <<byID, cookieIssued, required>> /\ handler[r].step = "idle"
        /\ cookie[b].id \in IDs \cup {None} /\ step \in Steps
    BY <1>0, <1>3, Types DEF Arrives, records, history, Idle
  <2>2. handler'[r].step = step /\ \A q \in Requests \ {r} : handler'[q] = handler[q]
    BY <1>0, <1>3, <2>1, Becoming DEF Arrives
  <2> QED
    BY <1>k, <2>1, <2>2
<1>4. ASSUME NEW r \in Requests, Creates(r)
      PROVE  GoesOut(id)'
  <2>1. PICK V \in Oldest :
          /\ byID' = (byID \ V) \cup {handler[r].id}
          /\ cookieIssued' = [Without(cookieIssued, V) EXCEPT ![handler[r].id] = handler[r].at]
    BY <1>4 DEF Creates
  <2>2. /\ UNCHANGED required /\ handler[r].id \in IDs /\ handler[r].step = "creating"
        /\ Continues(r, "answering", handler[r].at) /\ "answering" \in Steps
    BY <1>0, <1>4, <1>t DEF Creates, history
  <2>3. /\ handler'[r].step = "answering" /\ handler'[r].id = handler[r].id
        /\ handler'[r].at = handler[r].at
        /\ \A q \in Requests \ {r} : handler'[q] = handler[q]
    BY <1>t, <2>2, Continuing
  <2>4. CASE id # handler[r].id
    <3>1. id \in byID /\ cookieIssued'[id] = cookieIssued[id]
      BY <2>1, <2>4 DEF Without
    <3> QED
      BY <1>k, <2>2, <2>3, <2>4, <3>1
  <2>5. CASE id = handler[r].id
    <3>1. required[id] = 0 /\ \A q \in Requests \ {r} : handler[q].id # id
      BY <2>2, <2>5 DEF DrawnOnce
    <3>2. cookieIssued'[id] = handler[r].at
      BY <2>1, <2>5 DEF Without
    <3>3. HeldNext(id, handler[r].at)
      BY <1>t, <2>3, <2>5 DEF HeldNext
    <3>4. HeldNext(id, required'[id] - ReissueInterval)
      <4>1. handler[r].at >= required'[id] - ReissueInterval
        BY <1>0, <1>t, <2>2, <3>1
      <4> QED
        BY <2>3, <2>5, <4>1 DEF HeldNext
    <3>5. \A q \in Requests : ~(handler'[q].id = id /\ handler'[q].step = "touched")
      BY <2>3, <3>1
    <3> QED
      BY <3>2, <3>3, <3>4, <3>5, GoesOutNext
  <2> QED
    BY <2>4, <2>5
<1>5. ASSUME NEW r \in Requests, Touch(r)
      PROVE  GoesOut(id)'
  <2>1. handler[r].id \in IDs /\ handler[r].step \in {"touching", "asking"}
    BY <1>5, <1>t DEF Touch
  <2>2. CASE Refuses(r)
    <3>1. Drops({handler[r].id}) /\ Ends(r) /\ UNCHANGED required
      BY <2>2 DEF Refuses
    <3>2. id \in byID /\ cookieIssued'[id] = cookieIssued[id]
      BY <2>1, <3>1, Dropping
    <3>3. handler'[r].step = "idle" /\ \A q \in Requests \ {r} : handler'[q] = handler[q]
      BY <3>1, Ending
    <3> QED
      BY <1>k, <2>1, <3>1, <3>2, <3>3
  <2>3. CASE Touches(r) /\ Ends(r)
    <3>1. handler'[r].step = "idle" /\ \A q \in Requests \ {r} : handler'[q] = handler[q]
      BY <2>3, Ending
    <3>2. handler[r].step # "touching" \/ Continues(r, "touched", cookieIssued[handler[r].id])
      BY <2>3 DEF Touches
    <3>3. cookieIssued[handler[r].id] \in Time /\ "touched" \in Steps
      BY <1>0, <2>1 DEF TypeOK
    <3>4. ~Continues(r, "touched", cookieIssued[handler[r].id])
      BY <3>1, <3>3, Continuing
    <3>5. UNCHANGED <<byID, cookieIssued, required>>
      BY <2>3, <3>2, <3>4 DEF Touches
    <3> QED
      BY <1>k, <2>1, <3>1, <3>5
  <2>4. CASE Touches(r) /\ Continues(r, "touched", cookieIssued[handler[r].id])
    <3>1. UNCHANGED <<byID, cookieIssued>> /\ cookieIssued[handler[r].id] \in Time
          /\ "touched" \in Steps
      BY <1>0, <2>1, <2>4 DEF Touches, TypeOK
    <3>2. /\ handler'[r].step = "touched" /\ handler'[r].id = handler[r].id
          /\ handler'[r].at = cookieIssued[handler[r].id]
          /\ \A q \in Requests \ {r} : handler'[q] = handler[q]
      BY <2>4, <3>1, Continuing
    <3>3. CASE id # handler[r].id
      <4>1. required'[id] = required[id]
        BY <2>4, <3>3 DEF Touches, TypeOK
      <4> QED
        BY <1>k, <3>1, <3>2, <3>3, <4>1
    <3>4. CASE id = handler[r].id
      <4>1. GoesOut(id)
        BY <1>s, <3>1
      <4>2. HeldNext(id, cookieIssued[id])
        <5>1. Held(id, cookieIssued[id])
          BY <4>1 DEF GoesOut
        <5> QED
          BY <1>i, <5>1, HeldStep
      <4>3. ASSUME NEW q \in Requests, handler'[q].id = id, handler'[q].step = "touched"
            PROVE  HeldNext(id, handler'[q].at)
        <5>1. CASE q = r
          BY <3>2, <3>4, <4>2, <5>1
        <5>2. CASE q # r
          <6>1. handler'[q] = handler[q]
            BY <3>2, <5>2
          <6>2. Held(id, handler[q].at)
            BY <4>1, <4>3, <6>1 DEF GoesOut
          <6>3. HeldNext(id, handler[q].at)
            BY <1>t, <6>2, HeldStep
          <6> QED
            BY <6>1, <6>3
        <5> QED
          BY <5>1, <5>2
      <4> QED
        BY <3>1, <3>2, <3>4, <4>2, <4>3, GoesOutNext
    <3> QED
      BY <3>3, <3>4
  <2> QED
    BY <1>5, <2>2, <2>3, <2>4 DEF Touch, Touches
<1>6. ASSUME NEW r \in Requests, Requires(r)
      PROVE  GoesOut(id)'
  <2>1. /\ UNCHANGED <<byID, cookieIssued, required>> /\ handler[r].step = "touched"
        /\ "marking" \in Steps /\ id \in byID
    BY <1>0, <1>6 DEF Requires, records, history
  <2>2. \/ Continues(r, "marking", clock)
        \/ Ends(r) /\ ~(clock - handler[r].at > ReissueInterval)
    BY <1>6 DEF Requires
  <2>3. /\ handler'[r].step # "touched"
        /\ \A q \in Requests \ {r} : handler'[q] = handler[q]
        /\ \/ handler'[r].step = "marking" /\ handler'[r].at = clock /\ handler'[r].id = handler[r].id
           \/ ~(clock - handler[r].at > ReissueInterval)
    <3>1. CASE Continues(r, "marking", clock)
      BY <1>0, <2>1, <3>1, Continuing
    <3>2. CASE Ends(r) /\ ~(clock - handler[r].at > ReissueInterval)
      BY <3>2, Ending
    <3> QED
      BY <2>2, <3>1, <3>2
  <2>4. CASE id # handler[r].id
    BY <1>k, <2>1, <2>3, <2>4
  <2>5. CASE id = handler[r].id
    <3>1. GoesOut(id)
      BY <1>s, <2>1
    <3>2. HeldNext(id, cookieIssued[id])
      <4>1. Held(id, cookieIssued[id])
        BY <3>1 DEF GoesOut
      <4> QED
        BY <1>i, <4>1, HeldStep
    <3>3. ASSUME NEW q \in Requests, handler'[q].id = id, handler'[q].step = "touched"
          PROVE  HeldNext(id, handler'[q].at)
      <4>1. q # r /\ handler'[q] = handler[q]
        BY <2>3, <3>3
      <4>2. Held(id, handler[q].at)
        BY <3>1, <3>3, <4>1 DEF GoesOut
      <4>3. HeldNext(id, handler[q].at)
        BY <1>t, <4>2, HeldStep
      <4> QED
        BY <4>1, <4>3
    <3>4. CASE handler'[r].step = "marking" /\ handler'[r].at = clock /\ handler'[r].id = handler[r].id
      <4>1. handler'[r].at >= required'[id] - ReissueInterval
        BY <1>0, <1>i, <2>1, <3>4
      <4> QED
        BY <2>1, <2>5, <3>2, <3>3, <3>4, <4>1, GoesOutNext
    <3>5. CASE ~(clock - handler[r].at > ReissueInterval)
      <4>1. Held(id, handler[r].at)
        BY <2>1, <2>5, <3>1 DEF GoesOut
      <4>2. HeldNext(id, handler[r].at)
        BY <1>t, <4>1, HeldStep
      <4>3. handler[r].at >= required[id] - ReissueInterval
        BY <1>0, <1>i, <1>t, <3>5
      <4>4. HeldNext(id, required[id] - ReissueInterval)
        <5>1. TypeOK'
          BY TypesStep
        <5>2. /\ \A b \in Browsers : cookie'[b].until \in Nat
              /\ \A q \in Requests : handler'[q].at \in Nat
              /\ astray'[id] \in Nat /\ SessionTTL \in Nat
          BY <5>1, SessionLimits DEF TypeOK, Handler, Time
        <5> HIDE DEF HeldNext
        <5>3. ASSUME NEW s \in Int, NEW t \in Int, s >= t, HeldNext(id, s)
              PROVE  HeldNext(id, t)
          BY <5>2, <5>3 DEF HeldNext
        <5> QED
          BY <1>0, <1>i, <1>t, <4>2, <4>3, <5>3
      <4> QED
        BY <2>1, <3>2, <3>3, <4>4, GoesOutNext
    <3> QED
      BY <2>3, <3>4, <3>5
  <2> QED
    BY <2>4, <2>5
<1>7. ASSUME NEW r \in Requests, Marks(r)
      PROVE  GoesOut(id)'
  <2>1. /\ UNCHANGED <<byID, required>> /\ id \in byID /\ handler[r].id \in IDs
        /\ handler[r].step = "marking" /\ "answering" \in Steps
        /\ Continues(r, "answering", handler[r].at)
    BY <1>0, <1>7, <1>t DEF Marks, history
  <2>2. /\ handler'[r].step = "answering" /\ handler'[r].id = handler[r].id
        /\ handler'[r].at = handler[r].at
        /\ \A q \in Requests \ {r} : handler'[q] = handler[q]
    BY <1>t, <2>1, Continuing
  <2>3. CASE id # handler[r].id
    <3>1. cookieIssued'[id] = cookieIssued[id]
      BY <1>7, <2>3 DEF Marks, TypeOK
    <3> QED
      BY <1>k, <2>1, <2>2, <2>3, <3>1
  <2>4. CASE id = handler[r].id
    <3>1. GoesOut(id) /\ cookieIssued'[id] = handler[r].at
      BY <1>7, <1>s, <2>1, <2>4 DEF Marks, TypeOK
    <3>2. HeldNext(id, handler[r].at)
      BY <1>t, <2>2, <2>4 DEF HeldNext
    <3>3. ASSUME NEW q \in Requests, handler'[q].id = id, handler'[q].step = "touched"
          PROVE  HeldNext(id, handler'[q].at)
      <4>1. q # r /\ handler'[q] = handler[q]
        BY <2>2, <3>3
      <4>2. Held(id, handler[q].at)
        BY <3>1, <3>3, <4>1 DEF GoesOut
      <4>3. HeldNext(id, handler[q].at)
        BY <1>t, <4>2, HeldStep
      <4> QED
        BY <4>1, <4>3
    <3>4. \/ HeldNext(id, required'[id] - ReissueInterval)
          \/ \E q \in Requests :
               /\ handler'[q].id = id
               /\ \/ handler'[q].step = "touched"
                  \/ handler'[q].step = "marking" /\ handler'[q].at >= required'[id] - ReissueInterval
      <4>1. CASE Held(id, required[id] - ReissueInterval)
        <5>1. HeldNext(id, required[id] - ReissueInterval)
          <6>1. required[id] - ReissueInterval \in Int /\ required[id] - ReissueInterval <= clock
            BY <1>0, <1>i
          <6> QED
            BY <4>1, <6>1, HeldStep
        <5> QED
          BY <2>1, <5>1
      <4>2. ASSUME NEW q \in Requests, handler[q].id = id,
                   \/ handler[q].step = "touched"
                   \/ handler[q].step = "marking" /\ handler[q].at >= required[id] - ReissueInterval
            PROVE  \/ HeldNext(id, required'[id] - ReissueInterval)
                   \/ \E o \in Requests :
                        /\ handler'[o].id = id
                        /\ \/ handler'[o].step = "touched"
                           \/ /\ handler'[o].step = "marking"
                              /\ handler'[o].at >= required'[id] - ReissueInterval
        <5>1. CASE q = r
          <6>1. HeldNext(id, required[id] - ReissueInterval)
            BY <2>1, <2>2, <2>4, <4>2, <5>1 DEF HeldNext
          <6> QED
            BY <2>1, <6>1
        <5>2. CASE q # r
          BY <2>1, <2>2, <4>2, <5>2
        <5> QED
          BY <5>1, <5>2
      <4> QED
        BY <3>1, <4>1, <4>2 DEF GoesOut
    <3> QED
      BY <3>1, <3>2, <3>3, <3>4, GoesOutNext
  <2> QED
    BY <2>3, <2>4
<1>8. ASSUME NEW r \in Requests, Answered(r) \/ Cleared(r) \/ Lost(r)
      PROVE  GoesOut(id)'
  <2>1. /\ Ends(r) /\ UNCHANGED <<byID, required, cookieIssued>>
        /\ handler[r].step \notin {"touched", "marking"}
    BY <1>8 DEF Answered, Cleared, Lost, records
  <2>2. handler'[r].step = "idle" /\ \A q \in Requests \ {r} : handler'[q] = handler[q]
    BY <2>1, Ending
  <2> QED
    BY <1>k, <2>1, <2>2
<1>9. ASSUME NEW r \in Requests, NEW b \in Browsers, LogoutArrives(r, b)
      PROVE  GoesOut(id)'
  <2>1. /\ UNCHANGED <<byID, required, cookieIssued>> /\ handler[r].step = "idle"
        /\ cookie[b].id \in IDs \cup {None}
    BY <1>9, Types DEF LogoutArrives, records, history, Idle
  <2>2. /\ handler'[r].step \in {"deleting", "clearing"}
        /\ \A q \in Requests \ {r} : handler'[q] = handler[q]
    BY <1>0, <1>9, <2>1, Becoming DEF LogoutArrives
  <2> QED
    BY <1>k, <2>1, <2>2
<1>10. ASSUME NEW r \in Requests, Deletes(r)
       PROVE  GoesOut(id)'
  <2>1. /\ Becomes(r, "clearing", handler[r].from, None, 0) /\ Drops({handler[r].id})
        /\ UNCHANGED required /\ handler[r].step = "deleting" /\ handler[r].id \in IDs
        /\ handler[r].from \in Browsers
    BY <1>10, <1>t DEF Deletes, history, OneBrowserEach
  <2>2. id \in byID /\ cookieIssued'[id] = cookieIssued[id]
    BY <2>1, Dropping
  <2>3. /\ handler'[r].step = "clearing" /\ handler'[r].from = handler[r].from
        /\ handler'[r].id = None
        /\ \A q \in Requests \ {r} : handler'[q] = handler[q]
    <3>1. /\ handler[r].from \in Browsers \cup {None} /\ "clearing" \in Steps
          /\ None \in IDs \cup {None} /\ 0 \in Time
      BY <1>0, <2>1
    <3> QED
      BY <2>1, <3>1, Becoming, ZenonT(60)
  <2> QED
    BY <1>k, <2>1, <2>2, <2>3
<1>11. CASE GC
  <2>1. {i \in byID : clock > expires[i]} \in SUBSET IDs
    BY DEF TypeOK
  <2>2. id \in byID /\ cookieIssued'[id] = cookieIssued[id]
    BY <1>11, <2>1, Dropping DEF GC
  <2>3. UNCHANGED <<handler, required>>
    BY <1>11 DEF GC, history
  <2> QED
    BY <1>s, <2>2, <2>3, GoesOutKept
<1> QED
  BY <1>1, <1>2, <1>3, <1>4, <1>5, <1>6, <1>7, <1>8, <1>9, <1>10, <1>11 DEF Next, Serve

----------------------------------------------------------------------------
(* The theorems. *)

\* In every reachable state the types are right, clock readings are old, an ID
\* is with the browser that drew it and nobody else's before its session is
\* created, and cookies go out.
THEOREM SessionInvariant == Spec => []SessionInv
<1>1. SessionInv /\ [Next]_vars => SessionInv'
  BY TypesStep, ReadingsStep, DrawnOnceStep, OneBrowserStep, CookiesStep DEF SessionInv
<1> QED
  BY <1>1, SessionsInit, PTL DEF Spec

\* What a step may do to the store: add the session of a login, or take away.
LEMMA StoreStep ==
    ASSUME TypeOK, OneBrowserEach, [Next]_vars
    PROVE  \/ byID' \subseteq byID
           \/ \E r \in Requests : Creates(r)
<1>t. \A r \in Requests : handler[r].step \notin {"idle", "clearing"} => handler[r].id \in IDs
  BY Types DEF OneBrowserEach
<1>1. ASSUME NEW r \in Requests, Touch(r)
      PROVE  byID' \subseteq byID
  BY <1>1, <1>t, Dropping DEF Touch, Touches, Refuses
<1>2. ASSUME NEW r \in Requests, Deletes(r)
      PROVE  byID' \subseteq byID
  BY <1>2, <1>t, Dropping DEF Deletes
<1>3. CASE GC
  <2>1. {id \in byID : clock > expires[id]} \in SUBSET IDs
    BY DEF TypeOK
  <2> QED
    BY <1>3, <2>1, Dropping DEF GC
<1>4. CASE UNCHANGED byID
  BY <1>4
<1> QED
  BY <1>1, <1>2, <1>3, <1>4
    DEF Next, Serve, Tick, LoginPasses, Arrives, Requires, Marks, LogoutArrives, Answered,
        Cleared, Lost, vars

\* The store holds maxSessions sessions at most: create is the only step that
\* adds one, under an ID that is not in the map, and makes room first.
THEOREM SessionsStayBounded == Spec => []SessionsAreBounded
<1> DEFINE Bounded == IsFiniteSet(byID) /\ SessionsAreBounded
<1>1. Init => Bounded
  BY FS_EmptySet, SessionLimits DEF Init, SessionsAreBounded
<1>2. SessionInv /\ Bounded /\ [Next]_vars => Bounded'
  <2> SUFFICES ASSUME SessionInv, Bounded, [Next]_vars
               PROVE  Bounded'
    OBVIOUS
  <2>1. /\ IsFiniteSet(byID) /\ Cardinality(byID) \in Nat /\ MaxSessions \in Nat
        /\ Cardinality(byID) <= MaxSessions /\ TypeOK /\ OneBrowserEach /\ DrawnOnce
    BY FS_CardinalityType, SessionLimits DEF SessionsAreBounded, SessionInv
  <2>2. CASE byID' \subseteq byID
    <3>1. IsFiniteSet(byID') /\ Cardinality(byID') <= Cardinality(byID)
      BY <2>1, <2>2, FS_Subset
    <3>2. Cardinality(byID') \in Nat
      BY <3>1, FS_CardinalityType
    <3> QED
      BY <2>1, <3>1, <3>2 DEF SessionsAreBounded
  <2>3. ASSUME NEW r \in Requests, Creates(r)
        PROVE  Bounded'
    <3> DEFINE id == handler[r].id
    <3>1. id \notin byID
      BY <2>1, <2>3 DEF Creates, DrawnOnce
    <3>2. PICK V \in Oldest : byID' = (byID \ V) \cup {id}
      BY <2>3 DEF Creates
    <3>3. CASE ~(Cardinality(byID) >= MaxSessions)
      <4>1. byID' = byID \cup {id}
        BY <3>2, <3>3 DEF Oldest
      <4>2. IsFiniteSet(byID') /\ Cardinality(byID') = Cardinality(byID) + 1
        BY <2>1, <3>1, <4>1, FS_AddElement
      <4> QED
        BY <2>1, <3>3, <4>2 DEF SessionsAreBounded
    <3>4. CASE Cardinality(byID) >= MaxSessions
      <4>1. PICK v \in byID : V = {v}
        BY <3>2, <3>4 DEF Oldest
      <4>2. IsFiniteSet(byID \ {v}) /\ Cardinality(byID \ {v}) = Cardinality(byID) - 1
        BY <2>1, FS_RemoveElement
      <4>3. /\ IsFiniteSet((byID \ {v}) \cup {id})
            /\ Cardinality((byID \ {v}) \cup {id}) = Cardinality(byID \ {v}) + 1
        BY <3>1, <4>2, FS_AddElement
      <4> QED
        BY <2>1, <3>2, <4>1, <4>2, <4>3 DEF SessionsAreBounded
    <3> QED
      BY <3>3, <3>4
  <2> QED
    BY <2>1, <2>2, <2>3, StoreStep
<1>3. Bounded => SessionsAreBounded
  OBVIOUS
<1> HIDE DEF Bounded
<1> QED
  BY <1>1, <1>2, <1>3, SessionInvariant, PTL DEF Spec

\* No step of any handler that was in flight when a session ended, nor of any
\* other, brings it back: only its own login creates it.
THEOREM EndedSessionsStayEnded == Spec => EndedStaysEnded
<1>1. ASSUME SessionInv, [Next]_vars, NEW id \in Drawn \ byID,
             \A r \in Requests : ~(handler[r].step = "creating" /\ handler[r].id = id)
      PROVE  id \notin byID'
  <2>1. TypeOK /\ OneBrowserEach
    BY <1>1 DEF SessionInv
  <2>2. CASE byID' \subseteq byID
    BY <1>1, <2>2
  <2>3. ASSUME NEW r \in Requests, Creates(r)
        PROVE  id \notin byID'
    <3>1. handler[r].id # id
      BY <1>1, <2>3 DEF Creates
    <3> QED
      BY <1>1, <2>3, <3>1 DEF Creates
  <2> QED
    BY <1>1, <2>1, <2>2, <2>3, StoreStep
<1>2. SessionInv /\ [Next]_vars =>
        [\A id \in Drawn \ byID :
           (\A r \in Requests : ~(handler[r].step = "creating" /\ handler[r].id = id))
              => id \notin byID']_vars
  BY <1>1
<1> QED
  BY <1>2, SessionInvariant, PTL DEF Spec, EndedStaysEnded

\* The browser's one cookie keeps up with the deadline the server slides,
\* whatever requests, logins and logouts of it overlap: a request that does not
\* send it again saw it issued less than a reissue interval ago, and what was
\* issued then is held, on its way, lost, or gave way to another answer.
THEOREM CookiesKeepUp == Spec => []CookieKeepsUp
<1>1. ASSUME SessionInv
      PROVE  CookieKeepsUp
  <2> SUFFICES ASSUME NEW id \in byID, Unanswered(id) = {}
               PROVE  \/ \E b \in Browsers :
                           /\ cookie[b].id = id
                           /\ cookie[b].until >= required[id] + SessionTTL - ReissueInterval
                      \/ astray[id] >= required[id] - ReissueInterval
                      \/ id \in displaced
    BY DEF CookieKeepsUp
  <2>1. GoesOut(id)
    BY <1>1 DEF SessionInv, CookiesGoOut
  <2>2. \A r \in Requests :
          ~(handler[r].id = id /\ handler[r].step \in {"touched", "marking", "answering"})
    BY DEF Unanswered
  <2>3. Held(id, required[id] - ReissueInterval)
    BY <2>1, <2>2 DEF GoesOut
  <2>4. /\ required[id] \in Int /\ SessionTTL \in Int /\ ReissueInterval \in Int
        /\ \A b \in Browsers : cookie[b].until \in Int
    BY <1>1, Types DEF SessionInv, TypeOK
  <2> QED
    BY <2>2, <2>3, <2>4 DEF Held
<1> QED
  BY <1>1, SessionInvariant, PTL

=============================================================================
