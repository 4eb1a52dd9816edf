------------------------- MODULE RateLimiterProofs -------------------------
(***************************************************************************)
(* Theorems about RateLimiter, for any limits, any number of concurrent    *)
(* logins and any number of addresses.                                     *)
(***************************************************************************)
EXTENDS RateLimiter, FiniteSetTheorems, TLAPS

\* What is proved of every record by itself.
Sound(rec) == rec \in Record /\ Window(rec) /\ Lock(rec)

LEMMA EmptyRecord == Sound(NoRecord)
BY LimitsArePositive DEF NoRecord, Sound, Record, Window, Lock, Time

\* Marking a record as seen concerns neither its window nor its lock.
LEMMA SeenKeeps ==
    ASSUME NEW rec \in Record, Sound(rec), NEW now \in Time
    PROVE  Sound([rec EXCEPT !.lastSeen = now])
BY DEF Sound, Record, Window, Lock

LEMMA FreshKeeps ==
    ASSUME NEW rec \in Record, Sound(rec), NEW now \in Time
    PROVE  Sound(Fresh(rec, now))
<1>1. CASE Lapsed(rec, now)
  <2> DEFINE new == [rec EXCEPT !.count = 0, !.windowStart = 0, !.lastFailure = 0,
                                !.lockedUntil = 0]
  <2>1. 0 \in Time
    BY LimitsArePositive DEF Time
  <2>2. /\ new \in Record /\ new.count = 0 /\ new.windowStart = 0 /\ new.lastFailure = 0
        /\ new.lockedUntil = 0
    BY <2>1 DEF Record, Sound
  <2>3. Window(new) /\ Lock(new)
    BY <2>2, LimitsArePositive DEF Window, Lock
  <2> QED
    BY <1>1, <2>2, <2>3 DEF Fresh, Sound
<1>2. CASE ~Lapsed(rec, now)
  BY <1>2 DEF Fresh
<1> QED
  BY <1>1, <1>2

\* A counted failure is a CoalesceWindow after the one before it.
LEMMA CountedKeeps ==
    ASSUME NEW rec \in Record, Sound(rec), NEW now \in Time \ {0}, ~Coalesced(rec, now)
    PROVE  Sound(Counted(rec, now))
<1> USE DEF Sound
<1> DEFINE new == Counted(rec, now)
<1>1. now \in Nat \ {0} /\ CoalesceWindow \in Nat \ {0} /\ LockoutDuration \in Nat
  BY LimitsArePositive DEF Time
<1>2. /\ rec.count \in Nat /\ rec.windowStart \in Time /\ rec.lastFailure \in Time
      /\ rec.windowStart \in Nat /\ rec.lastFailure \in Nat
  BY LimitsArePositive DEF Record, Time
<1>3. new \in Record
  <2>1. /\ rec.count + 1 \in Nat
        /\ (IF rec.windowStart = 0 THEN now ELSE rec.windowStart) \in Time
        /\ now \in Time
        /\ (IF rec.count + 1 >= MaxFailures THEN now + LockoutDuration ELSE rec.lockedUntil) \in Nat
        /\ rec \in Record
    BY <1>1, <1>2 DEF Record
  <2> QED
    BY <2>1 DEF Counted, Record
<1>4. /\ new.count = rec.count + 1
      /\ new.lastFailure = now
      /\ new.windowStart = IF rec.windowStart = 0 THEN now ELSE rec.windowStart
      /\ new.lockedUntil = IF rec.count + 1 >= MaxFailures THEN now + LockoutDuration
                                                           ELSE rec.lockedUntil
  BY DEF Counted, Record
<1>5. Window(new)
  <2>1. CASE rec.count = 0
    <3>1. new.windowStart = now /\ new.count - 1 = 0
      BY <1>2, <1>4, <2>1 DEF Window
    <3>2. 0 * CoalesceWindow = 0
      BY <1>1
    <3> QED
      BY <1>1, <1>4, <3>1, <3>2, <2>1 DEF Window
  <2>2. CASE rec.count > 0
    <3>1. new.windowStart = rec.windowStart /\ rec.windowStart > 0
      BY <1>2, <1>4, <2>2 DEF Window
    <3> DEFINE n == (rec.count - 1) * CoalesceWindow
    <3>2. n <= rec.lastFailure - rec.windowStart
      BY <2>2 DEF Window
    <3>3. n \in Nat /\ (new.count - 1) * CoalesceWindow = n + CoalesceWindow
      <4>1. new.count - 1 = (rec.count - 1) + 1 /\ rec.count - 1 \in Nat
        BY <1>2, <1>4, <2>2
      <4>2. \A m \in Nat : m * CoalesceWindow \in Nat
                           /\ (m + 1) * CoalesceWindow = m * CoalesceWindow + CoalesceWindow
        BY <1>1
      <4> QED
        BY <4>1, <4>2
    <3> HIDE DEF n
    <3>4. rec.lastFailure # 0
      BY <1>1, <1>2, <3>1, <3>2, <3>3
    <3>5. now - rec.lastFailure >= CoalesceWindow
      BY <1>1, <1>2, <3>4 DEF Coalesced
    <3>6. n + CoalesceWindow <= now - rec.windowStart
      BY <1>1, <1>2, <3>2, <3>3, <3>5
    <3> QED
      BY <1>1, <1>2, <1>4, <2>2, <3>1, <3>3, <3>6 DEF Window
  <2> QED
    BY <1>2, <2>1, <2>2
<1>6. Lock(new)
  BY <1>2, <1>4, LimitsArePositive DEF Lock
<1> QED
  BY <1>3, <1>5, <1>6

\* recordFailure, whatever record it finds and however old its clock reading.
LEMMA FailedKeeps ==
    ASSUME NEW rec \in Record, Sound(rec), NEW now \in Time \ {0}
    PROVE  Sound(Failed(rec, now))
<1> DEFINE seen == [rec EXCEPT !.lastSeen = now]
           new == Fresh(seen, now)
<1>1. Sound(seen)
  BY SeenKeeps
<1> HIDE DEF seen
<1>2. Sound(new)
  BY <1>1, FreshKeeps DEF Sound
<1>3. Failed(rec, now) = IF Coalesced(new, now) THEN new ELSE Counted(new, now)
  BY DEF Failed, seen
<1> HIDE DEF new
<1> QED
  BY <1>2, <1>3, CountedKeeps DEF Sound

----------------------------------------------------------------------------
(* The ledger. *)

LEMMA LateIsFinite ==
    ASSUME NEW F \in SUBSET Time, NEW c \in Time
    PROVE  /\ IsFiniteSet(F) /\ Cardinality(F) \in Nat
           /\ Late(F, c) \in SUBSET F
           /\ IsFiniteSet(Late(F, c)) /\ Cardinality(Late(F, c)) \in Nat
           /\ Cardinality(Late(F, c)) <= Cardinality(F)
<1>1. IsFiniteSet(Time)
  BY LimitsArePositive, FS_Interval DEF Time
<1>2. IsFiniteSet(F)
  BY <1>1, FS_Subset
<1>3. Late(F, c) \in SUBSET F
  BY DEF Late
<1>4. IsFiniteSet(Late(F, c)) /\ Cardinality(Late(F, c)) <= Cardinality(F)
  BY <1>2, <1>3, FS_Subset
<1> QED
  BY <1>2, <1>3, <1>4, FS_CardinalityType

\* Of fewer failures, or later, there are fewer late ones.
LEMMA LateShrinks ==
    ASSUME NEW F \in SUBSET Time, NEW G \in SUBSET F,
           NEW c \in Time, NEW d \in Time, c <= d
    PROVE  Cardinality(Late(G, d)) <= Cardinality(Late(F, c))
<1>1. Late(G, d) \in SUBSET Late(F, c)
  <2>1. \A t \in Time : d - t < FailureWindow => c - t < FailureWindow
    BY LimitsArePositive DEF Time
  <2> QED
    BY <2>1 DEF Late
<1> QED
  BY <1>1, LateIsFinite, FS_Subset

LEMMA NothingLate == \A c : Late({}, c) = {} /\ Cardinality({}) <= MaxFailures - 2
BY LimitsArePositive, FS_EmptySet DEF Late

LEMMA LedgerOfNothing ==
    ASSUME NEW rec \in Record, rec.windowStart = 0, NEW c \in Time
    PROVE  Ledger(rec, {}, c)
<1>1. Bygone(rec, {}) = {}
  BY DEF Bygone
<1> QED
  BY <1>1, NothingLate DEF Ledger

\* Time passes.
LEMMA LedgerAges ==
    ASSUME NEW rec \in Record, NEW F \in SUBSET Time, NEW c \in Time, NEW d \in Time,
           c <= d, Ledger(rec, F, c)
    PROVE  Ledger(rec, F, d)
<1>1. Bygone(rec, F) \in SUBSET Time
  BY DEF Bygone
<1>2. Cardinality(Late(Bygone(rec, F), d)) <= Cardinality(Late(Bygone(rec, F), c))
  BY <1>1, LateShrinks
<1>3. /\ Cardinality(Late(Bygone(rec, F), d)) \in Nat
      /\ Cardinality(Late(Bygone(rec, F), c)) \in Nat
  BY <1>1, LateIsFinite
<1> QED
  BY <1>2, <1>3, LimitsArePositive DEF Ledger

\* Marking a record as seen is nothing to its ledger.
LEMMA LedgerUnseen ==
    ASSUME NEW rec \in Record, NEW F, NEW c, NEW now, Ledger(rec, F, c)
    PROVE  Ledger([rec EXCEPT !.lastSeen = now], F, c)
BY DEF Ledger, Bygone, Record

\* After a lockout has run out, nothing is left that led to it.
LEMMA NothingLateAfterLockout ==
    ASSUME NEW rec \in Record, Sound(rec), NEW F \in SUBSET Time, NEW c \in Time,
           Ledger(rec, F, c), rec.count >= MaxFailures,
           NEW t \in Time, t <= c, ~LockedAt(rec, t)
    PROVE  Late(F, c) = {}
<1>1. /\ rec.windowStart # 0 /\ rec.lastFailure \in Nat /\ rec.lastFailure # 0
      /\ rec.lockedUntil = rec.lastFailure + LockoutDuration
  <2>1. rec.count > 0 /\ rec.lastFailure \in Nat /\ rec.windowStart \in Nat
    BY LimitsArePositive DEF Record, Time
  <2>2. \A m \in Nat : m * CoalesceWindow \in Nat
    BY LimitsArePositive
  <2>3. rec.count - 1 \in Nat /\ (rec.count - 1) * CoalesceWindow \in Nat
    BY <2>1, <2>2 DEF Record
  <2> DEFINE spaced == (rec.count - 1) * CoalesceWindow
  <2>4. rec.windowStart > 0 /\ spaced <= rec.lastFailure - rec.windowStart
    BY <2>1 DEF Sound, Window
  <2>5. rec.lockedUntil = rec.lastFailure + LockoutDuration
    BY DEF Sound, Lock
  <2> HIDE DEF spaced
  <2>6. spaced \in Nat
    BY <2>3 DEF spaced
  <2> QED
    BY <2>1, <2>4, <2>5, <2>6
<1>2. c >= rec.lastFailure + FailureWindow
  BY <1>1, LimitsArePositive, LockoutOutlastsWindow DEF LockedAt, Time
<1>3. \A f \in F : f <= rec.lastFailure /\ f \in Nat
  BY <1>1 DEF Ledger, Time
<1>4. \A f \in F : ~(c - f < FailureWindow)
  BY <1>1, <1>2, <1>3, LimitsArePositive DEF Time
<1> QED
  BY <1>4 DEF Late

\* The window of a record that is given up, because the window has run out or
\* the lock has, leaves MaxFailures - 2 late failures at most.
LEMMA WindowGivenUp ==
    ASSUME NEW rec \in Record, Sound(rec), NEW F \in SUBSET Time, NEW c \in Time,
           Ledger(rec, F, c), NEW t \in Time, t <= c, ~LockedAt(rec, t),
           rec.windowStart # 0 => Lapsed(rec, t)
    PROVE  Cardinality(Late(F, c)) <= MaxFailures - 2
<1>1. rec.count \in Nat /\ rec.windowStart \in Nat /\ rec.lastFailure \in Nat
      /\ rec.lockedUntil \in Nat
  BY DEF Record, Time
<1>2. CASE rec.windowStart = 0
  <2>1. Bygone(rec, F) = F
    BY <1>2 DEF Bygone
  <2> QED
    BY <2>1 DEF Ledger
<1>3. CASE rec.count >= MaxFailures
  BY <1>3, NothingLateAfterLockout, NothingLate
<1>4. CASE rec.windowStart # 0 /\ rec.count < MaxFailures
  <2> DEFINE W == F \ Bygone(rec, F)
             ws == rec.windowStart
  <2>1. rec.lockedUntil = 0
    BY <1>1, <1>4, LimitsArePositive DEF Sound, Lock
  <2>2. t - ws > FailureWindow
    BY <1>4, <2>1 DEF Lapsed
  <2>3. \A f \in Late(F, c) : f > ws
    BY <1>1, <2>2, LimitsArePositive DEF Late, Time
  <2>4. ws \in W /\ W \in SUBSET Time
    BY <1>1, <1>4 DEF Ledger, Bygone
  <2>5. Late(F, c) \in SUBSET (W \ {ws})
    <3> SUFFICES ASSUME NEW f \in Late(F, c)
                 PROVE  f \in W /\ f # ws
      OBVIOUS
    <3>1. f \in F /\ f \in Nat /\ f > ws
      BY <2>3 DEF Late, Time
    <3>2. f \notin Bygone(rec, F)
      BY <1>1, <1>4, <3>1 DEF Bygone
    <3> QED
      BY <1>1, <3>1, <3>2
  <2>6. IsFiniteSet(W) /\ Cardinality(W) \in Nat /\ Cardinality(W) <= rec.count
    BY <1>4, <2>4, LateIsFinite DEF Ledger
  <2> HIDE DEF W, ws
  <2>7. IsFiniteSet(W \ {ws}) /\ Cardinality(W \ {ws}) = Cardinality(W) - 1
    BY <2>4, <2>6, FS_RemoveElement
  <2>8. Cardinality(Late(F, c)) <= Cardinality(W \ {ws})
    BY <2>5, <2>7, FS_Subset
  <2>9. Cardinality(Late(F, c)) \in Nat
    BY LateIsFinite
  <2> QED
    BY <1>1, <1>4, <2>6, <2>7, <2>8, <2>9, LimitsArePositive
<1> QED
  BY <1>1, <1>2, <1>3, <1>4, LimitsArePositive

\* A failure opens a window; what is late of those before it is bygone.
LEMMA WindowOpened ==
    ASSUME NEW rec \in Record, Sound(rec), rec.windowStart = 0, NEW F \in SUBSET Time,
           NEW now \in Time \ {0}, NEW c \in Time,
           \A t \in F : t <= now,
           Cardinality(Late(F, c)) <= MaxFailures - 2
    PROVE  Ledger(Counted(rec, now), F \cup {now}, c)
<1> DEFINE new == Counted(rec, now)
           G == F \cup {now}
<1>1. rec.count = 0
  BY DEF Sound, Window, Record
<1>2. new.windowStart = now /\ new.lastFailure = now /\ new.count = 1
  BY <1>1 DEF Counted, Record
<1> HIDE DEF new
<1>n. now \in Nat /\ now # 0 /\ \A t \in G : t \in Nat
  BY LimitsArePositive DEF Time
<1>3. Bygone(new, G) \in SUBSET F /\ G \ Bygone(new, G) = {now}
  <2>1. Bygone(new, G) = {t \in G : t < now}
    BY <1>2, <1>n DEF Bygone
  <2>2. \A t \in G : t <= now
    BY <1>n
  <2>3. \A t \in G : ~(t < now) <=> t = now
    BY <1>n, <2>2
  <2>4. ~(now < now)
    BY <1>n
  <2> QED
    BY <2>1, <2>3, <2>4
<1>4. Cardinality(Late(Bygone(new, G), c)) <= Cardinality(Late(F, c))
  BY <1>3, LateShrinks DEF Time
<1>5. Cardinality(Late(Bygone(new, G), c)) \in Nat /\ Cardinality(Late(F, c)) \in Nat
  BY <1>3, LateIsFinite
<1>6. Cardinality(Late(Bygone(new, G), c)) <= MaxFailures - 2
  BY <1>4, <1>5, LimitsArePositive
<1>7. Cardinality({now}) = 1
  BY FS_Singleton
<1>8. \A t \in G : t <= now
  BY DEF Time
<1> QED
  BY <1>2, <1>3, <1>6, <1>7, <1>8 DEF Ledger, new

\* A failure is counted in the window there is.
LEMMA WindowContinued ==
    ASSUME NEW rec \in Record, Sound(rec), rec.windowStart # 0, NEW F \in SUBSET Time,
           NEW now \in Time \ {0}, NEW c \in Time, rec.lastFailure < now,
           Ledger(rec, F, c)
    PROVE  Ledger(Counted(rec, now), F \cup {now}, c)
<1> DEFINE new == Counted(rec, now)
           G == F \cup {now}
           W == F \ Bygone(rec, F)
<1>1. /\ new.windowStart = rec.windowStart /\ new.lastFailure = now
      /\ new.count = rec.count + 1 /\ rec.count \in Nat
      /\ rec.windowStart \in Nat /\ rec.lastFailure \in Nat /\ now \in Nat
  BY DEF Counted, Record, Time
<1> HIDE DEF new
<1>2. rec.windowStart <= now
  BY <1>1 DEF Ledger, Time
<1>3. Bygone(new, G) = Bygone(rec, F) /\ G \ Bygone(new, G) = W \cup {now}
  BY <1>1, <1>2 DEF Bygone, Time
<1>4. IsFiniteSet(W) /\ Cardinality(W) \in Nat /\ Cardinality(W) <= rec.count
  BY LateIsFinite DEF Ledger
<1>5. Cardinality(W \cup {now}) <= new.count
  <2> HIDE DEF W
  <2>1. Cardinality(W \cup {now}) \in {Cardinality(W), Cardinality(W) + 1}
    BY <1>4, FS_AddElement
  <2> QED
    BY <1>1, <1>4, <2>1
<1>6. \A t \in G : t <= now
  BY <1>1 DEF Ledger, Time
<1> QED
  BY <1>1, <1>3, <1>5, <1>6 DEF Ledger, new

\* Whether a failure reaches the count, and what the count then stands for.
Counts(rec, now) == Failed(rec, now).count # Fresh(rec, now).count

\* A failure, whatever it does to the window and to the lock, keeps the ledger.
LEMMA FailureIsLedgered ==
    ASSUME NEW ip \in IPs, byIP[ip] \in Record, Sound(byIP[ip]), recorded[ip] \in SUBSET Time,
           clock \in Time, NEW now \in Time \ {0}, now <= clock,
           Ledger(byIP[ip], recorded[ip], clock)
    PROVE  Ledger(Failed(byIP[ip], now),
                  IF Counts(byIP[ip], now) THEN Before(ip, now) \cup {now} ELSE recorded[ip],
                  clock)
<1> DEFINE rec == byIP[ip]
           seen == [rec EXCEPT !.lastSeen = now]
           new == Fresh(seen, now)
           F == recorded[ip]
<1>1. /\ seen \in Record /\ Sound(seen) /\ Ledger(seen, F, clock)
      /\ seen.count = rec.count /\ seen.windowStart = rec.windowStart
      /\ seen.lastFailure = rec.lastFailure /\ seen.lockedUntil = rec.lockedUntil
  BY SeenKeeps, LedgerUnseen DEF Record
<1>2. new \in Record /\ Sound(new) /\ new.count = Fresh(rec, now).count
  <2>1. Sound(new)
    BY <1>1, FreshKeeps
  <2>2. new.count = Fresh(rec, now).count
    BY <1>1 DEF Fresh, Lapsed, Record
  <2> QED
    BY <2>1, <2>2 DEF Sound
<1>3. Failed(rec, now) = IF Coalesced(new, now) THEN new ELSE Counted(new, now)
  BY DEF Failed
<1>4. Lapsed(seen, now) <=> Lapsed(rec, now)
  BY <1>1 DEF Lapsed
<1>5. CASE Lapsed(rec, now)
  <2>1. new.windowStart = 0 /\ new.lastFailure = 0
    BY <1>1, <1>4, <1>5 DEF Fresh, Record
  <2> HIDE DEF new, seen
  <2>2. ~Coalesced(new, now)
    BY <2>1 DEF Coalesced
  <2>3. Counts(rec, now)
    BY <1>2, <1>3, <2>2 DEF Counts, Counted, Record
  <2>4. Cardinality(Late(Before(ip, now), clock)) <= MaxFailures - 2
    <3>1. CASE Before(ip, now) = {}
      BY <3>1, NothingLate
    <3>2. CASE Before(ip, now) # {}
      <4>1. ~LockedAt(rec, now) /\ Before(ip, now) = F
        BY <1>5, <3>2 DEF Before
      <4> QED
        BY <1>5, <4>1, WindowGivenUp
    <3> QED
      BY <3>1, <3>2
  <2>5. Before(ip, now) \in SUBSET Time /\ \A t \in Before(ip, now) : t <= now
    BY DEF Before, Time
  <2> QED
    BY <1>2, <1>3, <2>1, <2>2, <2>3, <2>4, <2>5, WindowOpened
<1>6. CASE ~Lapsed(rec, now)
  <2>1. new = seen
    BY <1>4, <1>6 DEF Fresh
  <2> HIDE DEF new, seen
  <2>2. CASE Coalesced(seen, now)
    <3>1. Failed(rec, now) = seen /\ ~Counts(rec, now)
      BY <1>2, <1>3, <2>1, <2>2 DEF Counts
    <3> QED
      BY <1>1, <3>1
  <2>3. CASE ~Coalesced(seen, now)
    <3>1. Counts(rec, now)
      BY <1>2, <1>3, <2>1, <2>3 DEF Counts, Counted, Record
    <3>2. CASE rec.windowStart = 0
      <4>1. rec.lockedUntil = 0
        BY <3>2, LimitsArePositive DEF Sound, Window, Lock, Record
      <4>2. ~LockedAt(rec, now)
        BY <4>1 DEF LockedAt
      <4>3. Cardinality(Late(Before(ip, now), clock)) <= MaxFailures - 2
        <5>1. CASE Before(ip, now) = {}
          BY <5>1, NothingLate
        <5>2. CASE Before(ip, now) = F
          BY <3>2, <4>2, <5>2, WindowGivenUp
        <5> QED
          BY <5>1, <5>2 DEF Before
      <4>4. Before(ip, now) \in SUBSET Time /\ \A t \in Before(ip, now) : t <= now
        BY DEF Before, Time
      <4> QED
        BY <1>1, <1>3, <2>1, <2>3, <3>1, <3>2, <4>3, <4>4, WindowOpened
    <3>3. CASE rec.windowStart # 0
      <4>1. rec.lastFailure < now
        <5>1. rec.lastFailure \in Nat /\ now \in Nat \ {0}
          BY DEF Record, Time
        <5> QED
          BY <1>1, <2>3, <5>1, LimitsArePositive DEF Coalesced
      <4>2. Before(ip, now) = F
        <5>1. \A t \in F : t <= rec.lastFailure /\ t \in Nat
          BY <3>3 DEF Ledger, Time
        <5>2. \A t \in F : ~(now < t)
          BY <4>1, <5>1 DEF Record, Time
        <5> QED
          BY <1>6, <5>2 DEF Before
      <4> QED
        BY <1>1, <1>3, <2>1, <2>3, <3>1, <3>3, <4>1, <4>2, WindowContinued
    <3> QED
      BY <3>2, <3>3
  <2> QED
    BY <2>2, <2>3
<1> QED
  BY <1>5, <1>6

\* Nor does what a collection throws away.
LEMMA DeadIsLedgered ==
    ASSUME NEW rec \in Record, Sound(rec), NEW F \in SUBSET Time, NEW c \in Time,
           Ledger(rec, F, c), NEW t \in Time, t <= c, Dead(rec, t)
    PROVE  Ledger(NoRecord, F, c)
<1>1. rec.windowStart # 0 => Lapsed(rec, t)
  BY LimitsArePositive DEF Dead, Lapsed, Record, Time
<1>2. Cardinality(Late(F, c)) <= MaxFailures - 2
  BY <1>1, WindowGivenUp DEF Dead
<1>3. Bygone(NoRecord, F) = F /\ NoRecord.windowStart = 0
  BY DEF Bygone, NoRecord
<1> QED
  BY <1>2, <1>3 DEF Ledger

----------------------------------------------------------------------------
(* The invariant. *)

LEMMA LimiterInit == Init => LimiterInv
<1> SUFFICES ASSUME Init
             PROVE  LimiterInv
  OBVIOUS
<1>1. 1 \in Time \ {0} /\ 0 \in Time
  BY LimitsArePositive DEF Time
<1>2. TypeOK
  BY <1>1, EmptyRecord DEF Init, TypeOK, Login, Idle, Sound
<1>3. ReadingsAreOld
  BY DEF Init, ReadingsAreOld, Idle
<1>4. Ledger(NoRecord, {}, clock)
  BY <1>1, EmptyRecord, LedgerOfNothing DEF Init, NoRecord, Sound
<1> QED
  BY <1>2, <1>3, <1>4, EmptyRecord DEF Init, LimiterInv, Sound

\* The conjuncts about an address.
Kept(ip) == Sound(byIP[ip]) /\ Ledger(byIP[ip], recorded[ip], clock)

LEMMA LimiterParts ==
    LimiterInv <=> TypeOK /\ ReadingsAreOld /\ \A ip \in IPs : Kept(ip)
BY DEF LimiterInv, TypeOK, Kept, Sound

LEMMA LimiterPartsAfter ==
    LimiterInv' <=> TypeOK' /\ ReadingsAreOld' /\ \A ip \in IPs : Kept(ip)'
BY DEF LimiterInv, TypeOK, Kept, Sound

\* A login under way has a clock reading and an address.
LEMMA UnderWay ==
    ASSUME TypeOK, ReadingsAreOld, NEW r \in Requests, login[r].step \in {"begun", "passed"}
    PROVE  /\ login[r].ip \in IPs /\ login[r].now \in Time \ {0} /\ login[r].now <= clock
           /\ login[r] # Idle
           /\ login[r] \in [step : {"begun", "passed"}, ip : IPs, now : Time \ {0}]
BY DEF TypeOK, Login, Idle, ReadingsAreOld

\* A login that ends leaves no old reading behind.
LEMMA LoginEnds ==
    ASSUME TypeOK, ReadingsAreOld, NEW r \in Requests, login' = [login EXCEPT ![r] = Idle],
           UNCHANGED <<clock, collecting>>
    PROVE  login' \in [Requests -> Login] /\ ReadingsAreOld'
BY DEF TypeOK, Login, ReadingsAreOld

LEMMA LimiterStep == LimiterInv /\ [Next]_vars => LimiterInv'
<1> SUFFICES ASSUME TypeOK, ReadingsAreOld, \A ip \in IPs : Kept(ip), [Next]_vars
             PROVE  TypeOK' /\ ReadingsAreOld' /\ \A ip \in IPs : Kept(ip)'
  BY LimiterParts, LimiterPartsAfter
<1>a. /\ clock \in Time \ {0} /\ clock \in Nat /\ collecting \in Time
      /\ byIP \in [IPs -> Record] /\ login \in [Requests -> Login]
      /\ recorded \in [IPs -> SUBSET Time]
      /\ \A ip \in IPs : byIP[ip] \in Record /\ recorded[ip] \in SUBSET Time
  BY DEF TypeOK, Time
<1>1. CASE Tick
  <2>1. clock' \in Time \ {0} /\ clock <= clock'
    BY <1>1, <1>a, LimitsArePositive DEF Tick, Time
  <2>2. TypeOK'
    BY <1>1, <1>a, <2>1 DEF Tick, TypeOK
  <2>3. ReadingsAreOld'
    <3>1. ASSUME NEW r \in Requests, login[r] # Idle
          PROVE  login[r].now <= clock'
      <4>1. login[r].now <= clock /\ login[r].now \in Nat
        BY <1>a, <3>1 DEF ReadingsAreOld, Login, Time
      <4> QED
        BY <1>a, <2>1, <4>1 DEF Time
    <3>2. collecting <= clock'
      BY <1>a, <2>1 DEF ReadingsAreOld, Time
    <3> QED
      BY <1>1, <3>1, <3>2 DEF Tick, ReadingsAreOld
  <2>4. \A ip \in IPs : Ledger(byIP[ip], recorded[ip], clock')
    BY <1>a, <2>1, LedgerAges DEF Kept
  <2> QED
    BY <1>1, <2>2, <2>3, <2>4 DEF Tick, Kept
<1>2. ASSUME NEW r \in Requests, NEW ip \in IPs, LoginBegins(r, ip)
      PROVE  TypeOK' /\ ReadingsAreOld' /\ \A i \in IPs : Kept(i)'
  <2> DEFINE begun == [step |-> "begun", ip |-> ip, now |-> clock]
  <2>1. begun \in Login /\ begun.now <= clock
    BY <1>a DEF Login
  <2>2. TypeOK'
    BY <1>2, <2>1 DEF LoginBegins, TypeOK
  <2>3. ReadingsAreOld'
    BY <1>2, <1>a, <2>1 DEF LoginBegins, ReadingsAreOld
  <2> QED
    BY <1>2, <2>2, <2>3 DEF LoginBegins, Kept
<1>3. ASSUME NEW r \in Requests, LoginChecks(r)
      PROVE  TypeOK' /\ ReadingsAreOld' /\ \A i \in IPs : Kept(i)'
  <2> DEFINE ip == login[r].ip
             now == login[r].now
             seen == [byIP[ip] EXCEPT !.lastSeen = now]
             passed == [login[r] EXCEPT !.step = "passed"]
  <2>1. ip \in IPs /\ now \in Time \ {0} /\ now <= clock
    BY <1>3, UnderWay DEF LoginChecks
  <2>2. passed \in Login /\ passed.now = now /\ Idle \in Login
    BY <1>3, UnderWay DEF LoginChecks, Login
  <2>3. login' \in [Requests -> Login] /\ login' \in {[login EXCEPT ![r] = Idle], [login EXCEPT ![r] = passed]}
    BY <1>3, <1>a, <2>2 DEF LoginChecks
  <2>4. ReadingsAreOld'
    BY <1>3, <1>a, <2>1, <2>2, <2>3 DEF LoginChecks, ReadingsAreOld
  <2>5. Sound(seen) /\ Ledger(seen, recorded[ip], clock) /\ seen \in Record
    BY <1>a, <2>1, SeenKeeps, LedgerUnseen DEF Kept, Sound
  <2>6. byIP' = byIP \/ byIP' = [byIP EXCEPT ![ip] = seen]
    BY <1>3 DEF LoginChecks
  <2> HIDE DEF seen
  <2>7. byIP' \in [IPs -> Record]
    BY <1>a, <2>1, <2>5, <2>6
  <2>8. \A i \in IPs : Sound(byIP'[i]) /\ Ledger(byIP'[i], recorded[i], clock)
    BY <1>a, <2>1, <2>5, <2>6 DEF Kept
  <2>9. TypeOK'
    BY <1>3, <1>a, <2>3, <2>7 DEF LoginChecks, TypeOK
  <2> QED
    BY <1>3, <2>4, <2>8, <2>9 DEF LoginChecks, Kept
<1>4. ASSUME NEW r \in Requests, LoginFails(r)
      PROVE  TypeOK' /\ ReadingsAreOld' /\ \A i \in IPs : Kept(i)'
  <2> DEFINE ip == login[r].ip
             now == login[r].now
             new == Failed(byIP[ip], now)
             counts == Counts(byIP[ip], now)
             F == IF counts THEN Before(ip, now) \cup {now} ELSE recorded[ip]
  <2>1. ip \in IPs /\ now \in Time \ {0} /\ now <= clock
    BY <1>4, UnderWay DEF LoginFails
  <2>2. Sound(new) /\ new \in Record
    BY <1>a, <2>1, FailedKeeps DEF Kept, Sound
  <2>3. Ledger(new, F, clock)
    BY <1>a, <2>1, FailureIsLedgered DEF Kept
  <2>4. F \in SUBSET Time
    BY <1>a, <2>1 DEF Before
  <2>5. PICK V \in Victims(ip) :
          /\ byIP' = [i \in IPs |-> IF i = ip THEN new
                                    ELSE IF i \in V THEN NoRecord ELSE byIP[i]]
          /\ recorded' = [i \in IPs |-> IF i = ip /\ counts THEN Before(ip, now) \cup {now}
                                        ELSE IF i \in V THEN {} ELSE recorded[i]]
    BY <1>4 DEF LoginFails, Counts
  <2>6. ip \notin V
    BY <2>5 DEF Victims, LeastRecent, Tracked
  <2> HIDE DEF new, counts
  <2>7. recorded' = [i \in IPs |-> IF i = ip THEN F ELSE IF i \in V THEN {} ELSE recorded[i]]
    BY <2>5, <2>6
  <2> HIDE DEF F
  <2>8. Ledger(NoRecord, {}, clock) /\ NoRecord \in Record /\ Sound(NoRecord)
    BY <1>a, EmptyRecord, LedgerOfNothing DEF NoRecord, Sound
  <2>9. byIP' \in [IPs -> Record] /\ recorded' \in [IPs -> SUBSET Time]
    BY <1>a, <2>2, <2>4, <2>5, <2>7, <2>8
  <2>10. \A i \in IPs : Sound(byIP'[i]) /\ Ledger(byIP'[i], recorded'[i], clock)
    BY <1>a, <2>2, <2>3, <2>5, <2>7, <2>8 DEF Kept
  <2>11. login' \in [Requests -> Login] /\ ReadingsAreOld' /\ UNCHANGED <<clock, collecting>>
    BY <1>4, LoginEnds DEF LoginFails
  <2>12. TypeOK'
    BY <1>a, <2>9, <2>11 DEF TypeOK
  <2> QED
    BY <2>10, <2>11, <2>12 DEF Kept
<1>5. ASSUME NEW r \in Requests, LoginSucceeds(r)
      PROVE  TypeOK' /\ ReadingsAreOld' /\ \A i \in IPs : Kept(i)'
  <2>1. login' \in [Requests -> Login] /\ ReadingsAreOld' /\ UNCHANGED <<clock, collecting>>
    BY <1>5, LoginEnds DEF LoginSucceeds
  <2>2. Ledger(NoRecord, {}, clock) /\ NoRecord \in Record /\ Sound(NoRecord)
    BY <1>a, EmptyRecord, LedgerOfNothing DEF NoRecord, Sound
  <2>3. byIP' \in [IPs -> Record] /\ recorded' \in [IPs -> SUBSET Time]
    BY <1>5, <1>a, <2>2 DEF LoginSucceeds
  <2>4. \A i \in IPs : Sound(byIP'[i]) /\ Ledger(byIP'[i], recorded'[i], clock)
    BY <1>5, <1>a, <2>2 DEF LoginSucceeds, Kept
  <2>5. TypeOK'
    BY <1>a, <2>1, <2>3 DEF TypeOK
  <2> QED
    BY <2>1, <2>4, <2>5 DEF Kept
<1>6. CASE GCBegins
  BY <1>6, <1>a DEF GCBegins, TypeOK, ReadingsAreOld, Kept
<1>7. CASE GC
  <2>1. NoRecord \in Record /\ Sound(NoRecord) /\ 0 \in Time
    BY EmptyRecord, LimitsArePositive DEF Sound, Time
  <2>2. byIP' \in [IPs -> Record]
    BY <1>7, <1>a, <2>1 DEF GC
  <2>3. ASSUME NEW i \in IPs
        PROVE  Sound(byIP'[i]) /\ Ledger(byIP'[i], recorded[i], clock)
    <3>1. CASE Dead(byIP[i], collecting)
      <4>1. Ledger(NoRecord, recorded[i], clock)
        BY <1>a, <3>1, DeadIsLedgered DEF Kept, ReadingsAreOld
      <4> QED
        BY <1>7, <2>1, <3>1, <4>1 DEF GC
    <3>2. CASE ~Dead(byIP[i], collecting)
      BY <1>7, <3>2 DEF GC, Kept
    <3> QED
      BY <3>1, <3>2
  <2>4. ReadingsAreOld'
    BY <1>7, <1>a DEF GC, ReadingsAreOld
  <2> QED
    BY <1>7, <1>a, <2>1, <2>2, <2>3, <2>4 DEF GC, TypeOK, Kept
<1>8. CASE UNCHANGED vars
  BY <1>8 DEF vars, TypeOK, ReadingsAreOld, Kept
<1> QED
  BY <1>1, <1>2, <1>3, <1>4, <1>5, <1>6, <1>7, <1>8 DEF Next, LoginStep

\* In every reachable state the types are right, every record's counted
\* failures are spaced and its lock is as long as it should be, and the history
\* accounts for both.
THEOREM LimiterInvariant == Spec => []LimiterInv
BY LimiterInit, LimiterStep, PTL DEF Spec

\* However many requests of a burst reach recordFailure, in whatever order and
\* with whatever clock readings, they cost one failure per CoalesceWindow.
THEOREM BurstsAreFolded == Spec => []BurstCountsOnce
<1>1. LimiterInv => BurstCountsOnce
  BY DEF LimiterInv, Window, BurstCountsOnce
<1> QED
  BY <1>1, LimiterInvariant, PTL

----------------------------------------------------------------------------
(* What the ledger is kept for. *)

\* While an address is not locked out, a FailureWindow that ends now holds the
\* end of one window and the beginning of the next, and no more than that,
\* whichever old clock readings its failures were counted with.
THEOREM GuessesAreLimited == Spec => []FailuresAreBounded
<1>1. LimiterInv => FailuresAreBounded
  <2> SUFFICES ASSUME LimiterInv, NEW ip \in IPs,
                      Cardinality(Recent(ip)) >= 2 * MaxFailures - 2,
                      ~LockedAt(byIP[ip], clock)
               PROVE  FALSE
    BY DEF FailuresAreBounded
  <2> DEFINE rec == byIP[ip]
             F == recorded[ip]
             B == Late(Bygone(rec, F), clock)
             W == F \ Bygone(rec, F)
  <2>1. /\ rec \in Record /\ Sound(rec) /\ F \in SUBSET Time /\ clock \in Time /\ clock \in Nat
        /\ Ledger(rec, F, clock) /\ rec.count \in Nat /\ MaxFailures \in Nat \ {0, 1}
    BY LimiterParts, LimitsArePositive DEF Kept, TypeOK, Record, Time
  <2>2. Bygone(rec, F) \in SUBSET Time /\ W \in SUBSET Time
    BY <2>1 DEF Bygone
  <2>3. IsFiniteSet(B) /\ Cardinality(B) \in Nat /\ IsFiniteSet(W) /\ Cardinality(W) \in Nat
    BY <2>1, <2>2, LateIsFinite
  <2>4. Cardinality(B) <= MaxFailures - 2
    BY <2>1 DEF Ledger
  <2>5. CASE rec.count >= MaxFailures
    <3>1. Recent(ip) = {}
      <4>1. clock <= clock /\ ~LockedAt(rec, clock)
        BY <2>1
      <4> HIDE DEF rec, F
      <4>2. Late(F, clock) = {}
        BY <2>1, <2>5, <4>1, NothingLateAfterLockout
      <4> QED
        BY <4>2 DEF Recent, F
    <3> QED
      BY <2>1, <3>1, FS_EmptySet
  <2>6. CASE rec.windowStart = 0
    <3>1. Recent(ip) = B
      BY <2>6 DEF Recent, Bygone
    <3> HIDE DEF B
    <3> QED
      BY <2>1, <2>3, <2>4, <3>1
  <2>7. CASE rec.windowStart # 0 /\ rec.count < MaxFailures
    <3>1. Recent(ip) \in SUBSET (B \cup W)
      BY DEF Recent, Late
    <3>2. Cardinality(W) <= rec.count
      BY <2>1, <2>7 DEF Ledger
    <3> HIDE DEF B, W
    <3>3. IsFiniteSet(B \cup W) /\ Cardinality(B \cup W) \in Nat
          /\ Cardinality(B \cup W) <= Cardinality(B) + Cardinality(W)
      <4>1. IsFiniteSet(B \cup W) /\ IsFiniteSet(B \cap W)
            /\ Cardinality(B \cup W) = Cardinality(B) + Cardinality(W) - Cardinality(B \cap W)
        BY <2>3, FS_Union, FS_Intersection
      <4>2. Cardinality(B \cup W) \in Nat /\ Cardinality(B \cap W) \in Nat
        BY <4>1, FS_CardinalityType
      <4> QED
        BY <2>3, <4>1, <4>2
    <3>4. Cardinality(Recent(ip)) <= Cardinality(B \cup W) /\ Cardinality(Recent(ip)) \in Nat
      BY <3>1, <3>3, FS_Subset, FS_CardinalityType
    <3> QED
      BY <2>1, <2>3, <2>4, <2>7, <3>2, <3>3, <3>4
  <2> QED
    BY <2>1, <2>5, <2>6, <2>7
<1> QED
  BY <1>1, LimiterInvariant, PTL

\* The map stays within maxTrackedIPs: recordFailure is the only step that puts
\* an address into it, and evicts one first when it is full.
THEOREM MapStaysBounded == Spec => []MapIsBounded
<1> DEFINE Bounded == IsFiniteSet(Tracked) /\ MapIsBounded
<1>1. Init => Bounded
  <2>1. Init => Tracked = {}
    BY DEF Init, Tracked
  <2> QED
    BY <2>1, FS_EmptySet, LimitsArePositive DEF MapIsBounded
<1>2. LimiterInv /\ Bounded /\ [Next]_vars => Bounded'
  <2> SUFFICES ASSUME LimiterInv, Bounded, [Next]_vars
               PROVE  Bounded'
    OBVIOUS
  <2>1. IsFiniteSet(Tracked) /\ Cardinality(Tracked) \in Nat /\ MaxTracked \in Nat
        /\ Cardinality(Tracked) <= MaxTracked /\ byIP \in [IPs -> Record]
    BY FS_CardinalityType, LimitsArePositive DEF MapIsBounded, LimiterInv, TypeOK
  <2>2. ASSUME Tracked' \in SUBSET Tracked
        PROVE  Bounded'
    <3>1. IsFiniteSet(Tracked') /\ Cardinality(Tracked') <= Cardinality(Tracked)
      BY <2>1, <2>2, FS_Subset
    <3>2. Cardinality(Tracked') \in Nat
      BY <3>1, FS_CardinalityType
    <3> QED
      BY <2>1, <3>1, <3>2 DEF MapIsBounded
  <2>3. ASSUME NEW r \in Requests, LoginFails(r)
        PROVE  Bounded'
    <3> DEFINE ip == login[r].ip
    <3>1. PICK V \in Victims(ip) :
            /\ \A i \in IPs \ {ip} : byIP'[i] = IF i \in V THEN NoRecord ELSE byIP[i]
      BY <2>3 DEF LoginFails
    <3>2. CASE ip \in Tracked
      <4>1. V = {}
        BY <3>1, <3>2 DEF Victims
      <4>2. Tracked' \in SUBSET Tracked
        BY <3>1, <3>2, <4>1 DEF Tracked
      <4> QED
        BY <2>2, <4>2
    <3>3. CASE ip \notin Tracked /\ ~(Cardinality(Tracked) >= MaxTracked)
      <4>1. V = {}
        BY <3>1, <3>3 DEF Victims
      <4>2. Tracked' \in SUBSET (Tracked \cup {ip})
        BY <3>1, <4>1 DEF Tracked
      <4>3. /\ IsFiniteSet(Tracked \cup {ip})
            /\ Cardinality(Tracked \cup {ip}) = Cardinality(Tracked) + 1
        BY <2>1, <3>3, FS_AddElement
      <4>4. IsFiniteSet(Tracked') /\ Cardinality(Tracked') <= Cardinality(Tracked) + 1
            /\ Cardinality(Tracked') \in Nat
        BY <4>2, <4>3, FS_Subset, FS_CardinalityType
      <4> QED
        BY <2>1, <3>3, <4>4 DEF MapIsBounded
    <3>4. CASE ip \notin Tracked /\ Cardinality(Tracked) >= MaxTracked
      <4>1. PICK v \in Tracked : V = {v}
        BY <3>1, <3>4 DEF Victims, LeastRecent
      <4>2. v # ip /\ Tracked' \in SUBSET ((Tracked \ {v}) \cup {ip})
        BY <3>1, <3>4, <4>1 DEF Tracked
      <4>3. /\ IsFiniteSet(Tracked \ {v})
            /\ Cardinality(Tracked \ {v}) = Cardinality(Tracked) - 1
        BY <2>1, FS_RemoveElement
      <4>4. /\ IsFiniteSet((Tracked \ {v}) \cup {ip})
            /\ Cardinality((Tracked \ {v}) \cup {ip}) = Cardinality(Tracked \ {v}) + 1
        BY <3>4, <4>3, FS_AddElement
      <4>5. IsFiniteSet(Tracked')
            /\ Cardinality(Tracked') <= Cardinality((Tracked \ {v}) \cup {ip})
        BY <4>2, <4>4, FS_Subset
      <4>6. Cardinality(Tracked') \in Nat
        BY <4>5, FS_CardinalityType
      <4> QED
        BY <2>1, <4>3, <4>4, <4>5, <4>6 DEF MapIsBounded
    <3> QED
      BY <3>2, <3>3, <3>4
  <2>4. CASE Tick \/ GCBegins \/ UNCHANGED vars \/ \E r \in Requests, ip \in IPs : LoginBegins(r, ip)
    BY <2>2, <2>4 DEF Tick, GCBegins, vars, LoginBegins, Tracked
  <2>5. ASSUME NEW r \in Requests, LoginChecks(r) \/ LoginSucceeds(r)
        PROVE  Bounded'
    <3>1. login[r].ip \in Tracked => byIP[login[r].ip] # NoRecord
      BY DEF Tracked
    <3>2. Tracked' \in SUBSET Tracked
      BY <2>1, <2>5, <3>1 DEF LoginChecks, LoginSucceeds, Tracked
    <3> QED
      BY <2>2, <3>2
  <2>6. CASE GC
    <3>1. Tracked' \in SUBSET Tracked
      BY <2>6 DEF GC, Tracked
    <3> QED
      BY <2>2, <3>1
  <2> QED
    BY <2>3, <2>4, <2>5, <2>6 DEF Next, LoginStep
<1>3. Bounded => MapIsBounded
  OBVIOUS
<1> HIDE DEF Bounded
<1> QED
  BY <1>1, <1>2, <1>3, LimiterInvariant, PTL DEF Spec

----------------------------------------------------------------------------
(* Lockouts. *)

\* A failure does not shorten a lockout, unless it was let through before the
\* lock and finds the window it was tripped in over.
LEMMA FailureKeepsLock ==
    ASSUME NEW rec \in Record, Sound(rec), NEW now \in Time \ {0},
           NEW c \in Nat, now <= c, LockedAt(rec, c),
           ~(now - rec.windowStart > FailureWindow)
    PROVE  Failed(rec, now).lockedUntil >= rec.lockedUntil
<1> DEFINE seen == [rec EXCEPT !.lastSeen = now]
<1>1. /\ seen \in Record /\ seen.count = rec.count /\ seen.windowStart = rec.windowStart
      /\ seen.lastFailure = rec.lastFailure /\ seen.lockedUntil = rec.lockedUntil
  BY DEF Record
<1>2. /\ now \in Nat \ {0} /\ rec.count \in Nat /\ rec.lastFailure \in Nat
      /\ rec.lockedUntil \in Nat /\ rec.lockedUntil # 0 /\ c < rec.lockedUntil
  BY DEF Record, Time, LockedAt
<1>3. ~Lapsed(seen, now)
  BY <1>1, <1>2 DEF Lapsed
<1>4. Fresh(seen, now) = seen
  BY <1>3 DEF Fresh
<1> HIDE DEF seen
<1>5. Failed(rec, now) = IF Coalesced(seen, now) THEN seen ELSE Counted(seen, now)
  BY <1>4 DEF Failed, seen
<1>6. CASE Coalesced(seen, now)
  BY <1>1, <1>2, <1>5, <1>6
<1>7. CASE ~Coalesced(seen, now)
  <2>1. rec.count >= MaxFailures /\ rec.lockedUntil = rec.lastFailure + LockoutDuration
    BY <1>2 DEF Sound, Lock
  <2>2. rec.lastFailure <= now
    BY <1>1, <1>2, <1>7, LimitsArePositive DEF Coalesced
  <2>3. Counted(seen, now).lockedUntil = now + LockoutDuration
    BY <1>1, <1>2, <2>1, LimitsArePositive DEF Counted, Record
  <2> QED
    BY <1>2, <1>5, <1>7, <2>1, <2>2, <2>3, LimitsArePositive
<1> QED
  BY <1>6, <1>7

\* Whoever fails is in the map afterwards.
LEMMA FailureIsTracked ==
    ASSUME NEW rec \in Record, NEW now \in Time \ {0}
    PROVE  Failed(rec, now).lastSeen = now /\ Failed(rec, now) # NoRecord
<1>1. Failed(rec, now).lastSeen = now
  BY DEF Failed, Fresh, Counted, Record
<1> QED
  BY <1>1 DEF NoRecord

\* A lockout ends early only for whoever logs in, for want of room in the map,
\* or by a request that was let through before it; never by a collection with
\* an old clock reading, nor by any other failure.
THEOREM LockoutsOutliveTheRest == Spec => LockoutOutlivesTheRest
<1> DEFINE Outlives(ip) == \/ byIP'[ip].lockedUntil >= byIP[ip].lockedUntil
                           \/ LoggedIn(ip)
                           \/ Evicted(ip)
                           \/ LetThrough(ip)
<1>1. ASSUME LimiterInv, [Next]_vars, NEW ip \in IPs, LockedAt(byIP[ip], clock)
      PROVE  Outlives(ip)
  <2>1. /\ TypeOK /\ ReadingsAreOld /\ byIP \in [IPs -> Record] /\ byIP[ip] \in Record
        /\ Sound(byIP[ip]) /\ clock \in Nat /\ byIP[ip].lockedUntil \in Nat
        /\ login \in [Requests -> Login]
    BY <1>1, LimiterParts DEF Kept, TypeOK, Record, Time
  <2>2. ASSUME byIP'[ip] = byIP[ip] \/ byIP'[ip].lockedUntil = byIP[ip].lockedUntil
        PROVE  Outlives(ip)
    BY <2>1, <2>2
  <2>3. CASE Tick \/ GCBegins \/ UNCHANGED vars \/ \E r \in Requests, i \in IPs : LoginBegins(r, i)
    BY <2>2, <2>3 DEF Tick, GCBegins, vars, LoginBegins
  <2>4. ASSUME NEW r \in Requests, LoginChecks(r)
        PROVE  Outlives(ip)
    <3>1. byIP'[ip].lockedUntil = byIP[ip].lockedUntil
      BY <2>1, <2>4 DEF LoginChecks, Record
    <3> QED
      BY <2>2, <3>1
  <2>5. ASSUME NEW r \in Requests, LoginFails(r)
        PROVE  Outlives(ip)
    <3> DEFINE failing == login[r].ip
               now == login[r].now
    <3>1. failing \in IPs /\ now \in Time \ {0} /\ now <= clock
      BY <2>1, <2>5, UnderWay DEF LoginFails
    <3>2. PICK V \in Victims(failing) :
            \A i \in IPs : byIP'[i] = IF i = failing THEN Failed(byIP[i], now)
                                      ELSE IF i \in V THEN NoRecord ELSE byIP[i]
      BY <2>5 DEF LoginFails
    <3>3. CASE ip = failing /\ now - byIP[ip].windowStart > FailureWindow
      <4>1. login[r].step = "passed" /\ login'[r] = Idle
        BY <2>1, <2>5 DEF LoginFails
      <4>2. LetThrough(ip)
        BY <3>3, <4>1 DEF LetThrough
      <4> QED
        BY <4>2
    <3>4. CASE ip = failing /\ ~(now - byIP[ip].windowStart > FailureWindow)
      BY <1>1, <2>1, <3>1, <3>2, <3>4, FailureKeepsLock
    <3>5. CASE ip # failing /\ ip \in V
      <4>1. /\ failing \in IPs \ Tracked /\ Cardinality(Tracked) >= MaxTracked
        BY <3>1, <3>2, <3>5 DEF Victims
      <4>2. byIP'[failing] # NoRecord
        BY <2>1, <3>1, <3>2, FailureIsTracked
      <4>3. Evicted(ip)
        BY <3>2, <3>5, <4>1, <4>2 DEF Evicted, Cleared
      <4> QED
        BY <4>3
    <3>6. CASE ip # failing /\ ip \notin V
      BY <2>2, <3>2, <3>6
    <3> QED
      BY <3>3, <3>4, <3>5, <3>6
  <2>6. ASSUME NEW r \in Requests, LoginSucceeds(r)
        PROVE  Outlives(ip)
    <3>1. CASE ip = login[r].ip
      <4>1. LoggedIn(ip)
        BY <2>1, <2>6, <3>1 DEF LoginSucceeds, LoggedIn, Cleared
      <4> QED
        BY <4>1
    <3>2. CASE ip # login[r].ip
      BY <2>1, <2>2, <2>6, <3>2 DEF LoginSucceeds
    <3> QED
      BY <3>1, <3>2
  <2>7. CASE GC
    <3>1. LockedAt(byIP[ip], collecting)
      <4>1. collecting \in Nat /\ collecting <= clock
        BY <2>1 DEF ReadingsAreOld, TypeOK, Time
      <4> QED
        BY <1>1, <2>1, <4>1 DEF LockedAt
    <3>2. byIP'[ip] = byIP[ip]
      BY <2>7, <3>1 DEF GC, Dead
    <3> QED
      BY <2>2, <3>2
  <2> QED
    BY <1>1, <2>3, <2>4, <2>5, <2>6, <2>7 DEF Next, LoginStep
<1>2. LimiterInv /\ [Next]_vars =>
        [\A ip \in IPs : LockedAt(byIP[ip], clock) => Outlives(ip)]_vars
  BY <1>1
<1> QED
  BY <1>2, LimiterInvariant, PTL DEF Spec, LockoutOutlivesTheRest
=============================================================================
