---------------------------- MODULE RateLimiter ----------------------------
(***************************************************************************)
(* Login rate limiting: the limiter of internal/auth/ratelimit.go as       *)
(* Authenticator.Login and Authenticator.Run (internal/auth/auth.go) use   *)
(* it.  Login reads the clock once and then takes the limiter's lock two   *)
(* times, for locked and for recordFailure or recordSuccess, so requests   *)
(* interleave between those steps with a clock reading that has aged.      *)
(*                                                                         *)
(* Times are ticks; 0 is the zero time.Time, and the clock starts at 1.    *)
(***************************************************************************)
EXTENDS Integers, FiniteSets

CONSTANTS
    IPs,
    Requests,           \* handlers that can serve POST /login
    MaxFailures,
    FailureWindow,
    LockoutDuration,
    CoalesceWindow,
    MaxTracked,         \* maxTrackedIPs
    MaxTime             \* the bound of the model's clock

ASSUME LimitsArePositive ==
    /\ MaxFailures \in Nat \ {0, 1}
    /\ FailureWindow \in Nat \ {0}
    /\ LockoutDuration \in Nat \ {0}
    /\ CoalesceWindow \in Nat \ {0}
    /\ MaxTracked \in Nat \ {0}
    /\ MaxTime \in Nat \ {0}

\* A lockout is as long as the window, 15 minutes.
ASSUME LockoutOutlastsWindow == LockoutDuration >= FailureWindow

VARIABLES
    clock,
    byIP,       \* the limiter's map; an absent record is the zero record
    login,      \* what each handler is doing
    collecting, \* the clock reading gc is about to use, 0 outside a pass
    recorded    \* history: the times of the failures counted against an IP
                \* one after the other, since it was last cleared, its lock
                \* lifted, or a window opened in the past

vars == <<clock, byIP, login, collecting, recorded>>

Time == 0 .. MaxTime
Record == [count : Nat, windowStart : Time, lastFailure : Time,
           lockedUntil : Nat, lastSeen : Time]
NoRecord == [count |-> 0, windowStart |-> 0, lastFailure |-> 0,
             lockedUntil |-> 0, lastSeen |-> 0]

\* "begun": the clock has been read; "passed": locked said no
Idle == [step |-> "idle"]
Login == [step : {"begun", "passed"}, ip : IPs, now : Time \ {0}] \cup {Idle}

TypeOK ==
    /\ clock \in Time \ {0}
    /\ byIP \in [IPs -> Record]
    /\ login \in [Requests -> Login]
    /\ collecting \in Time
    /\ recorded \in [IPs -> SUBSET Time]

Tracked == {ip \in IPs : byIP[ip] # NoRecord}

----------------------------------------------------------------------------

\* now.Before(rec.lockedUntil), for a lock that is set.
LockedAt(rec, now) == rec.lockedUntil # 0 /\ now < rec.lockedUntil

\* A window, or a lock, that has run out: past failures stop counting.
Lapsed(rec, now) ==
    \/ rec.windowStart # 0 /\ now - rec.windowStart > FailureWindow
    \/ rec.lockedUntil # 0 /\ now >= rec.lockedUntil

\* Mutant: a fresh window keeps the count.
FreshCounting(rec, now) ==
    IF Lapsed(rec, now)
    THEN [rec EXCEPT !.windowStart = 0, !.lastFailure = 0, !.lockedUntil = 0]
    ELSE rec

Fresh(rec, now) ==
    IF Lapsed(rec, now)
    THEN [rec EXCEPT !.count = 0, !.windowStart = 0, !.lastFailure = 0, !.lockedUntil = 0]
    ELSE rec

\* Mutant: an older clock reading than the last recorded one counts again.
CoalescedInOrder(rec, now) ==
    rec.lastFailure # 0 /\ now - rec.lastFailure \in 0 .. (CoalesceWindow - 1)

Coalesced(rec, now) == rec.lastFailure # 0 /\ now - rec.lastFailure < CoalesceWindow

\* Mutant: one failure too many before the lock.
CountedLate(rec, now) ==
    [rec EXCEPT
        !.lastFailure = now,
        !.windowStart = IF @ = 0 THEN now ELSE @,
        !.count = @ + 1,
        !.lockedUntil = IF rec.count + 1 > MaxFailures THEN now + LockoutDuration ELSE @]

Counted(rec, now) ==
    [rec EXCEPT
        !.lastFailure = now,
        !.windowStart = IF @ = 0 THEN now ELSE @,
        !.count = @ + 1,
        !.lockedUntil = IF rec.count + 1 >= MaxFailures THEN now + LockoutDuration ELSE @]

\* What recordFailure makes of a record.
Failed(old, now) ==
    LET rec == Fresh([old EXCEPT !.lastSeen = now], now)
    IN  IF Coalesced(rec, now) THEN rec ELSE Counted(rec, now)

\* The least recently active of the tracked IPs (any of them, on a tie).
LeastRecent == {ip \in Tracked : \A other \in Tracked : byIP[ip].lastSeen <= byIP[other].lastSeen}

\* Mutant: recordFailure evicts one too late.
VictimsLate(ip) ==
    IF ip \notin Tracked /\ Cardinality(Tracked) > MaxTracked
    THEN {{v} : v \in LeastRecent}
    ELSE {{}}

\* What recordFailure evicts to make room for ip.
Victims(ip) ==
    IF ip \notin Tracked /\ Cardinality(Tracked) >= MaxTracked
    THEN {{v} : v \in LeastRecent}
    ELSE {{}}

----------------------------------------------------------------------------

Init ==
    /\ clock = 1
    /\ byIP = [ip \in IPs |-> NoRecord]
    /\ login = [r \in Requests |-> Idle]
    /\ collecting = 0
    /\ recorded = [ip \in IPs |-> {}]

Tick ==
    /\ clock < MaxTime
    /\ clock' = clock + 1
    /\ UNCHANGED <<byIP, login, collecting, recorded>>

\* Login reads the clock and works out the client's address.
LoginBegins(r, ip) ==
    /\ login[r] = Idle
    /\ login' = [login EXCEPT ![r] = [step |-> "begun", ip |-> ip, now |-> clock]]
    /\ UNCHANGED <<clock, byIP, collecting, recorded>>

\* limiter.locked, which also marks a record as seen; a locked request ends.
LoginChecks(r) ==
    /\ login[r].step = "begun"
    /\ LET ip == login[r].ip
           now == login[r].now
       IN  /\ byIP' = IF ip \in Tracked THEN [byIP EXCEPT ![ip].lastSeen = now] ELSE byIP
           /\ login' = [login EXCEPT ![r] =
                           IF LockedAt(byIP[ip], now) THEN Idle ELSE [@ EXCEPT !.step = "passed"]]
    /\ UNCHANGED <<clock, collecting, recorded>>

\* History: the failures this one counts with.  A reading that opens a window
\* in the past, or lifts a lock, begins anew.
Before(ip, now) ==
    IF \/ LockedAt(byIP[ip], now) /\ Lapsed(byIP[ip], now)
       \/ \E t \in recorded[ip] : now < t
    THEN {} ELSE recorded[ip]

\* A wrong passphrase: limiter.recordFailure.
LoginFails(r) ==
    /\ login[r].step = "passed"
    /\ LET ip == login[r].ip
           now == login[r].now
           counts == Failed(byIP[ip], now).count # Fresh(byIP[ip], now).count
       IN  \E V \in Victims(ip) :
             /\ byIP' = [i \in IPs |->
                    IF i = ip THEN Failed(byIP[ip], now)
                              ELSE IF i \in V THEN NoRecord ELSE byIP[i]]
             /\ recorded' = [i \in IPs |->
                    IF i = ip /\ counts THEN Before(ip, now) \cup {now}
                                        ELSE IF i \in V THEN {} ELSE recorded[i]]
    /\ login' = [login EXCEPT ![r] = Idle]
    /\ UNCHANGED <<clock, collecting>>

\* The right passphrase: limiter.recordSuccess (the session is another matter).
LoginSucceeds(r) ==
    /\ login[r].step = "passed"
    /\ byIP' = [byIP EXCEPT ![login[r].ip] = NoRecord]
    /\ recorded' = [recorded EXCEPT ![login[r].ip] = {}]
    /\ login' = [login EXCEPT ![r] = Idle]
    /\ UNCHANGED <<clock, collecting>>

\* Authenticator.Run: the clock is read, the sessions are collected, and then
\* the limiter's records.
GCBegins ==
    /\ collecting = 0
    /\ collecting' = clock
    /\ UNCHANGED <<clock, byIP, login, recorded>>

\* Mutant: gc does not look at the lock.
DeadThoughLocked(rec, now) ==
    ~(rec.windowStart # 0 /\ now - rec.windowStart <= FailureWindow)

Dead(rec, now) ==
    /\ ~LockedAt(rec, now)
    /\ ~(rec.windowStart # 0 /\ now - rec.windowStart <= FailureWindow)

GC ==
    /\ collecting # 0
    /\ byIP' = [ip \in IPs |-> IF Dead(byIP[ip], collecting) THEN NoRecord ELSE byIP[ip]]
    /\ collecting' = 0
    /\ UNCHANGED <<clock, login, recorded>>

LoginStep(r) ==
    \/ \E ip \in IPs : LoginBegins(r, ip)
    \/ LoginChecks(r)
    \/ LoginFails(r)
    \/ LoginSucceeds(r)

Next ==
    \/ Tick
    \/ \E r \in Requests : LoginStep(r)
    \/ GCBegins
    \/ GC

Spec == Init /\ [][Next]_vars

----------------------------------------------------------------------------

\* The map does not outgrow maxTrackedIPs, and whoever was just counted is in it.
MapIsBounded == Cardinality(Tracked) <= MaxTracked

Cleared(ip) == byIP'[ip] = NoRecord
Evicted(ip) ==
    /\ Cleared(ip)
    /\ Cardinality(Tracked) >= MaxTracked
    /\ \E other \in IPs \ Tracked : byIP'[other] # NoRecord
LoggedIn(ip) == Cleared(ip) /\ \E r \in Requests :
                    login[r].step = "passed" /\ login[r].ip = ip /\ login'[r] = Idle

\* A lockout lasts: until lockedUntil the record stays locked for as long at
\* least, unless the right passphrase clears it, or another address that the
\* full map makes room for
\* (project README: `5 failures in 15 minutes trips a 15-minute lockout').
LockoutLasts ==
    [][\A ip \in IPs :
         LockedAt(byIP[ip], clock) =>
            \/ byIP'[ip].lockedUntil >= byIP[ip].lockedUntil
            \/ LoggedIn(ip)
            \/ Evicted(ip)]_vars

\* A failing request was let through before the lock was set, and its clock
\* reading is past the window the lock was tripped in (ratelimit.go starts
\* afresh then, whatever the lock says).
LetThrough(ip) == \E r \in Requests :
    /\ login[r].step = "passed" /\ login[r].ip = ip /\ login'[r] = Idle
    /\ login[r].now - byIP[ip].windowStart > FailureWindow

\* What is left of LockoutLasts when requests overlap: nothing else shortens
\* a lockout, neither a collection that uses an old clock reading, nor a burst
\* of old requests, nor the pressure of other addresses on a map with room.
LockoutOutlivesTheRest ==
    [][\A ip \in IPs :
         LockedAt(byIP[ip], clock) =>
            \/ byIP'[ip].lockedUntil >= byIP[ip].lockedUntil
            \/ LoggedIn(ip)
            \/ Evicted(ip)
            \/ LetThrough(ip)]_vars

\* The failures in the FailureWindow that ends now, and those against ip.
Late(failures, now) == {t \in failures : now - t < FailureWindow}
Recent(ip) == Late(recorded[ip], clock)

\* Failures, counted one after the other, are counted over windows (comment of
\* failureWindow).  The windows do not slide, so without a lockout a
\* FailureWindow may hold the end of one and the beginning of the next, and no
\* more than that.
FailuresAreBounded ==
    \A ip \in IPs :
        Cardinality(Recent(ip)) >= 2 * MaxFailures - 2 => LockedAt(byIP[ip], clock)

\* What holds of one record: a window begins with its first counted failure.
Window(rec) ==
    /\ rec.count = 0 => rec.windowStart = 0 /\ rec.lastFailure = 0
    /\ rec.count > 0 =>
         /\ rec.windowStart > 0
         /\ (rec.count - 1) * CoalesceWindow <= rec.lastFailure - rec.windowStart

\* A record is locked from the failure that trips the lockout, however old its
\* clock reading, and each one that is counted while it is locked.
Lock(rec) ==
    rec.lockedUntil = IF rec.count >= MaxFailures THEN rec.lastFailure + LockoutDuration ELSE 0

\* Clock readings are taken before they are used.
ReadingsAreOld ==
    /\ \A r \in Requests : login[r] # Idle => login[r].now <= clock
    /\ collecting <= clock

\* The failures of windows before the record's own, if it has one.
Bygone(rec, failures) == {t \in failures : rec.windowStart = 0 \/ t < rec.windowStart}

\* What the history has to do with the record: the record counts the failures
\* of its window, and of windows before it a FailureWindow that ends now holds
\* MaxFailures - 2 at most, because each was over a FailureWindow after its
\* first failure, which is gone, and was given up after a lockout or short of
\* one.
Ledger(rec, failures, now) ==
    /\ Cardinality(Late(Bygone(rec, failures), now)) <= MaxFailures - 2
    /\ rec.windowStart # 0 =>
         /\ rec.windowStart \in failures
         /\ Cardinality(failures \ Bygone(rec, failures)) <= rec.count
         /\ \A t \in failures : t <= rec.lastFailure

\* The inductive invariant behind the properties of the limiter.
LimiterInv ==
    /\ TypeOK
    /\ ReadingsAreOld
    /\ \A ip \in IPs :
         Window(byIP[ip]) /\ Lock(byIP[ip]) /\ Ledger(byIP[ip], recorded[ip], clock)

\* A burst costs one failure: the failures counted in a window are a
\* CoalesceWindow apart, in whatever order the requests of a burst reach the
\* limiter, and however old their clock readings are by then.
BurstCountsOnce ==
    \A ip \in IPs :
        byIP[ip].count > 0 =>
            (byIP[ip].count - 1) * CoalesceWindow
                <= byIP[ip].lastFailure - byIP[ip].windowStart
=============================================================================
