---------------------------- MODULE SessionStore ----------------------------
(***************************************************************************)
(* Login sessions: the store of internal/auth/session.go as Login, Require *)
(* and Logout (internal/auth/auth.go) use it, with the browsers.  Every    *)
(* store operation takes its lock once; the clock is read before, so a     *)
(* request acts on a reading that has aged, and on a cookieIssued that     *)
(* another request may have moved on.                                      *)
(*                                                                         *)
(* A browser has one cookie of the service, whatever sessions it has been  *)
(* given, so the answer that arrives last decides what it holds.  An       *)
(* answer may be lost.  IDs are random, never come twice and stay with the *)
(* browser that logged in.  Times are ticks and 0 is never: the clock       *)
(* starts more than a reissue interval after it.                           *)
(***************************************************************************)
EXTENDS Integers, FiniteSets

CONSTANTS
    IDs,
    Browsers,
    Requests,           \* handlers
    None,               \* no session, and nobody's browser
    SessionTTL,
    ReissueInterval,    \* cookieReissueInterval
    MaxSessions,        \* maxSessions
    MaxTime             \* bound: the model's clock

ASSUME SessionLimits ==
    /\ SessionTTL \in Nat \ {0}
    /\ ReissueInterval \in Nat \ {0}
    /\ MaxSessions \in Nat \ {0}
    /\ MaxTime \in Nat /\ MaxTime > ReissueInterval
ASSUME NoneIsNeither == None \notin IDs /\ None \notin Browsers

VARIABLES
    clock,
    byID,           \* the store's map
    created, expires, cookieIssued,     \* its records, 0 where there is none
    owner,          \* the browser that drew an ID, if any did
    handler,        \* what each handler is doing
    cookie,         \* the cookie a browser holds, and until when
    required,       \* history: the clock reading of a session's last Require
    astray,         \* history: the latest marking whose answer was lost
    displaced       \* history: the sessions whose cookie gave way to another answer

records == <<created, expires, cookieIssued>>
history == <<required, astray, displaced>>
vars == <<clock, byID, records, owner, handler, cookie, history>>

Time == 0 .. MaxTime

\* "creating", "touching" (Require), "asking" (Authenticated): the clock has
\* been read; "touched": the session is valid, `at' is its cookieIssued;
\* "marking": the cookie goes out again; "answering": it is on its way;
\* "deleting": Logout; "clearing": an expired cookie is on its way
Steps == {"idle", "creating", "touching", "asking", "touched", "marking",
          "answering", "deleting", "clearing"}
Handler == [step : Steps, from : Browsers \cup {None}, id : IDs \cup {None}, at : Time]
Idle == [step |-> "idle", from |-> None, id |-> None, at |-> 0]
NoCookie == [id |-> None, until |-> 0]

TypeOK ==
    /\ clock \in Time
    /\ byID \in SUBSET IDs
    /\ created \in [IDs -> Time]
    /\ expires \in [IDs -> Nat]
    /\ cookieIssued \in [IDs -> Time]
    /\ owner \in [IDs -> Browsers \cup {None}]
    /\ handler \in [Requests -> Handler]
    /\ cookie \in [Browsers -> [id : IDs \cup {None}, until : Nat]]
    /\ required \in [IDs -> Time]
    /\ astray \in [IDs -> Time]
    /\ displaced \in SUBSET IDs

Drawn == {id \in IDs : owner[id] # None}

Becomes(r, step, from, id, at) ==
    handler' = [handler EXCEPT ![r] = [step |-> step, from |-> from, id |-> id, at |-> at]]
Continues(r, step, at) == Becomes(r, step, handler[r].from, handler[r].id, at)
Ends(r) == handler' = [handler EXCEPT ![r] = Idle]

----------------------------------------------------------------------------

Init ==
    /\ clock = ReissueInterval + 1
    /\ byID = {}
    /\ created = [id \in IDs |-> 0]
    /\ expires = [id \in IDs |-> 0]
    /\ cookieIssued = [id \in IDs |-> 0]
    /\ owner = [id \in IDs |-> None]
    /\ handler = [r \in Requests |-> Idle]
    /\ cookie = [b \in Browsers |-> NoCookie]
    /\ required = [id \in IDs |-> 0]
    /\ astray = [id \in IDs |-> 0]
    /\ displaced = {}

Tick ==
    /\ clock < MaxTime
    /\ clock' = clock + 1
    /\ UNCHANGED <<byID, records, owner, handler, cookie, history>>

\* Login has accepted the passphrase, with the clock it read on arrival.
LoginPasses(r, b, id) ==
    /\ handler[r] = Idle
    /\ id \notin Drawn
    /\ owner' = [owner EXCEPT ![id] = b]
    /\ Becomes(r, "creating", b, id, clock)
    /\ UNCHANGED <<clock, byID, records, cookie, history>>

\* Mutant: create makes room one session too late.
OldestLate ==
    IF Cardinality(byID) > MaxSessions
    THEN {{v} : v \in {id \in byID : \A other \in byID : created[id] <= created[other]}}
    ELSE {{}}

\* evictOldestLocked, when the map is full: the earliest login goes (any of
\* them, on a tie).
Oldest ==
    IF Cardinality(byID) >= MaxSessions
    THEN {{v} : v \in {id \in byID : \A other \in byID : created[id] <= created[other]}}
    ELSE {{}}

Without(field, V) == [id \in IDs |-> IF id \in V THEN 0 ELSE field[id]]
Drops(V) ==
    /\ byID' = byID \ V
    /\ created' = Without(created, V)
    /\ expires' = Without(expires, V)
    /\ cookieIssued' = Without(cookieIssued, V)

\* sessionStore.create; the response carries the cookie.
Creates(r) ==
    /\ handler[r].step = "creating"
    /\ LET id == handler[r].id
           now == handler[r].at
       IN  /\ \E V \in Oldest :
                /\ byID' = (byID \ V) \cup {id}
                /\ created' = [Without(created, V) EXCEPT ![id] = now]
                /\ expires' = [Without(expires, V) EXCEPT ![id] = now + SessionTTL]
                /\ cookieIssued' = [Without(cookieIssued, V) EXCEPT ![id] = now]
           /\ Continues(r, "answering", now)
    /\ UNCHANGED <<clock, owner, cookie, history>>

\* A request arrives with the cookie the browser holds, for a page behind
\* Require or for the login page, which asks Authenticated.
Arrives(r, b, step) ==
    /\ handler[r] = Idle
    /\ clock < cookie[b].until
    /\ Becomes(r, step, b, cookie[b].id, clock)
    /\ UNCHANGED <<clock, byID, records, owner, cookie, history>>

\* sessionStore.touch finds a session and slides its deadline.
Touches(r) ==
    LET id == handler[r].id
        now == handler[r].at
    IN  /\ id \in byID
        /\ now <= expires[id]
        /\ expires' = [expires EXCEPT ![id] = now + SessionTTL]
        /\ \/ /\ handler[r].step = "touching"
              /\ Continues(r, "touched", cookieIssued[id])
              /\ required' = [required EXCEPT ![id] = now]
           \/ /\ handler[r].step = "asking"
              /\ Ends(r)
              /\ UNCHANGED required
        /\ UNCHANGED <<byID, created, cookieIssued>>

\* It finds none, or an expired one, which goes.
Refuses(r) ==
    LET id == handler[r].id
    IN  /\ id \in byID => handler[r].at > expires[id]
        /\ Drops({id})
        /\ Ends(r)
        /\ UNCHANGED required

\* Mutant: touch takes the cookie for issued when it slides the deadline.
TouchMarks(r) ==
    /\ handler[r].step \in {"touching", "asking"}
    /\ LET id == handler[r].id
           now == handler[r].at
       IN  \/ /\ id \in byID /\ now <= expires[id]
              /\ expires' = [expires EXCEPT ![id] = now + SessionTTL]
              /\ cookieIssued' = [cookieIssued EXCEPT ![id] = now]
              /\ Ends(r)
              /\ UNCHANGED <<byID, created, required>>
           \/ Refuses(r)
    /\ UNCHANGED <<clock, owner, cookie, astray, displaced>>

Touch(r) ==
    /\ handler[r].step \in {"touching", "asking"}
    /\ Touches(r) \/ Refuses(r)
    /\ UNCHANGED <<clock, owner, cookie, astray, displaced>>

\* Mutant: Require waits for the session's lifetime.
RequiresLate(r) ==
    /\ handler[r].step = "touched"
    /\ IF clock - handler[r].at > SessionTTL THEN Continues(r, "marking", clock) ELSE Ends(r)
    /\ UNCHANGED <<clock, byID, records, owner, cookie, history>>

\* Require reads the clock again and sends the cookie again if it is old.
Requires(r) ==
    /\ handler[r].step = "touched"
    /\ IF clock - handler[r].at > ReissueInterval THEN Continues(r, "marking", clock) ELSE Ends(r)
    /\ UNCHANGED <<clock, byID, records, owner, cookie, history>>

\* Mutant: markCookieIssued does not ask whether the session is there.
MarksAnything(r) ==
    /\ handler[r].step = "marking"
    /\ cookieIssued' = [cookieIssued EXCEPT ![handler[r].id] = handler[r].at]
    /\ byID' = byID \cup {handler[r].id}
    /\ Continues(r, "answering", handler[r].at)
    /\ UNCHANGED <<clock, created, expires, owner, cookie, history>>

\* sessionStore.markCookieIssued, for a session that is still there.
Marks(r) ==
    /\ handler[r].step = "marking"
    /\ cookieIssued' = IF handler[r].id \in byID
                       THEN [cookieIssued EXCEPT ![handler[r].id] = handler[r].at]
                       ELSE cookieIssued
    /\ Continues(r, "answering", handler[r].at)
    /\ UNCHANGED <<clock, byID, created, expires, owner, cookie, history>>

\* The browser takes the cookie for the one it had; MaxAge is the session TTL.
Answered(r) ==
    /\ handler[r].step = "answering"
    /\ LET b == handler[r].from
           id == handler[r].id
       IN  /\ cookie' = [cookie EXCEPT ![b] = [id |-> id, until |-> clock + SessionTTL]]
           /\ displaced' = (displaced \cup ({cookie[b].id} \ {None})) \ {id}
    /\ Ends(r)
    /\ UNCHANGED <<clock, byID, records, owner, required, astray>>

\* A request for Logout, with the cookie the browser holds or without.
LogoutArrives(r, b) ==
    /\ handler[r] = Idle
    /\ \/ clock < cookie[b].until /\ Becomes(r, "deleting", b, cookie[b].id, 0)
       \/ clock >= cookie[b].until /\ Becomes(r, "clearing", b, None, 0)
    /\ UNCHANGED <<clock, byID, records, owner, cookie, history>>

\* sessionStore.delete.
Deletes(r) ==
    /\ handler[r].step = "deleting"
    /\ Drops({handler[r].id})
    /\ Becomes(r, "clearing", handler[r].from, None, 0)
    /\ UNCHANGED <<clock, owner, cookie, history>>

\* The browser drops its cookie, whichever it is by now.
Cleared(r) ==
    /\ handler[r].step = "clearing"
    /\ LET b == handler[r].from
       IN  /\ cookie' = [cookie EXCEPT ![b] = NoCookie]
           /\ displaced' = displaced \cup ({cookie[b].id} \ {None})
    /\ Ends(r)
    /\ UNCHANGED <<clock, byID, records, owner, required, astray>>

Lost(r) ==
    /\ \/ /\ handler[r].step = "answering"
          /\ LET id == handler[r].id
             IN  astray' = [astray EXCEPT ![id] = IF @ < handler[r].at THEN handler[r].at ELSE @]
       \/ handler[r].step = "clearing" /\ UNCHANGED astray
    /\ Ends(r)
    /\ UNCHANGED <<clock, byID, records, owner, cookie, required, displaced>>

\* sessionStore.gc.
GC ==
    /\ \E id \in byID : clock > expires[id]
    /\ Drops({id \in byID : clock > expires[id]})
    /\ UNCHANGED <<clock, owner, handler, cookie, history>>

Serve(r) ==
    \/ \E b \in Browsers :
         \/ \E id \in IDs : LoginPasses(r, b, id)
         \/ Arrives(r, b, "touching") \/ Arrives(r, b, "asking") \/ LogoutArrives(r, b)
    \/ Creates(r) \/ Touch(r) \/ Requires(r) \/ Marks(r) \/ Deletes(r)
    \/ Answered(r) \/ Cleared(r) \/ Lost(r)

Next ==
    \/ Tick
    \/ \E r \in Requests : Serve(r)
    \/ GC

Spec == Init /\ [][Next]_vars

----------------------------------------------------------------------------

\* However many logins are in flight, the store keeps MaxSessions at most.
SessionsAreBounded == Cardinality(byID) <= MaxSessions

\* A session that has ended, by logout, expiry, collection or eviction, never
\* comes back, whatever requests of it were in flight when it ended.
EndedStaysEnded ==
    [][\A id \in Drawn \ byID :
         (\A r \in Requests : ~(handler[r].step = "creating" /\ handler[r].id = id))
            => id \notin byID']_vars

\* Clock readings are taken before they are used or stored.
ReadingsAreOld ==
    /\ \A r \in Requests : handler[r].at <= clock
    /\ \A id \in IDs : required[id] <= clock /\ cookieIssued[id] <= clock

\* An ID is nowhere before it is drawn, and with the login that drew it, and
\* nobody else, until its session is created.
DrawnOnce ==
    /\ \A r \in Requests : handler[r].id # None => handler[r].id \in Drawn
    /\ \A id \in IDs : id \in byID => id \in Drawn
    /\ \A b \in Browsers : cookie[b].id # None => cookie[b].id \in Drawn
    /\ \A id \in IDs \ Drawn : required[id] = 0
    /\ \A r \in Requests : handler[r].step = "creating" =>
         /\ handler[r].id \notin byID
         /\ required[handler[r].id] = 0
         /\ \A b \in Browsers : cookie[b].id # handler[r].id
         /\ \A q \in Requests \ {r} : handler[q].id # handler[r].id

\* A session, its requests and its cookie belong to the browser that drew it.
OneBrowserEach ==
    /\ \A r \in Requests :
         /\ handler[r].step = "idle" <=> handler[r] = Idle
         /\ handler[r].step \notin {"idle", "clearing"} => handler[r].id # None
         /\ handler[r].step # "idle" => handler[r].from \in Browsers
         /\ handler[r].id # None => owner[handler[r].id] = handler[r].from
    /\ \A b \in Browsers :
         IF cookie[b].id = None THEN cookie[b].until = 0 ELSE owner[cookie[b].id] = b

\* The browser that drew id holds its cookie for a TTL from a time, or is being
\* sent it, or was until an answer went astray or another took its place.
Held(id, time) ==
    \/ \E b \in Browsers : /\ owner[id] = b
                           /\ cookie[b].id = id
                           /\ cookie[b].until >= time + SessionTTL
    \/ \E r \in Requests : /\ handler[r].id = id
                           /\ handler[r].step = "answering"
                           /\ handler[r].at >= time
    \/ astray[id] >= time
    \/ id \in displaced

\* That is so of the cookie that the store believes it issued last, and of one
\* that a request saw issued; and behind a protected request there is a cookie
\* as good, or a handler that has yet to decide about it or to send it.
GoesOut(id) ==
    LET time == required[id] - ReissueInterval
    IN  /\ Held(id, cookieIssued[id])
        /\ \A r \in Requests :
             handler[r].id = id /\ handler[r].step = "touched" => Held(id, handler[r].at)
        /\ \/ Held(id, time)
           \/ \E r \in Requests :
                /\ handler[r].id = id
                /\ \/ handler[r].step = "touched"
                   \/ handler[r].step = "marking" /\ handler[r].at >= time

CookiesGoOut == \A id \in byID : GoesOut(id)

\* The inductive invariant behind the properties of the store.
SessionInv == TypeOK /\ ReadingsAreOld /\ DrawnOnce /\ OneBrowserEach /\ CookiesGoOut

\* The handlers that have found id valid and have yet to answer.
Unanswered(id) ==
    {r \in Requests : handler[r].id = id /\ handler[r].step \in {"touched", "marking", "answering"}}

\* A browser's cookie keeps up with the deadline the server slides (comment of
\* Require): once a session's requests have been answered, its cookie lags the
\* deadline of the last protected one by the reissue interval at most, unless
\* the answer to an earlier one, no more than that interval before, was lost
\* with its cookie, or the browser has since been answered with another
\* session's cookie or with a logout's.  (Authenticated slides the deadline and
\* sends no cookie.)
CookieKeepsUp ==
    \A id \in byID : Unanswered(id) = {} =>
        \/ \E b \in Browsers :
             /\ cookie[b].id = id
             /\ cookie[b].until >= required[id] + SessionTTL - ReissueInterval
        \/ astray[id] >= required[id] - ReissueInterval
        \/ id \in displaced
=============================================================================
