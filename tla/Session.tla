------------------------------ MODULE Session ------------------------------
(***************************************************************************)
(* The browser's half of a session, composed with the server's Tokenizer.   *)
(* Browser tabs share one localStorage.  In each tab API requests (api/     *)
(* index.ts) and live-tail streams (providers/EventSource.tsx) meet refused *)
(* access tokens and rotate the stored pair, each kind through a query      *)
(* client of its own; a rotation that fails ends in Logout (api/utils.ts),  *)
(* which nobody awaits.  An actor is one such request or stream.            *)
(***************************************************************************)
EXTENDS Tokenizer

CONSTANTS
    Requests,  \* API requests
    Streams,   \* live-tail streams
    Tabs,
    TabOf,     \* [Actors -> Tabs]
    MaxPairs,   \* bound on the pairs issued
    MaxLogouts, \* bound on the Logout calls outstanding when work starts
    MaxTime     \* bound on the clock

Actors == Requests \cup Streams

ASSUME SessionAssumption ==
    /\ TabOf \in [Actors -> Tabs]
    /\ Requests \cap Streams = {}
    /\ MaxPairs \in Nat /\ MaxLogouts \in Nat /\ MaxTime \in Nat

VARIABLES
    storage,    \* the pair in localStorage, None when there is none
    loggedIn,   \* AppProvider's isLoggedIn, per tab
    actor,      \* what each actor is at, and with which pair
    rotations,  \* POST /sessions/rotate in flight, one per client and key
    logouts,    \* Logout calls that have not cleared localStorage yet
    login       \* the login a tab waits for: how far the server is, and the pair

clientVars == <<storage, loggedIn, actor, rotations, logouts, login>>
vars == <<tokenizerVars, clientVars>>

\* The query client an actor's fetchQuery runs in: the module's own for API
\* requests, the application's for streams.
Client(a) == <<TabOf[a], IF a \in Requests THEN "api" ELSE "live">>
Clients == Tabs \X {"api", "live"}

Phase == {"idle", "sent", "open", "unauthorized", "rotating", "retry", "refused"}
LoginPhase == {"none", "listed", "answered"}
Status == {"pending", "rotated", "unauthorized", "failed"}
By == Actors \cup {"interceptor", "user"}

TypeOK ==
    /\ TokenizerTypeOK
    /\ storage \in Pairs \cup {None}
    /\ loggedIn \in [Tabs -> BOOLEAN]
    /\ actor \in [Actors -> [phase : Phase, pair : Pairs \cup {None}]]
    /\ rotations \subseteq [client : Clients, key : Pairs \cup {None},
                            status : Status, pair : Pairs \cup {None}]
    /\ logouts \subseteq [tab : Tabs, by : By, pair : Pairs \cup {None}, answered : BOOLEAN]
    /\ login \in [Tabs -> [phase : LoginPhase, pair : Pairs \cup {None}]]

Idle == [phase |-> "idle", pair |-> None]
NoLogin == [phase |-> "none", pair |-> None]

Init ==
    /\ TokenizerInit
    /\ storage = None
    /\ loggedIn = [t \in Tabs |-> FALSE]
    /\ actor = [a \in Actors |-> Idle]
    /\ rotations = {}
    /\ logouts = {}
    /\ login = [t \in Tabs |-> NoLogin]

At(a, phase) == actor[a].phase = phase
Moved(A, phase, pair) ==
    [a \in Actors |-> IF a \in A THEN [phase |-> phase, pair |-> pair] ELSE actor[a]]

\* The bounds: every actor and login under way may still cost one pair.
Budget ==
    /\ Len(issued) + Cardinality({a \in Actors : ~At(a, "idle")})
          + Cardinality({t \in Tabs : login[t].phase = "listed"}) < MaxPairs
    /\ Cardinality(logouts) <= MaxLogouts

\* Logout: DELETE /sessions goes out with the access token stored now.
LogoutCalls(t, B) == [tab : {t}, by : B, pair : {storage}, answered : {FALSE}]

----------------------------------------------------------------------------
(* Login and logout *)

\* The login form of a tab reaches CreateSessionByEmailPassword.
SubmitLogin(t) ==
    /\ ~loggedIn[t]
    /\ login[t] = NoLogin
    /\ Budget
    /\ \E victim \in Pairs \cup {None} :
          /\ Evicts(victim)
          /\ login' = [login EXCEPT ![t] = [phase |-> "listed", pair |-> victim]]
    /\ UNCHANGED <<storage, loggedIn, actor, rotations, logouts, tokenizerVars>>

CreateSession(t) ==
    /\ login[t].phase = "listed"
    /\ CreateToken(login[t].pair)
    /\ login' = [login EXCEPT ![t] = [phase |-> "answered", pair |-> NewPair]]
    /\ UNCHANGED <<storage, loggedIn, actor, rotations, logouts>>

\* afterLogin without the flag: the pair is stored and AFTER_LOGIN fires.
AfterLogin(t) ==
    /\ login[t].phase = "answered"
    /\ storage' = login[t].pair
    /\ loggedIn' = [loggedIn EXCEPT ![t] = TRUE]
    /\ login' = [login EXCEPT ![t] = NoLogin]
    /\ UNCHANGED <<actor, rotations, logouts, tokenizerVars>>

\* The menu's logout; a second click while one is under way is left out.
UserLogout(t) ==
    /\ loggedIn[t]
    /\ logouts = {}
    /\ logouts' = logouts \cup LogoutCalls(t, {"user"})
    /\ UNCHANGED <<storage, loggedIn, actor, rotations, login, tokenizerVars>>

\* DELETE /sessions reaches the server.
DeleteSession(l) ==
    /\ l \in logouts /\ ~l.answered
    /\ DeleteToken(l.pair)
    /\ logouts' = (logouts \ {l}) \cup {[l EXCEPT !.answered = TRUE]}
    /\ UNCHANGED <<storage, loggedIn, actor, rotations, login>>

\* The rest of Logout, after the answer or after its failure: the keys leave
\* localStorage, whoever put them there, and LOGOUT fires in this tab.
FinishLogout(l) ==
    /\ l \in logouts
    /\ storage' = None
    /\ loggedIn' = [loggedIn EXCEPT ![l.tab] = FALSE]
    /\ logouts' = logouts \ {l}
    /\ UNCHANGED <<actor, rotations, login, tokenizerVars>>

\* A tab is reloaded: what it had in flight is forgotten.
Reload(t) ==
    /\ loggedIn' = [loggedIn EXCEPT ![t] = storage # None]
    /\ actor' = Moved({a \in Actors : TabOf[a] = t}, "idle", None)
    /\ rotations' = {k \in rotations : k.client[1] # t}
    /\ logouts' = {l \in logouts : l.tab # t}
    /\ login' = [login EXCEPT ![t] = NoLogin]
    /\ UNCHANGED <<storage, tokenizerVars>>

----------------------------------------------------------------------------
(* Requests and streams *)

\* The request interceptor, or the new EventSource, reads the access token.
Send(a) ==
    /\ loggedIn[TabOf[a]]
    /\ At(a, "idle")
    /\ Budget
    /\ actor' = Moved({a}, "sent", storage)
    /\ UNCHANGED <<storage, loggedIn, rotations, logouts, login, tokenizerVars>>

\* A served request is over; a served stream stays open.
Served(a) == Moved({a}, IF a \in Requests THEN "idle" ELSE "open", None)

\* The server accepts.
Authenticate(a) ==
    /\ At(a, "sent") \/ At(a, "retry")
    /\ GetIdentity(actor[a].pair)
    /\ actor' = Served(a)
    /\ UNCHANGED <<storage, loggedIn, rotations, logouts, login, tokenizerVars>>

\* The server refuses: 401.
Refuse(a) ==
    /\ \/ At(a, "sent") /\ actor' = Moved({a}, "unauthorized", None)
       \/ At(a, "retry") /\ actor' = Moved({a}, "refused", None)
    /\ ~GetIdentity(actor[a].pair)
    /\ UNCHANGED <<storage, loggedIn, rotations, logouts, login, tokenizerVars>>

\* An open stream breaks: handleErrorConnection runs for every kind of error.
\* It may also be closed by the user.
StreamBreaks(a) ==
    /\ At(a, "open")
    /\ actor' = Moved({a}, "unauthorized", None)
    /\ UNCHANGED <<storage, loggedIn, rotations, logouts, login, tokenizerVars>>
StreamCloses(a) ==
    /\ At(a, "open")
    /\ actor' = Moved({a}, "idle", None)
    /\ UNCHANGED <<storage, loggedIn, rotations, logouts, login, tokenizerVars>>

----------------------------------------------------------------------------
(* Rotation *)

\* interceptorRejected on 401, handleErrorConnection on any error: fetchQuery
\* under the key of the stored pair; a query in flight under it is shared.
StartRotation(a) ==
    LET shared == {k \in rotations : k.client = Client(a) /\ k.key = storage}
    IN /\ At(a, "unauthorized")
       /\ actor' = Moved({a}, "rotating", storage)
       /\ rotations' =
             IF shared # {} THEN rotations
             ELSE rotations \cup {[client |-> Client(a), key |-> storage,
                                   status |-> "pending", pair |-> None]}
       /\ UNCHANGED <<storage, loggedIn, logouts, login, tokenizerVars>>

Answered(k, status, pair) ==
    (rotations \ {k}) \cup {[k EXCEPT !.status = status, !.pair = pair]}

\* RotateSession on the server: an empty refresh token is a bad request.
RotateSession(k) ==
    /\ k \in rotations /\ k.status = "pending"
    /\ \/ /\ k.key = None
          /\ rotations' = Answered(k, "failed", None)
          /\ UNCHANGED tokenizerVars
       \/ /\ k.key # None
          /\ \E q \in Pairs \cup {None, NewPair} :
                /\ RotateToken(k.key, q)
                /\ rotations' = IF q = None THEN Answered(k, "unauthorized", None)
                                ELSE Answered(k, "rotated", q)
    /\ UNCHANGED <<storage, loggedIn, actor, logouts, login>>

\* The call, or its answer, is lost.
RotationLost(k) ==
    /\ k \in rotations /\ k.status # "failed"
    /\ rotations' = Answered(k, "failed", None)
    /\ UNCHANGED <<storage, loggedIn, actor, logouts, login, tokenizerVars>>

\* Seeded fault: only the actor that started the query hears of its answer.
WaitingOne(k) ==
    LET all == {a \in Actors : /\ At(a, "rotating")
                               /\ Client(a) = k.client /\ actor[a].pair = k.key}
    IN IF all = {} THEN {} ELSE {CHOOSE a \in all : TRUE}

Waiting(k) == {a \in Actors : /\ At(a, "rotating")
                              /\ Client(a) = k.client /\ actor[a].pair = k.key}

\* A new pair: each waiting actor stores it, a request is sent again with it,
\* a stream is opened again later.
RotationSucceeds(k) ==
    /\ k \in rotations /\ k.status = "rotated"
    /\ storage' = k.pair
    /\ actor' = [a \in Actors |->
                   IF a \notin Waiting(k) THEN actor[a]
                   ELSE IF a \in Requests THEN [phase |-> "retry", pair |-> k.pair]
                   ELSE Idle]
    /\ rotations' = rotations \ {k}
    /\ UNCHANGED <<loggedIn, logouts, login, tokenizerVars>>

\* No pair: a 401 makes the interceptor of the rotate call log out, and every
\* kind of failure makes each waiting actor log out.
RotationFails(k) ==
    LET callers == IF k.status = "unauthorized" THEN {"interceptor"} ELSE {}
    IN /\ k \in rotations /\ k.status \in {"unauthorized", "failed"}
       /\ logouts' = logouts \cup LogoutCalls(k.client[1], callers \cup Waiting(k))
       /\ actor' = Moved(Waiting(k), "idle", None)
       /\ rotations' = rotations \ {k}
       /\ UNCHANGED <<storage, loggedIn, login, tokenizerVars>>

\* The request sent again is refused again.
RetryRefused(a) ==
    /\ At(a, "refused")
    /\ logouts' = logouts \cup LogoutCalls(TabOf[a], {a})
    /\ actor' = Moved({a}, "idle", None)
    /\ UNCHANGED <<storage, loggedIn, rotations, login, tokenizerVars>>

----------------------------------------------------------------------------
\* Time passes, but no answer takes as long as a unit of it: the server gives
\* a rotation ten seconds, and the unit stands for the minute of grace.
Tick ==
    /\ now < MaxTime
    /\ rotations = {}
    /\ \A a \in Actors : ~At(a, "retry")
    /\ now' = now + 1
    /\ UNCHANGED <<provider, issued, rows, clientVars>>

CollectGarbage == GC /\ UNCHANGED clientVars

Next ==
    \/ \E t \in Tabs : SubmitLogin(t) \/ CreateSession(t) \/ AfterLogin(t) \/ UserLogout(t) \/ Reload(t)
    \/ \E l \in logouts : DeleteSession(l) \/ FinishLogout(l)
    \/ \E a \in Actors : Send(a) \/ Authenticate(a) \/ Refuse(a)
                         \/ StartRotation(a) \/ RetryRefused(a)
    \/ \E a \in Streams : StreamBreaks(a) \/ StreamCloses(a)
    \/ \E k \in rotations : RotateSession(k) \/ RotationLost(k)
                            \/ RotationSucceeds(k) \/ RotationFails(k)
    \/ Tick
    \/ CollectGarbage

Spec == Init /\ [][Next]_vars

(***************************************************************************)
(* Fairness: the server answers what reaches it, the browser runs the       *)
(* continuation of every answer it gets.  Nobody has to log in, send, close *)
(* or reload, no answer has to be lost, and time need not pass.             *)
(***************************************************************************)
Fairness ==
    /\ \A a \in Actors : /\ WF_vars(Authenticate(a) \/ Refuse(a))
                         /\ WF_vars(StartRotation(a))
                         /\ WF_vars(RetryRefused(a))
                         /\ WF_vars(\E k \in rotations : a \in Waiting(k) /\ RotateSession(k))
                         /\ WF_vars(\E k \in rotations : a \in Waiting(k) /\
                                       (RotationSucceeds(k) \/ RotationFails(k)))

FairSpec == Spec /\ Fairness

----------------------------------------------------------------------------
(* Properties *)

(***************************************************************************)
(* An opaque session is one chain of pairs: however many tabs, requests and *)
(* streams rotate the same pair at the same time, at most one of them makes *)
(* the server issue a successor (Token.Rotate under GetOrUpdateByAccess-    *)
(* TokenOrPrevAccessToken).                                                 *)
(***************************************************************************)
SessionNeverForks ==
    provider = "opaque" =>
        \A p, q \in Pairs :
            issued[p].from # None /\ issued[p].from = issued[q].from => p = q

(***************************************************************************)
(* The abstract promise: what the opaque rows go through is what Session-   *)
(* Chain allows, so an access token that was rotated away, logged out or    *)
(* evicted never becomes a session's current token again, whatever arrives  *)
(* late (CreateToken, RotateToken, DeleteToken, gc).  jwt keeps no rows.    *)
(***************************************************************************)
Chain == INSTANCE SessionChain
    WITH active <- {[session |-> r.session, cur |-> r.cur] : r \in rows},
         spent <- IF provider = "jwt" THEN {} ELSE Pairs \ {r.cur : r \in rows}
ImplementsChain == Chain!Spec

(***************************************************************************)
(* The browser falls two rotations behind only by answers that cross: the   *)
(* stored pair of a session that still has a row is the row's current or    *)
(* previous pair, the only two RotateToken can find the row by, whatever    *)
(* answers were lost and whichever tabs were reloaded, unless RotateToken   *)
(* has answered the row's previous pair with its current one: then several  *)
(* answers carry one pair, and the last of them may arrive two rotations    *)
(* late (afterLogin, Logout, RotateToken).                                  *)
(***************************************************************************)
StoredPairIsFindable ==
    provider = "opaque" /\ storage # None =>
        \A r \in rows : r.session = issued[storage].session /\ ~r.again =>
                           storage \in {r.cur, r.prev}

(***************************************************************************)
(* What the configuration says of lifetime::max ("The duration for which a  *)
(* user can remain logged in before being asked to login"): no pair is      *)
(* issued later than LifetimeMax after the login it descends from.          *)
(***************************************************************************)
SessionsEnd == \A p \in Pairs : issued[p].at <= issued[p].born + LifetimeMax

(***************************************************************************)
(* With the opaque tokenizer that holds: rotating, however often and from   *)
(* wherever, never prolongs a session (IsExpired looks at CreatedAt, which  *)
(* Rotate keeps).                                                           *)
(***************************************************************************)
RotationKeepsLifetime == provider = "opaque" => SessionsEnd

(***************************************************************************)
(* Every API request settles: it is served, rejected, or gives way to a     *)
(* logout; one refused access token leads to at most one rotation and one   *)
(* retry, never to a loop (interceptorRejected).                            *)
(***************************************************************************)
RequestsSettle == \A a \in Requests : (~At(a, "idle")) ~> At(a, "idle")

(***************************************************************************)
(* The grace the configuration promises ("The duration for which the        *)
(* previous token pair remains valid after a token pair is rotated"): a     *)
(* rotation that presents the previous pair within RotationDuration of its  *)
(* replacement is not answered with unauthenticated.                        *)
(***************************************************************************)
PreviousPairHonoured ==
    [][\A k \in rotations, r \in rows :
         /\ k.status = "pending" /\ Answered(k, "unauthorized", None) = rotations'
         /\ r.prev = k.key
         => now - r.rotatedAt > RotationDuration]_vars
=============================================================================
