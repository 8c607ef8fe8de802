---------------------------- MODULE SessionProofs ----------------------------
(***************************************************************************)
(* Proofs about Session, for any number of tabs, requests, streams, pairs   *)
(* and any configuration Config.Validate accepts.                           *)
(***************************************************************************)
EXTENDS Session, TLAPS

(***************************************************************************)
(* What the tokenizer's table and the pairs issued have to do with each     *)
(* other: a row's pairs were issued, its birth is the birth of its current  *)
(* pair, no two rows have one current pair, and no pair was ever made from  *)
(* a pair that is still current.                                            *)
(***************************************************************************)
RowInv == \A r \in rows : /\ r.cur \in Pairs
                          /\ r.prev \in Pairs \cup {None}
                          /\ r.createdAt = issued[r.cur].born
OwnInv == \A r, s \in rows : r.cur = s.cur => r = s
OldInv == \A p \in Pairs : issued[p].from < p
HeadInv == \A r \in rows, p \in Pairs : issued[p].from # r.cur
StatelessInv == provider = "jwt" => rows = {}

TokenInv ==
    /\ TokenizerTypeOK
    /\ RowInv /\ OwnInv /\ OldInv /\ HeadInv /\ StatelessInv
    /\ SessionNeverForks /\ RotationKeepsLifetime

\* What a step of Session does to the tokenizer.
TokenStep ==
    \/ \E victim \in Pairs \cup {None} : CreateToken(victim)
    \/ \E p \in Pairs, q \in Pairs \cup {None, NewPair} : RotateToken(p, q)
    \/ \E p \in Pairs \cup {None} : DeleteToken(p)
    \/ GC
    \/ now' = now + 1 /\ UNCHANGED <<provider, issued, rows>>
    \/ UNCHANGED tokenizerVars

----------------------------------------------------------------------------
(* Lemmas *)

\* A pair that is issued is new, and leaves the others as they were.
LEMMA IssueNew ==
    ASSUME TokenizerTypeOK, NEW s \in Nat, NEW b \in Nat, NEW f \in Nat, Issue(s, b, f)
    PROVE  /\ issued' \in Seq(IssuedPair)
           /\ Pairs' = Pairs \cup {NewPair}
           /\ NewPair \notin Pairs /\ NewPair \in Nat \ {0}
           /\ issued'[NewPair] = [session |-> s, born |-> b, at |-> now, from |-> f]
           /\ \A p \in Pairs : issued'[p] = issued[p]
<1> DEFINE e == [session |-> s, born |-> b, at |-> now, from |-> f]
<1>1. e \in IssuedPair
  BY DEF TokenizerTypeOK, IssuedPair
<1>2. issued \in Seq(IssuedPair) /\ issued' = Append(issued, e)
  BY DEF TokenizerTypeOK, Issue
<1> HIDE DEF e
<1>3. issued' \in Seq(IssuedPair) /\ Len(issued') = Len(issued) + 1 /\ Len(issued) \in Nat
  BY <1>1, <1>2
<1>4. issued'[Len(issued) + 1] = e /\ \A p \in 1 .. Len(issued) : issued'[p] = issued[p]
  BY <1>1, <1>2
<1> QED
  BY <1>3, <1>4 DEF Pairs, NewPair, e

\* The fields of a pair that was issued.
LEMMA PairFields ==
    ASSUME TokenizerTypeOK, NEW p \in Pairs
    PROVE  /\ issued[p] \in IssuedPair
           /\ issued[p].session \in Nat /\ issued[p].born \in Nat
           /\ issued[p].at \in Nat /\ issued[p].from \in Nat
           /\ p \in Nat \ {0}
<1>1. issued[p] \in IssuedPair /\ p \in Nat \ {0}
  BY DEF TokenizerTypeOK, Pairs
<1> QED
  BY <1>1 DEF IssuedPair

\* Steps of Session, as the tokenizer sees them.
LEMMA NextIsTokenStep ==
    ASSUME TypeOK, [Next]_vars
    PROVE  TokenStep
<1>1. ASSUME NEW t \in Tabs, CreateSession(t) PROVE TokenStep
  BY <1>1 DEF CreateSession, TokenStep, TypeOK
<1>2. ASSUME NEW l \in logouts, DeleteSession(l) PROVE TokenStep
  BY <1>2 DEF DeleteSession, TokenStep, TypeOK
<1>3. ASSUME NEW k \in rotations, RotateSession(k) PROVE TokenStep
  <2>1. k.key \in Pairs \cup {None}
    BY DEF TypeOK
  <2> QED
    BY <1>3, <2>1 DEF RotateSession, TokenStep
<1>4. CASE Tick
  BY <1>4 DEF Tick, TokenStep
<1>5. CASE CollectGarbage
  BY <1>5 DEF CollectGarbage, TokenStep
<1>6. ASSUME UNCHANGED tokenizerVars PROVE TokenStep
  BY <1>6 DEF TokenStep
<1>7. CASE UNCHANGED vars
  BY <1>6, <1>7 DEF vars
<1> QED
  BY <1>1, <1>2, <1>3, <1>4, <1>5, <1>6, <1>7
  DEF Next, SubmitLogin, AfterLogin, UserLogout, Reload, FinishLogout, Send,
      Authenticate, Refuse, StartRotation, RetryRefused, StreamBreaks,
      StreamCloses, RotationLost, RotationSucceeds, RotationFails

\* CreateToken: the new row has the new pair, which no other row has and no
\* pair was made from.
LEMMA CreateTokenInv ==
    ASSUME TokenInv, NEW victim \in Pairs \cup {None}, CreateToken(victim)
    PROVE  TokenInv'
<1> DEFINE row == [session |-> NewPair, cur |-> NewPair, prev |-> None,
                   rotatedAt |-> None, createdAt |-> now, again |-> FALSE]
<1>1. TokenizerTypeOK /\ Issue(NewPair, now, None) /\ now \in Nat \ {0} /\ None \in Nat
  BY DEF TokenInv, CreateToken, TokenizerTypeOK, None
<1>2. NewPair \in Nat
  BY <1>1 DEF TokenizerTypeOK, NewPair
<1>3. /\ issued' \in Seq(IssuedPair)
      /\ Pairs' = Pairs \cup {NewPair}
      /\ NewPair \notin Pairs /\ NewPair \in Nat \ {0}
      /\ issued'[NewPair] = [session |-> NewPair, born |-> now, at |-> now, from |-> None]
      /\ \A p \in Pairs : issued'[p] = issued[p]
  BY <1>1, <1>2, IssueNew
<1>4. rows' \subseteq rows \cup {row} /\ (provider = "jwt" => rows' = rows)
      /\ provider' = provider /\ now' = now
  BY DEF CreateToken
<1>5. row \in Row /\ row.cur = NewPair /\ row.prev = None /\ row.createdAt = now
  BY <1>1, <1>2 DEF Row
<1>6. \A p \in Pairs : /\ issued[p].born \in Nat /\ issued[p].at \in Nat
                       /\ issued[p].from \in Nat /\ p \in Nat \ {0}
  BY <1>1, PairFields
<1> HIDE DEF row
<1>7. TokenizerTypeOK'
  BY <1>1, <1>3, <1>4, <1>5 DEF TokenizerTypeOK
<1>8. RowInv'
  BY <1>3, <1>4, <1>5 DEF TokenInv, RowInv
<1>9. OwnInv'
  BY <1>3, <1>4, <1>5 DEF TokenInv, RowInv, OwnInv
<1>10. OldInv'
  BY <1>3, <1>6 DEF TokenInv, OldInv, None
<1>11. HeadInv'
  <2> SUFFICES ASSUME NEW r \in rows', NEW p \in Pairs', issued'[p].from = r.cur
               PROVE  FALSE
    BY DEF HeadInv
  <2>1. CASE p = NewPair
    BY <2>1, <1>3, <1>4, <1>5, <1>6 DEF TokenInv, RowInv, None
  <2>2. CASE p \in Pairs /\ r \in rows
    BY <2>2, <1>3 DEF TokenInv, HeadInv
  <2>3. CASE p \in Pairs /\ r = row
    BY <2>3, <1>3, <1>5, <1>6 DEF TokenInv, OldInv, Pairs, NewPair, TokenizerTypeOK
  <2> QED
    BY <2>1, <2>2, <2>3, <1>3, <1>4
<1>12. StatelessInv'
  BY <1>4 DEF TokenInv, StatelessInv
<1>13. SessionNeverForks'
  BY <1>3, <1>4 DEF TokenInv, SessionNeverForks
<1>14. RotationKeepsLifetime'
  <2>1. LifetimeMax \in Nat
    BY ConfigValidate
  <2> QED
    BY <2>1, <1>1, <1>3, <1>4 DEF TokenInv, RotationKeepsLifetime, SessionsEnd
<1> QED
  BY <1>7, <1>8, <1>9, <1>10, <1>11, <1>12, <1>13, <1>14 DEF TokenInv

\* Rows only leave: DeleteToken, gc, the clock.
LEMMA FewerRowsInv ==
    ASSUME TokenInv, provider' = provider, issued' = issued, rows' \subseteq rows,
           now' \in {now, now + 1}
    PROVE  TokenInv'
<1>1. Pairs' = Pairs
  BY DEF Pairs
<1>2. TokenizerTypeOK'
  BY DEF TokenInv, TokenizerTypeOK
<1>3. RowInv' /\ OwnInv' /\ OldInv' /\ HeadInv' /\ StatelessInv'
  BY <1>1 DEF TokenInv, RowInv, OwnInv, OldInv, HeadInv, StatelessInv
<1>4. SessionNeverForks' /\ RotationKeepsLifetime'
  BY <1>1 DEF TokenInv, SessionNeverForks, RotationKeepsLifetime, SessionsEnd
<1> QED
  BY <1>2, <1>3, <1>4 DEF TokenInv

\* The rotation of a row's current pair: its successor is the only one it will
\* ever have, and is born when the session was.
LEMMA RowRotationInv ==
    ASSUME TokenInv, provider = "opaque", NEW p \in Pairs, NEW r \in rows,
           Rotates(r, p), Issue(r.session, issued[p].born, p),
           Update(r, Rotated(r, NewPair)), UNCHANGED <<provider, now>>
    PROVE  TokenInv'
<1> DEFINE s == Rotated(r, NewPair)
<1>1. TokenizerTypeOK /\ r.cur = p /\ r \in Row /\ now \in Nat
  BY DEF TokenInv, TokenizerTypeOK, Rotates
<1>2. r.session \in Nat /\ r.createdAt \in Nat /\ r.createdAt = issued[p].born
  BY <1>1 DEF TokenInv, RowInv, Row
<1>3. \A a \in Pairs : /\ issued[a].born \in Nat /\ issued[a].at \in Nat
                       /\ issued[a].from \in Nat /\ a \in Nat \ {0}
  BY <1>1, PairFields
<1>4. /\ issued' \in Seq(IssuedPair)
      /\ Pairs' = Pairs \cup {NewPair}
      /\ NewPair \notin Pairs /\ NewPair \in Nat \ {0}
      /\ issued'[NewPair] = [session |-> r.session, born |-> issued[p].born,
                             at |-> now, from |-> p]
      /\ \A a \in Pairs : issued'[a] = issued[a]
  BY <1>1, <1>2, <1>3, IssueNew
<1>5. \A a \in Pairs : a < NewPair
  BY <1>1 DEF Pairs, NewPair, TokenizerTypeOK
<1>6. rows' = (rows \ {r}) \cup {s} /\ provider' = provider /\ now' = now
  BY DEF Update
<1>7. /\ s \in Row /\ s.cur = NewPair /\ s.prev = p /\ s.createdAt = r.createdAt
  BY <1>1, <1>3, <1>4 DEF Rotated, Row
<1> HIDE DEF s
<1>8. TokenizerTypeOK'
  BY <1>1, <1>4, <1>6, <1>7 DEF TokenizerTypeOK
<1>9. RowInv'
  BY <1>2, <1>4, <1>6, <1>7 DEF TokenInv, RowInv
<1>10. OwnInv'
  BY <1>4, <1>6, <1>7 DEF TokenInv, RowInv, OwnInv
<1>11. OldInv'
  BY <1>3, <1>4, <1>5 DEF TokenInv, OldInv
<1>12. HeadInv'
  <2> SUFFICES ASSUME NEW u \in rows', NEW a \in Pairs', issued'[a].from = u.cur
               PROVE  FALSE
    BY DEF HeadInv
  <2>1. CASE u = s
    <3>1. issued'[a].from \in Nat /\ issued'[a].from < NewPair
      BY <1>3, <1>4, <1>5 DEF TokenInv, OldInv
    <3> QED
      BY <2>1, <3>1, <1>4, <1>7
  <2>2. CASE u \in rows \ {r} /\ a \in Pairs
    BY <2>2, <1>4 DEF TokenInv, HeadInv
  <2>3. CASE u \in rows \ {r} /\ a = NewPair
    BY <2>3, <1>1, <1>4 DEF TokenInv, OwnInv
  <2> QED
    BY <2>1, <2>2, <2>3, <1>4, <1>6
<1>13. StatelessInv'
  BY <1>6 DEF StatelessInv
<1>14. SessionNeverForks'
  <2> SUFFICES ASSUME NEW a \in Pairs', NEW b \in Pairs', issued'[a].from # None,
                      issued'[a].from = issued'[b].from
               PROVE  a = b
    BY DEF SessionNeverForks
  <2>1. \A c \in Pairs : issued[c].from # p
    BY <1>1 DEF TokenInv, HeadInv
  <2>2. CASE a \in Pairs /\ b \in Pairs
    BY <2>2, <1>4 DEF TokenInv, SessionNeverForks
  <2> QED
    BY <2>1, <2>2, <1>4
<1>15. RotationKeepsLifetime'
  <2>1. LifetimeMax \in Nat
    BY ConfigValidate
  <2>2. now <= issued[p].born + LifetimeMax
    BY <2>1, <1>1, <1>2 DEF Rotates, IsExpired
  <2> QED
    BY <2>1, <2>2, <1>4, <1>6 DEF TokenInv, RotationKeepsLifetime, SessionsEnd
<1> QED
  BY <1>8, <1>9, <1>10, <1>11, <1>12, <1>13, <1>14, <1>15 DEF TokenInv

\* The previous pair is answered with the current one: the row stays what it is.
LEMMA AgainInv ==
    ASSUME TokenInv, NEW r \in rows, Update(r, [r EXCEPT !.again = TRUE]),
           UNCHANGED <<provider, now, issued>>
    PROVE  TokenInv'
<1> DEFINE s == [r EXCEPT !.again = TRUE]
<1>1. rows' = (rows \ {r}) \cup {s} /\ r \in Row /\ rows \subseteq Row
  BY DEF Update, TokenInv, TokenizerTypeOK
<1>2. s \in Row /\ s.cur = r.cur /\ s.prev = r.prev /\ s.createdAt = r.createdAt
  BY <1>1 DEF Row
<1> HIDE DEF s
<1>3. Pairs' = Pairs
  BY DEF Pairs
<1>4. TokenizerTypeOK'
  BY <1>1, <1>2 DEF TokenInv, TokenizerTypeOK
<1>5. RowInv' /\ OwnInv' /\ OldInv' /\ HeadInv'
  BY <1>1, <1>2, <1>3 DEF TokenInv, RowInv, OwnInv, OldInv, HeadInv
<1>6. StatelessInv' /\ SessionNeverForks' /\ RotationKeepsLifetime'
  BY <1>1, <1>3 DEF TokenInv, StatelessInv, SessionNeverForks, RotationKeepsLifetime,
     SessionsEnd
<1> QED
  BY <1>4, <1>5, <1>6 DEF TokenInv

\* A jwt rotation keeps no row, and nothing is claimed of its chain.
LEMMA ClaimsRotationInv ==
    ASSUME TokenInv, provider = "jwt", NEW p \in Pairs,
           Issue(issued[p].session, issued[p].born, p),
           UNCHANGED <<provider, now, rows>>
    PROVE  TokenInv'
<1>1. TokenizerTypeOK /\ rows = {} /\ rows' = {} /\ provider' = "jwt"
  BY DEF TokenInv, StatelessInv
<1>2. \A a \in Pairs : /\ issued[a].session \in Nat /\ issued[a].born \in Nat
                       /\ issued[a].from \in Nat /\ a \in Nat \ {0}
  BY <1>1, PairFields
<1>3. /\ issued' \in Seq(IssuedPair)
      /\ Pairs' = Pairs \cup {NewPair}
      /\ issued'[NewPair] = [session |-> issued[p].session, born |-> issued[p].born,
                             at |-> now, from |-> p]
      /\ \A a \in Pairs : issued'[a] = issued[a]
  BY <1>1, <1>2, IssueNew
<1>4. \A a \in Pairs : a < NewPair
  BY <1>1 DEF Pairs, NewPair, TokenizerTypeOK
<1>5. TokenizerTypeOK'
  BY <1>1, <1>3 DEF TokenizerTypeOK
<1>6. OldInv'
  BY <1>2, <1>3, <1>4 DEF TokenInv, OldInv
<1> QED
  BY <1>1, <1>5, <1>6 DEF TokenInv, RowInv, OwnInv, HeadInv, StatelessInv,
     SessionNeverForks, RotationKeepsLifetime

LEMMA TokenStepInv ==
    ASSUME TokenInv, TokenStep
    PROVE  TokenInv'
<1>1. ASSUME NEW victim \in Pairs \cup {None}, CreateToken(victim) PROVE TokenInv'
  BY <1>1, CreateTokenInv
<1>2. ASSUME NEW p \in Pairs, NEW q \in Pairs \cup {None, NewPair}, RotateToken(p, q)
      PROVE  TokenInv'
  <2>1. CASE provider = "jwt" /\ Issue(issued[p].session, issued[p].born, p)
    <3>1. UNCHANGED <<provider, now, rows>>
      BY <1>2, <2>1 DEF RotateToken, Issue
    <3> QED
      BY <2>1, <3>1, ClaimsRotationInv
  <2>2. ASSUME provider = "opaque", NEW r \in rows, Rotates(r, p), q = NewPair,
               Issue(r.session, issued[p].born, p), Update(r, Rotated(r, q))
        PROVE  TokenInv'
    BY <1>2, <2>2, RowRotationInv DEF RotateToken
  <2>3. CASE UNCHANGED <<issued, rows>>
    BY <1>2, <2>3, FewerRowsInv DEF RotateToken
  <2>4. ASSUME NEW r \in rows, Update(r, [r EXCEPT !.again = TRUE]), UNCHANGED issued
        PROVE  TokenInv'
    BY <1>2, <2>4, AgainInv DEF RotateToken
  <2> QED
    BY <1>2, <2>1, <2>2, <2>3, <2>4 DEF RotateToken
<1>3. ASSUME NEW p \in Pairs \cup {None}, DeleteToken(p) PROVE TokenInv'
  BY <1>3, FewerRowsInv DEF DeleteToken
<1>4. CASE GC
  BY <1>4, FewerRowsInv DEF GC
<1>5. CASE now' = now + 1 /\ UNCHANGED <<provider, issued, rows>>
  BY <1>5, FewerRowsInv
<1>6. CASE UNCHANGED tokenizerVars
  BY <1>6, FewerRowsInv DEF tokenizerVars
<1> QED
  BY <1>1, <1>2, <1>3, <1>4, <1>5, <1>6 DEF TokenStep

----------------------------------------------------------------------------
(* The type of the browser's half, over a set P of pairs *)

ActorsOver(P) == [Actors -> [phase : Phase, pair : P \cup {None}]]
RotationsOver(P) == [client : Clients, key : P \cup {None},
                     status : Status, pair : P \cup {None}]
LogoutsOver(P) == [tab : Tabs, by : By, pair : P \cup {None}, answered : BOOLEAN]
LoginsOver(P) == [Tabs -> [phase : LoginPhase, pair : P \cup {None}]]

ClientTypeOK(P) ==
    /\ storage \in P \cup {None}
    /\ loggedIn \in [Tabs -> BOOLEAN]
    /\ actor \in ActorsOver(P)
    /\ rotations \subseteq RotationsOver(P)
    /\ logouts \subseteq LogoutsOver(P)
    /\ login \in LoginsOver(P)

LEMMA TypeSplit == TypeOK <=> TokenizerTypeOK /\ ClientTypeOK(Pairs)
  BY DEF TypeOK, ClientTypeOK, ActorsOver, RotationsOver, LogoutsOver, LoginsOver

\* Pairs that were issued stay issued.
LEMMA MorePairs ==
    ASSUME NEW P, NEW Q, P \subseteq Q
    PROVE  /\ P \cup {None} \subseteq Q \cup {None}
           /\ ActorsOver(P) \subseteq ActorsOver(Q)
           /\ RotationsOver(P) \subseteq RotationsOver(Q)
           /\ LogoutsOver(P) \subseteq LogoutsOver(Q)
           /\ LoginsOver(P) \subseteq LoginsOver(Q)
<1>1. P \cup {None} \subseteq Q \cup {None}
  OBVIOUS
<1>2. ActorsOver(P) \subseteq ActorsOver(Q)
  BY <1>1 DEF ActorsOver
<1>3. RotationsOver(P) \subseteq RotationsOver(Q)
  BY <1>1 DEF RotationsOver
<1>4. LogoutsOver(P) \subseteq LogoutsOver(Q)
  BY <1>1 DEF LogoutsOver
<1>5. LoginsOver(P) \subseteq LoginsOver(Q)
  BY <1>1 DEF LoginsOver
<1> QED
  BY <1>1, <1>2, <1>3, <1>4, <1>5

LEMMA MovedType ==
    ASSUME NEW P, ClientTypeOK(P), NEW A, NEW phase \in Phase, NEW pair \in P \cup {None}
    PROVE  Moved(A, phase, pair) \in ActorsOver(P)
  BY DEF Moved, ActorsOver, ClientTypeOK

LEMMA LogoutCallsType ==
    ASSUME NEW P, ClientTypeOK(P), NEW t \in Tabs, NEW B \in SUBSET By
    PROVE  logouts \cup LogoutCalls(t, B) \subseteq LogoutsOver(P)
<1>1. storage \in P \cup {None} /\ logouts \subseteq LogoutsOver(P)
  BY DEF ClientTypeOK
<1>2. LogoutCalls(t, B) \subseteq LogoutsOver(P)
  BY <1>1 DEF LogoutCalls, LogoutsOver
<1> QED
  BY <1>1, <1>2

LEMMA AnsweredType ==
    ASSUME NEW P, rotations \subseteq RotationsOver(P), NEW k \in rotations,
           NEW status \in Status, NEW pair \in P \cup {None}
    PROVE  Answered(k, status, pair) \subseteq RotationsOver(P)
<1>1. k \in RotationsOver(P)
  OBVIOUS
<1>2. [k EXCEPT !.status = status, !.pair = pair] \in RotationsOver(P)
  BY <1>1 DEF RotationsOver
<1> QED
  BY <1>2 DEF Answered

\* What a step has to show of the state it leads to.
LEMMA ClientPrimed ==
    ASSUME NEW P, Pairs' = P,
           storage' \in P \cup {None}, loggedIn' \in [Tabs -> BOOLEAN],
           actor' \in ActorsOver(P), rotations' \subseteq RotationsOver(P),
           logouts' \subseteq LogoutsOver(P), login' \in LoginsOver(P)
    PROVE  ClientTypeOK(Pairs)'
  BY DEF ClientTypeOK, ActorsOver, RotationsOver, LogoutsOver, LoginsOver

----------------------------------------------------------------------------
(* One lemma per group of actions *)

LEMMA LoginType ==
    ASSUME TypeOK, TokenInv, NEW t \in Tabs,
           SubmitLogin(t) \/ CreateSession(t) \/ AfterLogin(t) \/ UserLogout(t) \/ Reload(t)
    PROVE  ClientTypeOK(Pairs)'
<1>1. ClientTypeOK(Pairs)
  BY TypeSplit
<1>2. "user" \in By /\ "idle" \in Phase /\ None \in Pairs \cup {None}
      /\ NoLogin \in [phase : LoginPhase, pair : Pairs \cup {None}]
  BY DEF By, Phase, NoLogin, LoginPhase
<1>3. ASSUME UNCHANGED tokenizerVars PROVE Pairs' = Pairs
  BY <1>3 DEF tokenizerVars, Pairs
<1>4. CASE SubmitLogin(t)
  <2>1. login' \in LoginsOver(Pairs)
    BY <1>1, <1>4 DEF SubmitLogin, ClientTypeOK, LoginsOver, LoginPhase
  <2> QED
    BY <1>1, <1>3, <1>4, <2>1, ClientPrimed DEF SubmitLogin, ClientTypeOK
<1>5. CASE CreateSession(t)
  <2>1. /\ Pairs' = Pairs \cup {NewPair}
    <3>1. TokenizerTypeOK /\ Issue(NewPair, now, None) /\ now \in Nat /\ NewPair \in Nat
          /\ None \in Nat
      BY <1>5 DEF CreateSession, CreateToken, TokenInv, TokenizerTypeOK, NewPair, None
    <3> QED
      BY <3>1, IssueNew
  <2>2. login' \in LoginsOver(Pairs')
    <3>1. login \in LoginsOver(Pairs')
      BY <1>1, <2>1, MorePairs DEF ClientTypeOK
    <3>2. [phase |-> "answered", pair |-> NewPair]
            \in [phase : LoginPhase, pair : Pairs' \cup {None}]
      BY <2>1 DEF LoginPhase
    <3> QED
      BY <1>5, <3>1, <3>2 DEF CreateSession, LoginsOver
  <2>3. /\ storage' \in Pairs' \cup {None} /\ actor' \in ActorsOver(Pairs')
        /\ rotations' \subseteq RotationsOver(Pairs')
        /\ logouts' \subseteq LogoutsOver(Pairs') /\ loggedIn' \in [Tabs -> BOOLEAN]
    BY <1>1, <1>5, <2>1, MorePairs DEF CreateSession, ClientTypeOK
  <2> QED
    BY <2>2, <2>3, ClientPrimed
<1>6. CASE AfterLogin(t)
  <2>1. login' \in LoginsOver(Pairs) /\ storage' \in Pairs \cup {None}
        /\ loggedIn' \in [Tabs -> BOOLEAN]
    BY <1>1, <1>2, <1>6 DEF AfterLogin, ClientTypeOK, LoginsOver
  <2> QED
    BY <1>1, <1>3, <1>6, <2>1, ClientPrimed DEF AfterLogin, ClientTypeOK
<1>7. CASE UserLogout(t)
  <2>1. logouts' \subseteq LogoutsOver(Pairs)
    BY <1>1, <1>2, <1>7, LogoutCallsType DEF UserLogout
  <2> QED
    BY <1>1, <1>3, <1>7, <2>1, ClientPrimed DEF UserLogout, ClientTypeOK
<1>8. CASE Reload(t)
  <2>1. login' \in LoginsOver(Pairs) /\ loggedIn' \in [Tabs -> BOOLEAN]
    BY <1>1, <1>2, <1>8 DEF Reload, ClientTypeOK, LoginsOver
  <2>2. actor' \in ActorsOver(Pairs)
    BY <1>1, <1>2, <1>8, MovedType DEF Reload
  <2> QED
    BY <1>1, <1>3, <1>8, <2>1, <2>2, ClientPrimed DEF Reload, ClientTypeOK
<1> QED
  BY <1>4, <1>5, <1>6, <1>7, <1>8

LEMMA LogoutType ==
    ASSUME TypeOK, NEW l \in logouts, DeleteSession(l) \/ FinishLogout(l)
    PROVE  ClientTypeOK(Pairs)'
<1>1. ClientTypeOK(Pairs) /\ l \in LogoutsOver(Pairs)
  BY TypeSplit DEF ClientTypeOK
<1>2. [l EXCEPT !.answered = TRUE] \in LogoutsOver(Pairs) /\ l.tab \in Tabs
  BY <1>1 DEF LogoutsOver
<1>3. Pairs' = Pairs
  BY DEF DeleteSession, FinishLogout, DeleteToken, tokenizerVars, Pairs
<1>4. CASE DeleteSession(l)
  <2>1. logouts' \subseteq LogoutsOver(Pairs)
    BY <1>1, <1>2, <1>4 DEF DeleteSession, ClientTypeOK
  <2> QED
    BY <1>1, <1>3, <1>4, <2>1, ClientPrimed DEF DeleteSession, ClientTypeOK
<1>5. CASE FinishLogout(l)
  <2>1. loggedIn' \in [Tabs -> BOOLEAN]
    BY <1>1, <1>2, <1>5 DEF FinishLogout, ClientTypeOK
  <2> QED
    BY <1>1, <1>3, <1>5, <2>1, ClientPrimed DEF FinishLogout, ClientTypeOK
<1> QED
  BY <1>4, <1>5

LEMMA ActorType ==
    ASSUME TypeOK, NEW a \in Actors,
           Send(a) \/ Authenticate(a) \/ Refuse(a) \/ StartRotation(a) \/ RetryRefused(a)
             \/ StreamBreaks(a) \/ StreamCloses(a)
    PROVE  ClientTypeOK(Pairs)'
<1>1. ClientTypeOK(Pairs) /\ storage \in Pairs \cup {None} /\ None \in Pairs \cup {None}
  BY TypeSplit DEF ClientTypeOK
<1>2. /\ "idle" \in Phase /\ "sent" \in Phase /\ "open" \in Phase /\ "unauthorized" \in Phase
      /\ "refused" \in Phase /\ "rotating" \in Phase /\ "pending" \in Status
  BY DEF Phase, Status
<1>3. TabOf[a] \in Tabs /\ Client(a) \in Clients
  BY SessionAssumption DEF Client, Clients
<1>4. Pairs' = Pairs
  BY DEF Send, Authenticate, Refuse, StartRotation, RetryRefused, StreamBreaks,
         StreamCloses, tokenizerVars, Pairs
<1>5. CASE Send(a) \/ Authenticate(a) \/ Refuse(a) \/ StreamBreaks(a) \/ StreamCloses(a)
  <2>1. actor' \in ActorsOver(Pairs)
    BY <1>1, <1>2, <1>5, MovedType
    DEF Send, Authenticate, Served, Refuse, StreamBreaks, StreamCloses
  <2> QED
    BY <1>1, <1>4, <1>5, <2>1, ClientPrimed
    DEF Send, Authenticate, Refuse, StreamBreaks, StreamCloses, ClientTypeOK
<1>6. CASE StartRotation(a)
  <2>1. actor' \in ActorsOver(Pairs)
    BY <1>1, <1>2, <1>6, MovedType DEF StartRotation
  <2>2. [client |-> Client(a), key |-> storage, status |-> "pending", pair |-> None]
          \in RotationsOver(Pairs)
    BY <1>1, <1>2, <1>3 DEF RotationsOver
  <2>3. rotations' \subseteq RotationsOver(Pairs)
    BY <1>1, <1>6, <2>2 DEF StartRotation, ClientTypeOK
  <2> QED
    BY <1>1, <1>4, <1>6, <2>1, <2>3, ClientPrimed DEF StartRotation, ClientTypeOK
<1>7. CASE RetryRefused(a)
  <2>1. actor' \in ActorsOver(Pairs)
    BY <1>1, <1>2, <1>7, MovedType DEF RetryRefused
  <2>2. logouts' \subseteq LogoutsOver(Pairs)
    BY <1>1, <1>3, <1>7, LogoutCallsType DEF RetryRefused, By
  <2> QED
    BY <1>1, <1>4, <1>7, <2>1, <2>2, ClientPrimed DEF RetryRefused, ClientTypeOK
<1> QED
  BY <1>5, <1>6, <1>7

\* RotateToken answers with a pair that is issued when it answers.
LEMMA RotateTokenPairs ==
    ASSUME TokenInv, NEW p \in Pairs, NEW q \in Pairs \cup {None, NewPair}, RotateToken(p, q)
    PROVE  Pairs \subseteq Pairs' /\ q \in Pairs' \cup {None}
<1>1. TokenizerTypeOK
  BY DEF TokenInv
<1>2. /\ p \in Nat /\ issued[p].session \in Nat /\ issued[p].born \in Nat
  BY <1>1, PairFields
<1>3. ASSUME NEW s \in Nat, Issue(s, issued[p].born, p)
      PROVE  Pairs' = Pairs \cup {NewPair}
  BY <1>1, <1>2, <1>3, IssueNew
<1>4. ASSUME NEW r \in rows PROVE r.session \in Nat /\ r.cur \in Pairs
  BY <1>4 DEF TokenInv, TokenizerTypeOK, Row, RowInv
<1>5. CASE q = NewPair /\ \E s \in Nat : Issue(s, issued[p].born, p)
  BY <1>3, <1>5
<1>6. CASE q \in Pairs \cup {None} /\ UNCHANGED issued
  BY <1>6 DEF Pairs
<1> QED
  BY <1>2, <1>4, <1>5, <1>6 DEF RotateToken

LEMMA RotationType ==
    ASSUME TypeOK, TokenInv, NEW k \in rotations,
           RotateSession(k) \/ RotationLost(k) \/ RotationSucceeds(k) \/ RotationFails(k)
    PROVE  ClientTypeOK(Pairs)'
<1>1. /\ ClientTypeOK(Pairs) /\ None \in Pairs \cup {None}
      /\ rotations \subseteq RotationsOver(Pairs)
  BY TypeSplit DEF ClientTypeOK
<1>2. k.key \in Pairs \cup {None} /\ k.pair \in Pairs \cup {None} /\ k.client \in Clients
  BY <1>1 DEF RotationsOver
<1>3. /\ "rotated" \in Status /\ "unauthorized" \in Status /\ "failed" \in Status
      /\ "retry" \in Phase /\ "idle" \in Phase
  BY DEF Status, Phase
<1>4. ASSUME UNCHANGED tokenizerVars PROVE Pairs' = Pairs
  BY <1>4 DEF tokenizerVars, Pairs
<1>5. CASE RotateSession(k)
  <2>1. Pairs \subseteq Pairs' /\ rotations' \subseteq RotationsOver(Pairs')
    <3>1. CASE UNCHANGED tokenizerVars /\ rotations' = Answered(k, "failed", None)
      BY <1>1, <1>3, <1>4, <3>1, AnsweredType
    <3>2. ASSUME k.key # None, NEW q \in Pairs \cup {None, NewPair}, RotateToken(k.key, q),
                 rotations' = IF q = None THEN Answered(k, "unauthorized", None)
                              ELSE Answered(k, "rotated", q)
          PROVE  Pairs \subseteq Pairs' /\ rotations' \subseteq RotationsOver(Pairs')
      <4>1. Pairs \subseteq Pairs' /\ q \in Pairs' \cup {None}
        BY <1>2, <3>2, RotateTokenPairs
      <4>2. rotations \subseteq RotationsOver(Pairs')
        BY <1>1, <4>1, MorePairs
      <4> QED
        BY <1>3, <3>2, <4>1, <4>2, AnsweredType
    <3> QED
      BY <1>5, <3>1, <3>2 DEF RotateSession
  <2>2. /\ storage \in Pairs' \cup {None} /\ actor \in ActorsOver(Pairs')
        /\ logouts \subseteq LogoutsOver(Pairs') /\ login \in LoginsOver(Pairs')
    BY <1>1, <2>1, MorePairs DEF ClientTypeOK
  <2> QED
    BY <1>1, <1>5, <2>1, <2>2, ClientPrimed DEF RotateSession, ClientTypeOK
<1>6. CASE RotationLost(k)
  <2>1. rotations' \subseteq RotationsOver(Pairs)
    BY <1>1, <1>3, <1>6, AnsweredType DEF RotationLost
  <2> QED
    BY <1>1, <1>4, <1>6, <2>1, ClientPrimed DEF RotationLost, ClientTypeOK
<1>7. CASE RotationSucceeds(k)
  <2>1. actor' \in ActorsOver(Pairs)
    BY <1>1, <1>2, <1>3, <1>7 DEF RotationSucceeds, ClientTypeOK, ActorsOver, Idle
  <2> QED
    BY <1>1, <1>2, <1>4, <1>7, <2>1, ClientPrimed DEF RotationSucceeds, ClientTypeOK
<1>8. CASE RotationFails(k)
  <2>1. actor' \in ActorsOver(Pairs)
    BY <1>1, <1>3, <1>8, MovedType DEF RotationFails
  <2>2. k.client[1] \in Tabs
    BY <1>2 DEF Clients
  <2>3. \A B \in SUBSET By : logouts \cup LogoutCalls(k.client[1], B) \subseteq LogoutsOver(Pairs)
    BY <1>1, <2>2, LogoutCallsType
  <2>4. logouts' \subseteq LogoutsOver(Pairs)
    BY <1>8, <2>3 DEF RotationFails, Waiting, By
  <2> QED
    BY <1>1, <1>4, <1>8, <2>1, <2>4, ClientPrimed DEF RotationFails, ClientTypeOK
<1> QED
  BY <1>5, <1>6, <1>7, <1>8

LEMMA ClientStepType ==
    ASSUME TypeOK, TokenInv, [Next]_vars
    PROVE  ClientTypeOK(Pairs)'
<1>1. ClientTypeOK(Pairs)
  BY TypeSplit
<1>2. ASSUME UNCHANGED <<issued, clientVars>> PROVE ClientTypeOK(Pairs)'
  BY <1>1, <1>2, ClientPrimed DEF ClientTypeOK, clientVars, Pairs
<1>3. CASE Tick \/ CollectGarbage \/ UNCHANGED vars
  BY <1>2, <1>3 DEF Tick, CollectGarbage, GC, vars, tokenizerVars
<1>4. ASSUME NEW a \in Streams PROVE a \in Actors
  BY <1>4 DEF Actors
<1> QED
  BY <1>3, <1>4, LoginType, LogoutType, ActorType, RotationType DEF Next

----------------------------------------------------------------------------
(* Theorems *)

SessionInv == TypeOK /\ TokenInv

LEMMA InitInv == Init => SessionInv
<1> SUFFICES ASSUME Init PROVE SessionInv
  OBVIOUS
<1>1. provider \in Providers /\ now = 1 /\ issued = <<>> /\ rows = {}
  BY DEF Init, TokenizerInit
<1>2. Pairs = {} /\ issued \in Seq(IssuedPair)
  BY <1>1 DEF Pairs
<1>3. TokenizerTypeOK
  BY <1>1, <1>2 DEF TokenizerTypeOK
<1>4. TokenInv
  BY <1>1, <1>2, <1>3 DEF TokenInv, RowInv, OwnInv, OldInv, HeadInv, StatelessInv,
     SessionNeverForks, RotationKeepsLifetime, SessionsEnd
<1>5. TypeOK
  BY <1>3 DEF Init, TypeOK, Idle, NoLogin, Phase, LoginPhase
<1> QED
  BY <1>4, <1>5 DEF SessionInv

LEMMA StepInv == SessionInv /\ [Next]_vars => SessionInv'
<1> SUFFICES ASSUME SessionInv, [Next]_vars PROVE SessionInv'
  OBVIOUS
<1>1. TokenInv'
  BY NextIsTokenStep, TokenStepInv DEF SessionInv
<1>2. ClientTypeOK(Pairs)'
  BY ClientStepType DEF SessionInv
<1>3. TypeOK'
  BY <1>1, <1>2 DEF TokenInv, TypeOK, ClientTypeOK, ActorsOver, RotationsOver,
     LogoutsOver, LoginsOver
<1> QED
  BY <1>1, <1>3 DEF SessionInv

LEMMA Invariance == Spec => []SessionInv
  BY InitInv, StepInv, PTL DEF Spec

\* The state has its type: among other things every pair a tab, a request in
\* flight or a row refers to was issued (CreateToken, RotateToken).
THEOREM TypeCorrect == Spec => []TypeOK
  BY Invariance, PTL DEF SessionInv

\* However many requests and streams rotate one pair at once, the opaque
\* tokenizer gives it one successor (Token.Rotate).
THEOREM NoFork == Spec => []SessionNeverForks
  BY Invariance, PTL DEF SessionInv, TokenInv

\* No rotation makes an opaque session outlive lifetime::max (Token.IsExpired).
THEOREM LifetimeKept == Spec => []RotationKeepsLifetime
  BY Invariance, PTL DEF SessionInv, TokenInv

----------------------------------------------------------------------------
(* The refinement *)

Active == {[session |-> r.session, cur |-> r.cur] : r \in rows}
Heads == {r.cur : r \in rows}
Spent == IF provider = "jwt" THEN {} ELSE Pairs \ Heads

LEMMA CurrentOfRows ==
    ASSUME NEW R
    PROVE  Chain!Current({[session |-> r.session, cur |-> r.cur] : r \in R}) = {r.cur : r \in R}
<1> DEFINE f(r) == [session |-> r.session, cur |-> r.cur]
           S == {f(r) : r \in R}
<1>1. \A r \in R : f(r).cur = r.cur
  OBVIOUS
<1> HIDE DEF f
<1>2. ASSUME NEW x \in {c.cur : c \in S} PROVE x \in {r.cur : r \in R}
  <2>1. PICK c \in S : x = c.cur
    BY <1>2
  <2>2. PICK r \in R : c = f(r)
    BY <2>1
  <2> QED
    BY <1>1, <2>1, <2>2
<1>3. ASSUME NEW r \in R PROVE r.cur \in {c.cur : c \in S}
  BY <1>1, <1>3
<1>4. {c.cur : c \in S} = {r.cur : r \in R}
  BY <1>2, <1>3
<1> QED
  BY <1>4 DEF Chain!Current, f

\* Rows that leave end their sessions.
LEMMA EndStep ==
    ASSUME TokenInv, NEW K \in SUBSET rows, rows' = K, issued' = issued, provider' = provider
    PROVE  Chain!End
<1> DEFINE gone == {[session |-> r.session, cur |-> r.cur] : r \in rows \ K}
<1>1. gone \in SUBSET Active
  BY DEF Active
<1>2. \A r \in rows, s \in rows : r.cur = s.cur => r = s
  BY DEF TokenInv, OwnInv
<1>3. Active' = Active \ gone
  BY <1>2 DEF Active
<1>4. Chain!Current(gone) = Heads \ Heads'
  <2>1. Chain!Current(gone) = {r.cur : r \in rows \ K}
    BY CurrentOfRows
  <2> QED
    BY <1>2, <2>1 DEF Heads
<1>5. Spent' = Spent \cup Chain!Current(gone)
  <2>1. CASE provider = "jwt"
    BY <1>4, <2>1 DEF Spent, TokenInv, StatelessInv, Heads
  <2>2. CASE provider # "jwt"
    <3>1. Heads \subseteq Pairs /\ Heads' \subseteq Heads /\ Pairs' = Pairs
      BY DEF Heads, TokenInv, RowInv, Pairs
    <3> QED
      BY <1>4, <2>2, <3>1 DEF Spent
  <2> QED
    BY <2>1, <2>2
<1> HIDE DEF gone
<1> QED
  BY <1>1, <1>3, <1>5 DEF Chain!End, Active, Spent, Heads

View(r) == [session |-> r.session, cur |-> r.cur]

\* Rows K stay and a row with the new pair is added.
LEMMA NewHead ==
    ASSUME TokenInv, provider = "opaque", provider' = provider,
           Pairs' = Pairs \cup {NewPair}, NewPair \notin Pairs,
           NEW K \in SUBSET rows, NEW n, n.cur = NewPair, rows' = K \cup {n}
    PROVE  /\ {View(r) : r \in rows \ K} \in SUBSET Active
           /\ View(n) \in Active'
           /\ Active' = (Active \ {View(r) : r \in rows \ K}) \cup {View(n)}
           /\ Spent' = Spent \cup Chain!Current({View(r) : r \in rows \ K})
           /\ Chain!Fresh(NewPair)
<1>1. \A r \in rows, s \in rows : View(r) = View(s) => r = s
  BY DEF TokenInv, OwnInv, View
<1>2. Active = {View(r) : r \in rows} /\ Active' = {View(r) : r \in rows'}
  BY DEF Active, View
<1>3. \A r \in rows : r.cur \in Pairs
  BY DEF TokenInv, RowInv
<1>4. Active' = (Active \ {View(r) : r \in rows \ K}) \cup {View(n)}
  BY <1>1, <1>2
<1>5. Chain!Current({View(r) : r \in rows \ K}) = {r.cur : r \in rows \ K}
  BY CurrentOfRows DEF View
<1>6. {r.cur : r \in rows \ K} = Heads \ {r.cur : r \in K}
  BY DEF TokenInv, OwnInv, Heads
<1>7. Heads' = {r.cur : r \in K} \cup {NewPair}
  BY DEF Heads
<1>8. Heads \subseteq Pairs /\ {r.cur : r \in K} \subseteq Heads
  BY <1>3 DEF Heads
<1>9. Spent = Pairs \ Heads /\ Spent' = Pairs' \ Heads'
  BY DEF Spent
<1>10. Spent' = Spent \cup Chain!Current({View(r) : r \in rows \ K})
  BY <1>5, <1>6, <1>7, <1>8, <1>9
<1>11. Chain!Fresh(NewPair)
  <2>1. Chain!Current(Active) = Heads
    BY CurrentOfRows DEF Active, Heads
  <2>2. NewPair \notin Spent \cup Chain!Current(Active)
    BY <2>1, <1>8, <1>9
  <2> QED
    BY <2>2 DEF Chain!Fresh, Active, Spent, Heads
<1> QED
  BY <1>2, <1>4, <1>10, <1>11

LEMMA StartStep ==
    ASSUME TokenInv, provider = "opaque", NEW victim \in Pairs \cup {None}, CreateToken(victim)
    PROVE  Chain!Start
<1> DEFINE K == {r \in rows : r.cur # victim}
           n == [session |-> NewPair, cur |-> NewPair, prev |-> None,
                 rotatedAt |-> None, createdAt |-> now, again |-> FALSE]
<1>1. TokenizerTypeOK /\ Issue(NewPair, now, None) /\ now \in Nat /\ None \in Nat
      /\ NewPair \in Nat
  BY DEF TokenInv, CreateToken, TokenizerTypeOK, None, NewPair
<1>2. Pairs' = Pairs \cup {NewPair} /\ NewPair \notin Pairs
  BY <1>1, IssueNew
<1>3. rows' = K \cup {n} /\ K \in SUBSET rows /\ provider' = provider
  BY DEF CreateToken
<1>4. n.cur = NewPair /\ View(n).session = NewPair /\ View(n).cur = NewPair
  BY DEF View
<1> HIDE DEF K, n
<1>5. /\ {View(r) : r \in rows \ K} \in SUBSET Active
      /\ View(n) \in Active'
      /\ Active' = (Active \ {View(r) : r \in rows \ K}) \cup {View(n)}
      /\ Spent' = Spent \cup Chain!Current({View(r) : r \in rows \ K})
      /\ Chain!Fresh(View(n).cur)
  BY <1>2, <1>3, <1>4, NewHead
<1>6. View(n).session = View(n).cur
  BY <1>4
<1> DEFINE ended == {View(r) : r \in rows \ K}
           c == View(n)
<1>7. /\ ended \in SUBSET Active /\ c \in Active' /\ c.session = c.cur
      /\ Chain!Fresh(c.cur) /\ Active' = (Active \ ended) \cup {c}
      /\ Spent' = Spent \cup Chain!Current(ended)
  BY <1>5, <1>6
<1> HIDE DEF ended, c
<1> QED
  BY <1>7 DEF Chain!Start, Active, Spent, Heads

LEMMA AdvanceStep ==
    ASSUME TokenInv, provider = "opaque", NEW p \in Pairs, NEW r \in rows,
           Rotates(r, p), Issue(r.session, issued[p].born, p),
           Update(r, Rotated(r, NewPair)), UNCHANGED <<provider, now>>
    PROVE  Chain!Advance
<1> DEFINE n == Rotated(r, NewPair)
           K == rows \ {r}
<1>1. TokenizerTypeOK /\ r \in Row
  BY DEF TokenInv, TokenizerTypeOK
<1>2. r.session \in Nat /\ issued[p].born \in Nat /\ p \in Nat
  BY <1>1, PairFields DEF Row
<1>3. Pairs' = Pairs \cup {NewPair} /\ NewPair \notin Pairs
  BY <1>1, <1>2, IssueNew
<1>4. rows' = K \cup {n} /\ K \in SUBSET rows /\ provider' = provider
  BY DEF Update
<1>5. n.cur = NewPair /\ n.session = r.session
  BY <1>1 DEF Rotated, Row
<1>6. {View(s) : s \in rows \ K} = {View(r)}
  OBVIOUS
<1> HIDE DEF K, n
<1>7. /\ {View(s) : s \in rows \ K} \in SUBSET Active
      /\ View(n) \in Active'
      /\ Active' = (Active \ {View(s) : s \in rows \ K}) \cup {View(n)}
      /\ Spent' = Spent \cup Chain!Current({View(s) : s \in rows \ K})
      /\ Chain!Fresh(NewPair)
  BY <1>3, <1>4, <1>5, NewHead
<1> DEFINE c == View(r)
           d == View(n)
<1>8. d.session = c.session /\ d.cur = NewPair
  BY <1>5 DEF View
<1> HIDE DEF c, d
<1>9. Chain!Current({c}) = {c.cur}
  BY DEF Chain!Current
<1>10. /\ c \in Active /\ d \in Active' /\ d.session = c.session /\ Chain!Fresh(d.cur)
       /\ Active' = (Active \ {c}) \cup {d} /\ Spent' = Spent \cup {c.cur}
  BY <1>6, <1>7, <1>8, <1>9 DEF c, d
<1> QED
  BY <1>10 DEF Chain!Advance, Active, Spent, Heads

\* Answering with the current pair moves no session on.
LEMMA AgainStep ==
    ASSUME TokenInv, NEW r \in rows, Update(r, [r EXCEPT !.again = TRUE]),
           UNCHANGED <<provider, issued>>
    PROVE  UNCHANGED Chain!chainVars
<1> DEFINE s == [r EXCEPT !.again = TRUE]
<1>1. rows' = (rows \ {r}) \cup {s} /\ r \in Row
  BY DEF Update, TokenInv, TokenizerTypeOK
<1>2. s.cur = r.cur /\ s.session = r.session
  BY <1>1 DEF Row
<1> HIDE DEF s
<1>3. Active' = Active /\ Heads' = Heads
  BY <1>1, <1>2 DEF Active, Heads
<1>4. Spent' = Spent
  BY <1>3 DEF Spent, Pairs
<1> QED
  BY <1>3, <1>4 DEF Chain!chainVars, Active, Spent, Heads

LEMMA ChainStep ==
    ASSUME SessionInv, [Next]_vars
    PROVE  [Chain!Next]_Chain!chainVars
<1>1. TokenInv /\ TokenStep /\ provider \in {"opaque", "jwt"}
  BY NextIsTokenStep, ConfigValidate DEF SessionInv, TokenInv, TokenizerTypeOK
<1>2. ASSUME UNCHANGED <<provider, issued, rows>> PROVE UNCHANGED Chain!chainVars
  BY <1>2 DEF Chain!chainVars, Pairs
<1>3. ASSUME provider = "jwt", rows' = rows, provider' = provider
      PROVE  UNCHANGED Chain!chainVars
  BY <1>3 DEF Chain!chainVars
<1>4. ASSUME NEW victim \in Pairs \cup {None}, CreateToken(victim)
      PROVE  [Chain!Next]_Chain!chainVars
  BY <1>1, <1>3, <1>4, StartStep DEF CreateToken, Chain!Next
<1>5. ASSUME NEW p \in Pairs, NEW q \in Pairs \cup {None, NewPair}, RotateToken(p, q)
      PROVE  [Chain!Next]_Chain!chainVars
  <2>1. CASE provider = "jwt"
    BY <1>3, <1>5, <2>1 DEF RotateToken
  <2>2. ASSUME provider = "opaque", NEW r \in rows, Rotates(r, p), q = NewPair,
               Issue(r.session, issued[p].born, p), Update(r, Rotated(r, q))
        PROVE  Chain!Advance
    BY <1>1, <1>5, <2>2, AdvanceStep DEF RotateToken
  <2>3. CASE UNCHANGED <<issued, rows>>
    BY <1>2, <1>5, <2>3 DEF RotateToken
  <2>4. ASSUME NEW r \in rows, Update(r, [r EXCEPT !.again = TRUE]), UNCHANGED issued
        PROVE  UNCHANGED Chain!chainVars
    BY <1>1, <1>5, <2>4, AgainStep DEF RotateToken
  <2> QED
    BY <1>1, <1>5, <2>1, <2>2, <2>3, <2>4 DEF RotateToken, Chain!Next
<1>6. ASSUME NEW p \in Pairs \cup {None}, DeleteToken(p)
      PROVE  [Chain!Next]_Chain!chainVars
  <2>1. CASE provider = "jwt" /\ UNCHANGED rows
    BY <1>2, <1>6, <2>1 DEF DeleteToken
  <2>2. CASE rows' = {r \in rows : r.cur # p}
    BY <1>1, <1>6, <2>2, EndStep DEF DeleteToken, Chain!Next
  <2> QED
    BY <1>6, <2>1, <2>2 DEF DeleteToken
<1>7. CASE GC
  BY <1>1, <1>7, EndStep DEF GC, Chain!Next
<1>8. CASE UNCHANGED <<provider, issued, rows>>
  BY <1>2, <1>8
<1> QED
  BY <1>1, <1>4, <1>5, <1>6, <1>7, <1>8 DEF TokenStep, tokenizerVars

\* The detailed specification implements the abstract one: every behaviour of
\* browser and server is, for the sessions, a behaviour of SessionChain.
THEOREM ChainImplemented == Spec => ImplementsChain
<1>1. Init => Chain!Init
  BY DEF Init, TokenizerInit, Chain!Init, Pairs
<1>2. SessionInv /\ [Next]_vars => [Chain!Next]_Chain!chainVars
  BY ChainStep
<1> QED
  BY <1>1, <1>2, Invariance, PTL DEF Spec, ImplementsChain, Chain!Spec

----------------------------------------------------------------------------
(* What the browser holds *)

\* A pair belongs to the session its first pair names, and so do both pairs of
\* a row; no session has two rows.
ChainInv ==
    /\ \A p \in Pairs : issued[p].session \in Pairs
    /\ \A r \in rows : /\ issued[r.cur].session = r.session
                       /\ r.prev # None => issued[r.prev].session = r.session
                       /\ r.prev # r.cur
    /\ \A r, s \in rows : r.session = s.session => r = s

\* What carries a pair to localStorage: answered rotations and logins.
Carries(k) == k.status = "rotated"
Brings(t) == login[t].phase = "answered"

CarryInv ==
    /\ \A k \in rotations : Carries(k) => k.pair \in Pairs
    /\ \A t \in Tabs : Brings(t) => login[t].pair \in Pairs

\* The current pair of r is on its way.
Coming(r) ==
    \/ \E k \in rotations : Carries(k) /\ k.pair = r.cur
    \/ \E t \in Tabs : Brings(t) /\ login[t].pair = r.cur
AskedWith(p) == \E k \in rotations : k.key = p

(***************************************************************************)
(* Of a row whose previous pair was never answered: what is on its way is   *)
(* the current pair, once; when the browser has had that pair, it does not  *)
(* come again; when it is rotating that pair, the previous one is not       *)
(* stored any more.                                                         *)
(***************************************************************************)
HoldInv(r) ==
    /\ storage # None /\ issued[storage].session = r.session => storage \in {r.cur, r.prev}
    /\ \A k \in rotations : Carries(k) /\ issued[k.pair].session = r.session => k.pair = r.cur
    /\ \A t \in Tabs : Brings(t) /\ issued[login[t].pair].session = r.session
                          => login[t].pair = r.cur
    /\ storage = r.cur \/ AskedWith(r.cur) => ~Coming(r)
    /\ AskedWith(r.cur) => storage = None \/ storage # r.prev
    /\ \A k, l \in rotations : Carries(k) /\ Carries(l) /\ k.pair = r.cur /\ l.pair = r.cur => k = l
    /\ \A t, u \in Tabs : Brings(t) /\ Brings(u) /\ login[t].pair = r.cur /\ login[u].pair = r.cur
                             => t = u
    /\ \A k \in rotations, t \in Tabs : ~(/\ Carries(k) /\ k.pair = r.cur
                                          /\ Brings(t) /\ login[t].pair = r.cur)

FindInv == /\ ChainInv /\ CarryInv
           /\ \A r \in rows : ~r.again => HoldInv(r)

LEMMA RowFacts ==
    ASSUME SessionInv, ChainInv, NEW r \in rows
    PROVE  /\ r.cur \in Pairs /\ r.cur # None /\ r.prev \in Pairs \cup {None}
           /\ r.session \in Pairs /\ r.session = issued[r.cur].session
<1>1. r.cur \in Pairs /\ r.prev \in Pairs \cup {None}
  BY DEF SessionInv, TokenInv, RowInv
<1>2. r.cur # None
  BY <1>1 DEF Pairs, None
<1> QED
  BY <1>1, <1>2 DEF ChainInv

\* Steps after which nothing is on its way that was not: rows, answers and
\* logins may go, localStorage may be cleared, and the stored pair be asked with.
LEMMA KeptFind ==
    ASSUME SessionInv, FindInv, issued' = issued, rows' \subseteq rows,
           storage' \in {storage, None},
           \A k \in rotations' : Carries(k) => k \in rotations,
           \A k \in rotations' : k.key = storage \/ \E l \in rotations : l.key = k.key,
           \A t \in Tabs : login'[t].phase = "answered" => login'[t] = login[t]
    PROVE  FindInv'
<1>1. Pairs' = Pairs
  BY DEF Pairs
<1>2. ChainInv'
  BY <1>1 DEF FindInv, ChainInv
<1>3. CarryInv'
  BY <1>1 DEF FindInv, CarryInv, Carries, Brings
<1>4. ASSUME NEW r \in rows', ~r.again PROVE HoldInv(r)'
  <2>1. r \in rows /\ HoldInv(r) /\ r.cur # None /\ r.prev # r.cur
    BY <1>4, RowFacts DEF FindInv, ChainInv
  <2>2. AskedWith(r.cur)' => AskedWith(r.cur) \/ storage = r.cur
    BY DEF AskedWith
  <2>3. Coming(r)' => Coming(r)
    BY DEF Coming, Carries, Brings
  <2>4. storage' # None => storage' = storage
    OBVIOUS
  <2>5. \A t \in Tabs : Brings(t)' => Brings(t) /\ login'[t] = login[t]
    BY DEF Brings
  <2>6. \A k \in rotations' : Carries(k)' => k \in rotations /\ Carries(k)
    BY DEF Carries
  <2> QED
    BY <2>1, <2>2, <2>3, <2>4, <2>5, <2>6 DEF HoldInv
<1> QED
  BY <1>2, <1>3, <1>4 DEF FindInv

\* A pair is stored that was on its way, and is not any more.
LEMMA StoreFind ==
    ASSUME SessionInv, FindInv, issued' = issued, rows' = rows, NEW p \in Pairs, storage' = p,
           rotations' \subseteq rotations,
           \A t \in Tabs : login'[t].phase = "answered" => login'[t] = login[t],
           \A r \in rows : ~r.again /\ issued[p].session = r.session
                              => p = r.cur /\ ~Coming(r)'
    PROVE  FindInv'
<1>1. Pairs' = Pairs /\ p # None
  BY DEF Pairs, None
<1>2. ChainInv'
  BY <1>1 DEF FindInv, ChainInv
<1>3. CarryInv'
  BY <1>1 DEF FindInv, CarryInv, Carries, Brings
<1>4. ASSUME NEW r \in rows', ~r.again PROVE HoldInv(r)'
  <2>1. /\ r \in rows /\ HoldInv(r) /\ r.cur # None /\ r.prev # r.cur
        /\ issued[r.cur].session = r.session
        /\ r.prev # None => issued[r.prev].session = r.session
    BY <1>4, RowFacts DEF FindInv, ChainInv
  <2>2. AskedWith(r.cur)' => AskedWith(r.cur)
    BY DEF AskedWith
  <2>3. Coming(r)' => Coming(r)
    BY DEF Coming, Carries, Brings
  <2>4. \A t \in Tabs : Brings(t)' => Brings(t) /\ login'[t] = login[t]
    BY DEF Brings
  <2>5. \A k \in rotations' : k \in rotations /\ (Carries(k)' <=> Carries(k))
    BY DEF Carries
  <2>6. CASE issued[p].session = r.session
    <3>1. p = r.cur /\ ~Coming(r)'
      BY <1>4, <2>1, <2>6
    <3> QED
      BY <1>1, <2>1, <2>4, <2>5, <3>1 DEF HoldInv
  <2>7. CASE issued[p].session # r.session
    <3>1. p # r.cur /\ p # r.prev
      BY <1>1, <2>1, <2>7
    <3> QED
      BY <1>1, <2>1, <2>2, <2>3, <2>4, <2>5, <2>7, <3>1 DEF HoldInv
  <2> QED
    BY <2>6, <2>7
<1> QED
  BY <1>2, <1>3, <1>4 DEF FindInv

\* afterLogin, and a rotation that succeeds.
LEMMA StoringFind ==
    ASSUME SessionInv, FindInv,
           \/ \E t \in Tabs : AfterLogin(t)
           \/ \E k \in rotations : RotationSucceeds(k)
    PROVE  FindInv'
<1>0. TypeOK
  BY DEF SessionInv
<1>1. ASSUME NEW t \in Tabs, AfterLogin(t) PROVE FindInv'
  <2> DEFINE p == login[t].pair
  <2>1. /\ Brings(t) /\ storage' = p /\ login' = [login EXCEPT ![t] = NoLogin]
        /\ rotations' = rotations /\ issued' = issued /\ rows' = rows
    BY <1>1 DEF AfterLogin, Brings, tokenizerVars
  <2>2. p \in Pairs
    BY <2>1 DEF FindInv, CarryInv
  <2>3. /\ login'[t] = NoLogin /\ NoLogin.phase # "answered"
        /\ \A u \in Tabs \ {t} : login'[u] = login[u]
    BY <1>0, <2>1 DEF TypeOK, NoLogin
  <2>4. ASSUME NEW r \in rows, ~r.again, issued[p].session = r.session
        PROVE  p = r.cur /\ ~Coming(r)'
    <3>1. HoldInv(r)
      BY <2>4 DEF FindInv
    <3>2. p = r.cur
      BY <2>1, <2>4, <3>1 DEF HoldInv
    <3>3. \A k \in rotations : ~(Carries(k) /\ k.pair = r.cur)
      BY <2>1, <3>1, <3>2 DEF HoldInv
    <3>4. \A u \in Tabs : u # t => ~(Brings(u) /\ login[u].pair = r.cur)
      BY <2>1, <3>1, <3>2 DEF HoldInv
    <3> QED
      BY <2>1, <2>3, <3>2, <3>3, <3>4 DEF Coming, Brings, Carries
  <2> HIDE DEF p
  <2> QED
    BY <2>1, <2>2, <2>3, <2>4, StoreFind
<1>2. ASSUME NEW k \in rotations, RotationSucceeds(k) PROVE FindInv'
  <2> DEFINE p == k.pair
  <2>1. /\ Carries(k) /\ storage' = p /\ login' = login /\ rotations' = rotations \ {k}
        /\ issued' = issued /\ rows' = rows
    BY <1>2 DEF RotationSucceeds, Carries, tokenizerVars
  <2>2. p \in Pairs
    BY <2>1 DEF FindInv, CarryInv
  <2>3. ASSUME NEW r \in rows, ~r.again, issued[p].session = r.session
        PROVE  p = r.cur /\ ~Coming(r)'
    <3>1. HoldInv(r)
      BY <2>3 DEF FindInv
    <3>2. p = r.cur
      BY <2>1, <2>3, <3>1 DEF HoldInv
    <3>3. \A l \in rotations \ {k} : ~(Carries(l) /\ l.pair = r.cur)
      BY <2>1, <3>1, <3>2 DEF HoldInv
    <3>4. \A u \in Tabs : ~(Brings(u) /\ login[u].pair = r.cur)
      BY <2>1, <3>1, <3>2 DEF HoldInv
    <3> QED
      BY <2>1, <3>2, <3>3, <3>4 DEF Coming, Brings, Carries
  <2> HIDE DEF p
  <2> QED
    BY <2>1, <2>2, <2>3, StoreFind
<1> QED
  BY <1>1, <1>2

\* A rotation is answered: what is in flight besides it stays.
LEMMA AnsweredFacts ==
    ASSUME TypeOK, NEW k \in rotations, NEW status, NEW q, rotations' = Answered(k, status, q)
    PROVE  /\ \A l \in rotations' : l \in rotations \/ (l.key = k.key /\ l.status = status /\ l.pair = q)
           /\ \A l, m \in rotations' : l \notin rotations /\ m \notin rotations => l = m
<1> DEFINE n == [k EXCEPT !.status = status, !.pair = q]
<1>1. k \in RotationsOver(Pairs)
  BY TypeSplit DEF ClientTypeOK
<1>2. n.key = k.key /\ n.status = status /\ n.pair = q
  BY <1>1 DEF RotationsOver
<1>3. rotations' = (rotations \ {k}) \cup {n}
  BY DEF Answered
<1> HIDE DEF n
<1> QED
  BY <1>2, <1>3

\* CreateToken: the new session's pair is on its way once, to the tab that asked.
LEMMA CreateFind ==
    ASSUME SessionInv, FindInv, NEW t \in Tabs, CreateSession(t)
    PROVE  FindInv'
<1> DEFINE victim == login[t].pair
           n == [session |-> NewPair, cur |-> NewPair, prev |-> None,
                 rotatedAt |-> None, createdAt |-> now, again |-> FALSE]
<1>0. TypeOK /\ TokenInv /\ TokenizerTypeOK /\ CreateToken(victim) /\ now \in Nat /\ None \in Nat
  BY DEF SessionInv, TokenInv, CreateSession, TokenizerTypeOK, None
<1>1. NewPair \in Nat
  BY <1>0 DEF TokenizerTypeOK, NewPair
<1>2. /\ Pairs' = Pairs \cup {NewPair}
      /\ NewPair \notin Pairs /\ NewPair # None
      /\ issued'[NewPair] = [session |-> NewPair, born |-> now, at |-> now, from |-> None]
      /\ \A p \in Pairs : issued'[p] = issued[p]
  <2>1. Issue(NewPair, now, None)
    BY <1>0 DEF CreateToken
  <2> QED
    BY <1>0, <1>1, <2>1, IssueNew DEF None
<1>3. issued'[NewPair].session = NewPair
  BY <1>2
<1>4. /\ n.session = NewPair /\ n.cur = NewPair /\ n.prev = None
      /\ rows' \subseteq rows \cup {n}
  BY <1>0 DEF CreateToken
<1>5. /\ login[t].phase = "listed" /\ rotations' = rotations /\ storage' = storage
      /\ login'[t].phase = "answered" /\ login'[t].pair = NewPair
      /\ \A u \in Tabs \ {t} : login'[u] = login[u]
  BY <1>0 DEF CreateSession, TypeOK
<1> HIDE DEF n, victim
<1>6. /\ storage # None => storage \in Pairs
      /\ \A k \in rotations : k.key # NewPair
  BY <1>0, <1>2 DEF TypeOK
<1>7. ChainInv'
  <2>1. \A p \in Pairs' : issued'[p].session \in Pairs'
    BY <1>2, <1>3 DEF FindInv, ChainInv
  <2>2. \A r \in rows' : /\ issued'[r.cur].session = r.session
                         /\ r.prev # None => issued'[r.prev].session = r.session
                         /\ r.prev # r.cur
    BY <1>2, <1>3, <1>4, RowFacts DEF FindInv, ChainInv
  <2>3. \A r, s \in rows' : r.session = s.session => r = s
    BY <1>2, <1>4, RowFacts DEF FindInv, ChainInv
  <2> QED
    BY <2>1, <2>2, <2>3 DEF ChainInv
<1>8. CarryInv'
  BY <1>2, <1>5 DEF FindInv, CarryInv, Carries, Brings
<1>9. /\ \A u \in Tabs : Brings(u)' => u = t \/ Brings(u)
      /\ \A k \in rotations' : k \in rotations /\ (Carries(k)' <=> Carries(k))
  BY <1>5 DEF Brings, Carries
<1>10. /\ \A k \in rotations : Carries(k) => k.pair \in Pairs
       /\ \A u \in Tabs : Brings(u) => login[u].pair \in Pairs
  BY DEF FindInv, CarryInv
<1>11. ASSUME NEW r \in rows', ~r.again PROVE HoldInv(r)'
  <2>1. CASE r = n
    <3>1. \A p \in Pairs : issued'[p].session # NewPair
      BY <1>2 DEF FindInv, ChainInv
    <3>2. ~AskedWith(r.cur)' /\ storage' # r.cur
      BY <1>2, <1>4, <1>5, <1>6, <2>1 DEF AskedWith
    <3>3. \A u \in Tabs : Brings(u)' /\ login'[u].pair = NewPair => u = t
      BY <1>2, <1>5, <1>9, <1>10
    <3> QED
      BY <1>2, <1>4, <1>5, <1>6, <1>9, <1>10, <2>1, <3>1, <3>2, <3>3 DEF HoldInv
  <2>2. CASE r # n
    <3>1. r \in rows /\ HoldInv(r) /\ r.cur \in Pairs /\ r.session \in Pairs
      BY <1>4, <1>11, <2>2, RowFacts DEF FindInv
    <3>2. AskedWith(r.cur)' => AskedWith(r.cur)
      BY <1>5 DEF AskedWith
    <3>3. Coming(r)' => Coming(r)
      BY <1>2, <1>5, <1>9, <3>1 DEF Coming
    <3>4. \A u \in Tabs : Brings(u)' /\ login'[u].pair = r.cur => Brings(u) /\ login'[u] = login[u]
      BY <1>2, <1>5, <1>9, <3>1
    <3>5. \A u \in Tabs : Brings(u)' /\ issued'[login'[u].pair].session = r.session
             => Brings(u) /\ login'[u] = login[u] /\ issued[login[u].pair].session = r.session
      BY <1>2, <1>3, <1>5, <1>9, <1>10, <3>1
    <3>6. \A k \in rotations : Carries(k) => issued'[k.pair] = issued[k.pair]
      BY <1>2, <1>10
    <3>7. storage # None => issued'[storage] = issued[storage]
      BY <1>2, <1>6
    <3> QED
      BY <1>5, <1>9, <3>1, <3>2, <3>3, <3>4, <3>5, <3>6, <3>7 DEF HoldInv
  <2> QED
    BY <2>1, <2>2
<1> QED
  BY <1>7, <1>8, <1>11 DEF FindInv

\* Token.Rotate of the current pair: its successor is on its way once, to the
\* client that asked, and nothing else of the session is.
LEMMA RotateFind ==
    ASSUME SessionInv, FindInv, NEW k \in rotations, NEW r \in rows, k.key \in Pairs,
           Rotates(r, k.key), Issue(r.session, issued[k.key].born, k.key),
           Update(r, Rotated(r, NewPair)),
           rotations' = Answered(k, "rotated", NewPair), UNCHANGED <<storage, login>>
    PROVE  FindInv'
<1> DEFINE n == Rotated(r, NewPair)
<1>0. TypeOK /\ TokenInv /\ TokenizerTypeOK /\ r \in Row /\ r.cur = k.key
  BY DEF SessionInv, TokenInv, TokenizerTypeOK, Rotates
<1>1. /\ Pairs' = Pairs \cup {NewPair} /\ NewPair \notin Pairs /\ NewPair # None
      /\ issued'[NewPair].session = r.session
      /\ \A p \in Pairs : issued'[p] = issued[p]
  <2>1. r.session \in Nat /\ issued[k.key].born \in Nat /\ k.key \in Nat
    BY <1>0, PairFields DEF Row
  <2>2. issued'[NewPair] = [session |-> r.session, born |-> issued[k.key].born,
                            at |-> now, from |-> k.key]
    BY <1>0, <2>1, IssueNew
  <2> QED
    BY <1>0, <2>1, <2>2, IssueNew DEF None
<1>2. /\ n.session = r.session /\ n.cur = NewPair /\ n.prev = r.cur /\ n.again = r.again
      /\ rows' = (rows \ {r}) \cup {n}
  BY <1>0 DEF Rotated, Row, Update
<1>3. /\ \A l \in rotations' : l \in rotations
            \/ (l.key = k.key /\ l.status = "rotated" /\ l.pair = NewPair)
      /\ \A l, m \in rotations' : l \notin rotations /\ m \notin rotations => l = m
  BY <1>0, AnsweredFacts
<1> HIDE DEF n
<1>4. /\ storage # None => storage \in Pairs
      /\ \A l \in rotations : l.key # NewPair
  BY <1>0, <1>1 DEF TypeOK
<1>5. /\ \A l \in rotations : Carries(l) => l.pair \in Pairs
      /\ \A t \in Tabs : Brings(t) => login[t].pair \in Pairs
  BY DEF FindInv, CarryInv
<1>6. \A t \in Tabs : (Brings(t)' <=> Brings(t)) /\ login'[t] = login[t]
  BY DEF Brings
<1>7. \A l \in rotations' : Carries(l)' => (l \in rotations /\ Carries(l)) \/ l.pair = NewPair
  BY <1>3 DEF Carries
<1>8. ChainInv'
  <2>1. \A p \in Pairs' : issued'[p].session \in Pairs'
    BY <1>1, RowFacts DEF FindInv, ChainInv
  <2>2. \A s \in rows' : /\ issued'[s.cur].session = s.session
                         /\ s.prev # None => issued'[s.prev].session = s.session
                         /\ s.prev # s.cur
    <3>1. \A s \in rows : /\ s.cur \in Pairs /\ s.prev \in Pairs \cup {None}
                          /\ issued[s.cur].session = s.session
                          /\ s.prev # None => issued[s.prev].session = s.session
                          /\ s.prev # s.cur
      BY RowFacts DEF FindInv, ChainInv
    <3> QED
      BY <1>0, <1>1, <1>2, <3>1
  <2>3. \A s, u \in rows' : s.session = u.session => s = u
    BY <1>2 DEF FindInv, ChainInv
  <2> QED
    BY <2>1, <2>2, <2>3 DEF ChainInv
<1>9. CarryInv'
  BY <1>1, <1>5, <1>6, <1>7 DEF CarryInv
<1>10. ASSUME NEW s \in rows', ~s.again PROVE HoldInv(s)'
  <2>1. CASE s = n
    <3>1. HoldInv(r) /\ r.prev # r.cur
      BY <1>2, <1>10, <2>1 DEF FindInv, ChainInv
    <3>2. AskedWith(r.cur)
      BY <1>0 DEF AskedWith
    <3>3. /\ \A l \in rotations : Carries(l) => issued[l.pair].session # r.session
          /\ \A t \in Tabs : Brings(t) => issued[login[t].pair].session # r.session
      BY <3>1, <3>2 DEF HoldInv, Coming
    <3>4. storage # None /\ issued[storage].session = r.session => storage = r.cur
      BY <3>1, <3>2 DEF HoldInv
    <3>5. ~AskedWith(s.cur)' /\ storage' # s.cur
      BY <1>1, <1>2, <1>3, <1>4, <1>0, <2>1 DEF AskedWith
    <3>6. \A l \in rotations' : Carries(l)' /\ issued'[l.pair].session = r.session
             => l \notin rotations /\ l.pair = NewPair
      BY <1>1, <1>3, <1>5, <1>7, <3>3 DEF Carries
    <3>7. \A t \in Tabs : Brings(t)' => issued'[login'[t].pair].session # r.session
      BY <1>1, <1>5, <1>6, <3>3
    <3>8. storage' # None /\ issued'[storage'].session = s.session => storage' = s.prev
      BY <1>1, <1>2, <1>4, <2>1, <3>4
    <3> QED
      BY <1>1, <1>2, <1>3, <1>6, <2>1, <3>5, <3>6, <3>7, <3>8 DEF HoldInv
  <2>2. CASE s # n
    <3>1. /\ s \in rows /\ s # r /\ HoldInv(s) /\ s.cur \in Pairs /\ s.session # r.session
          /\ s.cur # r.cur
      BY <1>2, <1>10, <2>2, RowFacts DEF FindInv, ChainInv
    <3>2. AskedWith(s.cur)' => AskedWith(s.cur)
      BY <1>0, <1>3, <3>1 DEF AskedWith
    <3>3. \A l \in rotations' : Carries(l)' /\ (l.pair = s.cur \/ issued'[l.pair].session = s.session)
             => l \in rotations /\ Carries(l) /\ issued'[l.pair] = issued[l.pair]
      BY <1>1, <1>5, <1>7, <3>1
    <3>4. Coming(s)' => Coming(s)
      BY <1>6, <3>3 DEF Coming
    <3>5. \A t \in Tabs : Brings(t) => issued'[login[t].pair] = issued[login[t].pair]
      BY <1>1, <1>5
    <3>6. storage # None => issued'[storage] = issued[storage]
      BY <1>1, <1>4
    <3> QED
      BY <1>6, <3>1, <3>2, <3>3, <3>4, <3>5, <3>6 DEF HoldInv
  <2> QED
    BY <2>1, <2>2
<1> QED
  BY <1>8, <1>9, <1>10 DEF FindInv

\* The previous pair is answered: nothing is claimed of this row from now on.
LEMMA AgainFind ==
    ASSUME SessionInv, FindInv, NEW k \in rotations, NEW r \in rows,
           Update(r, [r EXCEPT !.again = TRUE]), issued' = issued,
           rotations' = Answered(k, "rotated", r.cur), UNCHANGED <<storage, login>>
    PROVE  FindInv'
<1> DEFINE n == [r EXCEPT !.again = TRUE]
<1>0. TypeOK /\ r \in Row /\ Pairs' = Pairs
  BY DEF SessionInv, TokenInv, TokenizerTypeOK, Pairs
<1>1. /\ n.session = r.session /\ n.cur = r.cur /\ n.prev = r.prev /\ n.again
      /\ rows' = (rows \ {r}) \cup {n}
  BY <1>0 DEF Row, Update
<1>2. /\ \A l \in rotations' : l \in rotations
            \/ (l.key = k.key /\ l.status = "rotated" /\ l.pair = r.cur)
  BY <1>0, AnsweredFacts
<1> HIDE DEF n
<1>3. r.cur \in Pairs /\ issued[r.cur].session = r.session
  BY RowFacts DEF FindInv
<1>4. \A t \in Tabs : (Brings(t)' <=> Brings(t)) /\ login'[t] = login[t]
  BY DEF Brings
<1>5. \A l \in rotations' : Carries(l)' => (l \in rotations /\ Carries(l)) \/ l.pair = r.cur
  BY <1>2 DEF Carries
<1>6. ChainInv'
  <2>1. \A p \in Pairs' : issued'[p].session \in Pairs'
    BY <1>0 DEF FindInv, ChainInv
  <2>2. \A s \in rows' : /\ issued'[s.cur].session = s.session
                         /\ s.prev # None => issued'[s.prev].session = s.session
                         /\ s.prev # s.cur
    BY <1>1 DEF FindInv, ChainInv
  <2>3. \A s, u \in rows' : s.session = u.session => s = u
    BY <1>1 DEF FindInv, ChainInv
  <2> QED
    BY <2>1, <2>2, <2>3 DEF ChainInv
<1>7. CarryInv'
  BY <1>0, <1>3, <1>4, <1>5 DEF FindInv, CarryInv
<1>8. ASSUME NEW s \in rows', ~s.again PROVE HoldInv(s)'
  <2>1. s \in rows /\ s # r /\ HoldInv(s)
    BY <1>1, <1>8 DEF FindInv
  <2>2. s.session # r.session /\ s.cur # r.cur
    BY <2>1, <1>3, RowFacts DEF FindInv, ChainInv
  <2>3. AskedWith(s.cur)' => AskedWith(s.cur)
    BY <1>2 DEF AskedWith
  <2>4. \A l \in rotations' : Carries(l)' /\ (l.pair = s.cur \/ issued[l.pair].session = s.session)
           => l \in rotations /\ Carries(l)
    BY <1>3, <1>5, <2>2
  <2>5. Coming(s)' => Coming(s)
    BY <1>4, <2>4 DEF Coming
  <2> QED
    BY <1>4, <2>1, <2>3, <2>4, <2>5 DEF HoldInv
<1> QED
  BY <1>6, <1>7, <1>8 DEF FindInv

\* jwt keeps no rows, so nothing is claimed of them.
LEMMA ClaimsFind ==
    ASSUME SessionInv, FindInv, provider = "jwt", rows' = rows, NEW k \in rotations, k.key \in Pairs,
           Issue(issued[k.key].session, issued[k.key].born, k.key),
           rotations' = Answered(k, "rotated", NewPair), UNCHANGED login
    PROVE  FindInv'
<1>0. TypeOK /\ TokenizerTypeOK /\ rows = {}
  BY DEF SessionInv, TokenInv, StatelessInv
<1>1. /\ Pairs' = Pairs \cup {NewPair}
      /\ issued'[NewPair].session = issued[k.key].session
      /\ \A p \in Pairs : issued'[p] = issued[p]
  <2>1. issued[k.key].session \in Nat /\ issued[k.key].born \in Nat /\ k.key \in Nat
    BY <1>0, PairFields
  <2>2. issued'[NewPair] = [session |-> issued[k.key].session, born |-> issued[k.key].born,
                            at |-> now, from |-> k.key]
    BY <1>0, <2>1, IssueNew
  <2> QED
    BY <1>0, <2>1, <2>2, IssueNew
<1>2. ChainInv'
  BY <1>0, <1>1 DEF FindInv, ChainInv
<1>3. \A l \in rotations' : l \in rotations \/ (l.status = "rotated" /\ l.pair = NewPair)
  BY <1>0, AnsweredFacts
<1>4. CarryInv'
  BY <1>1, <1>3 DEF FindInv, CarryInv, Carries, Brings
<1> QED
  BY <1>0, <1>2, <1>4 DEF FindInv

\* RotateSession: whatever the server answers.
LEMMA RotateSessionFind ==
    ASSUME SessionInv, FindInv, NEW k \in rotations, RotateSession(k)
    PROVE  FindInv'
<1>0. /\ TypeOK /\ UNCHANGED <<storage, login>> /\ k.key \in Pairs \cup {None}
      /\ provider \in {"opaque", "jwt"}
  BY ConfigValidate DEF SessionInv, TypeOK, TokenizerTypeOK, RotateSession
<1>1. ASSUME UNCHANGED <<issued, rows>>,
             \/ rotations' = Answered(k, "failed", None)
             \/ rotations' = Answered(k, "unauthorized", None)
      PROVE  FindInv'
  <2>1. PICK status \in {"failed", "unauthorized"} : rotations' = Answered(k, status, None)
    BY <1>1
  <2>2. \A l \in rotations' : l \in rotations \/ (l.key = k.key /\ l.status = status)
    BY <1>0, <2>1, AnsweredFacts
  <2>3. \A l \in rotations' : /\ Carries(l) => l \in rotations
                              /\ \E m \in rotations : m.key = l.key
    BY <2>2 DEF Carries
  <2> QED
    BY <1>0, <1>1, <2>3, KeptFind
<1>2. CASE k.key = None /\ rotations' = Answered(k, "failed", None) /\ UNCHANGED tokenizerVars
  BY <1>1, <1>2 DEF tokenizerVars
<1>3. ASSUME k.key # None, NEW q \in Pairs \cup {None, NewPair}, RotateToken(k.key, q),
             rotations' = IF q = None THEN Answered(k, "unauthorized", None)
                          ELSE Answered(k, "rotated", q)
      PROVE  FindInv'
  <2>0. k.key \in Pairs /\ NewPair # None /\ \A r \in rows : r.cur # None
    <3>1. Len(issued) \in Nat
      BY <1>0 DEF TypeOK, TokenizerTypeOK
    <3> QED
      BY <1>0, <1>3, <3>1, RowFacts DEF FindInv, NewPair, None
  <2>1. CASE q = None /\ UNCHANGED <<issued, rows>>
    BY <1>1, <1>3, <2>1
  <2>2. CASE /\ provider = "jwt" /\ q = NewPair /\ UNCHANGED rows
             /\ Issue(issued[k.key].session, issued[k.key].born, k.key)
    BY <1>0, <1>3, <2>0, <2>2, ClaimsFind
  <2>3. ASSUME NEW r \in rows, Rotates(r, k.key), q = NewPair,
               Issue(r.session, issued[k.key].born, k.key), Update(r, Rotated(r, q))
        PROVE  FindInv'
    BY <1>0, <1>3, <2>0, <2>3, RotateFind
  <2>4. ASSUME NEW r \in rows, q = r.cur, Update(r, [r EXCEPT !.again = TRUE]), UNCHANGED issued
        PROVE  FindInv'
    BY <1>0, <1>3, <2>0, <2>4, AgainFind
  <2> QED
    BY <1>3, <2>1, <2>2, <2>3, <2>4 DEF RotateToken
<1> QED
  BY <1>2, <1>3 DEF RotateSession

\* The steps that bring nothing on its way.
LEMMA OtherFind ==
    ASSUME SessionInv, FindInv,
           \/ \E t \in Tabs : SubmitLogin(t) \/ UserLogout(t) \/ Reload(t)
           \/ \E l \in logouts : DeleteSession(l) \/ FinishLogout(l)
           \/ \E a \in Actors : Send(a) \/ Authenticate(a) \/ Refuse(a)
                                \/ StartRotation(a) \/ RetryRefused(a)
           \/ \E a \in Streams : StreamBreaks(a) \/ StreamCloses(a)
           \/ \E k \in rotations : RotationLost(k) \/ RotationFails(k)
           \/ Tick \/ CollectGarbage \/ UNCHANGED vars
    PROVE  FindInv'
<1>0. TypeOK /\ login \in [Tabs -> [phase : LoginPhase, pair : Pairs \cup {None}]]
  BY DEF SessionInv, TypeOK
<1>1. issued' = issued /\ rows' \subseteq rows /\ storage' \in {storage, None}
  BY DEF SubmitLogin, UserLogout, Reload, DeleteSession, FinishLogout, Send, Authenticate,
     Refuse, StartRotation, RetryRefused, StreamBreaks, StreamCloses, RotationLost,
     RotationFails, Tick, CollectGarbage, DeleteToken, GC, vars, clientVars, tokenizerVars
<1>2. \A k \in rotations' : /\ Carries(k) => k \in rotations
                            /\ k.key = storage \/ \E l \in rotations : l.key = k.key
  <2>1. ASSUME NEW k \in rotations, RotationLost(k)
        PROVE  \A l \in rotations' : /\ Carries(l) => l \in rotations
                                     /\ \E m \in rotations : m.key = l.key
    <3>1. \A l \in rotations' : l \in rotations \/ (l.key = k.key /\ l.status = "failed")
      BY <1>0, <2>1, AnsweredFacts DEF RotationLost
    <3> QED
      BY <3>1 DEF Carries
  <2>2. ASSUME NEW a \in Actors, StartRotation(a)
        PROVE  \A l \in rotations' : /\ Carries(l) => l \in rotations
                                     /\ l.key = storage \/ \E m \in rotations : m.key = l.key
    BY <2>2 DEF StartRotation, Carries
  <2>3. ASSUME rotations' \subseteq rotations
        PROVE  \A l \in rotations' : l \in rotations /\ \E m \in rotations : m.key = l.key
    BY <2>3
  <2> QED
    BY <2>1, <2>2, <2>3 DEF SubmitLogin, UserLogout, Reload, DeleteSession, FinishLogout, Send,
       Authenticate, Refuse, RetryRefused, StreamBreaks, StreamCloses, RotationFails,
       Tick, CollectGarbage, vars, clientVars
<1>3. \A t \in Tabs : login'[t].phase = "answered" => login'[t] = login[t]
  <2>1. ASSUME NEW t \in Tabs, SubmitLogin(t) \/ Reload(t)
        PROVE  \A u \in Tabs : login'[u].phase = "answered" => login'[u] = login[u]
    BY <1>0, <2>1 DEF SubmitLogin, Reload, NoLogin
  <2>2. ASSUME login' = login
        PROVE  \A u \in Tabs : login'[u].phase = "answered" => login'[u] = login[u]
    BY <2>2
  <2> QED
    BY <2>1, <2>2 DEF UserLogout, DeleteSession, FinishLogout, Send, Authenticate, Refuse,
       StartRotation, RetryRefused, StreamBreaks, StreamCloses, RotationLost, RotationFails,
       Tick, CollectGarbage, vars, clientVars
<1> QED
  BY <1>1, <1>2, <1>3, KeptFind

LEMMA FindInvariant == Spec => []FindInv
<1>1. Init => FindInv
  <2> SUFFICES ASSUME Init PROVE FindInv
    OBVIOUS
  <2>1. rows = {} /\ Pairs = {} /\ rotations = {}
    BY DEF Init, TokenizerInit, Pairs
  <2>2. \A t \in Tabs : login[t].phase = "none"
    BY DEF Init, NoLogin
  <2> QED
    BY <2>1, <2>2 DEF FindInv, ChainInv, CarryInv, Brings
<1>2. SessionInv /\ FindInv /\ [Next]_vars => FindInv'
  <2> SUFFICES ASSUME SessionInv, FindInv, [Next]_vars PROVE FindInv'
    OBVIOUS
  <2>1. ASSUME NEW t \in Tabs, CreateSession(t) PROVE FindInv'
    BY <2>1, CreateFind
  <2>2. ASSUME NEW k \in rotations, RotateSession(k) PROVE FindInv'
    BY <2>2, RotateSessionFind
  <2> QED
    BY <2>1, <2>2, StoringFind, OtherFind DEF Next
<1> QED
  BY <1>1, <1>2, Invariance, PTL DEF Spec

\* However many tabs, requests and streams log in, rotate and log out at once,
\* and whatever is lost: unless the server has answered a previous pair, the
\* stored pair is one RotateToken can find its row by.
THEOREM StoredPairFindable == Spec => []StoredPairIsFindable
<1>1. FindInv => StoredPairIsFindable
  BY DEF FindInv, HoldInv, StoredPairIsFindable
<1> QED
  BY <1>1, FindInvariant, PTL
=============================================================================
