----------------------------- MODULE Tokenizer -----------------------------
(***************************************************************************)
(* The server's token pairs, for one user.  Two providers implement the     *)
(* same interface: "opaque" keeps one auth_token row per session           *)
(* (pkg/tokenizer/opaquetokenizer), "jwt" keeps nothing and trusts what it  *)
(* signed (pkg/tokenizer/jwttokenizer).  An access token and the refresh    *)
(* token issued with it travel together, so both are a PAIR, a position in  *)
(* the sequence of pairs ever issued.  Left out: the cache of rows, which   *)
(* holds what the table holds as long as reads and writes of it do not      *)
(* overlap, and the idle lifetime.                                          *)
(***************************************************************************)
EXTENDS Integers, Sequences, FiniteSets

CONSTANTS
    Providers,         \* the configured provider is one of these
    RotationInterval,  \* an access token is accepted this long
    RotationDuration,  \* the grace the previous pair is promised
    LifetimeMax,       \* the life of a session
    MaxPerUser         \* rows one user may have

\* Config.Validate, and the two names of the provider factories. Validate does not
\* look at the rows a user may have, nor whether a duration of the rotation is
\* negative: here one row is allowed at least, and durations are natural numbers.
\* It puts the idle lifetime, which is left out, between the other two.
ASSUME ConfigValidate ==
    /\ Providers \subseteq {"opaque", "jwt"}
    /\ RotationInterval \in Nat /\ RotationDuration \in Nat
    /\ LifetimeMax \in Nat /\ MaxPerUser \in Nat \ {0}
    /\ RotationDuration < RotationInterval /\ RotationInterval < LifetimeMax

VARIABLES
    provider,  \* which tokenizer the server runs
    now,       \* the clock, in units of the rotation grace
    issued,    \* every pair issued so far, with the pair it replaced
    rows       \* the auth_token table (opaque)

tokenizerVars == <<provider, now, issued, rows>>

None == 0
Pairs == 1 .. Len(issued)

\* A pair: the login it descends from, when that login was and when the pair
\* was made, and the pair whose rotation made it.
IssuedPair == [session : Nat, born : Nat, at : Nat, from : Nat]
\* again is auxiliary: the row's previous pair was answered with the current one.
Row == [session : Nat, cur : Nat, prev : Nat, rotatedAt : Nat, createdAt : Nat,
        again : BOOLEAN]

TokenizerTypeOK ==
    /\ provider \in Providers
    /\ now \in Nat \ {0}
    /\ issued \in Seq(IssuedPair)
    /\ rows \subseteq Row

TokenizerInit ==
    /\ provider \in Providers
    /\ now = 1
    /\ issued = <<>>
    /\ rows = {}

NewPair == Len(issued) + 1

----------------------------------------------------------------------------
(* Token: what a row, or its cached copy, says of a pair *)

\* Token.IsExpired, the part about the lifetime.
IsExpired(r) == r.createdAt < now - LifetimeMax

\* Token.IsRotationRequired: the age since RotatedAt, or else CreatedAt.
IsRotationRequired(r) ==
    \/ r.rotatedAt # None /\ r.rotatedAt < now - RotationInterval
    \/ r.rotatedAt = None /\ r.createdAt < now - RotationInterval

\* Token.IsValid.
IsValid(r) == ~IsExpired(r) /\ ~IsRotationRequired(r)

\* jwt: a token carries its own expiry, and is refused from that time on.
ClaimsValid(p, lifetime) == p # None /\ now < issued[p].at + lifetime

----------------------------------------------------------------------------
(* The provider's operations *)

\* GetIdentity: does the server accept this access token.
GetIdentity(p) ==
    \/ provider = "jwt" /\ ClaimsValid(p, RotationInterval)
    \/ provider = "opaque" /\ \E r \in rows : r.cur = p /\ IsValid(r)

Issue(session, born, from) ==
    issued' = Append(issued, [session |-> session, born |-> born,
                              at |-> now, from |-> from])

\* CreateToken lists the user's rows, and at the limit picks the oldest.  The
\* list is read before the rest of CreateToken runs, in no transaction.
Evicts(victim) ==
    \/ /\ provider = "opaque" /\ Cardinality(rows) >= MaxPerUser
       /\ \E oldest \in rows : /\ victim = oldest.cur
                               /\ \A r \in rows : oldest.createdAt <= r.createdAt
    \/ /\ provider = "jwt" \/ Cardinality(rows) < MaxPerUser
       /\ victim = None

\* Seeded fault: the row is inserted without the pair being recorded.
CreateTokenUnissued(victim) ==
    LET row == [session |-> NewPair, cur |-> NewPair, prev |-> None,
                rotatedAt |-> None, createdAt |-> now, again |-> FALSE]
    IN /\ rows' = {r \in rows : r.cur # victim} \cup {row}
       /\ UNCHANGED <<provider, now, issued>>

\* The rest of CreateToken: DeleteToken of the oldest, and the new row.
CreateToken(victim) ==
    LET row == [session |-> NewPair, cur |-> NewPair, prev |-> None,
                rotatedAt |-> None, createdAt |-> now, again |-> FALSE]
    IN /\ Issue(NewPair, now, None)
       /\ rows' = IF provider = "jwt" THEN rows
                  ELSE {r \in rows : r.cur # victim} \cup {row}
       /\ UNCHANGED <<provider, now>>

\* Seeded faults: the previous pair is rotated as the current one is; the
\* lifetime is not looked at; the previous pair is not kept; the rotated row is
\* inserted beside the old one.
RotatesEither(r, p) == p \in {r.cur, r.prev} /\ ~IsExpired(r)
RotatesExpired(r, p) == r.prev # p /\ r.cur = p
RotatedForgetful(r, q) == [r EXCEPT !.cur = q, !.rotatedAt = now]
UpdateInserts(r, s) == rows' = rows \cup {s}

\* Token.Rotate on the row found by access or previous access token: the
\* current pair is replaced; the previous pair is answered with the current
\* one when the rotation is OLDER than RotationDuration, refused otherwise.
Rotates(r, p) == r.prev # p /\ r.cur = p /\ ~IsExpired(r)
GivesCurrent(r, p) ==
    r.prev = p /\ r.rotatedAt # None /\ r.rotatedAt < now - RotationDuration
Rotated(r, q) == [r EXCEPT !.cur = q, !.prev = r.cur, !.rotatedAt = now]

\* store.Update: the row keeps its place.
Update(r, s) == rows' = (rows \ {r}) \cup {s}

\* RotateToken of pair p, answered with pair q or, None, unauthenticated.
RotateToken(p, q) ==
    /\ \/ /\ provider = "jwt" /\ ClaimsValid(p, LifetimeMax)
          /\ q = NewPair
          /\ Issue(issued[p].session, issued[p].born, p)
          /\ UNCHANGED rows
       \/ /\ provider = "jwt" /\ ~ClaimsValid(p, LifetimeMax)
          /\ q = None
          /\ UNCHANGED <<issued, rows>>
       \/ /\ provider = "opaque"
          /\ \E r \in rows :
                /\ Rotates(r, p)
                /\ q = NewPair
                /\ Issue(r.session, issued[p].born, p)
                /\ Update(r, Rotated(r, q))
       \/ /\ provider = "opaque"
          /\ \E r \in rows : /\ GivesCurrent(r, p)
                            /\ q = r.cur
                            /\ Update(r, [r EXCEPT !.again = TRUE])
          /\ UNCHANGED issued
       \/ /\ provider = "opaque"
          /\ \A r \in rows : ~Rotates(r, p) /\ ~GivesCurrent(r, p)
          /\ q = None
          /\ UNCHANGED <<issued, rows>>
    /\ UNCHANGED <<provider, now>>

\* DeleteToken: nothing for jwt; for opaque the row whose CURRENT access token
\* this is.
DeleteToken(p) ==
    /\ \/ provider = "jwt" /\ UNCHANGED rows
       \/ /\ provider = "opaque"
          /\ rows' = {r \in rows : r.cur # p}
    /\ UNCHANGED <<provider, now, issued>>

\* gc: expired rows leave the table.
GC ==
    /\ provider = "opaque"
    /\ \E r \in rows : IsExpired(r)
    /\ rows' = {r \in rows : ~IsExpired(r)}
    /\ UNCHANGED <<provider, now, issued>>
=============================================================================
