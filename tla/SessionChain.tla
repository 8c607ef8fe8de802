---------------------------- MODULE SessionChain ----------------------------
(***************************************************************************)
(* What a server that remembers its sessions promises: a session is one     *)
(* chain of token pairs.  It starts with a pair nobody has seen, which      *)
(* names it, moves on from its current pair to a new one, and ends; a pair  *)
(* that stopped being current, by rotation or with its session, is never    *)
(* current again.                                                           *)
(***************************************************************************)
VARIABLES
    active,  \* the sessions, each with its current pair
    spent    \* the pairs that were current and are not any more

chainVars == <<active, spent>>

Current(S) == {c.cur : c \in S}
Fresh(p) == p \notin spent \cup Current(active)

Init == active = {} /\ spent = {}

\* A session starts; others may be ended to make room for it.
Start ==
    \E ended \in SUBSET active, c \in active' :
        /\ c.session = c.cur /\ Fresh(c.cur)
        /\ active' = (active \ ended) \cup {c}
        /\ spent' = spent \cup Current(ended)

\* A session moves on to its next pair.
Advance ==
    \E c \in active, d \in active' :
        /\ d.session = c.session
        /\ Fresh(d.cur)
        /\ active' = (active \ {c}) \cup {d}
        /\ spent' = spent \cup {c.cur}

\* Sessions end: logged out, or expired.
End ==
    \E ended \in SUBSET active :
        /\ active' = active \ ended
        /\ spent' = spent \cup Current(ended)

Next == Start \/ Advance \/ End

Spec == Init /\ [][Next]_chainVars
=============================================================================
