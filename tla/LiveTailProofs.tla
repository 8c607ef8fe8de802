--------------------------- MODULE LiveTailProofs ---------------------------
(***************************************************************************)
(* Proofs about LiveTail, for any filters, batch and list sizes and any     *)
(* number of rows, connections and pending rotations.                       *)
(***************************************************************************)
EXTENDS LiveTail, SequenceTheorems, TLAPS

(***************************************************************************)
(* What the properties rest on.  The timer belongs to a mounted container;  *)
(* while a connection is being made the provider is loading and not open;   *)
(* an open connection the listener is not yet on has not been rendered as   *)
(* open; only an open connection has rows on their way; and those are       *)
(* ahead of its cursor, which is ahead of everything listed.                *)
(***************************************************************************)
OnlyLast(cs) == \A i \in DOMAIN cs : cs[i].state # "closed" => i = Len(cs)
NoneOpen(cs) == \A i \in DOMAIN cs : cs[i].state # "open"
NothingDue(cs) == \A i \in DOMAIN cs : cs[i].state # "open" => cs[i].due = {}
AllClosed(cs) == \A i \in DOMAIN cs : cs[i].state = "closed"

TimerInv == timer => mounted
LoadingInv == \A i \in DOMAIN conns :
                 conns[i].state = "connecting" => flags.loading /\ ~flags.open
ListenInv == flags.open => instance = Ref \/ ~rendered.flags.open
DueInv == NothingDue(conns)

Below(s, n) == \A j \in DOMAIN s : s[j].row <= n
Ascending(s) == \A j, k \in DOMAIN s : j < k => s[j].row < s[k].row
Descending(s) == \A j, k \in DOMAIN s : j < k => s[j].row > s[k].row
Above(s, t) == \A j \in DOMAIN s, k \in DOMAIN t : s[j].row > t[k].row

ListInv == Ascending(batch) /\ Descending(logs) /\ Above(batch, logs)
CursorInv ==
    /\ Below(batch, now) /\ Below(logs, now)
    /\ \A i \in DOMAIN conns : conns[i].state = "open" =>
          /\ conns[i].after <= now
          /\ \A n \in conns[i].due : n > conns[i].after /\ n <= now
          /\ Below(batch, conns[i].after) /\ Below(logs, conns[i].after)

ConnInv == OneConnection /\ TimerInv /\ LoadingInv /\ ListenInv /\ DueInv
TailInv == TypeOK /\ ConnInv /\ ListInv /\ CursorInv

----------------------------------------------------------------------------
(* Lemmas on sequences *)

\* A function on an initial segment of the naturals is a sequence.
LEMMA SeqIntro ==
    ASSUME NEW S, NEW n \in Nat, NEW f \in [1 .. n -> S]
    PROVE  f \in Seq(S) /\ Len(f) = n /\ DOMAIN f = 1 .. n
<1>1. f \in Seq(S)
  BY SeqDef
<1> QED
  BY <1>1, LenProperties

\* The domain and the members of a sequence of connections or of logs.
LEMMA SeqElim ==
    ASSUME NEW S, NEW s \in Seq(S)
    PROVE  /\ Len(s) \in Nat /\ DOMAIN s = 1 .. Len(s)
           /\ \A i \in DOMAIN s : s[i] \in S
  BY LenProperties, ElementOfSeq

\* What a connection is made of.
LEMMA ConnFields ==
    ASSUME NEW c \in Conn
    PROVE  /\ c.filter \in Expressions /\ c.after \in Nat /\ c.due \subseteq Nat
           /\ c.state \in {"connecting", "open", "closed"}
  BY DEF Conn

\* handleCloseConnection leaves no connection open, when only the last was.
LEMMA CloseCloses ==
    ASSUME NEW cs \in Seq(Conn), OnlyLast(cs), NothingDue(cs)
    PROVE  /\ Close(cs) \in Seq(Conn) /\ Len(Close(cs)) = Len(cs)
           /\ DOMAIN Close(cs) = DOMAIN cs
           /\ AllClosed(Close(cs)) /\ NothingDue(Close(cs))
<1>1. Len(cs) \in Nat /\ DOMAIN cs = 1 .. Len(cs) /\ \A i \in DOMAIN cs : cs[i] \in Conn
  BY SeqElim
<1>2. \A i \in DOMAIN cs : [cs[i] EXCEPT !.state = "closed", !.due = {}] \in Conn
  BY <1>1 DEF Conn
<1>3. Close(cs) \in [1 .. Len(cs) -> Conn]
  BY <1>1, <1>2 DEF Close
<1>4. Close(cs) \in Seq(Conn) /\ Len(Close(cs)) = Len(cs) /\ DOMAIN Close(cs) = 1 .. Len(cs)
  BY <1>1, <1>3, SeqIntro
<1>5. ASSUME NEW i \in DOMAIN cs
      PROVE  Close(cs)[i].state = "closed" /\ Close(cs)[i].due = {}
  <2>1. CASE i = Len(cs)
    <3>1. Close(cs)[i] = [cs[i] EXCEPT !.state = "closed", !.due = {}]
      BY <2>1 DEF Close
    <3> QED
      BY <3>1, <1>1 DEF Conn
  <2>2. CASE i # Len(cs)
    <3>1. Close(cs)[i] = cs[i]
      BY <2>2 DEF Close
    <3>2. cs[i].state = "closed"
      BY <2>2 DEF OnlyLast
    <3> QED
      BY <3>1, <3>2 DEF NothingDue
  <2> QED
    BY <2>1, <2>2
<1> QED
  BY <1>1, <1>4, <1>5 DEF AllClosed, NothingDue

\* handleStartNewConnection leaves one connection, the last, that is not closed.
LEMMA StartStarts ==
    ASSUME NEW cs \in Seq(Conn), OnlyLast(cs), NothingDue(cs), NEW f \in Expressions
    PROVE  /\ Start(cs, f) \in Seq(Conn) /\ Len(Start(cs, f)) = Len(cs) + 1
           /\ OnlyLast(Start(cs, f)) /\ NoneOpen(Start(cs, f)) /\ NothingDue(Start(cs, f))
<1> DEFINE g == IF IsValid(f) THEN f ELSE ""
           c == [filter |-> g, state |-> "connecting", after |-> 0, due |-> {}]
           s == Close(cs)
           t == Append(s, c)
<1>1. c \in Conn
  <2>1. g \in Expressions /\ IsValid(g)
    BY DEF Expressions, IsValid
  <2> QED
    BY <2>1 DEF Conn
<1>2. s \in Seq(Conn) /\ Len(s) = Len(cs) /\ AllClosed(s) /\ NothingDue(s)
  BY CloseCloses
<1>3. Start(cs, f) = t
  BY DEF Start, Open
<1>4. c.state = "connecting" /\ c.due = {}
  OBVIOUS
<1>5. Len(s) \in Nat /\ DOMAIN s = 1 .. Len(s)
  BY <1>2, SeqElim
<1> HIDE DEF c, s
<1>6. t \in Seq(Conn) /\ Len(t) = Len(s) + 1
  BY <1>1, <1>2
<1>7. t[Len(s) + 1] = c /\ \A i \in 1 .. Len(s) : t[i] = s[i]
  BY <1>1, <1>2
<1> HIDE DEF t
<1>8. DOMAIN t = 1 .. Len(s) + 1
  BY <1>6, SeqElim
<1>9. OnlyLast(t)
  BY <1>2, <1>4, <1>5, <1>6, <1>7, <1>8 DEF AllClosed, OnlyLast
<1>10. NoneOpen(t)
  BY <1>2, <1>4, <1>5, <1>7, <1>8 DEF AllClosed, NoneOpen
<1>11. NothingDue(t)
  BY <1>2, <1>4, <1>5, <1>7, <1>8 DEF AllClosed, NothingDue
<1> QED
  BY <1>2, <1>3, <1>6, <1>9, <1>10, <1>11

\* The flags keep their type.
LEMMA FlagTypes ==
    ASSUME NEW fl \in Flags
    PROVE  /\ CloseFlags(fl) \in Flags /\ StartFlags(fl) \in Flags
           /\ ~CloseFlags(fl).open /\ ~StartFlags(fl).open /\ StartFlags(fl).loading
  BY DEF Flags, CloseFlags, StartFlags, OpenFlags

----------------------------------------------------------------------------
(* The steps of the container *)

\* What Effects does to the connections and the flags: nothing, or it starts.
LEMMA EffectsStart ==
    ASSUME TypeOK, ConnInv, NEW new \in BOOLEAN, NEW p \in Expressions, Effects(new, p)
    PROVE  /\ conns' \in Seq(Conn) /\ NothingDue(conns') /\ OnlyLast(conns')
           /\ \/ conns' = conns /\ flags' = flags
              \/ /\ Len(conns') \in Nat /\ Len(conns') > Len(conns) /\ NoneOpen(conns')
                 /\ flags' = StartFlags(flags)
           /\ flags' \in Flags
<1> DEFINE changes == new \/ dirty
           restart == changes /\ FilterChanged(p) /\ IsValid(filter)
           initial == /\ \/ new
                         \/ flags.initial # rendered.flags.initial
                         \/ flags.loading # rendered.flags.loading
                      /\ flags.initial /\ ~flags.loading
           once == IF restart THEN Start(conns, filter) ELSE conns
<1>1. /\ conns' = IF initial THEN Start(once, filter) ELSE once
      /\ flags' = IF restart \/ initial THEN StartFlags(flags) ELSE flags
  BY DEF Effects
<1>2. conns \in Seq(Conn) /\ filter \in Expressions /\ flags \in Flags
  BY DEF TypeOK
<1>3. OnlyLast(conns) /\ NothingDue(conns)
  BY DEF ConnInv, OneConnection, Unclosed, Ref, OnlyLast, DueInv
<1>4. Len(conns) \in Nat
  BY <1>2, SeqElim
<1>5. /\ once \in Seq(Conn) /\ OnlyLast(once) /\ NothingDue(once)
      /\ \/ ~restart /\ once = conns
         \/ restart /\ Len(once) = Len(conns) + 1 /\ NoneOpen(once)
  BY <1>2, <1>3, StartStarts
<1> HIDE DEF restart, initial, once
<1>6. CASE initial
  BY <1>1, <1>2, <1>4, <1>5, <1>6, StartStarts, FlagTypes
<1>7. CASE ~initial
  BY <1>1, <1>2, <1>4, <1>5, <1>7, FlagTypes
<1> QED
  BY <1>6, <1>7

\* What Effects does to the list: nothing, or it empties it.
LEMMA EffectsList ==
    ASSUME TypeOK, NEW new \in BOOLEAN, NEW p \in Expressions, Effects(new, p)
    PROVE  /\ prev' \in Expressions /\ timer' \in BOOLEAN /\ flush' = flush
           /\ logs' = logs \/ logs' = <<>>
           /\ batch' = batch \/ batch' = <<>>
<1>1. prev' \in Expressions /\ flush' = flush
  BY DEF Effects, TypeOK
<1>2. timer' \in BOOLEAN
  BY DEF Effects, TypeOK, Flags
<1>3. logs' = logs \/ logs' = <<>>
  BY DEF Effects
<1>4. batch' = batch \/ batch' = <<>>
  BY DEF Effects, ClearBatch
<1> QED
  BY <1>1, <1>2, <1>3, <1>4

\* An empty list is in order and below everything.
LEMMA Emptied ==
    ASSUME ListInv, NEW n, Below(batch, n), Below(logs, n),
           logs' = logs \/ logs' = <<>>, batch' = batch \/ batch' = <<>>
    PROVE  ListInv' /\ Below(batch', n) /\ Below(logs', n)
<1>1. DOMAIN <<>> = {}
  OBVIOUS
<1> QED
  BY <1>1 DEF ListInv, Ascending, Descending, Above, Below

(***************************************************************************)
(* A step that leaves the server alone, shortens the list at most, and      *)
(* whose open connections were open before with the same cursor.            *)
(***************************************************************************)
LEMMA ListKept ==
    ASSUME TypeOK, ListInv, CursorInv, UNCHANGED serverVars,
           logs' = logs \/ logs' = <<>>, batch' = batch \/ batch' = <<>>,
           \A i \in DOMAIN conns' : conns'[i].state = "open" =>
               /\ i \in DOMAIN conns /\ conns[i].state = "open"
               /\ conns'[i].after = conns[i].after /\ conns'[i].due = conns[i].due
    PROVE  ListInv' /\ CursorInv'
<1>1. now' = now
  BY DEF serverVars
<1>2. ListInv' /\ Below(batch', now') /\ Below(logs', now')
  BY <1>1, Emptied DEF CursorInv
<1>3. ASSUME NEW i \in DOMAIN conns', conns'[i].state = "open"
      PROVE  /\ conns'[i].after <= now'
             /\ \A n \in conns'[i].due : n > conns'[i].after /\ n <= now'
             /\ Below(batch', conns'[i].after) /\ Below(logs', conns'[i].after)
  <2>1. /\ i \in DOMAIN conns /\ conns[i].state = "open"
        /\ conns'[i].after = conns[i].after /\ conns'[i].due = conns[i].due
    BY <1>3
  <2>2. /\ conns[i].after <= now
        /\ \A n \in conns[i].due : n > conns[i].after /\ n <= now
        /\ Below(batch, conns[i].after) /\ Below(logs, conns[i].after)
    BY <2>1 DEF CursorInv
  <2>3. Below(batch', conns[i].after) /\ Below(logs', conns[i].after)
    BY <2>2, Emptied
  <2> QED
    BY <1>1, <2>1, <2>2, <2>3
<1> QED
  BY <1>2, <1>3 DEF CursorInv

\* A container's commit, when the effects run.
LEMMA EffectsStep ==
    ASSUME TailInv, NEW new \in BOOLEAN, NEW p \in Expressions, Effects(new, p), Render,
           mounted' = TRUE, UNCHANGED <<filter, rotating, serverVars>>
    PROVE  TailInv'
<1>1. /\ conns \in Seq(Conn) /\ flags \in Flags /\ filter \in Expressions
      /\ instance \in 0 .. Len(conns) /\ rendered.flags \in Flags
  BY DEF TailInv, TypeOK
<1>2. /\ conns' \in Seq(Conn) /\ NothingDue(conns') /\ OnlyLast(conns')
      /\ \/ conns' = conns /\ flags' = flags
         \/ /\ Len(conns') \in Nat /\ Len(conns') > Len(conns) /\ NoneOpen(conns')
            /\ flags' = StartFlags(flags)
      /\ flags' \in Flags
  BY EffectsStart DEF TailInv
<1>3. /\ prev' \in Expressions /\ timer' \in BOOLEAN /\ flush' = flush
      /\ logs' = logs \/ logs' = <<>>
      /\ batch' = batch \/ batch' = <<>>
  BY EffectsList DEF TailInv
<1>4. Len(conns) \in Nat
  BY <1>1, SeqElim
<1>5. /\ rendered' = [flags |-> flags, filter |-> filter]
      /\ instance' = IF flags # rendered.flags THEN Len(conns) ELSE instance
      /\ dirty' = FALSE
  BY DEF Render, Ref
<1>6. instance' \in 0 .. Len(conns')
  BY <1>1, <1>2, <1>4, <1>5
<1>7. logs' \in Seq(Log) /\ batch' \in Seq(Log)
  BY <1>3, EmptySeq DEF TailInv, TypeOK
<1>8. TypeOK'
  <2>1. rendered' \in [flags : Flags, filter : Expressions]
    BY <1>1, <1>5
  <2>2. now' \in Nat /\ stored' \subseteq 1 .. now' /\ rotating' \in Nat /\ flush' \in BOOLEAN
        /\ filter' \in Expressions
    BY <1>1, <1>3 DEF TailInv, TypeOK, serverVars
  <2> QED
    BY <1>2, <1>3, <1>5, <1>6, <1>7, <2>1, <2>2 DEF TypeOK
<1>9. OneConnection'
  BY <1>2 DEF OnlyLast, OneConnection, Unclosed, Ref
<1>10. LoadingInv'
  <2>1. CASE conns' = conns /\ flags' = flags
    BY <2>1 DEF TailInv, ConnInv, LoadingInv
  <2>2. CASE flags' = StartFlags(flags)
    <3>1. ~flags'.open /\ flags'.loading
      BY <2>2, <1>1, FlagTypes
    <3> QED
      BY <3>1 DEF LoadingInv
  <2> QED
    BY <1>2, <2>1, <2>2
<1>11. ListenInv'
  <2>1. CASE conns' = conns /\ flags' = flags
    BY <2>1, <1>5 DEF TailInv, ConnInv, ListenInv, Ref
  <2>2. CASE flags' = StartFlags(flags)
    <3>1. ~flags'.open
      BY <2>2, <1>1, FlagTypes
    <3> QED
      BY <3>1 DEF ListenInv
  <2> QED
    BY <1>2, <2>1, <2>2
<1>12. ConnInv'
  BY <1>2, <1>9, <1>10, <1>11 DEF ConnInv, TimerInv, DueInv
<1>13. ListInv' /\ CursorInv'
  BY <1>2, <1>3, ListKept DEF TailInv, NoneOpen
<1> QED
  BY <1>8, <1>12, <1>13 DEF TailInv

LEMMA MountStep == ASSUME TailInv, Mount PROVE TailInv'
<1>1. "" \in Expressions
  BY DEF Expressions
<1> QED
  BY <1>1, EffectsStep DEF Mount

LEMMA CommitStep == ASSUME TailInv, Commit PROVE TailInv'
<1>1. CASE mounted /\ Effects(FALSE, prev)
  <2>1. prev \in Expressions /\ mounted' = TRUE
    BY <1>1 DEF TailInv, TypeOK, Commit
  <2> QED
    BY <1>1, <2>1, EffectsStep DEF Commit
<1>2. CASE ~mounted /\ UNCHANGED <<conns, flags, prev, timer, listVars>>
  <2>1. /\ UNCHANGED <<conns, flags, prev, timer, batch, flush, logs, filter, mounted, rotating>>
        /\ UNCHANGED serverVars /\ now' = now /\ stored' = stored
    BY <1>2 DEF Commit, listVars, serverVars
  <2>2. /\ rendered' = [flags |-> flags, filter |-> filter]
        /\ instance' = IF flags # rendered.flags THEN Len(conns) ELSE instance
        /\ dirty' = FALSE
    BY DEF Commit, Render, Ref
  <2>3. conns \in Seq(Conn) /\ flags \in Flags /\ filter \in Expressions
    BY DEF TailInv, TypeOK
  <2>4. Len(conns) \in Nat
    BY <2>3, SeqElim
  <2>5. TypeOK'
    <3>1. instance' \in 0 .. Len(conns')
      BY <2>1, <2>2, <2>4 DEF TailInv, TypeOK
    <3>2. rendered' \in [flags : Flags, filter : Expressions] /\ dirty' \in BOOLEAN
      BY <2>2, <2>3
    <3> QED
      BY <2>1, <3>1, <3>2 DEF TailInv, TypeOK
  <2>6. ListenInv'
    BY <2>1, <2>2 DEF TailInv, ConnInv, ListenInv, Ref
  <2>7. ConnInv'
    BY <2>1, <2>6 DEF TailInv, ConnInv, OneConnection, Unclosed, Ref, TimerInv, LoadingInv, DueInv, NothingDue
  <2>8. ListInv' /\ CursorInv'
    BY <2>1, ListKept DEF TailInv
  <2> QED
    BY <2>5, <2>7, <2>8 DEF TailInv
<1> QED
  BY <1>1, <1>2 DEF Commit

(***************************************************************************)
(* A step that closes the connection or starts a new one, and renders       *)
(* nothing: the container's cleanup, the timer, the button.                 *)
(***************************************************************************)
LEMMA RestartStep ==
    ASSUME TailInv, TypeOK',
           NEW f \in Expressions,
           \/ conns' = Close(conns) /\ ~flags'.open
           \/ conns' = Start(conns, f) /\ flags'.loading /\ ~flags'.open /\ mounted',
           timer' => mounted', UNCHANGED serverVars,
           logs' = logs \/ logs' = <<>>, batch' = batch \/ batch' = <<>>
    PROVE  TailInv'
<1>1. conns \in Seq(Conn) /\ OnlyLast(conns) /\ NothingDue(conns)
  BY DEF TailInv, TypeOK, ConnInv, OneConnection, Unclosed, Ref, OnlyLast, DueInv
<1>2. /\ OnlyLast(conns') /\ NoneOpen(conns') /\ NothingDue(conns')
      /\ AllClosed(conns') \/ (flags'.loading /\ mounted')
  BY <1>1, CloseCloses, StartStarts DEF AllClosed, OnlyLast, NoneOpen
<1>3. ~flags'.open
  OBVIOUS
<1>4. OneConnection'
  BY <1>2 DEF OneConnection, Unclosed, Ref, OnlyLast, AllClosed
<1>5. LoadingInv' /\ ListenInv' /\ DueInv' /\ TimerInv'
  BY <1>2, <1>3 DEF LoadingInv, ListenInv, DueInv, AllClosed, TimerInv
<1>6. ListInv' /\ CursorInv'
  BY <1>2, ListKept DEF TailInv, NoneOpen
<1> QED
  BY <1>4, <1>5, <1>6 DEF TailInv, ConnInv

LEMMA ClosedLength ==
    ASSUME TailInv, NEW f \in Expressions
    PROVE  /\ Close(conns) \in Seq(Conn) /\ Start(conns, f) \in Seq(Conn)
           /\ 0 .. Len(conns) \subseteq 0 .. Len(Close(conns))
           /\ 0 .. Len(conns) \subseteq 0 .. Len(Start(conns, f))
<1>1. conns \in Seq(Conn) /\ OnlyLast(conns) /\ NothingDue(conns)
  BY DEF TailInv, TypeOK, ConnInv, OneConnection, Unclosed, Ref, OnlyLast, DueInv
<1>2. Len(conns) \in Nat
  BY <1>1, SeqElim
<1>3. /\ Close(conns) \in Seq(Conn) /\ Len(Close(conns)) = Len(conns)
      /\ Start(conns, f) \in Seq(Conn) /\ Len(Start(conns, f)) = Len(conns) + 1
  BY <1>1, CloseCloses, StartStarts
<1> QED
  BY <1>2, <1>3

LEMMA UnmountStep == ASSUME TailInv, Unmount PROVE TailInv'
<1>1. "" \in Expressions
  BY DEF Expressions
<1>2. /\ conns' = Close(conns) /\ flags' = CloseFlags(flags) /\ timer' = FALSE
      /\ logs' = <<>> /\ batch' = <<>> /\ UNCHANGED serverVars
  BY DEF Unmount
<1>3. flags' \in Flags /\ ~flags'.open
  BY <1>2, FlagTypes DEF TailInv, TypeOK
<1>4. conns' \in Seq(Conn) /\ instance' \in 0 .. Len(conns')
  BY <1>1, <1>2, ClosedLength DEF TailInv, TypeOK, Unmount
<1>5. TypeOK'
  BY <1>1, <1>2, <1>3, <1>4, EmptySeq DEF TailInv, TypeOK, Unmount, serverVars
<1> QED
  BY <1>1, <1>2, <1>3, <1>5, RestartStep

LEMMA ReconnectTimerStep == ASSUME TailInv, ReconnectTimer PROVE TailInv'
<1> DEFINE f == IF prev # "" THEN prev ELSE rendered.filter
<1>1. f \in Expressions
  BY DEF TailInv, TypeOK
<1>2. /\ conns' = Start(conns, f) /\ flags' = StartFlags(flags) /\ timer' = FALSE
      /\ logs' = logs /\ batch' = batch /\ UNCHANGED serverVars /\ mounted' = mounted
  BY DEF ReconnectTimer, listVars
<1> HIDE DEF f
<1>3. flags' \in Flags /\ ~flags'.open /\ flags'.loading
  BY <1>2, FlagTypes DEF TailInv, TypeOK
<1>4. conns' \in Seq(Conn) /\ instance' \in 0 .. Len(conns')
  BY <1>1, <1>2, ClosedLength DEF TailInv, TypeOK, ReconnectTimer
<1>5. TypeOK'
  BY <1>2, <1>3, <1>4 DEF TailInv, TypeOK, ReconnectTimer, serverVars, listVars
<1>6. mounted' = TRUE
  BY <1>2 DEF TailInv, TypeOK, ConnInv, TimerInv, ReconnectTimer
<1> QED
  BY <1>1, <1>2, <1>3, <1>5, <1>6, RestartStep

LEMMA OnLiveButtonClickStep == ASSUME TailInv, OnLiveButtonClick PROVE TailInv'
<1> DEFINE kept == IF rendered.flags.initial THEN [flags EXCEPT !.initial = FALSE] ELSE flags
           playing == rendered.flags.open \/ rendered.flags.loading
<1>1. rendered.filter \in Expressions /\ kept \in Flags
  BY DEF TailInv, TypeOK, Flags
<1>2. /\ conns' = IF playing THEN Close(conns) ELSE Start(conns, rendered.filter)
      /\ flags' = IF playing THEN CloseFlags(kept) ELSE StartFlags(kept)
      /\ mounted
  BY DEF OnLiveButtonClick
<1>3. UNCHANGED <<rotating, filter, dirty, rendered, instance, mounted, prev, timer, batch, flush, logs>>
      /\ UNCHANGED serverVars
  BY DEF OnLiveButtonClick, reactVars, listVars
<1> HIDE DEF kept, playing
<1>4. flags' \in Flags /\ ~flags'.open /\ (playing \/ flags'.loading)
  BY <1>1, <1>2, FlagTypes
<1>5. conns' \in Seq(Conn) /\ instance' \in 0 .. Len(conns')
  BY <1>1, <1>2, <1>3, ClosedLength DEF TailInv, TypeOK
<1>6. TypeOK'
  BY <1>3, <1>4, <1>5 DEF TailInv, TypeOK, serverVars
<1> QED
  BY <1>1, <1>2, <1>3, <1>4, <1>6, RestartStep

----------------------------------------------------------------------------
(* The other steps *)

LEMMA ChangeQueryStep == ASSUME TailInv, NEW f \in Expressions, ChangeQuery(f) PROVE TailInv'
<1>1. /\ filter' = f /\ dirty' = TRUE
      /\ UNCHANGED <<rendered, instance, mounted, prev, timer, conns, flags, rotating, batch, flush, logs, now, stored>>
  BY DEF ChangeQuery, sourceVars, listVars, serverVars
<1>2. TypeOK'
  BY <1>1 DEF TailInv, TypeOK
<1>3. ConnInv'
  BY <1>1 DEF TailInv, ConnInv, OneConnection, Unclosed, Ref, TimerInv, LoadingInv, ListenInv, DueInv, NothingDue
<1>4. ListInv' /\ CursorInv'
  BY <1>1, ListKept DEF TailInv, serverVars
<1> QED
  BY <1>2, <1>3, <1>4 DEF TailInv

LEMMA RotationSucceedsStep == ASSUME TailInv, RotationSucceeds PROVE TailInv'
<1>1. /\ rotating > 0 /\ rotating' = rotating - 1 /\ conns' = conns
      /\ flags' = [flags EXCEPT !.reconnect = TRUE, !.error = TRUE]
      /\ UNCHANGED <<filter, dirty, rendered, instance, mounted, prev, timer, batch, flush, logs, now, stored>>
  BY DEF RotationSucceeds, reactVars, listVars, serverVars
<1>2. flags' \in Flags /\ flags'.open = flags.open /\ flags'.loading = flags.loading
  BY <1>1 DEF TailInv, TypeOK, Flags
<1>3. TypeOK'
  BY <1>1, <1>2 DEF TailInv, TypeOK
<1>4. ConnInv'
  BY <1>1, <1>2 DEF TailInv, ConnInv, OneConnection, Unclosed, Ref, TimerInv, LoadingInv, ListenInv, DueInv, NothingDue
<1>5. ListInv' /\ CursorInv'
  BY <1>1, ListKept DEF TailInv, serverVars
<1> QED
  BY <1>3, <1>4, <1>5 DEF TailInv

LEMMA RotationFailsStep == ASSUME TailInv, RotationFails PROVE TailInv'
<1>1. /\ rotating > 0 /\ rotating' = rotating - 1 /\ conns' = Close(conns)
      /\ flags' = [flags EXCEPT !.error = TRUE]
      /\ UNCHANGED <<filter, dirty, rendered, instance, mounted, prev, timer, batch, flush, logs, now, stored>>
  BY DEF RotationFails, reactVars, listVars, serverVars
<1>2. flags' \in Flags /\ flags'.open = flags.open
  BY <1>1 DEF TailInv, TypeOK, Flags
<1>3. conns \in Seq(Conn) /\ OnlyLast(conns) /\ NothingDue(conns)
  BY DEF TailInv, TypeOK, ConnInv, OneConnection, Unclosed, Ref, OnlyLast, DueInv
<1>4. conns' \in Seq(Conn) /\ Len(conns') = Len(conns) /\ AllClosed(conns') /\ NothingDue(conns')
  BY <1>1, <1>3, CloseCloses
<1>5. TypeOK'
  BY <1>1, <1>2, <1>4 DEF TailInv, TypeOK
<1>6. OneConnection' /\ LoadingInv' /\ DueInv'
  BY <1>4 DEF AllClosed, OneConnection, Unclosed, LoadingInv, DueInv
<1>7. TimerInv' /\ ListenInv'
  BY <1>1, <1>2, <1>4 DEF TailInv, ConnInv, TimerInv, ListenInv, Ref
<1>8. ListInv' /\ CursorInv'
  BY <1>1, <1>4, ListKept DEF TailInv, AllClosed, serverVars
<1> QED
  BY <1>5, <1>6, <1>7, <1>8 DEF TailInv, ConnInv

\* One connection replaced by another record, the others left alone.
LEMMA OneReplaced ==
    ASSUME NEW cs \in Seq(Conn), NEW i \in DOMAIN cs, NEW c \in Conn
    PROVE  /\ [cs EXCEPT ![i] = c] \in Seq(Conn)
           /\ Len([cs EXCEPT ![i] = c]) = Len(cs)
           /\ DOMAIN [cs EXCEPT ![i] = c] = DOMAIN cs
           /\ [cs EXCEPT ![i] = c][i] = c
           /\ \A j \in DOMAIN cs : j # i => [cs EXCEPT ![i] = c][j] = cs[j]
<1>1. DOMAIN cs = 1 .. Len(cs)
  BY SeqElim
<1> QED
  BY <1>1, ExceptSeq

(***************************************************************************)
(* A step of the one connection that is not closed: the others stay closed  *)
(* and have nothing due, so the invariant need only be looked at for it.    *)
(***************************************************************************)
LEMMA ConnStep ==
    ASSUME TailInv, NEW i \in DOMAIN conns, Unclosed(i), NEW c \in Conn,
           conns' = [conns EXCEPT ![i] = c], TypeOK',
           UNCHANGED <<mounted, timer, rendered, instance, now>>,
           c.state # "open" => c.due = {},
           c.state = "connecting" => flags'.loading /\ ~flags'.open,
           flags'.open => (flags.open \/ ~rendered.flags.open),
           ListInv', Below(batch', now), Below(logs', now),
           c.state = "open" =>
             /\ c.after <= now /\ \A n \in c.due : n > c.after /\ n <= now
             /\ Below(batch', c.after) /\ Below(logs', c.after)
    PROVE  TailInv'
<1>1. conns \in Seq(Conn)
  BY DEF TailInv, TypeOK
<1>2. /\ Len(conns') = Len(conns) /\ DOMAIN conns' = DOMAIN conns
      /\ conns'[i] = c /\ \A j \in DOMAIN conns : j # i => conns'[j] = conns[j]
  BY <1>1, OneReplaced
<1>3. i = Len(conns) /\ mounted
  BY DEF TailInv, ConnInv, OneConnection, Ref
<1>4. \A j \in DOMAIN conns : j # i => conns[j].state = "closed"
  BY <1>3 DEF TailInv, ConnInv, OneConnection, Unclosed, Ref
<1>5. OneConnection'
  BY <1>2, <1>3, <1>4 DEF OneConnection, Unclosed, Ref
<1>6. TimerInv' /\ ListenInv'
  BY <1>2 DEF TailInv, ConnInv, TimerInv, ListenInv, Ref
<1>7. LoadingInv'
  BY <1>2, <1>4 DEF LoadingInv
<1>8. DueInv'
  BY <1>2 DEF TailInv, ConnInv, DueInv, NothingDue
<1>9. CursorInv'
  BY <1>2, <1>4 DEF CursorInv
<1> QED
  BY <1>5, <1>6, <1>7, <1>8, <1>9 DEF TailInv, ConnInv

LEMMA HandleOpenConnectionStep ==
    ASSUME TailInv, NEW i \in DOMAIN conns, HandleOpenConnection(i)
    PROVE  TailInv'
<1> DEFINE c == [conns[i] EXCEPT !.state = "open", !.after = now]
<1>1. /\ conns[i].state = "connecting" /\ flags = rendered.flags
      /\ flags' = [flags EXCEPT !.loading = FALSE, !.open = TRUE, !.initial = FALSE]
      /\ UNCHANGED <<rotating, filter, dirty, rendered, instance, mounted, prev, timer,
                     batch, flush, logs, now, stored>>
  BY DEF HandleOpenConnection, Pending, reactVars, listVars, serverVars
<1>2. conns \in Seq(Conn) /\ now \in Nat /\ flags \in Flags
  BY DEF TailInv, TypeOK
<1>3. conns[i] \in Conn
  BY <1>2, SeqElim
<1>4. c \in Conn /\ c.state = "open" /\ c.after = now /\ c.due = conns[i].due
  BY <1>2, <1>3 DEF Conn
<1>5. conns' = [conns EXCEPT ![i] = c]
  BY <1>2, <1>3 DEF HandleOpenConnection, ParseStart, Conn
<1> HIDE DEF c
<1>6. conns[i].due = {}
  BY <1>1 DEF TailInv, ConnInv, DueInv, NothingDue
<1>7. flags' \in Flags /\ ~rendered.flags.open
  BY <1>1, <1>2 DEF Flags, TailInv, ConnInv, LoadingInv
<1>8. TypeOK'
  BY <1>1, <1>2, <1>4, <1>5, <1>7, OneReplaced DEF TailInv, TypeOK
<1>9. Unclosed(i)
  BY <1>1 DEF Unclosed
<1>10. ListInv' /\ Below(batch', now) /\ Below(logs', now)
  BY <1>1, Emptied DEF TailInv, CursorInv
<1>11. /\ c.after <= now /\ \A n \in c.due : n > c.after /\ n <= now
       /\ Below(batch', c.after) /\ Below(logs', c.after)
  BY <1>2, <1>4, <1>6, <1>10
<1> QED
  BY <1>1, <1>4, <1>5, <1>7, <1>8, <1>9, <1>10, <1>11, ConnStep

LEMMA HandleErrorConnectionStep ==
    ASSUME TailInv, NEW i \in DOMAIN conns, NEW state \in {"connecting", "open", "closed"},
           HandleErrorConnection(i, state)
    PROVE  TailInv'
<1> DEFINE c == [conns[i] EXCEPT !.state = state,
                                 !.due = IF state = "open" THEN conns[i].due ELSE {}]
<1>1. /\ Unclosed(i)
      /\ state = "open" => conns[i].state = "open"
      /\ flags' = [flags EXCEPT !.open = FALSE, !.loading = TRUE, !.initial = FALSE]
      /\ rotating' = rotating + 1
      /\ UNCHANGED <<filter, dirty, rendered, instance, mounted, prev, timer,
                     batch, flush, logs, now, stored>>
  BY DEF HandleErrorConnection, reactVars, listVars, serverVars
<1>2. conns \in Seq(Conn) /\ now \in Nat /\ flags \in Flags
  BY DEF TailInv, TypeOK
<1>3. conns[i] \in Conn
  BY <1>2, SeqElim
<1>4. /\ c \in Conn /\ c.state = state /\ c.after = conns[i].after
      /\ c.due = IF state = "open" THEN conns[i].due ELSE {}
  BY <1>3 DEF Conn
<1>5. conns' = [conns EXCEPT ![i] = c]
  BY <1>2, <1>3 DEF HandleErrorConnection, Conn
<1> HIDE DEF c
<1>6. flags' \in Flags /\ ~flags'.open /\ flags'.loading
  BY <1>1, <1>2 DEF Flags
<1>7. TypeOK'
  BY <1>1, <1>2, <1>4, <1>5, <1>6, OneReplaced DEF TailInv, TypeOK
<1>8. ListInv' /\ Below(batch', now) /\ Below(logs', now)
  BY <1>1, Emptied DEF TailInv, CursorInv
<1>9. c.state = "open" =>
        /\ c.after <= now /\ \A n \in c.due : n > c.after /\ n <= now
        /\ Below(batch', c.after) /\ Below(logs', c.after)
  BY <1>1, <1>4 DEF TailInv, CursorInv
<1> QED
  BY <1>1, <1>4, <1>5, <1>6, <1>7, <1>8, <1>9, ConnStep

LEMMA PollStep == ASSUME TailInv, NEW i \in DOMAIN conns, Poll(i) PROVE TailInv'
<1> DEFINE c == [conns[i] EXCEPT !.due = Read(i)]
<1>1. /\ conns[i].state = "open"
      /\ UNCHANGED <<flags, rotating, filter, dirty, rendered, instance, mounted, prev, timer,
                     batch, flush, logs, now, stored>>
  BY DEF Poll, reactVars, listVars, serverVars
<1>2. conns \in Seq(Conn) /\ now \in Nat /\ stored \subseteq 1 .. now
  BY DEF TailInv, TypeOK
<1>3. conns[i] \in Conn
  BY <1>2, SeqElim
<1>4. \A n \in Read(i) : n \in Nat /\ n > conns[i].after /\ n <= now
  BY <1>2 DEF Read, Readable
<1>5. c \in Conn /\ c.state = "open" /\ c.after = conns[i].after /\ c.due = Read(i)
  BY <1>1, <1>3, <1>4 DEF Conn
<1>6. conns' = [conns EXCEPT ![i] = c]
  BY <1>2, <1>3 DEF Poll, Conn
<1> HIDE DEF c
<1>7. TypeOK'
  BY <1>1, <1>2, <1>5, <1>6, OneReplaced DEF TailInv, TypeOK
<1>8. Unclosed(i)
  BY <1>1 DEF Unclosed
<1>9. ListInv' /\ Below(batch', now) /\ Below(logs', now)
  BY <1>1, Emptied DEF TailInv, CursorInv
<1>10. c.after <= now /\ Below(batch', c.after) /\ Below(logs', c.after)
  BY <1>1, <1>5 DEF TailInv, CursorInv
<1> QED
  BY <1>1, <1>4, <1>5, <1>6, <1>7, <1>8, <1>9, <1>10, ConnStep

\* The rows of a list are numbers.
LEMMA RowsAreNat ==
    ASSUME NEW s \in Seq(Log)
    PROVE  \A j \in DOMAIN s : s[j].row \in Nat
<1>1. \A j \in DOMAIN s : s[j] \in Log
  BY SeqElim
<1> QED
  BY <1>1 DEF Log

\* A row put at the end of the batch, ahead of everything listed.
LEMMA Appended ==
    ASSUME batch \in Seq(Log), logs \in Seq(Log), ListInv,
           NEW n \in Nat, NEW a \in Nat, a < n, Below(batch, a), Below(logs, a),
           NEW f \in Expressions,
           batch' = Append(batch, [row |-> n, filter |-> f]), logs' = logs
    PROVE  batch' \in Seq(Log) /\ ListInv' /\ Below(batch', n) /\ Below(logs', n)
<1> DEFINE e == [row |-> n, filter |-> f]
<1>1. e \in Log /\ e.row = n
  BY DEF Log
<1> HIDE DEF e
<1>2. batch' = Append(batch, e)
  BY DEF e
<1>3. Len(batch) \in Nat /\ DOMAIN batch = 1 .. Len(batch) /\ \A j \in DOMAIN batch : batch[j] \in Log
  BY SeqElim
<1>4. batch' \in Seq(Log) /\ Len(batch') = Len(batch) + 1
  BY <1>1, <1>2
<1>5. batch'[Len(batch) + 1] = e /\ \A j \in 1 .. Len(batch) : batch'[j] = batch[j]
  BY <1>1, <1>2
<1>6. DOMAIN batch' = 1 .. Len(batch) + 1
  BY <1>4, SeqElim
<1>7. \A j \in DOMAIN batch : batch[j].row \in Nat
  BY <1>3 DEF Log
<1>8. \A k \in DOMAIN logs : logs[k].row \in Nat
  BY RowsAreNat
<1>9. Below(batch', n)
  BY <1>1, <1>3, <1>5, <1>6, <1>7 DEF Below
<1>10. Below(logs', n)
  BY <1>8 DEF Below
<1>11. Ascending(batch')
  BY <1>1, <1>3, <1>5, <1>6, <1>7 DEF ListInv, Ascending, Below
<1>12. Above(batch', logs')
  BY <1>1, <1>3, <1>5, <1>6, <1>8 DEF ListInv, Above, Below
<1> QED
  BY <1>4, <1>9, <1>10, <1>11, <1>12 DEF ListInv

LEMMA DeliverStep ==
    ASSUME TailInv, NEW i \in DOMAIN conns, NEW n \in conns[i].due, Deliver(i, n)
    PROVE  TailInv'
<1> DEFINE c == [conns[i] EXCEPT !.after = n, !.due = conns[i].due \ {n}]
<1>1. /\ \A m \in conns[i].due : n <= m
      /\ UNCHANGED <<flags, rotating, filter, dirty, rendered, instance, mounted, prev, timer,
                     logs, now, stored>>
  BY DEF Deliver, reactVars, serverVars
<1>2. conns \in Seq(Conn) /\ now \in Nat /\ batch \in Seq(Log) /\ logs \in Seq(Log)
  BY DEF TailInv, TypeOK
<1>3. conns[i] \in Conn
  BY <1>2, SeqElim
<1>4. conns[i].after \in Nat /\ conns[i].due \subseteq Nat /\ conns[i].filter \in Expressions
  BY <1>3, ConnFields
<1>5. c \in Conn /\ c.state = conns[i].state /\ c.after = n /\ c.due = conns[i].due \ {n}
  BY <1>3, <1>4 DEF Conn
<1>6. conns' = [conns EXCEPT ![i] = c]
  BY <1>2, <1>3 DEF Deliver, Conn
<1> HIDE DEF c
<1>7. conns[i].state = "open"
  BY DEF TailInv, ConnInv, DueInv, NothingDue
<1>8. /\ n > conns[i].after /\ n <= now
      /\ \A m \in conns[i].due : m <= now
      /\ Below(batch, conns[i].after) /\ Below(logs, conns[i].after)
  BY <1>7 DEF TailInv, CursorInv
<1>9. \A m \in c.due : m > c.after /\ m <= now
  BY <1>1, <1>4, <1>5, <1>8
<1>10. batch' \in Seq(Log) /\ ListInv' /\ Below(batch', n) /\ Below(logs', n) /\ flush' \in BOOLEAN
  <2>1. CASE batch' = Append(batch, [row |-> n, filter |-> conns[i].filter]) /\ flush' = TRUE
    BY <1>1, <1>2, <1>4, <1>8, <2>1, Appended DEF TailInv
  <2>2. CASE UNCHANGED <<batch, flush>>
    <3>1. \A j \in DOMAIN batch : batch[j].row \in Nat
      BY <1>2, RowsAreNat
    <3>2. \A j \in DOMAIN logs : logs[j].row \in Nat
      BY <1>2, RowsAreNat
    <3>3. Below(batch, n) /\ Below(logs, n)
      BY <1>4, <1>8, <3>1, <3>2 DEF Below
    <3>4. flush' \in BOOLEAN
      BY <2>2 DEF TailInv, TypeOK
    <3> QED
      BY <1>1, <1>2, <2>2, <3>3, <3>4, Emptied DEF TailInv
  <2> QED
    BY <2>1, <2>2 DEF Deliver
<1>11. Below(batch', now) /\ Below(logs', now)
  <2>1. \A j \in DOMAIN batch' : batch'[j].row \in Nat
    BY <1>10, RowsAreNat
  <2>2. \A j \in DOMAIN logs' : logs'[j].row \in Nat
    BY <1>1, <1>2, RowsAreNat
  <2> QED
    BY <1>2, <1>4, <1>8, <1>10, <2>1, <2>2 DEF Below
<1>12. TypeOK'
  BY <1>1, <1>2, <1>5, <1>6, <1>10, OneReplaced DEF TailInv, TypeOK
<1>13. Unclosed(i)
  BY <1>7 DEF Unclosed
<1> QED
  BY <1>1, <1>5, <1>6, <1>7, <1>8, <1>9, <1>10, <1>11, <1>12, <1>13, ConnStep

LEMMA TickStep == ASSUME TailInv, Tick PROVE TailInv'
<1>1. /\ now' = now + 1
      /\ UNCHANGED <<stored, conns, flags, rotating, filter, dirty, rendered, instance, mounted,
                     prev, timer, batch, flush, logs>>
  BY DEF Tick, sourceVars, reactVars, listVars
<1>2. now \in Nat /\ batch \in Seq(Log) /\ logs \in Seq(Log) /\ conns \in Seq(Conn)
  BY DEF TailInv, TypeOK
<1>3. TypeOK'
  BY <1>1 DEF TailInv, TypeOK
<1>4. ConnInv'
  BY <1>1 DEF TailInv, ConnInv, OneConnection, Unclosed, Ref, TimerInv, LoadingInv, ListenInv, DueInv, NothingDue
<1>5. ListInv'
  BY <1>1 DEF TailInv, ListInv, Ascending, Descending, Above
<1>6. (\A j \in DOMAIN batch : batch[j].row \in Nat) /\ (\A j \in DOMAIN logs : logs[j].row \in Nat)
  BY <1>2, RowsAreNat
<1>7. \A i \in DOMAIN conns : conns[i].after \in Nat /\ conns[i].due \subseteq Nat
  BY <1>2, SeqElim, ConnFields
<1>8. Below(batch', now') /\ Below(logs', now')
  BY <1>1, <1>2, <1>6 DEF TailInv, CursorInv, Below
<1>9. CursorInv'
  BY <1>1, <1>2, <1>7, <1>8 DEF TailInv, CursorInv
<1> QED
  BY <1>3, <1>4, <1>5, <1>9 DEF TailInv

LEMMA StoreStep == ASSUME TailInv, NEW n \in 1 .. now, Store(n) PROVE TailInv'
<1>1. /\ stored' = stored \cup {n}
      /\ UNCHANGED <<now, conns, flags, rotating, filter, dirty, rendered, instance, mounted,
                     prev, timer, batch, flush, logs>>
  BY DEF Store, sourceVars, reactVars, listVars
<1>2. TypeOK'
  BY <1>1 DEF TailInv, TypeOK
<1>3. ConnInv'
  BY <1>1 DEF TailInv, ConnInv, OneConnection, Unclosed, Ref, TimerInv, LoadingInv, ListenInv, DueInv, NothingDue
<1>4. ListInv' /\ CursorInv'
  BY <1>1 DEF TailInv, ListInv, CursorInv, Ascending, Descending, Above, Below
<1> QED
  BY <1>2, <1>3, <1>4 DEF TailInv

\* A batch turned round and put before the list is a list.
LEMMA Merged ==
    ASSUME NEW b \in Seq(Log), NEW l \in Seq(Log), Ascending(b), Descending(l), Above(b, l)
    PROVE  /\ Reverse(b) \o l \in Seq(Log) /\ Descending(Reverse(b) \o l)
           /\ \A n \in Nat : Below(b, n) /\ Below(l, n) => Below(Reverse(b) \o l, n)
<1> DEFINE r == Reverse(b)
           s == r \o l
<1>1. Len(b) \in Nat /\ DOMAIN b = 1 .. Len(b) /\ \A j \in DOMAIN b : b[j] \in Log
  BY SeqElim
<1>2. Len(l) \in Nat /\ DOMAIN l = 1 .. Len(l) /\ \A j \in DOMAIN l : l[j] \in Log
  BY SeqElim
<1>3. r \in [1 .. Len(b) -> Log] /\ \A j \in 1 .. Len(b) : r[j] = b[Len(b) + 1 - j]
  BY <1>1 DEF Reverse
<1> HIDE DEF r
<1>4. r \in Seq(Log) /\ Len(r) = Len(b)
  BY <1>1, <1>3, SeqIntro
<1>5. /\ s \in Seq(Log) /\ Len(s) = Len(b) + Len(l)
      /\ \A j \in 1 .. Len(b) + Len(l) : s[j] = IF j <= Len(b) THEN r[j] ELSE l[j - Len(b)]
  <2>1. /\ s \in Seq(Log) /\ Len(s) = Len(r) + Len(l)
        /\ \A j \in 1 .. Len(r) + Len(l) : s[j] = IF j <= Len(r) THEN r[j] ELSE l[j - Len(r)]
    BY <1>4, ConcatProperties, Zenon
  <2> QED
    BY <1>4, <2>1, Zenon
<1> HIDE DEF s
<1>6. DOMAIN s = 1 .. Len(b) + Len(l)
  BY <1>5, SeqElim
<1>7. ASSUME NEW j \in DOMAIN s
      PROVE  \/ j <= Len(b) /\ Len(b) + 1 - j \in DOMAIN b /\ s[j] = b[Len(b) + 1 - j]
             \/ j > Len(b) /\ j - Len(b) \in DOMAIN l /\ s[j] = l[j - Len(b)]
  <2>1. j \in 1 .. Len(b) + Len(l) /\ s[j] = IF j <= Len(b) THEN r[j] ELSE l[j - Len(b)]
    BY <1>5, <1>6
  <2>2. CASE j <= Len(b)
    <3>1. j \in 1 .. Len(b) /\ Len(b) + 1 - j \in 1 .. Len(b)
      BY <1>1, <1>2, <2>1, <2>2
    <3> QED
      BY <1>1, <1>3, <2>1, <2>2, <3>1
  <2>3. CASE j > Len(b)
    <3>1. ~(j <= Len(b)) /\ j - Len(b) \in 1 .. Len(l)
      BY <1>1, <1>2, <2>1, <2>3
    <3> QED
      BY <1>2, <2>1, <2>3, <3>1
  <2> QED
    BY <1>1, <1>2, <2>1, <2>2, <2>3
<1>8. ASSUME NEW j \in DOMAIN s, NEW k \in DOMAIN s, j < k
      PROVE  s[j].row > s[k].row
  <2>1. j \in Nat /\ k \in Nat
    BY <1>6
  <2>2. CASE k <= Len(b)
    <3>1. /\ s[j] = b[Len(b) + 1 - j] /\ s[k] = b[Len(b) + 1 - k]
          /\ Len(b) + 1 - j \in DOMAIN b /\ Len(b) + 1 - k \in DOMAIN b
      BY <1>1, <1>7, <1>8, <2>1, <2>2
    <3>2. Len(b) + 1 - k < Len(b) + 1 - j
      BY <1>1, <1>8, <2>1
    <3>3. b[Len(b) + 1 - k].row < b[Len(b) + 1 - j].row
      BY <3>1, <3>2 DEF Ascending
    <3>4. b[Len(b) + 1 - k].row \in Nat /\ b[Len(b) + 1 - j].row \in Nat
      BY <3>1, RowsAreNat
    <3> QED
      BY <3>1, <3>3, <3>4
  <2>3. CASE j <= Len(b) /\ k > Len(b)
    BY <1>1, <1>7, <2>1, <2>3 DEF Above
  <2>4. CASE j > Len(b)
    <3>1. /\ s[j] = l[j - Len(b)] /\ s[k] = l[k - Len(b)]
          /\ j - Len(b) \in DOMAIN l /\ k - Len(b) \in DOMAIN l
      BY <1>1, <1>7, <1>8, <2>1, <2>4
    <3>2. j - Len(b) < k - Len(b)
      BY <1>1, <1>8, <2>1
    <3> QED
      BY <3>1, <3>2 DEF Descending
  <2> QED
    BY <1>1, <2>1, <2>2, <2>3, <2>4
<1>9. \A n \in Nat : Below(b, n) /\ Below(l, n) => Below(s, n)
  BY <1>7 DEF Below
<1> QED
  BY <1>5, <1>8, <1>9 DEF Descending, r, s

\* Cutting a list keeps it a list.
LEMMA Truncated ==
    ASSUME NEW s \in Seq(Log), Descending(s)
    PROVE  /\ Truncate(s) \in Seq(Log) /\ Descending(Truncate(s))
           /\ \A n \in Nat : Below(s, n) => Below(Truncate(s), n)
<1>1. Len(s) \in Nat /\ DOMAIN s = 1 .. Len(s) /\ \A j \in DOMAIN s : s[j] \in Log
  BY SeqElim
<1>2. MaxListSize \in Nat \ {0}
  BY LiveTailAssumption
<1>3. CASE Len(s) > MaxListSize
  <2> DEFINE t == SubSeq(s, 1, MaxListSize)
  <2>1. Truncate(s) = t
    BY <1>3 DEF Truncate
  <2>2. \A j \in 1 .. MaxListSize : j \in DOMAIN s /\ s[j] \in Log
    BY <1>1, <1>2, <1>3
  <2>3. /\ t \in Seq(Log) /\ Len(t) = MaxListSize
        /\ \A j \in 1 .. MaxListSize : t[j] = s[j]
    <3>1. /\ t \in Seq(Log)
          /\ Len(t) = IF 1 <= MaxListSize THEN MaxListSize - 1 + 1 ELSE 0
          /\ \A j \in 1 .. MaxListSize - 1 + 1 : t[j] = s[1 + j - 1]
      BY <1>2, <2>2, SubSeqProperties
    <3> HIDE DEF t
    <3>2. MaxListSize - 1 + 1 = MaxListSize /\ 1 <= MaxListSize
      BY <1>2
    <3>3. \A j \in 1 .. MaxListSize : 1 + j - 1 = j
      BY <1>2
    <3> QED
      BY <3>1, <3>2, <3>3
  <2> HIDE DEF t
  <2>4. DOMAIN t = 1 .. MaxListSize
    BY <2>3, SeqElim
  <2>5. Descending(t) /\ \A n \in Nat : Below(s, n) => Below(t, n)
    BY <2>2, <2>3, <2>4 DEF Descending, Below
  <2> QED
    BY <2>1, <2>3, <2>5
<1>4. CASE ~(Len(s) > MaxListSize)
  BY <1>4 DEF Truncate
<1> QED
  BY <1>3, <1>4

LEMMA UpdateLogsStep == ASSUME TailInv, UpdateLogs PROVE TailInv'
<1>1. /\ flush' = FALSE /\ logs' = Truncate(Reverse(batch) \o logs) /\ batch' = <<>>
      /\ UNCHANGED <<now, stored, conns, flags, rotating, filter, dirty, rendered, instance,
                     mounted, prev, timer>>
  BY DEF UpdateLogs, sourceVars, reactVars, serverVars
<1>2. now \in Nat /\ batch \in Seq(Log) /\ logs \in Seq(Log) /\ conns \in Seq(Conn)
  BY DEF TailInv, TypeOK
<1>3. /\ Reverse(batch) \o logs \in Seq(Log) /\ Descending(Reverse(batch) \o logs)
      /\ \A n \in Nat : Below(batch, n) /\ Below(logs, n) => Below(Reverse(batch) \o logs, n)
  BY <1>2, Merged DEF TailInv, ListInv
<1>4. /\ logs' \in Seq(Log) /\ Descending(logs')
      /\ \A n \in Nat : Below(batch, n) /\ Below(logs, n) => Below(logs', n)
  BY <1>1, <1>3, Truncated
<1>5. batch' \in Seq(Log) /\ DOMAIN batch' = {}
  BY <1>1, EmptySeq
<1>6. TypeOK'
  BY <1>1, <1>4, <1>5 DEF TailInv, TypeOK
<1>7. ConnInv'
  BY <1>1 DEF TailInv, ConnInv, OneConnection, Unclosed, Ref, TimerInv, LoadingInv, ListenInv, DueInv, NothingDue
<1>8. ListInv'
  BY <1>4, <1>5 DEF ListInv, Ascending, Above
<1>9. \A n : Below(batch', n)
  BY <1>5 DEF Below
<1>10. \A i \in DOMAIN conns : conns[i].after \in Nat
  BY <1>2, SeqElim, ConnFields
<1>11. CursorInv'
  BY <1>1, <1>2, <1>4, <1>9, <1>10 DEF TailInv, CursorInv
<1> QED
  BY <1>6, <1>7, <1>8, <1>11 DEF TailInv

----------------------------------------------------------------------------
(* The theorems *)

LEMMA TailInit == ASSUME Init PROVE TailInv
<1>1. conns = <<>> /\ batch = <<>> /\ logs = <<>>
  BY DEF Init
<1>2. conns \in Seq(Conn) /\ batch \in Seq(Log) /\ logs \in Seq(Log) /\ Len(conns) = 0
  BY <1>1, EmptySeq
<1>3. DOMAIN conns = {} /\ DOMAIN batch = {} /\ DOMAIN logs = {}
  BY <1>1
<1>4. InitFlags \in Flags /\ ~InitFlags.open
  BY DEF InitFlags, Flags
<1>5. TypeOK
  <2>1. now = 0 /\ stored = {} /\ rotating = 0 /\ instance = 0
    BY DEF Init
  <2>2. filter \in Expressions /\ prev \in Expressions
    BY DEF Init, Expressions
  <2>3. flags \in Flags /\ rendered \in [flags : Flags, filter : Expressions]
    BY <1>4, <2>2 DEF Init
  <2>4. dirty \in BOOLEAN /\ mounted \in BOOLEAN /\ timer \in BOOLEAN /\ flush \in BOOLEAN
    BY DEF Init
  <2> QED
    BY <1>2, <2>1, <2>2, <2>3, <2>4 DEF TypeOK
<1>6. ConnInv
  BY <1>3, <1>4 DEF Init, ConnInv, OneConnection, TimerInv, LoadingInv, ListenInv, DueInv, NothingDue
<1>7. ListInv /\ CursorInv
  BY <1>3 DEF ListInv, CursorInv, Ascending, Descending, Above, Below
<1> QED
  BY <1>5, <1>6, <1>7 DEF TailInv

\* Every step keeps the invariant.
LEMMA TailNext == ASSUME TailInv, [Next]_vars PROVE TailInv'
<1>1. ASSUME Next PROVE TailInv'
  BY <1>1, MountStep, CommitStep, UnmountStep, ReconnectTimerStep, ChangeQueryStep,
     OnLiveButtonClickStep, HandleOpenConnectionStep, HandleErrorConnectionStep, PollStep,
     DeliverStep, RotationSucceedsStep, RotationFailsStep, TickStep, StoreStep, UpdateLogsStep
     DEF Next
<1>2. ASSUME UNCHANGED vars PROVE TailInv'
  <2>1. UNCHANGED <<now, stored, conns, flags, rotating, filter, dirty, rendered, instance,
                    mounted, prev, timer, batch, flush, logs>>
    BY <1>2 DEF vars, serverVars, sourceVars, reactVars, listVars
  <2>2. TypeOK'
    BY <2>1 DEF TailInv, TypeOK
  <2>3. ConnInv'
    BY <2>1 DEF TailInv, ConnInv, OneConnection, Unclosed, Ref, TimerInv, LoadingInv, ListenInv, DueInv, NothingDue
  <2>4. ListInv' /\ CursorInv'
    BY <2>1, ListKept DEF TailInv, serverVars
  <2> QED
    BY <2>2, <2>3, <2>4 DEF TailInv
<1> QED
  BY <1>1, <1>2

LEMMA TailAlways == Spec => []TailInv
  BY TailInit, TailNext, PTL DEF Spec

(***************************************************************************)
(* The provider's, the container's and the stream's state keep their types, *)
(* for any filters, sizes and bounds.                                       *)
(***************************************************************************)
THEOREM TypeCorrect == Spec => []TypeOK
<1>1. TailInv => TypeOK
  BY DEF TailInv
<1> QED
  BY <1>1, TailAlways, PTL

(***************************************************************************)
(* However renders, effects, the timer, clicks and late rotations           *)
(* interleave, at most one stream is open, the one the ref names, and none  *)
(* once the container is gone.                                              *)
(***************************************************************************)
THEOREM SingleConnection == Spec => []OneConnection
<1>1. TailInv => OneConnection
  BY DEF TailInv, ConnInv
<1> QED
  BY <1>1, TailAlways, PTL

(***************************************************************************)
(* A rendered open connection is the one the message listener is on.        *)
(***************************************************************************)
THEOREM ListenerFollows == Spec => []ListenerFollowsConnection
<1>1. TailInv => ListenerFollowsConnection
  BY DEF TailInv, ConnInv, ListenInv, ListenerFollowsConnection, Pending
<1> QED
  BY <1>1, TailAlways, PTL

(***************************************************************************)
(* The list is newest first and shows no row twice, over any number of      *)
(* connections, lost ones included, and rows stored late.                   *)
(***************************************************************************)
THEOREM InOrder == Spec => []ShownInOrder
<1>1. ASSUME TailInv PROVE ShownInOrder
  <2>1. batch \in Seq(Log) /\ logs \in Seq(Log)
    BY <1>1 DEF TailInv, TypeOK
  <2>2. Descending(Reverse(batch) \o logs)
    BY <1>1, <2>1, Merged DEF TailInv, ListInv
  <2> QED
    BY <2>2 DEF Descending, ShownInOrder, Shown
<1> QED
  BY <1>1, TailAlways, PTL

----------------------------------------------------------------------------
(* The list and the filter *)

(***************************************************************************)
(* What ShownLogsMatchFilter rests on.  The ref to the previous filter and  *)
(* what is rendered agree, and lag behind the query only until a commit;    *)
(* and while that filter is valid, everything listed, everything waiting    *)
(* and the connection itself have it.  An invalid one says nothing: the old *)
(* stream goes on under it, and a reconnect sends the empty filter.         *)
(***************************************************************************)
Only(s, f) == \A j \in DOMAIN s : s[j].filter = f
Serves(cs, f) == \A i \in DOMAIN cs : cs[i].state # "closed" => cs[i].filter = f

SeenInv == (~dirty => rendered.filter = filter) /\ (mounted => prev = rendered.filter)
MatchInv == mounted /\ IsValid(prev) =>
               Only(batch, prev) /\ Only(logs, prev) /\ Serves(conns, prev)
FilterInv == SeenInv /\ MatchInv

\* An empty list is of any filter.
LEMMA EmptyOnly == \A f : Only(<<>>, f)
<1>1. DOMAIN <<>> = {}
  OBVIOUS
<1> QED
  BY <1>1 DEF Only

\* Closing the connection leaves none to serve anything.
LEMMA CloseServes ==
    ASSUME TailInv, NEW f
    PROVE  Serves(Close(conns), f)
<1>1. conns \in Seq(Conn) /\ OnlyLast(conns) /\ NothingDue(conns)
  BY DEF TailInv, TypeOK, ConnInv, OneConnection, Unclosed, Ref, OnlyLast, DueInv
<1> QED
  BY <1>1, CloseCloses DEF AllClosed, Serves

\* A connection started with a valid filter serves that filter, and no other is open.
LEMMA StartServes ==
    ASSUME NEW cs \in Seq(Conn), OnlyLast(cs), NothingDue(cs),
           NEW f \in Expressions, IsValid(f)
    PROVE  Serves(Start(cs, f), f)
<1> DEFINE c == [filter |-> f, state |-> "connecting", after |-> 0, due |-> {}]
           s == Close(cs)
           t == Append(s, c)
<1>1. s \in Seq(Conn) /\ AllClosed(s)
  BY CloseCloses
<1>2. Start(cs, f) = t
  BY DEF Start, Open
<1>3. c.filter = f /\ c \in Conn
  BY DEF Conn
<1>4. Len(s) \in Nat /\ DOMAIN s = 1 .. Len(s)
  BY <1>1, SeqElim
<1> HIDE DEF c, s
<1>5. t \in Seq(Conn) /\ Len(t) = Len(s) + 1
  BY <1>1, <1>3
<1>6. t[Len(s) + 1] = c /\ \A i \in 1 .. Len(s) : t[i] = s[i]
  BY <1>1, <1>3
<1> HIDE DEF t
<1>7. DOMAIN t = 1 .. Len(s) + 1
  BY <1>5, SeqElim
<1>8. Serves(t, f)
  BY <1>1, <1>3, <1>4, <1>6, <1>7 DEF AllClosed, Serves
<1> QED
  BY <1>2, <1>8

\* The effects run: the list is emptied with the filter that changes.
LEMMA EffectsFilter ==
    ASSUME TailInv, FilterInv, NEW new \in BOOLEAN, NEW p \in Expressions, Effects(new, p), Render,
           mounted' = TRUE, filter' = filter,
           new => p = "", ~new => mounted /\ p = prev
    PROVE  FilterInv'
<1> DEFINE changes == new \/ dirty
           restart == changes /\ FilterChanged(p) /\ IsValid(filter)
           seen == IF changes THEN filter ELSE p
           initial == /\ \/ new
                         \/ flags.initial # rendered.flags.initial
                         \/ flags.loading # rendered.flags.loading
                      /\ flags.initial /\ ~flags.loading
           once == IF restart THEN Start(conns, filter) ELSE conns
<1>1. /\ conns' = IF initial THEN Start(once, filter) ELSE once
      /\ prev' = IF initial /\ IsValid(filter) THEN filter ELSE seen
      /\ logs' = IF restart THEN <<>> ELSE logs
      /\ batch' = IF restart THEN <<>> ELSE batch
  BY DEF Effects, ClearBatch
<1>2. rendered'.filter = filter /\ dirty' = FALSE
  BY DEF Render
<1>3. conns \in Seq(Conn) /\ filter \in Expressions
  BY DEF TailInv, TypeOK
<1>4. OnlyLast(conns) /\ NothingDue(conns)
  BY DEF TailInv, ConnInv, OneConnection, Unclosed, Ref, OnlyLast, DueInv
<1>5. seen = filter
  BY DEF FilterInv, SeenInv
<1>6. restart \/ ~IsValid(filter) \/ (mounted /\ prev = filter)
  BY DEF FilterChanged, FilterInv, SeenInv
<1>7. once \in Seq(Conn) /\ OnlyLast(once) /\ NothingDue(once)
  BY <1>3, <1>4, StartStarts
<1> HIDE DEF changes, restart, seen, initial
<1>8. SeenInv'
  BY <1>1, <1>2, <1>5 DEF SeenInv
<1>9. ASSUME IsValid(filter)
      PROVE  Only(batch', filter) /\ Only(logs', filter) /\ Serves(once, filter)
  <2>1. CASE restart
    <3>1. Serves(once, filter)
      BY <1>3, <1>4, <1>9, <2>1, StartServes
    <3>2. batch' = <<>> /\ logs' = <<>>
      BY <1>1, <2>1
    <3> QED
      BY <3>1, <3>2, EmptyOnly
  <2>2. CASE ~restart
    BY <1>1, <1>6, <1>9, <2>2 DEF FilterInv, MatchInv
  <2> QED
    BY <2>1, <2>2
<1> HIDE DEF once
<1>10. ASSUME IsValid(filter) PROVE Serves(conns', filter)
  BY <1>1, <1>3, <1>7, <1>9, <1>10, StartServes
<1>11. MatchInv'
  BY <1>1, <1>5, <1>9, <1>10 DEF MatchInv, IsValid
<1> QED
  BY <1>8, <1>11 DEF FilterInv

\* A step of the query, the provider or a connection that leaves the list alone.
LEMMA FilterKept ==
    ASSUME FilterInv, UNCHANGED <<dirty, rendered, filter, mounted, prev, batch, logs>>,
           mounted /\ IsValid(prev) => Serves(conns', prev)
    PROVE  FilterInv'
  BY DEF FilterInv, SeenInv, MatchInv

\* A connection that changes keeps its filter.
LEMMA ServesReplaced ==
    ASSUME TailInv, NEW i \in DOMAIN conns, NEW c \in Conn, Unclosed(i),
           conns' = [conns EXCEPT ![i] = c], c.filter = conns[i].filter,
           NEW f, Serves(conns, f)
    PROVE  Serves(conns', f)
<1>1. conns \in Seq(Conn)
  BY DEF TailInv, TypeOK
<1> QED
  BY <1>1, OneReplaced DEF Serves, Unclosed

\* A row from a connection joins the batch with the connection's filter.
LEMMA DeliverFilter ==
    ASSUME TailInv, FilterInv, NEW i \in DOMAIN conns, NEW n \in conns[i].due, Deliver(i, n)
    PROVE  FilterInv'
<1> DEFINE c == [conns[i] EXCEPT !.after = n, !.due = conns[i].due \ {n}]
<1>1. UNCHANGED <<filter, dirty, rendered, mounted, prev, logs>>
  BY DEF Deliver, reactVars
<1>2. conns \in Seq(Conn) /\ batch \in Seq(Log)
  BY DEF TailInv, TypeOK
<1>3. conns[i] \in Conn
  BY <1>2, SeqElim
<1>4. conns[i].due \subseteq Nat /\ conns[i].filter \in Expressions
  BY <1>3, ConnFields
<1>5. c \in Conn /\ c.filter = conns[i].filter
  BY <1>3, <1>4 DEF Conn
<1>6. conns' = [conns EXCEPT ![i] = c]
  BY <1>2, <1>3 DEF Deliver, Conn
<1> HIDE DEF c
<1>7. Unclosed(i)
  BY DEF TailInv, ConnInv, DueInv, NothingDue, Unclosed
<1>8. ASSUME mounted, IsValid(prev)
      PROVE  Only(batch', prev) /\ Only(logs', prev) /\ Serves(conns', prev)
  <2>1. Only(batch, prev) /\ Only(logs, prev) /\ Serves(conns, prev)
    BY <1>8 DEF FilterInv, MatchInv
  <2>2. conns[i].filter = prev
    BY <1>7, <2>1 DEF Serves, Unclosed
  <2>3. Serves(conns', prev)
    BY <1>5, <1>6, <1>7, <2>1, ServesReplaced
  <2>4. Only(batch', prev)
    <3>1. CASE UNCHANGED <<batch, flush>>
      BY <2>1, <3>1
    <3>2. CASE batch' = Append(batch, [row |-> n, filter |-> conns[i].filter])
      <4> DEFINE e == [row |-> n, filter |-> conns[i].filter]
      <4>1. e \in Log /\ e.filter = prev
        BY <1>4, <2>2 DEF Log
      <4> HIDE DEF e
      <4>2. batch' = Append(batch, e)
        BY <3>2 DEF e
      <4>3. Len(batch) \in Nat /\ DOMAIN batch = 1 .. Len(batch)
        BY <1>2, SeqElim
      <4>4. /\ batch' \in Seq(Log) /\ Len(batch') = Len(batch) + 1
            /\ batch'[Len(batch) + 1] = e /\ \A j \in 1 .. Len(batch) : batch'[j] = batch[j]
        BY <1>2, <4>1, <4>2
      <4>5. DOMAIN batch' = 1 .. Len(batch) + 1
        BY <4>4, SeqElim
      <4> QED
        BY <2>1, <4>1, <4>3, <4>4, <4>5 DEF Only
    <3> QED
      BY <3>1, <3>2 DEF Deliver
  <2> QED
    BY <1>1, <2>1, <2>3, <2>4
<1> QED
  BY <1>1, <1>8 DEF FilterInv, SeenInv, MatchInv

\* A list of one filter stays one when it is turned round, joined or cut.
LEMMA OnlyMerged ==
    ASSUME NEW b \in Seq(Log), NEW l \in Seq(Log), NEW f, Only(b, f), Only(l, f)
    PROVE  Reverse(b) \o l \in Seq(Log) /\ Only(Reverse(b) \o l, f)
<1> DEFINE r == Reverse(b)
           s == r \o l
<1>1. Len(b) \in Nat /\ DOMAIN b = 1 .. Len(b) /\ \A j \in DOMAIN b : b[j] \in Log
  BY SeqElim
<1>2. Len(l) \in Nat /\ DOMAIN l = 1 .. Len(l)
  BY SeqElim
<1>3. r \in [1 .. Len(b) -> Log] /\ \A j \in 1 .. Len(b) : r[j] = b[Len(b) + 1 - j]
  BY <1>1 DEF Reverse
<1> HIDE DEF r
<1>4. r \in Seq(Log) /\ Len(r) = Len(b)
  BY <1>1, <1>3, SeqIntro
<1>5. /\ s \in Seq(Log) /\ Len(s) = Len(r) + Len(l)
      /\ \A j \in 1 .. Len(r) + Len(l) : s[j] = IF j <= Len(r) THEN r[j] ELSE l[j - Len(r)]
  BY <1>4, ConcatProperties, Zenon
<1> HIDE DEF s
<1>6. DOMAIN s = 1 .. Len(s)
  BY <1>5, SeqElim
<1>7. \A j \in 1 .. Len(b) : r[j].filter = f
  <2>1. \A j \in 1 .. Len(b) : Len(b) + 1 - j \in DOMAIN b
    BY <1>1
  <2> QED
    BY <1>3, <2>1 DEF Only
<1>8. ASSUME NEW j \in DOMAIN s PROVE s[j].filter = f
  <2>1. CASE j <= Len(b)
    BY <1>1, <1>2, <1>4, <1>5, <1>6, <1>7, <2>1
  <2>2. CASE ~(j <= Len(b))
    <3>1. j - Len(b) \in DOMAIN l /\ s[j] = l[j - Len(b)]
      BY <1>1, <1>2, <1>4, <1>5, <1>6, <2>2
    <3> QED
      BY <3>1 DEF Only
  <2> QED
    BY <2>1, <2>2
<1> QED
  BY <1>5, <1>8 DEF Only, s, r

LEMMA OnlyTruncated ==
    ASSUME NEW s \in Seq(Log), NEW f, Only(s, f)
    PROVE  Only(Truncate(s), f)
<1>1. Len(s) \in Nat /\ DOMAIN s = 1 .. Len(s) /\ \A j \in DOMAIN s : s[j] \in Log
  BY SeqElim
<1>2. MaxListSize \in Nat \ {0}
  BY LiveTailAssumption
<1>3. CASE Len(s) > MaxListSize
  <2> DEFINE t == SubSeq(s, 1, MaxListSize)
  <2>1. Truncate(s) = t
    BY <1>3 DEF Truncate
  <2>2. \A j \in 1 .. MaxListSize : j \in DOMAIN s /\ s[j] \in Log
    BY <1>1, <1>2, <1>3
  <2>3. /\ t \in Seq(Log)
        /\ Len(t) = IF 1 <= MaxListSize THEN MaxListSize - 1 + 1 ELSE 0
        /\ \A j \in 1 .. MaxListSize - 1 + 1 : t[j] = s[1 + j - 1]
    BY <1>2, <2>2, SubSeqProperties
  <2> HIDE DEF t
  <2>4. MaxListSize - 1 + 1 = MaxListSize /\ 1 <= MaxListSize
    BY <1>2
  <2>5. \A j \in 1 .. MaxListSize : 1 + j - 1 = j
    BY <1>2
  <2>6. \A j \in 1 .. MaxListSize : t[j] = s[j]
    BY <2>3, <2>4, <2>5
  <2>7. DOMAIN t = 1 .. MaxListSize
    BY <2>3, <2>4, SeqElim
  <2> QED
    BY <2>1, <2>2, <2>6, <2>7 DEF Only
<1>4. CASE ~(Len(s) > MaxListSize)
  BY <1>4 DEF Truncate
<1> QED
  BY <1>3, <1>4

LEMMA UpdateLogsFilter == ASSUME TailInv, FilterInv, UpdateLogs PROVE FilterInv'
<1>1. /\ logs' = Truncate(Reverse(batch) \o logs) /\ batch' = <<>>
      /\ UNCHANGED <<conns, filter, dirty, rendered, mounted, prev>>
  BY DEF UpdateLogs, sourceVars, reactVars
<1>2. batch \in Seq(Log) /\ logs \in Seq(Log)
  BY DEF TailInv, TypeOK
<1>3. \A f : Only(batch, f) /\ Only(logs, f) => Only(logs', f)
  BY <1>1, <1>2, OnlyMerged, OnlyTruncated
<1>4. \A f : Only(batch', f)
  BY <1>1, EmptyOnly
<1> QED
  BY <1>1, <1>3, <1>4 DEF FilterInv, SeenInv, MatchInv

\* What a connection does by itself leaves its filter alone.
LEMMA ConnFilter ==
    ASSUME TailInv, FilterInv, NEW i \in DOMAIN conns,
           \/ HandleOpenConnection(i)
           \/ \E state \in {"connecting", "open", "closed"} : HandleErrorConnection(i, state)
           \/ Poll(i)
    PROVE  FilterInv'
<1>1. UNCHANGED <<dirty, rendered, filter, mounted, prev, batch, logs>>
  BY DEF HandleOpenConnection, HandleErrorConnection, Poll, reactVars, listVars
<1>2. Unclosed(i)
  BY DEF HandleOpenConnection, HandleErrorConnection, Poll, Unclosed
<1>3. conns \in Seq(Conn) /\ now \in Nat
  BY DEF TailInv, TypeOK
<1>4. conns[i] \in Conn
  BY <1>3, SeqElim
<1>5. PICK c \in Conn : conns' = [conns EXCEPT ![i] = c] /\ c.filter = conns[i].filter
  <2>1. CASE HandleOpenConnection(i)
    <3> DEFINE c == [conns[i] EXCEPT !.state = "open", !.after = now]
    <3>1. c \in Conn /\ c.filter = conns[i].filter
      BY <1>3, <1>4 DEF Conn
    <3>2. conns' = [conns EXCEPT ![i] = c]
      BY <1>3, <1>4, <2>1 DEF HandleOpenConnection, ParseStart, Conn
    <3> QED
      BY <3>1, <3>2
  <2>2. CASE \E state \in {"connecting", "open", "closed"} : HandleErrorConnection(i, state)
    <3>1. PICK state \in {"connecting", "open", "closed"} : HandleErrorConnection(i, state)
      BY <2>2
    <3> DEFINE c == [conns[i] EXCEPT !.state = state,
                                     !.due = IF state = "open" THEN conns[i].due ELSE {}]
    <3>2. c \in Conn /\ c.filter = conns[i].filter
      BY <1>4 DEF Conn
    <3>3. conns' = [conns EXCEPT ![i] = c]
      BY <1>3, <1>4, <3>1 DEF HandleErrorConnection, Conn
    <3> QED
      BY <3>2, <3>3
  <2>3. CASE Poll(i)
    <3> DEFINE c == [conns[i] EXCEPT !.due = Read(i)]
    <3>1. \A n \in Read(i) : n \in Nat
      BY <1>3 DEF TailInv, TypeOK, Read, Readable
    <3>2. c \in Conn /\ c.filter = conns[i].filter
      BY <1>4, <3>1 DEF Conn
    <3>3. conns' = [conns EXCEPT ![i] = c]
      BY <1>3, <1>4, <2>3 DEF Poll, Conn
    <3> QED
      BY <3>2, <3>3
  <2> QED
    BY <2>1, <2>2, <2>3
<1>6. \A f : Serves(conns, f) => Serves(conns', f)
  BY <1>2, <1>5, ServesReplaced
<1> QED
  BY <1>1, <1>6, FilterKept DEF FilterInv, MatchInv

\* The timer, the button and a failed rotation: closed, or started with the filter on show.
LEMMA RestartFilter ==
    ASSUME TailInv, FilterInv, ReconnectTimer \/ OnLiveButtonClick \/ RotationFails
    PROVE  FilterInv'
<1>1. UNCHANGED <<dirty, rendered, filter, mounted, prev, batch, logs>>
  BY DEF ReconnectTimer, OnLiveButtonClick, RotationFails, reactVars, listVars
<1>2. conns \in Seq(Conn) /\ OnlyLast(conns) /\ NothingDue(conns) /\ prev \in Expressions
  BY DEF TailInv, TypeOK, ConnInv, OneConnection, Unclosed, Ref, OnlyLast, DueInv
<1>3. ASSUME mounted PROVE conns' = Close(conns) \/ conns' = Start(conns, prev)
  BY <1>3 DEF FilterInv, SeenInv, ReconnectTimer, OnLiveButtonClick, RotationFails
<1>4. mounted /\ IsValid(prev) => Serves(conns', prev)
  BY <1>2, <1>3, CloseServes, StartServes
<1> QED
  BY <1>1, <1>4, FilterKept

LEMMA FilterInit == ASSUME Init PROVE FilterInv
<1>1. rendered.filter = filter /\ ~mounted
  BY DEF Init
<1> QED
  BY <1>1 DEF FilterInv, SeenInv, MatchInv

\* Every step keeps the invariant.
LEMMA FilterNext == ASSUME TailInv, FilterInv, [Next]_vars PROVE FilterInv'
<1>1. CASE Mount
  <2>1. "" \in Expressions
    BY DEF Expressions
  <2> QED
    BY <1>1, <2>1, EffectsFilter DEF Mount
<1>2. CASE Commit
  <2>1. CASE mounted /\ Effects(FALSE, prev)
    BY <1>2, <2>1, EffectsFilter DEF Commit, TailInv, TypeOK
  <2>2. CASE ~mounted
    BY <1>2, <2>2 DEF Commit, Render, FilterInv, SeenInv, MatchInv
  <2> QED
    BY <1>2, <2>1, <2>2 DEF Commit
<1>3. CASE Unmount
  BY <1>3 DEF Unmount, FilterInv, SeenInv, MatchInv
<1>4. CASE ReconnectTimer \/ OnLiveButtonClick \/ RotationFails
  BY <1>4, RestartFilter
<1>5. ASSUME NEW f \in Expressions, ChangeQuery(f) PROVE FilterInv'
  BY <1>5 DEF ChangeQuery, sourceVars, listVars, FilterInv, SeenInv, MatchInv
<1>6. ASSUME NEW i \in DOMAIN conns,
             \/ HandleOpenConnection(i)
             \/ \E state \in {"connecting", "open", "closed"} : HandleErrorConnection(i, state)
             \/ Poll(i)
             \/ \E n \in conns[i].due : Deliver(i, n)
      PROVE  FilterInv'
  BY <1>6, ConnFilter, DeliverFilter
<1>7. CASE RotationSucceeds \/ Tick \/ \E n \in 1 .. now : Store(n)
  BY <1>7, FilterKept
     DEF RotationSucceeds, Tick, Store, sourceVars, reactVars, listVars, FilterInv, MatchInv
<1>8. CASE UpdateLogs
  BY <1>8, UpdateLogsFilter
<1>9. CASE UNCHANGED vars
  BY <1>9, FilterKept DEF vars, sourceVars, reactVars, listVars, FilterInv, MatchInv
<1> QED
  BY <1>1, <1>2, <1>3, <1>4, <1>5, <1>6, <1>7, <1>8, <1>9 DEF Next

LEMMA FilterAlways == Spec => [](TailInv /\ FilterInv)
  BY TailInit, TailNext, FilterInit, FilterNext, PTL DEF Spec

(***************************************************************************)
(* The list never mixes filters: however changes of the query, effects, the *)
(* reconnect timer, clicks and late rows interleave, what is shown under a  *)
(* valid filter came over a connection opened with it.                      *)
(***************************************************************************)
THEOREM ShownMatchesFilter == Spec => []ShownLogsMatchFilter
<1>1. ASSUME TailInv, FilterInv PROVE ShownLogsMatchFilter
  <2>1. batch \in Seq(Log) /\ logs \in Seq(Log)
    BY <1>1 DEF TailInv, TypeOK
  <2>2. ASSUME mounted, ~dirty, IsValid(filter) PROVE Only(Reverse(batch) \o logs, filter)
    <3>1. Only(batch, filter) /\ Only(logs, filter)
      BY <1>1, <2>2 DEF FilterInv, SeenInv, MatchInv
    <3> QED
      BY <2>1, <3>1, OnlyMerged
  <2> QED
    BY <2>2 DEF Only, ShownLogsMatchFilter, Shown
<1> QED
  BY <1>1, FilterAlways, PTL
=============================================================================
