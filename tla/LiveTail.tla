------------------------------ MODULE LiveTail ------------------------------
(***************************************************************************)
(* Live log tailing, from the server's stream (pkg/livelogs/handler.go) to  *)
(* the list on the page (LiveLogsContainer) through the EventSource         *)
(* provider and its polyfill.  React runs handlers at once and effects only *)
(* when a render commits: `flags` is the provider's state as the handlers   *)
(* have set it, `rendered` what the last commit saw, and what the click     *)
(* handler and the timer still see.  The provider outlives the container.   *)
(*                                                                          *)
(* A log row is its place in the (timestamp, id) order the stream reads by; *)
(* rows may be stored late, behind rows that were sent.                     *)
(***************************************************************************)
EXTENDS Naturals, Sequences, FiniteSets

CONSTANTS
    Filters,      \* the valid filter expressions other than the empty one
    BatchSize,    \* rows a stream reads at a time
    MaxListSize,  \* MAX_LOGS_LIST_SIZE
    MaxRows,      \* bound on the rows
    MaxConns,     \* bound on the connections opened before the user stops
    MaxRotations  \* bound on the rotations pending

ASSUME LiveTailAssumption ==
    /\ "" \notin Filters /\ "invalid" \notin Filters
    /\ BatchSize \in Nat \ {0} /\ MaxListSize \in Nat \ {0}
    /\ MaxRows \in Nat /\ MaxConns \in Nat /\ MaxRotations \in Nat

VARIABLES
    now,       \* server: the newest place a row may have
    stored,    \* server: the rows in the table
    conns,     \* every EventSource made; the last is eventSourceRef.current
    flags,     \* the provider's state
    rotating,  \* calls of handleErrorConnection waiting for their rotation
    filter,    \* the filter expression of currentQuery
    dirty,     \* currentQuery changed since the last commit
    rendered,  \* flags and filter at the last commit
    instance,  \* eventSourceInstance of the context, 0 for null
    mounted,   \* the container is mounted
    prev,      \* prevFilterExpressionRef, "" for null
    timer,     \* the reconnect timer is armed
    batch,     \* batchedEventsRef
    flush,     \* debouncedUpdateLogs is pending
    logs       \* the list shown

serverVars == <<now, stored>>
sourceVars == <<conns, flags, rotating>>
reactVars == <<filter, dirty, rendered, instance, mounted, prev, timer>>
listVars == <<batch, flush, logs>>
vars == <<serverVars, sourceVars, reactVars, listVars>>

Expressions == Filters \cup {"", "invalid"}
IsValid(f) == f # "invalid"

Flags == [open : BOOLEAN, loading : BOOLEAN, error : BOOLEAN,
          reconnect : BOOLEAN, initial : BOOLEAN]
Conn == [filter : {f \in Expressions : IsValid(f)}, state : {"connecting", "open", "closed"},
         after : Nat, due : SUBSET Nat]
Log == [row : Nat, filter : Expressions]

TypeOK ==
    /\ now \in Nat /\ stored \subseteq 1 .. now
    /\ conns \in Seq(Conn)
    /\ flags \in Flags
    /\ rotating \in Nat
    /\ filter \in Expressions /\ dirty \in BOOLEAN
    /\ rendered \in [flags : Flags, filter : Expressions]
    /\ instance \in 0 .. Len(conns)
    /\ mounted \in BOOLEAN /\ prev \in Expressions /\ timer \in BOOLEAN
    /\ batch \in Seq(Log) /\ flush \in BOOLEAN /\ logs \in Seq(Log)

InitFlags == [open |-> FALSE, loading |-> FALSE, error |-> FALSE,
              reconnect |-> FALSE, initial |-> TRUE]

Init ==
    /\ now = 0 /\ stored = {}
    /\ conns = <<>> /\ flags = InitFlags /\ rotating = 0
    /\ filter \in Expressions /\ dirty = FALSE
    /\ rendered = [flags |-> InitFlags, filter |-> filter]
    /\ instance = 0 /\ mounted = FALSE /\ prev = "" /\ timer = FALSE
    /\ batch = <<>> /\ flush = FALSE /\ logs = <<>>

----------------------------------------------------------------------------
(* The provider's functions *)

Ref == Len(conns)

\* handleCloseConnection: the state, and destroyEventSourceSession.
CloseFlags(fl) == [fl EXCEPT !.open = FALSE, !.loading = FALSE, !.error = FALSE]
Close(cs) ==
    [i \in DOMAIN cs |-> IF i = Len(cs)
                         THEN [cs[i] EXCEPT !.state = "closed", !.due = {}]
                         ELSE cs[i]]

\* handleStartOpenConnection.
OpenFlags(fl) == [fl EXCEPT !.loading = TRUE, !.error = FALSE, !.reconnect = FALSE]
Open(cs, f) ==
    Append(cs, [filter |-> f, state |-> "connecting", after |-> 0, due |-> {}])

\* Seeded fault: the old connection is left open.
StartBeside(cs, f) == Open(cs, IF IsValid(f) THEN f ELSE "")

\* Seeded fault: the expression is sent as it is.
StartUnchecked(cs, f) == Open(Close(cs), f)

\* handleStartNewConnection; an invalid expression is sent as none.
StartFlags(fl) == OpenFlags(CloseFlags(fl))
Start(cs, f) == Open(Close(cs), IF IsValid(f) THEN f ELSE "")

----------------------------------------------------------------------------
(* The container: renders and their effects *)

\* The effect on currentQuery: null is taken for a changed filter.
FilterChanged(previous) == previous = "" \/ previous # filter

\* Seeded fault: what waits for the debounce survives a change of the filter.
ClearBatchNot(restart) == batch

ClearBatch(restart) == IF restart THEN <<>> ELSE batch

(***************************************************************************)
(* A commit of the container.  The context's instance is read from the ref  *)
(* when the provider's state changed.  Then the effects run whose inputs    *)
(* changed, all of them when the container is new: the one on currentQuery, *)
(* the one on [initialLoading, isConnectionLoading], and the one that arms  *)
(* the reconnect timer; what they set is rendered by the next commit.       *)
(***************************************************************************)
Effects(new, previous) ==
    LET changes == new \/ dirty
        restart == changes /\ FilterChanged(previous) /\ IsValid(filter)
        seen == IF changes THEN filter ELSE previous
        initial == /\ \/ new
                      \/ flags.initial # rendered.flags.initial
                      \/ flags.loading # rendered.flags.loading
                   /\ flags.initial /\ ~flags.loading
        once == IF restart THEN Start(conns, filter) ELSE conns
    IN /\ conns' = IF initial THEN Start(once, filter) ELSE once
       /\ flags' = IF restart \/ initial THEN StartFlags(flags) ELSE flags
       /\ prev' = IF initial /\ IsValid(filter) THEN filter ELSE seen
       /\ timer' = IF \/ changes
                      \/ flags.error # rendered.flags.error
                      \/ flags.reconnect # rendered.flags.reconnect
                   THEN flags.error /\ flags.reconnect
                   ELSE timer
       /\ logs' = IF restart THEN <<>> ELSE logs
       /\ batch' = ClearBatch(restart)
       /\ UNCHANGED flush

\* Seeded fault: the context is computed once.
RenderOnce ==
    /\ rendered' = [flags |-> flags, filter |-> filter]
    /\ instance' = IF instance = 0 THEN Ref ELSE instance
    /\ dirty' = FALSE

Render ==
    /\ rendered' = [flags |-> flags, filter |-> filter]
    /\ instance' = IF flags # rendered.flags THEN Ref ELSE instance
    /\ dirty' = FALSE

Mount ==
    /\ ~mounted
    /\ Ref < MaxConns
    /\ mounted' = TRUE
    /\ Render
    /\ Effects(TRUE, "")
    /\ UNCHANGED <<filter, rotating, serverVars>>

Pending == dirty \/ flags # rendered.flags

Commit ==
    /\ Pending
    /\ Render
    /\ \/ mounted /\ Effects(FALSE, prev)
       \/ ~mounted /\ UNCHANGED <<conns, flags, prev, timer, listVars>>
    /\ UNCHANGED <<filter, mounted, rotating, serverVars>>

\* The container goes, its refs and state with it; its cleanups close the
\* connection and clear the timer.
Unmount ==
    /\ mounted
    /\ mounted' = FALSE
    /\ conns' = Close(conns)
    /\ flags' = CloseFlags(flags)
    /\ prev' = "" /\ timer' = FALSE
    /\ logs' = <<>> /\ batch' = <<>> /\ flush' = FALSE
    /\ UNCHANGED <<filter, dirty, rendered, instance, rotating, serverVars>>

\* The reconnect timer: the ref, or else the filter the effect saw.
ReconnectTimer ==
    /\ timer
    /\ timer' = FALSE
    /\ conns' = Start(conns, IF prev # "" THEN prev ELSE rendered.filter)
    /\ flags' = StartFlags(flags)
    /\ UNCHANGED <<rotating, filter, dirty, rendered, instance, mounted, prev,
                   listVars, serverVars>>

----------------------------------------------------------------------------
(* The user *)

\* currentQuery changes, in its filter or in another part.
ChangeQuery(f) ==
    /\ Ref < MaxConns
    /\ filter' = f
    /\ dirty' = TRUE
    /\ UNCHANGED <<rendered, instance, mounted, prev, timer, sourceVars, listVars, serverVars>>

\* onLiveButtonClick, on what the last render showed.
OnLiveButtonClick ==
    LET kept == IF rendered.flags.initial THEN [flags EXCEPT !.initial = FALSE] ELSE flags
        playing == rendered.flags.open \/ rendered.flags.loading
    IN /\ mounted
       /\ Ref < MaxConns
       /\ conns' = IF playing THEN Close(conns) ELSE Start(conns, rendered.filter)
       /\ flags' = IF playing THEN CloseFlags(kept) ELSE StartFlags(kept)
       /\ UNCHANGED <<rotating, reactVars, listVars, serverVars>>

----------------------------------------------------------------------------
(* The EventSource and the server's stream *)

Unclosed(i) == conns[i].state # "closed"

\* parseStart, without a start parameter: the present.  Places within the same
\* millisecond that come after an answer count as later ones.
ParseStartZero == 0  \* seeded fault: all there is
ParseStart == now

\* The server answers, from its present time on, and handleOpenConnection
\* runs.  A render is over long before the network answers.
HandleOpenConnection(i) ==
    /\ conns[i].state = "connecting"
    /\ ~Pending
    /\ conns' = [conns EXCEPT ![i].state = "open", ![i].after = ParseStart]
    /\ flags' = [flags EXCEPT !.loading = FALSE, !.open = TRUE, !.initial = FALSE]
    /\ UNCHANGED <<rotating, reactVars, listVars, serverVars>>

\* An error: sent by the server as an event, after which the connection may
\* linger; a loss the EventSource retries by itself; or one it gives up at.
\* handleErrorConnection runs up to its await.
HandleErrorConnection(i, state) ==
    /\ Unclosed(i)
    /\ state = "open" => conns[i].state = "open"
    /\ conns[i].state = "connecting" => ~Pending
    /\ Ref < MaxConns /\ rotating < MaxRotations
    /\ conns' = [conns EXCEPT ![i].state = state,
                              ![i].due = IF state = "open" THEN @ ELSE {}]
    /\ flags' = [flags EXCEPT !.open = FALSE, !.loading = TRUE, !.initial = FALSE]
    /\ rotating' = rotating + 1
    /\ UNCHANGED <<reactVars, listVars, serverVars>>

\* The rest of handleErrorConnection.
RotationSucceeds ==
    /\ rotating > 0
    /\ rotating' = rotating - 1
    /\ flags' = [flags EXCEPT !.reconnect = TRUE, !.error = TRUE]
    /\ UNCHANGED <<conns, reactVars, listVars, serverVars>>

RotationFails ==
    /\ rotating > 0
    /\ rotating' = rotating - 1
    /\ flags' = [flags EXCEPT !.error = TRUE]
    /\ conns' = Close(conns)
    /\ UNCHANGED <<reactVars, listVars, serverVars>>

Tick ==
    /\ now < MaxRows
    /\ now' = now + 1
    /\ UNCHANGED <<stored, sourceVars, reactVars, listVars>>
Store(n) ==
    /\ n \notin stored
    /\ stored' = stored \cup {n}
    /\ UNCHANGED <<now, sourceVars, reactVars, listVars>>

\* Handler.read: the next rows behind the cursor.
Readable(i) == {n \in stored : n > conns[i].after}

\* Seeded fault: the newest rows are read, and the cursor passes the others.
ReadNewest(i) == {n \in Readable(i) :
                    Cardinality({m \in Readable(i) : m > n}) < BatchSize}

Read(i) == {n \in Readable(i) :
              Cardinality({m \in Readable(i) : m < n}) < BatchSize}

\* writeBatch: the rows read are sent one by one, and the cursor follows.
Poll(i) ==
    /\ conns[i].state = "open" /\ conns[i].due = {}
    /\ Readable(i) # {}
    /\ conns' = [conns EXCEPT ![i].due = Read(i)]
    /\ UNCHANGED <<flags, rotating, reactVars, listVars, serverVars>>

\* handleGetLiveLogs, when the listener is on this EventSource by now.
Deliver(i, n) ==
    /\ n \in conns[i].due
    /\ \A m \in conns[i].due : n <= m
    /\ conns' = [conns EXCEPT ![i].after = n, ![i].due = @ \ {n}]
    /\ \/ /\ mounted /\ instance = i
          /\ batch' = Append(batch, [row |-> n, filter |-> conns[i].filter])
          /\ flush' = TRUE
       \/ /\ ~(mounted /\ instance = i)
          /\ UNCHANGED <<batch, flush>>
    /\ UNCHANGED <<flags, rotating, logs, reactVars, serverVars>>

Reverse(s) == [i \in DOMAIN s |-> s[Len(s) + 1 - i]]
Truncate(s) == IF Len(s) > MaxListSize THEN SubSeq(s, 1, MaxListSize) ELSE s

\* debouncedUpdateLogs: no message for half a second.
UpdateLogs ==
    /\ flush
    /\ flush' = FALSE
    /\ logs' = Truncate(Reverse(batch) \o logs)
    /\ batch' = <<>>
    /\ UNCHANGED <<sourceVars, reactVars, serverVars>>

----------------------------------------------------------------------------
Next ==
    \/ Mount \/ Commit \/ Unmount \/ ReconnectTimer
    \/ \E f \in Expressions : ChangeQuery(f)
    \/ OnLiveButtonClick
    \/ \E i \in DOMAIN conns :
          \/ HandleOpenConnection(i)
          \/ \E state \in {"connecting", "open", "closed"} : HandleErrorConnection(i, state)
          \/ Poll(i)
          \/ \E n \in conns[i].due : Deliver(i, n)
    \/ RotationSucceeds \/ RotationFails
    \/ Tick
    \/ \E n \in 1 .. now : Store(n)
    \/ UpdateLogs

Spec == Init /\ [][Next]_vars

(***************************************************************************)
(* Fairness: React commits what is pending, timers fire (the reconnect      *)
(* timer's second and the half second of the debounce pass between two      *)
(* changes of the query and between two polls), a rotation is answered, and *)
(* the server polls and sends.  No connection has to open or to fail, and   *)
(* the user has to do nothing.                                              *)
(***************************************************************************)
Fairness ==
    /\ WF_vars(Commit)
    /\ WF_vars(ReconnectTimer)
    /\ WF_vars(RotationSucceeds \/ RotationFails)
    /\ WF_vars(\E i \in DOMAIN conns : Poll(i))
    /\ WF_vars(\E i \in DOMAIN conns : \E n \in conns[i].due : Deliver(i, n))
    /\ WF_vars(UpdateLogs)

FairSpec == Spec /\ Fairness

----------------------------------------------------------------------------
(* Properties *)

(***************************************************************************)
(* At most one stream is open, the one eventSourceRef names, and none once  *)
(* the container is gone: whatever effects, timer, clicks and late          *)
(* rotations start, each connection is closed by its successor.             *)
(***************************************************************************)
OneConnection == \A i \in DOMAIN conns : Unclosed(i) => i = Ref /\ mounted

Shown == Reverse(batch) \o logs

(***************************************************************************)
(* The list never mixes filters: while the filter on the page is valid, all *)
(* that is listed or waiting for the debounce came over a connection opened *)
(* with that filter (the effect on currentQuery, the reconnect timer).      *)
(***************************************************************************)
ShownLogsMatchFilter ==
    mounted /\ ~dirty /\ IsValid(filter) =>
        \A j \in DOMAIN Shown : Shown[j].filter = filter

(***************************************************************************)
(* The list is newest first and shows no row twice, across batches, lost    *)
(* connections and rows stored late (updateLogs, the stream's cursor, the   *)
(* start of a new stream).                                                  *)
(***************************************************************************)
ShownInOrder ==
    \A j, k \in DOMAIN Shown : j < k => Shown[j].row > Shown[k].row

(***************************************************************************)
(* Once a connection is shown as open, the message listener is on it: the   *)
(* memoised context never leaves the container listening to a closed        *)
(* EventSource (contextValue, useEventSourceEvent).                         *)
(***************************************************************************)
ListenerFollowsConnection ==
    mounted /\ ~Pending /\ flags.open => instance = Ref

\* A row the current stream has yet to read, ahead of all it has read.
Ahead(n) ==
    /\ mounted /\ conns # <<>> /\ instance = Ref /\ conns[Ref].state = "open"
    /\ n \in stored /\ n > conns[Ref].after
    /\ \A m \in conns[Ref].due : m < n

Listed(n) == \E j \in DOMAIN logs : logs[j].row = n
CrowdedOut(n) == Len(logs) = MaxListSize /\ \A j \in DOMAIN logs : logs[j].row > n

(***************************************************************************)
(* A row stored ahead of the stream's cursor is itself listed, or crowded   *)
(* out by a full list of newer ones, as long as the stream stays open: the  *)
(* cursor skips no row (read's order and limit, writeBatch,                 *)
(* handleGetLiveLogs, the debounce).                                        *)
(***************************************************************************)
StoredRowsAreShown ==
    \A n \in 1 .. MaxRows :
        Ahead(n) ~> \/ Listed(n) \/ CrowdedOut(n)
                   \/ conns = <<>> \/ instance # Ref
                   \/ conns[Ref].state # "open"

(***************************************************************************)
(* What handleErrorConnection says of a rotation that succeeds ("we'll let  *)
(* the component handle reconnection through the reconnectDueToError        *)
(* state"): a tail whose connection is gone does not stay dead with that    *)
(* state set, unless the user stops or leaves it.                           *)
(***************************************************************************)
ErrorRecovers ==
    (mounted /\ flags.error /\ flags.reconnect /\ flags.loading /\ ~Unclosed(Ref))
        ~> (~mounted \/ ~flags.error \/ Unclosed(Ref))
=============================================================================
