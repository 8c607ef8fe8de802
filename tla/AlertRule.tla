------------------------------ MODULE AlertRule ------------------------------
(***************************************************************************)
(* One threshold rule of the query-service, evaluated by its RuleTask:     *)
(* the Active map of ThresholdRule.Eval, the notifications SendAlerts      *)
(* hands to the Alertmanager, and the rows RecordRuleStateHistory keeps.   *)
(*                                                                         *)
(* Times are evaluation timestamps; 0 is Go's zero time.  A key of the     *)
(* Active map is the label set of an alert: a series (with its threshold   *)
(* name), or a missing-data alert, whose labels carry the time data was    *)
(* last seen.  The value of a series is abstracted to its grade: whether   *)
(* it meets the target, only the recovery target, or neither.              *)
(***************************************************************************)
EXTENDS Integers

CONSTANTS
    Series,             \* label sets a sample of the query can carry
    Identities,         \* name+labels values the rule can be edited to
    Grades,             \* grades a threshold of this rule can give
    Intervals,          \* frequencies the rule can be edited to
    TaskHash,           \* RuleTask.hash(), the same for every task of the rule
    ResendDelay,        \* ManagerOptions.ResendDelay
    ResolvedRetention,  \* ruletypes.ResolvedRetention
    HoldDuration,       \* BaseRule.holdDuration
    AlertOnAbsent,      \* RuleCondition.AlertOnAbsent
    NoDataAfter,        \* RuleCondition.NoDataAfter()
    StartTime,          \* timestamp before the first evaluation
    MaxGap,             \* bound: longest time between two evaluations
    MaxTime             \* bound: last evaluation timestamp

AllGrades == {"none", "recovery", "target"}
Times == 0..MaxTime
NoDataKey(t) == <<"nodata", t>>
Keys == Series \cup {NoDataKey(t) : t \in Times}

ASSUME ConstantsAssumption ==
    /\ Series # {} /\ Identities # {}
    /\ \A k \in Series, t \in Times : k # NoDataKey(t)
    /\ Grades \subseteq AllGrades /\ "none" \in Grades
    \* a frequency is positive, and a time.Duration, so one is the longest
    /\ Intervals \subseteq Nat \ {0} /\ \E f \in Intervals : \A e \in Intervals : e <= f
    /\ TaskHash \in Nat /\ ResendDelay \in Nat \ {0}
    /\ ResolvedRetention \in Nat /\ HoldDuration \in Nat
    /\ AlertOnAbsent \in BOOLEAN /\ NoDataAfter \in Nat \ {0}
    /\ MaxGap \in Nat /\ MaxTime \in Nat /\ StartTime \in Times
    \* the zero time is long past for every clock the program reads
    /\ StartTime >= ResendDelay /\ StartTime + 1 >= NoDataAfter

VARIABLES
    now,             \* timestamp of the latest evaluation
    phase,           \* "idle", or "send" between rule.Eval and rule.SendAlerts
    identity,        \* name and labels of the rule
    interval,        \* RuleTask.frequency
    active,          \* BaseRule.Active
    handledRestart,  \* BaseRule.handledRestart
    lastData,        \* BaseRule.lastTimestampWithDatapoints
    history,         \* last saved rule_state_history row of each alert
    am,              \* Alertmanager's EndsAt for each alert; 0: never received
    lastSend,        \* auxiliary: last timestamp SendAlerts got past its org lookup
    lostAt,          \* auxiliary: last timestamp a notification was lost
    changedAt,       \* auxiliary: last time alerts were handed to a task of another frequency
    historyLost      \* auxiliary: a history operation of this rule object failed

ruleVars == <<identity, interval, active, handledRestart, lastData>>
auxVars == <<lastSend, lostAt, changedAt, historyLost>>
vars == <<now, phase, ruleVars, history, am, auxVars>>

----------------------------------------------------------------------------
(* Data                                                                    *)

AlertStates == {"inactive", "pending", "recovering", "firing"}
ReportedStates == AlertStates \cup {"nodata"}
Rank == [inactive |-> 0, pending |-> 1, recovering |-> 2, firing |-> 3, nodata |-> 4]

\* Not in the map; an Active entry otherwise.
NoAlert == [state |-> "absent", activeAt |-> 0, firedAt |-> 0, resolvedAt |-> 0,
            sentAt |-> 0, validUntil |-> 0]
Alert == [state : AlertStates \cup {"absent"}, activeAt : Times, firedAt : Times,
          resolvedAt : Times, sentAt : Times, validUntil : Nat]

NoRow == [state |-> "none", overall |-> "inactive", at |-> 0]
Row == [state : ReportedStates \cup {"none"}, overall : ReportedStates, at : Times]

IsMissing(k) == k \notin Series

\* A firing missing-data alert is shown as nodata.
Reported(k, state) == IF state = "firing" /\ IsMissing(k) THEN "nodata" ELSE state

\* BaseRule.State: the highest-ranked state of the Active map.
State(act) ==
    LET present == {"inactive"} \cup
                   {Reported(k, act[k].state) : k \in {j \in Keys : act[j].state # "absent"}}
    IN  CHOOSE s \in present : \A t \in present : Rank[t] <= Rank[s]

Live(k) == active[k].state \in {"firing", "recovering"}

----------------------------------------------------------------------------
(* ThresholdRule.Eval                                                      *)

\* HandleMissingDataAlert, with `last` already moved by the data of this query.
MissingData(ts, last) == AlertOnAbsent /\ ~(ts < last + NoDataAfter)

\* BasicRuleThresholds.Eval: the target matches, or the alert is in the Active
\* map (in whatever state) and the recovery target matches.
Matches(g, k) == \/ g[k] = "target"
                 \/ g[k] = "recovery" /\ active[k].state # "absent"

\* buildAndRunQuery: the label sets of the returned vector.
ResultVector(ts, last, g) ==
    IF MissingData(ts, last) THEN {NoDataKey(last)}
                             ELSE {k \in Series : Matches(g, k)}

IsRecovering(g, k) == k \in Series /\ g[k] = "recovery"

\* A sample updates a live alert and replaces a resolved one.
Upsert(a, ts) ==
    IF a.state \in {"absent", "inactive"}
    THEN [NoAlert EXCEPT !.state = "pending", !.activeAt = ts]
    ELSE a

Fire(a, ts) ==
    IF a.state = "pending" /\ ts - a.activeAt >= HoldDuration
    THEN [a EXCEPT !.state = "firing", !.firedAt = ts]
    ELSE a

Recover(a, k, recovering) ==
    IF a.state = "firing" /\ recovering THEN [a EXCEPT !.state = "recovering"]
    ELSE IF a.state = "recovering" /\ ~recovering /\ ~IsMissing(k)
         THEN [a EXCEPT !.state = "firing"]
         ELSE a

\* Seeded fault: a resolved alert is forgotten at the next evaluation.
ForgetsAtOnce(a, ts) == a.state \in {"absent", "pending"} \/ a.resolvedAt # 0

\* An alert the result no longer holds is resolved, and forgotten once it was
\* pending only or has been resolved for longer than the retention.
Forgets(a, ts) == \/ a.state \in {"absent", "pending"}
                  \/ a.resolvedAt # 0 /\ ts - a.resolvedAt > ResolvedRetention
Resolve(a, ts) ==
    IF Forgets(a, ts) THEN NoAlert
    ELSE IF a.state # "inactive" THEN [a EXCEPT !.state = "inactive", !.resolvedAt = ts]
         ELSE a

\* Seeded fault: a missing-data vector leaves the other alerts as they are.
NextAlertKept(k, ts, result, g) ==
    IF k \in result THEN Recover(Fire(Upsert(active[k], ts), ts), k, IsRecovering(g, k))
    ELSE IF \E j \in result : IsMissing(j) THEN active[k]
         ELSE Resolve(active[k], ts)

NextAlert(k, ts, result, g) ==
    IF k \in result THEN Recover(Fire(Upsert(active[k], ts), ts), k, IsRecovering(g, k))
                    ELSE Resolve(active[k], ts)

\* Seeded fault: an alert that begins to recover leaves no item.
ItemsSkipRecovering(ts, result, next) ==
    {k \in Keys : IF k \in result THEN next[k].state \notin {Upsert(active[k], ts).state, "recovering"}
                                  ELSE active[k].state \notin {"absent", "inactive"}}

\* itemsToAdd: the alerts whose state this evaluation changes, with the new
\* state.  An alert that fires and recovers in one evaluation has two items:
\* FirstState and ItemState are the states of its first and of its last item.
Items(ts, result, next) ==
    {k \in Keys : IF k \in result THEN next[k].state # Upsert(active[k], ts).state
                                  ELSE active[k].state \notin {"absent", "inactive"}}
ItemState(k, result, next) ==
    IF k \in result THEN Reported(k, next[k].state) ELSE "inactive"
FirstState(k, ts, result, next) ==
    IF k \in result /\ Upsert(active[k], ts).state = "pending" /\ next[k].state = "recovering"
    THEN "firing" ELSE ItemState(k, result, next)

----------------------------------------------------------------------------
(* BaseRule.RecordRuleStateHistory                                         *)

Saved == {k \in Keys : history[k] # NoRow}

Alarming == {"firing", "nodata"}

\* lastSavedState[0]: one of the rows with the latest timestamp.
LatestSaved == {k \in Saved : \A j \in Saved : history[j].at <= history[k].at}

\* Seeded fault: only keys that have a saved row are reconciled.
RevisedKeysSavedOnly(items, itemState) ==
    {k \in Saved : IF k \in items THEN history[k].state # itemState[k]
                                  ELSE history[k].state \in Alarming}

\* The first recording after a (re)start reconciles the saved rows.
RevisedKeys(items, itemState) ==
    {k \in Keys : IF k \in Saved
                  THEN IF k \in items THEN history[k].state # itemState[k]
                                      ELSE history[k].state \in Alarming
                  ELSE k \in items}
\* A saved row is compared with the last item of its key; of the items of a key
\* without a row the first is taken.
RevisedState(k, items, itemState, firstState) ==
    IF k \notin items THEN "inactive"
    ELSE IF k \in Saved THEN itemState[k] ELSE firstState[k]

\* A revised row keeps the saved row's overall state unless the overall state
\* computed from the revised rows differs from the latest saved one.
ReconciledRows(ts, items, itemState, firstState, overall, first) ==
    LET revised  == RevisedKeys(items, itemState)
        state(k) == RevisedState(k, items, itemState, firstState)
        newState == IF \E k \in revised : state(k) \in Alarming
                    THEN "firing" ELSE "inactive"
        kept(k)  == IF k \in Saved THEN history[k].overall ELSE overall
    IN  [k \in Keys |->
            IF k \notin revised THEN history[k]
            ELSE [state   |-> state(k),
                  overall |-> IF history[first].overall # newState THEN newState ELSE kept(k),
                  at      |-> ts]]

PlainRows(ts, items, itemState, overall) ==
    [k \in Keys |-> IF k \in items
                    THEN [state |-> itemState[k], overall |-> overall, at |-> ts]
                    ELSE history[k]]

\* GetLastSavedRuleStateHistory fails: the items are lost and the restart
\* stays unhandled.  AddRuleStateHistory fails: the items are lost.
RecordRuleStateHistory(ts, items, itemState, firstState, overall) ==
    \/ /\ historyLost' = TRUE
       /\ UNCHANGED <<history, handledRestart>>
    \/ /\ handledRestart' = TRUE
       /\ \/ historyLost' = TRUE /\ UNCHANGED history
          \/ /\ UNCHANGED historyLost
             /\ IF ~handledRestart /\ Saved # {}
                THEN \E first \in LatestSaved :
                        history' = ReconciledRows(ts, items, itemState, firstState,
                                                  overall, first)
                ELSE history' = PlainRows(ts, items, itemState, overall)

----------------------------------------------------------------------------
(* RuleTask                                                                *)

\* RuleTask.EvalTimestamp: the slots of a frequency.  A task evaluates at slots
\* only: Run waits for the next one and then moves by multiples of the frequency.
IsSlot(ts) == ts % interval = TaskHash % interval

\* The timestamps the next evaluation can have.  Ticks can be missed; a new task
\* begins at the first slot of its frequency after it was started.
EvalTimestamps == {ts \in Times : now < ts /\ ts <= now + MaxGap /\ IsSlot(ts)}

\* rule.Eval succeeds.
Eval(ts, g, hasData) ==
    LET last   == IF hasData THEN ts ELSE lastData
        result == ResultVector(ts, last, g)
        next   == [k \in Keys |-> NextAlert(k, ts, result, g)]
        itemState  == [k \in Keys |-> ItemState(k, result, next)]
        firstState == [k \in Keys |-> FirstState(k, ts, result, next)]
    IN  /\ phase = "idle"
        /\ now' = ts
        /\ lastData' = last
        /\ active' = next
        /\ RecordRuleStateHistory(ts, Items(ts, result, next), itemState, firstState, State(next))
        /\ phase' = "send"
        /\ UNCHANGED <<identity, interval, am, lastSend, lostAt, changedAt>>

Evaluate ==
    \E ts \in EvalTimestamps, g \in [Series -> Grades], hasData \in BOOLEAN :
        /\ (\E k \in Series : g[k] # "none") => hasData
        /\ Eval(ts, g, hasData)

\* rule.Eval fails, in the query (hasData unknown) or after the result was
\* examined (duplicate label set, bad template); SendAlerts is skipped.
EvaluateFails ==
    /\ phase = "idle"
    /\ \E ts \in EvalTimestamps, hasData \in BOOLEAN :
        /\ now' = ts
        /\ lastData' = IF hasData THEN ts ELSE lastData
    /\ UNCHANGED <<phase, identity, interval, active, handledRestart, history, am,
                   auxVars>>

\* Seeded fault: an alert is sent once and again when it resolves, not resent.
NeedsSendingOnce(a, ts) ==
    /\ a.state \notin {"absent", "pending"}
    /\ a.resolvedAt > a.sentAt \/ a.sentAt = 0

\* Alert.NeedsSending
NeedsSending(a, ts) ==
    /\ a.state \notin {"absent", "pending"}
    /\ a.resolvedAt > a.sentAt \/ a.sentAt + ResendDelay < ts

DeltaOf(f) == IF f > ResendDelay THEN f ELSE ResendDelay
Delta == DeltaOf(interval)

\* Seeded fault: the expiry is subtracted.
StampBackdated(a, ts) == [a EXCEPT !.sentAt = ts, !.validUntil = ts - 4 * Delta]

\* SendAlerts: what it sets on an alert it sends.
Stamp(a, ts) == [a EXCEPT !.sentAt = ts, !.validUntil = ts + 4 * Delta]

\* Seeded fault: a resolution goes out with the expiry of the firing alert.
EndsAtExpiry(a) == a.validUntil

\* prepareNotifyFunc
EndsAt(a) == IF a.resolvedAt # 0 THEN a.resolvedAt ELSE a.validUntil

\* SendAlerts; the error of PutAlerts is dropped, and the alerts with it.
SendAlerts ==
    LET sent    == {k \in Keys : NeedsSending(active[k], now)}
        stamped == [k \in Keys |-> IF k \in sent THEN Stamp(active[k], now) ELSE active[k]]
    IN  /\ phase = "send"
        /\ phase' = "idle"
        /\ active' = stamped
        /\ lastSend' = now
        /\ \/ /\ am' = [am EXCEPT ![identity] =
                          [k \in Keys |-> IF k \in sent THEN EndsAt(stamped[k]) ELSE @[k]]]
              /\ UNCHANGED lostAt
           \/ sent # {} /\ lostAt' = now /\ UNCHANGED am
        /\ UNCHANGED <<now, identity, interval, handledRestart, lastData, history,
                       changedAt, historyLost>>

\* SendAlerts returns early: the organisation lookup failed.
SendAlertsFails ==
    /\ phase = "send"
    /\ phase' = "idle"
    /\ UNCHANGED <<now, ruleVars, history, am, auxVars>>

\* A new rule object: nothing evaluated, nothing known about its data.
FreshRule ==
    /\ active' = [k \in Keys |-> NoAlert]
    /\ handledRestart' = FALSE
    /\ historyLost' = FALSE

\* Seeded fault: CopyState hands the Active map over but not handledRestart.
EditTaskForgetsRestart ==
    /\ phase = "idle"
    /\ handledRestart' = FALSE
    /\ lastData' = 0
    /\ UNCHANGED <<now, phase, identity, interval, active, history, am, auxVars>>

\* editTask: the old task is stopped between iterations, and the new one has the
\* edited frequency; CopyState hands the Active map, with the LastSentAt and
\* ValidUntil of the old task, and handledRestart over when name and labels are
\* unchanged.
EditTask ==
    /\ phase = "idle"
    /\ \E id \in Identities, f \in Intervals :
        /\ identity' = id
        /\ interval' = f
        /\ IF id = identity
           THEN /\ changedAt' = IF f # interval THEN now ELSE changedAt
                /\ UNCHANGED <<active, handledRestart, historyLost>>
           ELSE FreshRule /\ UNCHANGED changedAt
    /\ lastData' = 0
    /\ UNCHANGED <<now, phase, history, am, lastSend, lostAt>>

\* deleteTask when the rule is disabled, addTask when it is enabled again; it
\* may be edited in between.
DisableAndEnable ==
    /\ phase = "idle"
    /\ FreshRule
    /\ identity' \in Identities
    /\ interval' \in Intervals
    /\ lastData' = 0
    /\ UNCHANGED <<now, phase, history, am, lastSend, lostAt, changedAt>>

\* The process dies at any point; Alertmanager, in the same process, forgets
\* its alerts.
Restart ==
    /\ FreshRule
    /\ phase' = "idle"
    /\ lastData' = 0
    /\ am' = [id \in Identities |-> [k \in Keys |-> 0]]
    /\ UNCHANGED <<now, identity, interval, history, lastSend, lostAt, changedAt>>

Init ==
    /\ now = StartTime
    /\ phase = "idle"
    /\ identity \in Identities
    /\ interval \in Intervals
    /\ active = [k \in Keys |-> NoAlert]
    /\ handledRestart = FALSE
    /\ lastData = 0
    /\ history = [k \in Keys |-> NoRow]
    /\ am = [id \in Identities |-> [k \in Keys |-> 0]]
    /\ lastSend = 0
    /\ lostAt = 0
    /\ changedAt = 0
    /\ historyLost = FALSE

Next ==
    \/ Evaluate
    \/ EvaluateFails
    \/ SendAlerts
    \/ SendAlertsFails
    \/ EditTask
    \/ DisableAndEnable
    \/ Restart

Spec == Init /\ [][Next]_vars

----------------------------------------------------------------------------
(* Properties                                                              *)

\* Every variable keeps the shape of the field it models.
TypeOK ==
    /\ now \in Times
    /\ phase \in {"idle", "send"}
    /\ identity \in Identities
    /\ interval \in Intervals
    /\ active \in [Keys -> Alert]
    /\ handledRestart \in BOOLEAN
    /\ lastData \in Times
    /\ history \in [Keys -> Row]
    /\ am \in [Identities -> [Keys -> Nat]]
    /\ lastSend \in Times
    /\ lostAt \in Times
    /\ changedAt \in Times
    /\ historyLost \in BOOLEAN

\* When SendAlerts has run and no notification was lost within the last resend
\* delay, every alert that was firing or recovering then is held open by the
\* Alertmanager for three more periods: NeedsSending, the resend delay and the
\* ValidUntil SendAlerts stamps leave no gap in which it would expire.  An edit
\* of the frequency hands over alerts stamped for the old period: until
\* SendAlerts has run more than a resend delay after it, three resend delays are
\* all that is left.
FiringIsHeld ==
    lostAt + ResendDelay < lastSend =>
        \A k \in Keys : Live(k) /\ active[k].firedAt <= lastSend =>
            am[identity][k] >= lastSend +
                3 * (IF changedAt + ResendDelay < lastSend THEN Delta ELSE ResendDelay)

\* Under the same condition every alert Eval had resolved by then is no longer
\* open at the Alertmanager: NeedsSending sends a resolution at once.
ResolvedIsReleased ==
    lostAt + ResendDelay < lastSend =>
        \A k \in Keys : active[k].state = "inactive" /\ active[k].resolvedAt <= lastSend =>
            am[identity][k] <= now

\* The longest period a task of this rule can have had.
LongestDelta == DeltaOf(CHOOSE f \in Intervals : \A e \in Intervals : e <= f)

\* Whatever notifications were lost and whatever the frequency was edited to:
\* when Eval forgets a resolved alert (ResolvedRetention), the Alertmanager has it
\* open for less than what four of the longest periods exceed the retention by.
\* A frequency up to a quarter of the retention leaves nothing open; a longer one
\* leaves an alert open that nobody resolves any more, for that long at most.
ForgottenSoonExpires ==
    [][\A k \in Keys :
         /\ active[k].state = "inactive" /\ active'[k].state = "absent"
         /\ now' # now
         => am[identity][k] + ResolvedRetention < now' + 4 * LongestDelta]_vars

\* A missing-data alert stands alone: HandleMissingDataAlert replaces the whole
\* vector, so neither a series nor an older missing-data alert stays open.
NoDataStandsAlone ==
    \A k \in Keys : Live(k) /\ IsMissing(k) => \A j \in Keys \ {k} : ~Live(j)

\* What the history says of an alert: alerts without a row never fired.
HistoryView(k) == IF history[k] = NoRow THEN "inactive" ELSE history[k].state
AlertView(k) == IF Live(k) THEN Reported(k, active[k].state) ELSE "inactive"

\* Once the restart is handled and unless a history operation of this rule
\* object failed, the last saved rows agree with the Active map: the
\* reconciliation of RecordRuleStateHistory repairs what a restart or an edit
\* made stale.  It passes over a row saved as recovering, which says so until
\* the alert changes again.
HistoryTracksAlerts ==
    handledRestart /\ ~historyLost =>
        \A k \in Keys : HistoryView(k) \in {AlertView(k), "recovering"}

\* RecordRuleStateHistory never writes a row that says inactive for an alert
\* that is firing, provided no history operation of this rule object failed
\* before: the reconciliation takes an alert without an item for resolved, so
\* it must not run against an Active map that already holds the alert.
NoFalseResolution ==
    [][\A k \in Keys :
         /\ ~historyLost
         /\ history'[k] # history[k] /\ history'[k].state = "inactive"
         => active'[k].state \notin {"firing", "recovering"}]_vars
=============================================================================
