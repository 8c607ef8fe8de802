--------------------------- MODULE AlertRuleProofs ---------------------------
(***************************************************************************)
(* Proofs about AlertRule for every set of series and every choice of the  *)
(* frequencies, the resend delay and the retention.                        *)
(***************************************************************************)
EXTENDS AlertRule, TLAPS

(* The constants                                                           *)

LEMMA TimeFacts ==
    /\ MaxTime \in Nat /\ ResendDelay \in Nat /\ StartTime \in Times
    /\ ResendDelay > 0
    /\ HoldDuration \in Nat /\ ResolvedRetention \in Nat
    /\ StartTime >= ResendDelay
BY ConstantsAssumption DEF Times

\* One of the frequencies is the longest.
LEMMA LongestFacts ==
    /\ LongestDelta \in Nat
    /\ \A f \in Intervals : DeltaOf(f) \in Nat /\ DeltaOf(f) <= LongestDelta
<1> DEFINE longest == CHOOSE f \in Intervals : \A e \in Intervals : e <= f
<1>1. longest \in Intervals /\ \A e \in Intervals : e <= longest
    BY ConstantsAssumption
<1>2. LongestDelta = DeltaOf(longest)
    BY DEF LongestDelta
<1> HIDE DEF longest
<1> QED
    BY <1>1, <1>2, ConstantsAssumption DEF DeltaOf

\* The period of the present task is at least the resend delay, and at most the
\* longest one.
LEMMA DeltaFacts ==
    ASSUME TypeOK
    PROVE  Delta \in Nat /\ ResendDelay <= Delta /\ Delta <= LongestDelta
<1>1. Delta \in Nat /\ Delta <= LongestDelta
    BY LongestFacts DEF Delta, TypeOK
<1>2. ResendDelay <= Delta
    BY ConstantsAssumption DEF Delta, DeltaOf, TypeOK
<1> QED
    BY <1>1, <1>2

\* Evaluation timestamps lie after the latest one.
LEMMA TimestampFacts ==
    ASSUME now \in Times, NEW ts \in EvalTimestamps
    PROVE  ts \in Times /\ ts > now
BY ConstantsAssumption DEF EvalTimestamps, Times

\* The key of a missing-data alert is a key, and no series.
LEMMA NoDataKeyFacts ==
    ASSUME NEW t \in Times
    PROVE  NoDataKey(t) \in Keys /\ IsMissing(NoDataKey(t))
BY ConstantsAssumption DEF Keys, IsMissing

----------------------------------------------------------------------------
(* Type correctness                                                        *)

\* Evaluating one key of the Active map gives an Active entry.
LEMMA NextAlertType ==
    ASSUME NEW k, NEW ts \in Times, NEW result, NEW g, active[k] \in Alert
    PROVE  NextAlert(k, ts, result, g) \in Alert
<1>0. 0 \in Times /\ NoAlert \in Alert
    BY TimeFacts DEF Times, NoAlert, Alert, AlertStates
<1>1. Resolve(active[k], ts) \in Alert
    BY <1>0 DEF Resolve, Forgets, Alert, AlertStates
<1>2. Upsert(active[k], ts) \in Alert
    BY <1>0 DEF Upsert, Alert, AlertStates
<1>3. Fire(Upsert(active[k], ts), ts) \in Alert
    BY <1>0, <1>2 DEF Fire, Alert, AlertStates
<1>4. Recover(Fire(Upsert(active[k], ts), ts), k, IsRecovering(g, k)) \in Alert
    BY <1>0, <1>3 DEF Recover, Alert, AlertStates
<1> QED
    BY <1>1, <1>4 DEF NextAlert

\* An alert the result holds is in the Active map afterwards.
LEMMA InResultPresent ==
    ASSUME NEW k, NEW ts \in Times, NEW result, NEW g, active[k] \in Alert, k \in result
    PROVE  NextAlert(k, ts, result, g).state # "absent"
<1>0. 0 \in Times /\ NoAlert \in Alert
    BY TimeFacts DEF Times, NoAlert, Alert, AlertStates
<1> DEFINE a == Upsert(active[k], ts)
           b == Fire(a, ts)
<1>1. a \in Alert /\ a.state # "absent"
    BY <1>0 DEF Upsert, Alert, AlertStates
<1> HIDE DEF a
<1>2. b \in Alert /\ b.state # "absent"
    BY <1>0, <1>1 DEF Fire, Alert, AlertStates
<1> HIDE DEF b
<1>3. Recover(b, k, IsRecovering(g, k)).state # "absent"
    BY <1>2 DEF Recover, Alert
<1> QED
    BY <1>3 DEF NextAlert, a, b

\* BaseRule.State is a reported state.
LEMMA StateType ==
    ASSUME NEW act \in [Keys -> Alert]
    PROVE  State(act) \in ReportedStates
<1> DEFINE present == {"inactive"} \cup
              {Reported(k, act[k].state) : k \in {j \in Keys : act[j].state # "absent"}}
<1>1. present \subseteq ReportedStates
    BY DEF Reported, ReportedStates, AlertStates, Alert
<1>2. \E s \in present : \A t \in present : Rank[t] <= Rank[s]
  <2>1. Rank["inactive"] = 0 /\ Rank["pending"] = 1 /\ Rank["recovering"] = 2
        /\ Rank["firing"] = 3 /\ Rank["nodata"] = 4
      BY DEF Rank
  <2>2. "inactive" \in present
      OBVIOUS
  <2> HIDE DEF present
  <2>3. CASE "nodata" \in present
      BY <2>1, <2>3, <1>1 DEF ReportedStates, AlertStates
  <2>4. CASE "nodata" \notin present /\ "firing" \in present
      BY <2>1, <2>4, <1>1 DEF ReportedStates, AlertStates
  <2>5. CASE "nodata" \notin present /\ "firing" \notin present /\ "recovering" \in present
      BY <2>1, <2>5, <1>1 DEF ReportedStates, AlertStates
  <2>6. CASE /\ "nodata" \notin present /\ "firing" \notin present
             /\ "recovering" \notin present
      BY <2>1, <2>2, <2>6, <1>1 DEF ReportedStates, AlertStates
  <2> QED
      BY <2>3, <2>4, <2>5, <2>6
<1>3. State(act) \in present
    BY <1>2 DEF State
<1> QED
    BY <1>1, <1>3

\* What RecordRuleStateHistory writes are rows.
LEMMA RecordType ==
    ASSUME history \in [Keys -> Row], historyLost \in BOOLEAN, handledRestart \in BOOLEAN,
           NEW ts \in Times, NEW items, NEW itemState, NEW firstState,
           NEW overall \in ReportedStates,
           \A k \in Keys : k \in items => /\ itemState[k] \in ReportedStates
                                         /\ firstState[k] \in ReportedStates,
           RecordRuleStateHistory(ts, items, itemState, firstState, overall)
    PROVE  history' \in [Keys -> Row] /\ historyLost' \in BOOLEAN /\ handledRestart' \in BOOLEAN
<1>1. PlainRows(ts, items, itemState, overall) \in [Keys -> Row]
    BY DEF PlainRows, Row
<1>2. \A first \in LatestSaved :
         ReconciledRows(ts, items, itemState, firstState, overall, first) \in [Keys -> Row]
  <2> TAKE first \in LatestSaved
  <2>1. first \in Keys
      BY DEF LatestSaved, Saved
  <2>2. \A k \in Keys : RevisedState(k, items, itemState, firstState) \in ReportedStates
      BY DEF RevisedState, ReportedStates, AlertStates
  <2>3. "firing" \in ReportedStates /\ "inactive" \in ReportedStates
      BY DEF ReportedStates, AlertStates
  <2> QED
      BY <2>1, <2>2, <2>3 DEF ReconciledRows, Row
<1> QED
    BY <1>1, <1>2 DEF RecordRuleStateHistory

\* The type invariant is preserved by a successful evaluation.
LEMMA EvaluateType ==
    ASSUME TypeOK, Evaluate
    PROVE  TypeOK'
<1>1. PICK ts \in EvalTimestamps, g \in [Series -> Grades], hasData \in BOOLEAN :
         Eval(ts, g, hasData)
    BY DEF Evaluate
<1> DEFINE last == IF hasData THEN ts ELSE lastData
           result == ResultVector(ts, last, g)
           next == [k \in Keys |-> NextAlert(k, ts, result, g)]
           itemState == [k \in Keys |-> ItemState(k, result, next)]
           firstState == [k \in Keys |-> FirstState(k, ts, result, next)]
           items == Items(ts, result, next)
<1>2. /\ now' = ts /\ lastData' = last /\ active' = next
      /\ RecordRuleStateHistory(ts, items, itemState, firstState, State(next))
      /\ phase' = "send"
      /\ UNCHANGED <<identity, interval, am, lastSend, lostAt, changedAt>>
    BY <1>1 DEF Eval
<1>3. ts \in Times
    BY TimestampFacts DEF TypeOK
<1>4. next \in [Keys -> Alert]
    BY <1>3, NextAlertType DEF TypeOK
<1>5. State(next) \in ReportedStates
    BY <1>4, StateType
<1>6. \A k \in Keys : k \in items => /\ itemState[k] \in ReportedStates
                                     /\ firstState[k] \in ReportedStates
  <2> SUFFICES ASSUME NEW k \in Keys, k \in items
               PROVE  ItemState(k, result, next) \in ReportedStates
      BY DEF FirstState, ReportedStates, AlertStates
  <2>1. CASE k \notin result
      BY <2>1 DEF ItemState, ReportedStates, AlertStates
  <2>2. CASE k \in result
    <3>1. next[k].state # "absent"
        BY <2>2, <1>3, InResultPresent DEF TypeOK
    <3>2. next[k].state \in AlertStates
        BY <3>1, <1>4 DEF Alert
    <3> QED
        BY <2>2, <3>2 DEF ItemState, Reported, ReportedStates, AlertStates
  <2> QED
      BY <2>1, <2>2
<1> HIDE DEF next, items, itemState, firstState, result
<1>7. history' \in [Keys -> Row] /\ historyLost' \in BOOLEAN /\ handledRestart' \in BOOLEAN
    BY <1>2, <1>3, <1>5, <1>6, RecordType DEF TypeOK
<1> QED
    BY <1>2, <1>3, <1>4, <1>7 DEF TypeOK

\* Sending keeps the shapes: the stamped expiry is a natural number.
LEMMA SendAlertsType ==
    ASSUME TypeOK, SendAlerts
    PROVE  TypeOK'
<1> DEFINE sent == {k \in Keys : NeedsSending(active[k], now)}
           stamped == [k \in Keys |-> IF k \in sent THEN Stamp(active[k], now) ELSE active[k]]
<1>1. now \in Nat /\ now + 4 * Delta \in Nat
    BY TimeFacts, DeltaFacts DEF TypeOK, Times
<1>2. stamped \in [Keys -> Alert]
    BY <1>1 DEF Stamp, Alert, TypeOK
<1>3. \A k \in Keys : EndsAt(stamped[k]) \in Nat
    BY <1>2, TimeFacts DEF EndsAt, Alert, Times
<1>4. am' \in [Identities -> [Keys -> Nat]]
  <2>1. CASE UNCHANGED am
      BY <2>1 DEF TypeOK
  <2>2. CASE am' = [am EXCEPT ![identity] =
                      [k \in Keys |-> IF k \in sent THEN EndsAt(stamped[k]) ELSE @[k]]]
      BY <2>2, <1>3 DEF TypeOK
  <2> QED
      BY <2>1, <2>2 DEF SendAlerts
<1> QED
    BY <1>2, <1>4 DEF SendAlerts, TypeOK

\* Every variable of the rule keeps the shape of the field it models, for any
\* series, any frequencies, resend delay and retention.
THEOREM TypeCorrect == Spec => []TypeOK
<1>1. Init => TypeOK
  <2>1. 0 \in Times /\ NoAlert \in Alert /\ NoRow \in Row /\ "none" \in Grades
      BY TimeFacts, ConstantsAssumption
         DEF Times, NoAlert, Alert, AlertStates, NoRow, Row, ReportedStates
  <2> SUFFICES ASSUME Init PROVE TypeOK
      OBVIOUS
  <2>2. active \in [Keys -> Alert] /\ history \in [Keys -> Row]
      BY <2>1 DEF Init
  <2>3. am \in [Identities -> [Keys -> Nat]]
      BY DEF Init
  <2> QED
      BY <2>1, <2>2, <2>3, TimeFacts DEF Init, TypeOK
<1>2. TypeOK /\ [Next]_vars => TypeOK'
  <2> SUFFICES ASSUME TypeOK, [Next]_vars PROVE TypeOK'
      OBVIOUS
  <2>0. 0 \in Times /\ NoAlert \in Alert
      BY TimeFacts DEF Times, NoAlert, Alert, AlertStates
  <2>1. CASE Evaluate
      BY <2>1, EvaluateType
  <2>2. CASE EvaluateFails
    <3>1. PICK ts \in EvalTimestamps : now' = ts /\ lastData' \in {ts, lastData}
        BY <2>2 DEF EvaluateFails
    <3>2. ts \in Times
        BY TimestampFacts DEF TypeOK
    <3> QED
        BY <2>2, <3>1, <3>2 DEF EvaluateFails, auxVars, TypeOK
  <2>3. CASE SendAlerts
      BY <2>3, SendAlertsType
  <2>4. CASE SendAlertsFails
      BY <2>4 DEF SendAlertsFails, TypeOK, ruleVars, auxVars
  <2>5. CASE EditTask
      BY <2>5, <2>0, TimeFacts DEF EditTask, FreshRule, TypeOK
  <2>6. CASE DisableAndEnable
      BY <2>6, <2>0 DEF DisableAndEnable, FreshRule, TypeOK
  <2>7. CASE Restart
      BY <2>7, <2>0 DEF Restart, FreshRule, TypeOK
  <2>8. CASE UNCHANGED vars
      BY <2>8 DEF vars, ruleVars, auxVars, TypeOK
  <2> QED
      BY <2>1, <2>2, <2>3, <2>4, <2>5, <2>6, <2>7, <2>8 DEF Next
<1> QED
    BY <1>1, <1>2, PTL DEF Spec

----------------------------------------------------------------------------
(* Delivery to the Alertmanager                                            *)

\* The clocks of the auxiliary variables.
ClockInv ==
    /\ lostAt <= lastSend
    /\ lastSend <= now
    /\ changedAt <= now

\* What the timestamps of an Active entry say, given the last run of SendAlerts:
\* an entry that was firing (or resolved) by then was sent within the resend
\* delay, and what was sent after the last loss is what the Alertmanager holds.
\* What was sent since the frequency last changed was stamped for the present one.
EntryInv(k) ==
    LET a == active[k]
    IN  /\ a.state \in {"absent", "pending"} => a.sentAt = 0
        /\ a.state # "inactive" => a.resolvedAt = 0
        /\ a.state = "inactive" => a.resolvedAt > 0 /\ a.firedAt <= a.resolvedAt
        /\ a.firedAt <= now /\ a.resolvedAt <= now
        /\ a.sentAt <= lastSend
        /\ a.sentAt # 0 => a.validUntil >= a.sentAt + 4 * ResendDelay
        /\ a.sentAt > changedAt => a.validUntil = a.sentAt + 4 * Delta
        /\ /\ a.state \in {"firing", "recovering", "inactive"}
           /\ a.firedAt <= lastSend /\ a.resolvedAt <= lastSend
           => a.sentAt + ResendDelay >= lastSend /\ a.sentAt >= a.resolvedAt
        /\ a.sentAt > lostAt /\ a.sentAt >= a.resolvedAt => am[identity][k] = EndsAt(a)

DeliveryInv == ClockInv /\ \A k \in Keys : EntryInv(k)

\* How evaluation moves one entry, in terms of its timestamps.
LEMMA NextAlertShape ==
    ASSUME NEW k, NEW ts \in Times, NEW result, NEW g, active[k] \in Alert
    PROVE  LET a == active[k]
               b == NextAlert(k, ts, result, g)
           IN  \/ b = NoAlert /\ (a.state \in {"absent", "pending"} \/ Forgets(a, ts))
               \/ /\ a.state \in {"absent", "inactive"}
                  /\ b.state \in {"pending", "firing", "recovering"}
                  /\ b.resolvedAt = 0 /\ b.sentAt = 0 /\ b.validUntil = 0
                  /\ b.firedAt = (IF b.state = "pending" THEN 0 ELSE ts)
               \/ /\ a.state = "pending" /\ b.state \in {"firing", "recovering"}
                  /\ b.resolvedAt = a.resolvedAt /\ b.sentAt = a.sentAt
                  /\ b.validUntil = a.validUntil /\ b.firedAt = ts
               \/ /\ a.state \in {"firing", "recovering"} /\ b.state \in {"firing", "recovering"}
                  /\ b.resolvedAt = a.resolvedAt /\ b.sentAt = a.sentAt
                  /\ b.validUntil = a.validUntil /\ b.firedAt = a.firedAt
               \/ /\ a.state \in {"firing", "recovering"} /\ b.state = "inactive"
                  /\ b.resolvedAt = ts /\ b.sentAt = a.sentAt
                  /\ b.validUntil = a.validUntil /\ b.firedAt = a.firedAt
               \/ b = a /\ a.state \in {"pending", "inactive"}
<1>0. 0 \in Times /\ NoAlert \in Alert
    BY TimeFacts DEF Times, NoAlert, Alert, AlertStates
<1>1. CASE k \notin result
    BY <1>0, <1>1 DEF NextAlert, Resolve, Forgets, Alert, AlertStates
<1>2. CASE k \in result
  <2> DEFINE a == active[k]
             u == Upsert(a, ts)
             f == Fire(u, ts)
  <2>1. /\ u \in Alert
        /\ \/ /\ a.state \in {"absent", "inactive"} /\ u.state = "pending"
              /\ u.resolvedAt = 0 /\ u.sentAt = 0 /\ u.validUntil = 0 /\ u.firedAt = 0
           \/ a.state \in {"pending", "firing", "recovering"} /\ u = a
      BY <1>0 DEF Upsert, NoAlert, Alert, AlertStates
  <2> HIDE DEF u
  <2>2. /\ f \in Alert
        /\ \/ /\ u.state = "pending" /\ f.state = "firing"
              /\ f.resolvedAt = u.resolvedAt /\ f.sentAt = u.sentAt
              /\ f.validUntil = u.validUntil /\ f.firedAt = ts
           \/ u.state \in {"pending", "firing", "recovering"} /\ f = u
      BY <2>1, <1>0 DEF Fire, Alert, AlertStates
  <2> HIDE DEF f
  <2>3. LET b == Recover(f, k, IsRecovering(g, k))
        IN  \/ /\ f.state \in {"firing", "recovering"} /\ b.state \in {"firing", "recovering"}
               /\ b.resolvedAt = f.resolvedAt /\ b.sentAt = f.sentAt
               /\ b.validUntil = f.validUntil /\ b.firedAt = f.firedAt
            \/ f.state = "pending" /\ b = f
      BY <2>1, <2>2 DEF Recover, Alert, AlertStates
  <2>4. NextAlert(k, ts, result, g) = Recover(f, k, IsRecovering(g, k))
      BY <1>2 DEF NextAlert, u, f
  <2> QED
      BY <2>1, <2>2, <2>3, <2>4
<1> QED
    BY <1>1, <1>2

\* A successful evaluation keeps what the timestamps of an entry say.
LEMMA EvaluateDelivery ==
    ASSUME TypeOK, DeliveryInv, Evaluate
    PROVE  DeliveryInv'
<1>1. PICK ts \in EvalTimestamps, g \in [Series -> Grades], hasData \in BOOLEAN :
         Eval(ts, g, hasData)
    BY DEF Evaluate
<1> DEFINE result == ResultVector(ts, IF hasData THEN ts ELSE lastData, g)
<1>2. /\ now' = ts
      /\ active' = [k \in Keys |-> NextAlert(k, ts, result, g)]
      /\ UNCHANGED <<identity, interval, am, lastSend, lostAt, changedAt>>
    BY <1>1 DEF Eval
<1> HIDE DEF result
<1>3. /\ ts \in Times /\ ts > now /\ now \in Nat /\ ts \in Nat
      /\ lastSend \in Nat /\ lostAt \in Nat /\ changedAt \in Nat
      /\ Delta' = Delta /\ Delta \in Nat
    BY <1>2, TimestampFacts, TimeFacts, DeltaFacts DEF TypeOK, Times, Delta
<1>4. ClockInv'
    BY <1>2, <1>3 DEF DeliveryInv, ClockInv
<1>5. ASSUME NEW k \in Keys PROVE EntryInv(k)'
  <2> DEFINE a == active[k]
             b == NextAlert(k, ts, result, g)
  <2>1. active[k]' = b
      BY <1>2
  <2>2. a \in Alert
      BY DEF TypeOK
  <2>3. /\ a.firedAt \in Nat /\ a.resolvedAt \in Nat /\ a.sentAt \in Nat
        /\ a.state \in AlertStates \cup {"absent"}
      BY <2>2, TimeFacts DEF Alert, Times
  <2>4. /\ a.state \in {"absent", "pending"} => a.sentAt = 0
        /\ a.state # "inactive" => a.resolvedAt = 0
        /\ a.state = "inactive" => a.resolvedAt > 0 /\ a.firedAt <= a.resolvedAt
        /\ a.firedAt <= now /\ a.resolvedAt <= now
        /\ a.sentAt <= lastSend
        /\ a.sentAt # 0 => a.validUntil >= a.sentAt + 4 * ResendDelay
        /\ a.sentAt > changedAt => a.validUntil = a.sentAt + 4 * Delta
        /\ /\ a.state \in {"firing", "recovering", "inactive"}
           /\ a.firedAt <= lastSend /\ a.resolvedAt <= lastSend
           => a.sentAt + ResendDelay >= lastSend /\ a.sentAt >= a.resolvedAt
        /\ a.sentAt > lostAt /\ a.sentAt >= a.resolvedAt => am[identity][k] = EndsAt(a)
      BY DEF DeliveryInv, EntryInv
  <2>5. \/ b = NoAlert
        \/ /\ a.state \in {"absent", "inactive"}
           /\ b.state \in {"pending", "firing", "recovering"}
           /\ b.resolvedAt = 0 /\ b.sentAt = 0 /\ b.validUntil = 0
           /\ b.firedAt = (IF b.state = "pending" THEN 0 ELSE ts)
        \/ /\ a.state = "pending" /\ b.state \in {"firing", "recovering"}
           /\ b.resolvedAt = a.resolvedAt /\ b.sentAt = a.sentAt
           /\ b.validUntil = a.validUntil /\ b.firedAt = ts
        \/ /\ a.state \in {"firing", "recovering"} /\ b.state \in {"firing", "recovering"}
           /\ b.resolvedAt = a.resolvedAt /\ b.sentAt = a.sentAt
           /\ b.validUntil = a.validUntil /\ b.firedAt = a.firedAt
        \/ /\ a.state \in {"firing", "recovering"} /\ b.state = "inactive"
           /\ b.resolvedAt = ts /\ b.sentAt = a.sentAt
           /\ b.validUntil = a.validUntil /\ b.firedAt = a.firedAt
        \/ b = a /\ a.state \in {"pending", "inactive"}
      BY <1>3, <2>2, NextAlertShape
  <2>6. EndsAt(b) = IF b.resolvedAt # 0 THEN b.resolvedAt ELSE b.validUntil
      BY DEF EndsAt
  <2>7. EndsAt(a) = IF a.resolvedAt # 0 THEN a.resolvedAt ELSE a.validUntil
      BY DEF EndsAt
  <2> HIDE DEF a, b
  <2>8. /\ b.state \in {"absent", "pending"} => b.sentAt = 0
        /\ b.state # "inactive" => b.resolvedAt = 0
        /\ b.state = "inactive" => b.resolvedAt > 0 /\ b.firedAt <= b.resolvedAt
        /\ b.firedAt <= ts /\ b.resolvedAt <= ts
        /\ b.sentAt <= lastSend
        /\ b.sentAt # 0 => b.validUntil >= b.sentAt + 4 * ResendDelay
        /\ b.sentAt > changedAt => b.validUntil = b.sentAt + 4 * Delta
      BY <1>3, <2>3, <2>4, <2>5 DEF NoAlert, DeliveryInv, ClockInv
  <2>9. /\ b.state \in {"firing", "recovering", "inactive"}
        /\ b.firedAt <= lastSend /\ b.resolvedAt <= lastSend
        => b.sentAt + ResendDelay >= lastSend /\ b.sentAt >= b.resolvedAt
    <3>1. lastSend < ts
        BY <1>3 DEF DeliveryInv, ClockInv
    <3> QED
        BY <1>3, <2>3, <2>4, <2>5, <3>1 DEF NoAlert
  <2>10. b.sentAt > lostAt /\ b.sentAt >= b.resolvedAt => am[identity][k] = EndsAt(b)
    <3>1. lastSend < ts
        BY <1>3 DEF DeliveryInv, ClockInv
    <3> QED
        BY <1>3, <2>3, <2>4, <2>5, <2>6, <2>7, <3>1 DEF NoAlert
  <2> QED
      BY <1>2, <1>3, <2>1, <2>8, <2>9, <2>10 DEF EntryInv, EndsAt
<1> QED
    BY <1>4, <1>5 DEF DeliveryInv

\* SendAlerts brings every entry within the resend delay again.
LEMMA SendAlertsDelivery ==
    ASSUME TypeOK, DeliveryInv, SendAlerts
    PROVE  DeliveryInv'
<1> DEFINE sent == {k \in Keys : NeedsSending(active[k], now)}
           stamped == [k \in Keys |-> IF k \in sent THEN Stamp(active[k], now) ELSE active[k]]
<1>1. /\ active' = stamped /\ lastSend' = now
      /\ UNCHANGED <<now, identity, interval, changedAt>>
      /\ \/ /\ am' = [am EXCEPT ![identity] =
                        [k \in Keys |-> IF k \in sent THEN EndsAt(stamped[k]) ELSE @[k]]]
            /\ UNCHANGED lostAt
         \/ lostAt' = now /\ UNCHANGED am
    BY DEF SendAlerts
<1>2. /\ now \in Nat /\ lastSend \in Nat /\ lostAt \in Nat /\ changedAt \in Nat
      /\ lastSend <= now /\ lostAt <= lastSend /\ changedAt <= now
      /\ Delta' = Delta /\ Delta \in Nat /\ ResendDelay <= Delta
    BY <1>1, TimeFacts, DeltaFacts DEF TypeOK, Times, DeliveryInv, ClockInv, Delta
<1>3. ClockInv'
    BY <1>1, <1>2 DEF ClockInv
<1>4. ASSUME NEW k \in Keys PROVE EntryInv(k)'
  <2> DEFINE a == active[k]
             b == stamped[k]
  <2>1. active[k]' = b
      BY <1>1
  <2>2. a \in Alert
      BY DEF TypeOK
  <2>3. /\ a.firedAt \in Nat /\ a.resolvedAt \in Nat /\ a.sentAt \in Nat
        /\ a.state \in AlertStates \cup {"absent"}
      BY <2>2, TimeFacts DEF Alert, Times
  <2>4. /\ a.state \in {"absent", "pending"} => a.sentAt = 0
        /\ a.state # "inactive" => a.resolvedAt = 0
        /\ a.state = "inactive" => a.resolvedAt > 0 /\ a.firedAt <= a.resolvedAt
        /\ a.firedAt <= now /\ a.resolvedAt <= now
        /\ a.sentAt <= lastSend
        /\ a.sentAt # 0 => a.validUntil >= a.sentAt + 4 * ResendDelay
        /\ a.sentAt > changedAt => a.validUntil = a.sentAt + 4 * Delta
        /\ a.sentAt > lostAt /\ a.sentAt >= a.resolvedAt => am[identity][k] = EndsAt(a)
      BY DEF DeliveryInv, EntryInv
  <2>5. \/ am'[identity][k] = (IF k \in sent THEN EndsAt(b) ELSE am[identity][k]) /\ lostAt' = lostAt
        \/ lostAt' = now /\ am'[identity][k] = am[identity][k]
      BY <1>1 DEF TypeOK
  <2>6. CASE k \in sent
    <3>1. a.state \notin {"absent", "pending"}
        BY <2>6 DEF NeedsSending
    <3>2. /\ b.state = a.state /\ b.firedAt = a.firedAt /\ b.resolvedAt = a.resolvedAt
          /\ b.sentAt = now /\ b.validUntil = now + 4 * Delta
        BY <2>6, <2>2 DEF Stamp, Alert
    <3> HIDE DEF a, b, sent, stamped
    <3> QED
        BY <1>1, <1>2, <2>1, <2>3, <2>4, <2>5, <2>6, <3>1, <3>2, TimeFacts DEF EntryInv
  <2>7. CASE k \notin sent
    <3>1. b = a
        BY <2>7
    <3>2. a.state \notin {"absent", "pending"} => a.resolvedAt <= a.sentAt /\ a.sentAt + ResendDelay >= now
        BY <1>2, <2>3, <2>7, TimeFacts DEF NeedsSending
    <3> HIDE DEF a, b, sent, stamped
    <3> QED
        BY <1>1, <1>2, <2>1, <2>3, <2>4, <2>5, <2>7, <3>1, <3>2, TimeFacts DEF EntryInv
  <2> QED
      BY <2>6, <2>7
<1> QED
    BY <1>3, <1>4 DEF DeliveryInv

\* A fresh Active map satisfies the entry invariant.
LEMMA FreshDelivery ==
    ASSUME TypeOK, DeliveryInv, active' = [k \in Keys |-> NoAlert],
           UNCHANGED <<now, lastSend, lostAt, changedAt>>
    PROVE  DeliveryInv'
<1>1. /\ now \in Nat /\ lastSend \in Nat /\ lostAt \in Nat /\ changedAt \in Nat
      /\ ClockInv'
    BY TimeFacts DEF TypeOK, Times, DeliveryInv, ClockInv
<1>2. ASSUME NEW k \in Keys PROVE EntryInv(k)'
    BY <1>1 DEF EntryInv, NoAlert
<1> QED
    BY <1>1, <1>2 DEF DeliveryInv

\* Steps that leave the Active map and what was sent alone; the clock may move,
\* or the frequency change, after which nothing has been sent yet.
LEMMA IdleDelivery ==
    ASSUME TypeOK, TypeOK', DeliveryInv, now <= now',
           UNCHANGED <<active, identity, am, lastSend, lostAt>>,
           UNCHANGED <<interval, changedAt>> \/ changedAt' = now
    PROVE  DeliveryInv'
<1>1. /\ now \in Nat /\ now' \in Nat /\ lastSend \in Nat /\ lostAt \in Nat
      /\ changedAt \in Nat /\ changedAt' \in Nat
      /\ lastSend <= now /\ lostAt <= lastSend /\ changedAt <= now
    BY TimeFacts DEF TypeOK, Times, DeliveryInv, ClockInv
<1>2. ClockInv'
    BY <1>1 DEF ClockInv
<1>3. ASSUME NEW k \in Keys PROVE EntryInv(k)'
  <2>1. /\ active[k].firedAt \in Nat /\ active[k].resolvedAt \in Nat
        /\ active[k].sentAt \in Nat
      BY TimeFacts DEF TypeOK, Alert, Times
  <2>2. active[k].sentAt > changedAt' => UNCHANGED <<interval, changedAt>>
      BY <1>1, <2>1 DEF DeliveryInv, EntryInv
  <2> QED
      BY <1>1, <2>1, <2>2 DEF DeliveryInv, EntryInv, EndsAt, Delta
<1> QED
    BY <1>2, <1>3 DEF DeliveryInv

\* The delivery invariant holds in every reachable state.
LEMMA DeliveryInvariant == Spec => []DeliveryInv
<1>1. Init => DeliveryInv
  <2> SUFFICES ASSUME Init PROVE DeliveryInv
      OBVIOUS
  <2>1. now \in Nat /\ lastSend = 0 /\ lostAt = 0 /\ changedAt = 0 /\ ClockInv
      BY TimeFacts DEF Init, Times, ClockInv
  <2>2. ASSUME NEW k \in Keys PROVE EntryInv(k)
      BY <2>1 DEF Init, EntryInv, NoAlert
  <2> QED
      BY <2>1, <2>2 DEF DeliveryInv
<1>2. TypeOK /\ TypeOK' /\ DeliveryInv /\ [Next]_vars => DeliveryInv'
  <2> SUFFICES ASSUME TypeOK, TypeOK', DeliveryInv, [Next]_vars PROVE DeliveryInv'
      OBVIOUS
  <2>0. now <= now
      BY TimeFacts DEF TypeOK, Times
  <2>1. CASE Evaluate
      BY <2>1, EvaluateDelivery
  <2>2. CASE EvaluateFails
    <3>1. PICK ts \in EvalTimestamps : now' = ts
        BY <2>2 DEF EvaluateFails
    <3>2. now <= now'
        BY <3>1, TimestampFacts, TimeFacts DEF TypeOK, Times
    <3> QED
        BY <2>2, <3>2, IdleDelivery DEF EvaluateFails, auxVars
  <2>3. CASE SendAlerts
      BY <2>3, SendAlertsDelivery
  <2>4. CASE SendAlertsFails
      BY <2>4, <2>0, IdleDelivery DEF SendAlertsFails, ruleVars, auxVars
  <2>5. CASE EditTask
    <3>1. CASE UNCHANGED <<active, identity>> /\ (UNCHANGED <<interval, changedAt>> \/ changedAt' = now)
        BY <2>5, <3>1, <2>0, IdleDelivery DEF EditTask
    <3>2. CASE FreshRule /\ UNCHANGED changedAt
        BY <2>5, <3>2, FreshDelivery DEF EditTask, FreshRule
    <3> QED
        BY <2>5, <3>1, <3>2 DEF EditTask
  <2>6. CASE DisableAndEnable
      BY <2>6, FreshDelivery DEF DisableAndEnable, FreshRule
  <2>7. CASE Restart
      BY <2>7, FreshDelivery DEF Restart, FreshRule
  <2>8. CASE UNCHANGED vars
      BY <2>8, <2>0, IdleDelivery DEF vars, ruleVars, auxVars
  <2> QED
      BY <2>1, <2>2, <2>3, <2>4, <2>5, <2>6, <2>7, <2>8 DEF Next
<1> QED
    BY <1>1, <1>2, TypeCorrect, PTL DEF Spec

\* The invariant implies both delivery properties: an entry sent within the
\* resend delay was sent after the last loss, so the Alertmanager holds it.
LEMMA DeliveryImplies ==
    ASSUME TypeOK, DeliveryInv
    PROVE  FiringIsHeld /\ ResolvedIsReleased
<1>0. /\ now \in Nat /\ lastSend \in Nat /\ lostAt \in Nat /\ changedAt \in Nat
      /\ lastSend <= now
      /\ Delta \in Nat /\ ResendDelay \in Nat /\ ResendDelay <= Delta
    BY TimeFacts, DeltaFacts DEF TypeOK, Times, DeliveryInv, ClockInv
<1>1. ASSUME NEW k \in Keys, lostAt + ResendDelay < lastSend
      PROVE  /\ Live(k) /\ active[k].firedAt <= lastSend
                => /\ am[identity][k] >= lastSend + 3 * ResendDelay
                   /\ changedAt + ResendDelay < lastSend
                      => am[identity][k] >= lastSend + 3 * Delta
             /\ active[k].state = "inactive" /\ active[k].resolvedAt <= lastSend
                => am[identity][k] <= now
  <2> DEFINE a == active[k]
  <2>1. a.firedAt \in Nat /\ a.resolvedAt \in Nat /\ a.sentAt \in Nat /\ a.validUntil \in Nat
      BY TimeFacts DEF TypeOK, Alert, Times
  <2>2. EntryInv(k)
      BY DEF DeliveryInv
  <2> QED
      BY <1>0, <1>1, <2>1, <2>2, TimeFacts DEF EntryInv, EndsAt, Live
<1> QED
    BY <1>1 DEF FiringIsHeld, ResolvedIsReleased

\* For every set of frequencies, resend delay and retention: while notifications
\* get through, a firing alert is held open at the Alertmanager for three periods
\* past the last SendAlerts, and for three resend delays while the alerts of a
\* task of another frequency have not all been sent again.
THEOREM FiringHeld == Spec => []FiringIsHeld
BY TypeCorrect, DeliveryInvariant, DeliveryImplies, PTL

\* Under the same condition, an alert Eval has resolved is not left open.
THEOREM ResolvedReleased == Spec => []ResolvedIsReleased
BY TypeCorrect, DeliveryInvariant, DeliveryImplies, PTL

----------------------------------------------------------------------------
(* Forgetting resolved alerts                                              *)

\* No alert is held past what the last run of SendAlerts could at most have stamped,
\* and a resolved one not past what was stamped before its resolution.
ReleaseInv ==
    /\ \A id \in Identities, k \in Keys : am[id][k] <= lastSend + 4 * LongestDelta
    /\ \A k \in Keys : active[k].state = "inactive" =>
                           am[identity][k] <= active[k].resolvedAt + 4 * LongestDelta

\* A successful evaluation keeps it: what it resolves, it resolves now.
LEMMA EvaluateRelease ==
    ASSUME TypeOK, DeliveryInv, ReleaseInv, Evaluate
    PROVE  ReleaseInv'
<1>1. PICK ts \in EvalTimestamps, g \in [Series -> Grades], hasData \in BOOLEAN :
         Eval(ts, g, hasData)
    BY DEF Evaluate
<1> DEFINE result == ResultVector(ts, IF hasData THEN ts ELSE lastData, g)
<1>2. /\ active' = [k \in Keys |-> NextAlert(k, ts, result, g)]
      /\ UNCHANGED <<identity, am, lastSend>>
    BY <1>1 DEF Eval
<1> HIDE DEF result
<1>3. ts \in Times /\ ts \in Nat /\ lastSend \in Nat /\ lastSend < ts
    BY TimestampFacts, TimeFacts DEF TypeOK, Times, DeliveryInv, ClockInv
<1>4. ASSUME NEW k \in Keys, active'[k].state = "inactive"
      PROVE  am[identity][k] <= active'[k].resolvedAt + 4 * LongestDelta
  <2> DEFINE b == NextAlert(k, ts, result, g)
  <2>1. active'[k] = b /\ active[k] \in Alert
      BY <1>2 DEF TypeOK
  <2>2. b.resolvedAt = ts \/ b = active[k]
      BY <1>3, <1>4, <2>1, NextAlertShape DEF NoAlert
  <2>3. am[identity][k] \in Nat /\ am[identity][k] <= lastSend + 4 * LongestDelta
      BY DEF TypeOK, ReleaseInv
  <2>4. CASE b.resolvedAt = ts
      BY <1>3, <2>1, <2>3, <2>4, LongestFacts
  <2>5. CASE b = active[k]
      BY <1>4, <2>1, <2>5 DEF ReleaseInv
  <2> QED
      BY <2>2, <2>4, <2>5
<1> QED
    BY <1>2, <1>4 DEF ReleaseInv

\* SendAlerts keeps it: it stamps at most now + 4 * LongestDelta, and sends a resolved alert
\* with the time of its resolution.
LEMMA SendAlertsRelease ==
    ASSUME TypeOK, DeliveryInv, ReleaseInv, SendAlerts
    PROVE  ReleaseInv'
<1> DEFINE sent == {k \in Keys : NeedsSending(active[k], now)}
           stamped == [k \in Keys |-> IF k \in sent THEN Stamp(active[k], now) ELSE active[k]]
           told == [am EXCEPT ![identity] =
                      [k \in Keys |-> IF k \in sent THEN EndsAt(stamped[k]) ELSE @[k]]]
<1>1. /\ active' = stamped /\ lastSend' = now /\ identity' = identity
      /\ am' = told \/ am' = am
    BY DEF SendAlerts
<1>2. now \in Nat /\ lastSend \in Nat /\ lastSend <= now /\ identity \in Identities
    BY TimeFacts DEF TypeOK, Times, DeliveryInv, ClockInv
<1>3. ASSUME NEW k \in Keys
      PROVE  /\ stamped[k].state = active[k].state
             /\ stamped[k].resolvedAt = active[k].resolvedAt
             /\ active[k].resolvedAt \in Nat
             /\ k \in sent => /\ stamped[k].validUntil \in Nat
                               /\ stamped[k].validUntil <= now + 4 * LongestDelta
    BY <1>2, TimeFacts, LongestFacts, DeltaFacts DEF TypeOK, Stamp, Alert, Times
<1>4. ASSUME NEW k \in Keys
      PROVE  active[k].resolvedAt <= now /\ (active[k].state = "inactive" => active[k].resolvedAt > 0)
    BY DEF DeliveryInv, EntryInv
<1>5. ASSUME NEW k \in Keys
      PROVE  /\ told[identity][k] = (IF k \in sent THEN EndsAt(stamped[k]) ELSE am[identity][k])
             /\ \A id \in Identities \ {identity} : told[id][k] = am[id][k]
             /\ \A id \in Identities : am[id][k] \in Nat
    BY <1>2 DEF TypeOK
<1> HIDE DEF sent, stamped, told
<1>6. ASSUME NEW k \in Keys, k \in sent
      PROVE  /\ EndsAt(stamped[k]) <= now + 4 * LongestDelta
             /\ active[k].state = "inactive" => EndsAt(stamped[k]) = active[k].resolvedAt
    BY <1>2, <1>3, <1>4, <1>6, LongestFacts DEF EndsAt
<1>7. \A id \in Identities, k \in Keys : am'[id][k] <= now + 4 * LongestDelta
  <2> SUFFICES ASSUME NEW id \in Identities, NEW k \in Keys PROVE am'[id][k] <= now + 4 * LongestDelta
      OBVIOUS
  <2>1. am[id][k] <= now + 4 * LongestDelta
      BY <1>2, <1>5, LongestFacts DEF ReleaseInv
  <2> QED
      BY <1>1, <1>5, <1>6, <2>1
<1>8. ASSUME NEW k \in Keys, active[k].state = "inactive"
      PROVE  am'[identity][k] <= active[k].resolvedAt + 4 * LongestDelta
  <2>1. am[identity][k] <= active[k].resolvedAt + 4 * LongestDelta
      BY <1>8 DEF ReleaseInv
  <2>2. active[k].resolvedAt <= active[k].resolvedAt + 4 * LongestDelta
      BY <1>3, LongestFacts
  <2> QED
      BY <1>1, <1>5, <1>6, <1>8, <2>1, <2>2
<1> QED
    BY <1>1, <1>3, <1>7, <1>8 DEF ReleaseInv

\* ReleaseInv holds in every reachable state.
LEMMA ReleaseInvariant == Spec => []ReleaseInv
<1>1. Init => ReleaseInv
  <2> SUFFICES ASSUME Init PROVE ReleaseInv
      OBVIOUS
  <2>1. \A k \in Keys : active[k].state = "absent"
      BY DEF Init, NoAlert
  <2>2. \A id \in Identities, k \in Keys : am[id][k] = 0
      BY DEF Init
  <2>3. 0 <= lastSend + 4 * LongestDelta
      BY LongestFacts DEF Init
  <2> QED
      BY <2>1, <2>2, <2>3 DEF ReleaseInv
<1>2. TypeOK /\ DeliveryInv /\ ReleaseInv /\ [Next]_vars => ReleaseInv'
  <2> SUFFICES ASSUME TypeOK, DeliveryInv, ReleaseInv, [Next]_vars PROVE ReleaseInv'
      OBVIOUS
  <2>0. FreshRule => \A k \in Keys : active'[k].state = "absent"
      BY DEF FreshRule, NoAlert
  <2>1. CASE Evaluate
      BY <2>1, EvaluateRelease
  <2>2. CASE EvaluateFails
      BY <2>2 DEF EvaluateFails, auxVars, ReleaseInv
  <2>3. CASE SendAlerts
      BY <2>3, SendAlertsRelease
  <2>4. CASE SendAlertsFails
      BY <2>4 DEF SendAlertsFails, ruleVars, auxVars, ReleaseInv
  <2>5. CASE EditTask
      BY <2>5, <2>0 DEF EditTask, ReleaseInv
  <2>6. CASE DisableAndEnable
      BY <2>6, <2>0 DEF DisableAndEnable, ReleaseInv
  <2>7. CASE Restart
    <3>1. 0 <= lastSend + 4 * LongestDelta
        BY TimeFacts, LongestFacts DEF TypeOK, Times
    <3> QED
        BY <2>7, <2>0, <3>1 DEF Restart, ReleaseInv
  <2>8. CASE UNCHANGED vars
      BY <2>8 DEF vars, ruleVars, auxVars, ReleaseInv
  <2> QED
      BY <2>1, <2>2, <2>3, <2>4, <2>5, <2>6, <2>7, <2>8 DEF Next
<1> QED
    BY <1>1, <1>2, TypeCorrect, DeliveryInvariant, PTL DEF Spec

\* For every retention and all frequencies the rule was ever edited to: what Eval
\* forgets closes itself at the Alertmanager, at once if the retention spans four
\* of the longest periods, and otherwise in less than the difference.
THEOREM ForgottenExpires == Spec => ForgottenSoonExpires
<1> DEFINE Forgotten(k) == /\ active[k].state = "inactive" /\ active'[k].state = "absent"
                           /\ now' # now
                           => am[identity][k] + ResolvedRetention < now' + 4 * LongestDelta
<1>1. TypeOK /\ DeliveryInv /\ ReleaseInv /\ [Next]_vars => [\A k \in Keys : Forgotten(k)]_vars
  <2> SUFFICES ASSUME TypeOK, DeliveryInv, ReleaseInv, Next,
                      NEW k \in Keys, active[k].state = "inactive", active'[k].state = "absent",
                      now' # now
               PROVE  am[identity][k] + ResolvedRetention < now' + 4 * LongestDelta
      OBVIOUS
  <2>1. CASE Evaluate
    <3>1. PICK ts \in EvalTimestamps, g \in [Series -> Grades], hasData \in BOOLEAN :
             Eval(ts, g, hasData)
        BY <2>1 DEF Evaluate
    <3> DEFINE result == ResultVector(ts, IF hasData THEN ts ELSE lastData, g)
    <3>2. now' = ts /\ active'[k] = NextAlert(k, ts, result, g)
        BY <3>1 DEF Eval
    <3> HIDE DEF result
    <3>3. ts \in Times /\ ts \in Nat /\ active[k] \in Alert /\ active[k].resolvedAt \in Nat
        BY TimestampFacts, TimeFacts DEF TypeOK, Alert, Times
    <3>4. Forgets(active[k], ts)
        BY <3>2, <3>3, NextAlertShape
    <3>5. ts - active[k].resolvedAt > ResolvedRetention
        BY <3>4 DEF Forgets
    <3>6. am[identity][k] \in Nat /\ am[identity][k] <= active[k].resolvedAt + 4 * LongestDelta
        BY DEF TypeOK, ReleaseInv
    <3> QED
        BY <3>2, <3>3, <3>5, <3>6, TimeFacts, LongestFacts
  <2>2. CASE EvaluateFails
      BY <2>2 DEF EvaluateFails
  <2> QED
      BY <2>1, <2>2 DEF Next, SendAlerts, SendAlertsFails, EditTask, DisableAndEnable, Restart
<1>2. Spec => [][\A k \in Keys : Forgotten(k)]_vars
    BY <1>1, TypeCorrect, DeliveryInvariant, ReleaseInvariant, PTL DEF Spec
<1> QED
    BY <1>2 DEF ForgottenSoonExpires

----------------------------------------------------------------------------
(* Missing-data alerts                                                     *)

\* A missing-data alert stands alone, for any set of series: the vector it is
\* in holds nothing else, and every alert outside the vector is resolved.
THEOREM NoDataAlone == Spec => []NoDataStandsAlone
<1>1. Init => NoDataStandsAlone
    BY DEF Init, NoDataStandsAlone, Live, NoAlert
<1>2. TypeOK /\ NoDataStandsAlone /\ [Next]_vars => NoDataStandsAlone'
  <2> SUFFICES ASSUME TypeOK, NoDataStandsAlone, [Next]_vars PROVE NoDataStandsAlone'
      OBVIOUS
  <2>0. FreshRule => NoDataStandsAlone'
      BY DEF FreshRule, NoDataStandsAlone, Live, NoAlert
  <2>1. CASE Evaluate
    <3>1. PICK ts \in EvalTimestamps, g \in [Series -> Grades], hasData \in BOOLEAN :
             Eval(ts, g, hasData)
        BY <2>1 DEF Evaluate
    <3> DEFINE last == IF hasData THEN ts ELSE lastData
               result == ResultVector(ts, last, g)
    <3>2. active' = [k \in Keys |-> NextAlert(k, ts, result, g)]
        BY <3>1 DEF Eval
    <3>3. result = {NoDataKey(last)} \/ result \subseteq Series
        BY DEF ResultVector
    <3> HIDE DEF result
    <3>4. ASSUME NEW k \in Keys, Live(k)' PROVE k \in result
      <4>1. active[k] \in Alert
          BY DEF TypeOK
      <4> QED
          BY <3>2, <3>4, <4>1 DEF Live, NextAlert, Resolve, Alert, NoAlert
    <3> QED
        BY <3>3, <3>4 DEF NoDataStandsAlone, IsMissing
  <2>2. CASE EvaluateFails
      BY <2>2 DEF EvaluateFails, NoDataStandsAlone, Live
  <2>3. CASE SendAlerts
    <3>1. ASSUME NEW k \in Keys PROVE Live(k)' = Live(k)
        BY <2>3 DEF SendAlerts, Live, Stamp, Alert, TypeOK
    <3> QED
        BY <3>1 DEF NoDataStandsAlone
  <2>4. CASE SendAlertsFails
      BY <2>4 DEF SendAlertsFails, ruleVars, NoDataStandsAlone, Live
  <2>5. CASE EditTask
      BY <2>5, <2>0 DEF EditTask, NoDataStandsAlone, Live
  <2>6. CASE DisableAndEnable \/ Restart
      BY <2>6, <2>0 DEF DisableAndEnable, Restart
  <2>7. CASE UNCHANGED vars
      BY <2>7 DEF vars, ruleVars, NoDataStandsAlone, Live
  <2> QED
      BY <2>1, <2>2, <2>3, <2>4, <2>5, <2>6, <2>7 DEF Next
<1> QED
    BY <1>1, <1>2, TypeCorrect, PTL DEF Spec

=============================================================================
