------------------------- MODULE AlertHistoryProofs -------------------------
(***************************************************************************)
(* Proofs that the rows RecordRuleStateHistory saves agree with the Active *)
(* map of the rule, for every set of series, any hold duration, any number *)
(* of restarts, edits and failures.                                        *)
(***************************************************************************)
EXTENDS AlertRuleProofs

\* What the Active map says of an alert in the given state.
View(k, state) == IF state \in {"firing", "recovering"} THEN Reported(k, state) ELSE "inactive"

(***************************************************************************)
(* The inductive invariant.  No row is saved as pending; a rule object     *)
(* whose restart is not handled, and which lost no history operation, has  *)
(* evaluated nothing, so the reconciliation, which takes every alert       *)
(* without an item for resolved, meets an empty map.                       *)
(***************************************************************************)
RowsInv == \A k \in Keys : /\ history[k].state # "pending"
                           /\ history[k].state = "none" => history[k] = NoRow
FreshInv == ~handledRestart /\ ~historyLost => \A k \in Keys : active[k].state = "absent"
HistoryInv == RowsInv /\ FreshInv /\ HistoryTracksAlerts

----------------------------------------------------------------------------
\* The state of an alert after an evaluation whose result holds it.
LEMMA InResultState ==
    ASSUME NEW k, NEW ts \in Times, NEW result, NEW g, active[k] \in Alert, k \in result
    PROVE  /\ Upsert(active[k], ts).state \in {"pending", "firing", "recovering"}
           /\ Upsert(active[k], ts).state \in {"firing", "recovering"}
              => /\ active[k].state = Upsert(active[k], ts).state
                 /\ NextAlert(k, ts, result, g).state \in {"firing", "recovering"}
           /\ Upsert(active[k], ts).state = "pending"
              => active[k].state \in {"absent", "inactive", "pending"}
           /\ NextAlert(k, ts, result, g).state \in {"pending", "firing", "recovering"}
<1>0. 0 \in Times /\ NoAlert \in Alert
    BY TimeFacts DEF Times, NoAlert, Alert, AlertStates
<1> DEFINE a == Upsert(active[k], ts)
           b == Fire(a, ts)
           r == IsRecovering(g, k)
<1>1. /\ a \in Alert
      /\ a.state \in {"pending", "firing", "recovering"}
      /\ a.state \in {"firing", "recovering"} => active[k].state = a.state
      /\ a.state = "pending" => active[k].state \in {"absent", "inactive", "pending"}
    BY <1>0 DEF Upsert, Alert, AlertStates
<1> HIDE DEF a
<1>2. /\ b \in Alert
      /\ b.state = a.state \/ (a.state = "pending" /\ b.state = "firing")
    BY <1>0, <1>1 DEF Fire, Alert, AlertStates
<1> HIDE DEF b, r
<1>3. \/ Recover(b, k, r).state = b.state
      \/ b.state = "firing" /\ Recover(b, k, r).state = "recovering"
      \/ b.state = "recovering" /\ Recover(b, k, r).state = "firing"
    BY <1>2 DEF Recover, Alert, AlertStates
<1>4. NextAlert(k, ts, result, g) = Recover(b, k, r)
    BY DEF NextAlert, a, b, r
<1> QED
    BY <1>1, <1>2, <1>3, <1>4 DEF a

\* An alert the result does not hold is resolved or forgotten.
LEMMA OutOfResultState ==
    ASSUME NEW k, NEW ts \in Times, NEW result, NEW g, active[k] \in Alert, k \notin result
    PROVE  NextAlert(k, ts, result, g).state \in {"absent", "inactive"}
BY TimeFacts DEF NextAlert, Resolve, Forgets, NoAlert, Alert, AlertStates, Times

(***************************************************************************)
(* itemsToAdd: an item carries the new view of its alert, and an alert     *)
(* without an item keeps the view it had.                                  *)
(***************************************************************************)
LEMMA ItemFacts ==
    ASSUME active \in [Keys -> Alert], NEW ts \in Times, NEW result, NEW g,
           NEW next, next = [k \in Keys |-> NextAlert(k, ts, result, g)], NEW k \in Keys
    PROVE  /\ k \in Items(ts, result, next) =>
                 ItemState(k, result, next) = View(k, next[k].state)
           /\ k \notin Items(ts, result, next) =>
                 View(k, next[k].state) = View(k, active[k].state)
<1>1. active[k] \in Alert /\ next[k] = NextAlert(k, ts, result, g)
    OBVIOUS
<1>2. CASE k \in result
  <2>1. k \in Items(ts, result, next) <=> next[k].state # Upsert(active[k], ts).state
      BY <1>2 DEF Items
  <2>2. ItemState(k, result, next) = Reported(k, next[k].state)
      BY <1>2 DEF ItemState
  <2> QED
      BY <1>1, <1>2, <2>1, <2>2, InResultState DEF View
<1>3. CASE k \notin result
  <2>1. k \in Items(ts, result, next) <=> active[k].state \notin {"absent", "inactive"}
      BY <1>3 DEF Items
  <2>2. ItemState(k, result, next) = "inactive"
      BY <1>3 DEF ItemState
  <2> QED
      BY <1>1, <1>3, <2>1, <2>2, OutOfResultState DEF View
<1> QED
    BY <1>2, <1>3

\* The first item of a key is its last one, unless the alert begins to recover in
\* the evaluation it fires in; an alert that was not in the Active map does not:
\* its series is in the result only by the target.
LEMMA FirstItemFacts ==
    ASSUME active \in [Keys -> Alert], NEW ts \in Times, NEW last \in Times, NEW g, NEW result,
           result = ResultVector(ts, last, g),
           NEW next, next = [k \in Keys |-> NextAlert(k, ts, result, g)], NEW k \in Keys
    PROVE  /\ FirstState(k, ts, result, next) \in {"firing", ItemState(k, result, next)}
           /\ active[k].state = "absent" =>
                 FirstState(k, ts, result, next) = ItemState(k, result, next)
<1>1. FirstState(k, ts, result, next) \in {"firing", ItemState(k, result, next)}
    BY DEF FirstState
<1>2. ASSUME active[k].state = "absent", k \in result PROVE next[k].state # "recovering"
  <2>1. ~IsRecovering(g, k)
    <3>1. result = {NoDataKey(last)} \/ \A j \in result : Matches(g, j)
        BY DEF ResultVector
    <3>2. CASE k = NoDataKey(last)
        BY <3>2, NoDataKeyFacts DEF IsRecovering, IsMissing
    <3>3. CASE Matches(g, k)
        BY <1>2, <3>3 DEF Matches, IsRecovering
    <3> QED
        BY <1>2, <3>1, <3>2, <3>3
  <2> DEFINE a == Upsert(active[k], ts)
             b == Fire(a, ts)
             r == IsRecovering(g, k)
  <2>0. 0 \in Times /\ NoAlert \in Alert
      BY TimeFacts DEF Times, NoAlert, Alert, AlertStates
  <2>2. a.state = "pending" /\ a \in Alert
      BY <1>2, <2>0 DEF Upsert, Alert, AlertStates
  <2> HIDE DEF a
  <2>3. b.state \in {"pending", "firing"} /\ b \in Alert
      BY <2>2 DEF Fire, Alert, AlertStates
  <2> HIDE DEF b, r
  <2>4. Recover(b, k, r).state # "recovering"
      BY <2>1, <2>3 DEF Recover, r
  <2> QED
      BY <1>2, <2>4 DEF NextAlert, a, b, r
<1> QED
    BY <1>1, <1>2 DEF FirstState

\* A view is a state a row can have.
LEMMA ViewFacts ==
    ASSUME NEW k, NEW s
    PROVE  View(k, s) \in {"inactive", "recovering", "firing", "nodata"}
BY DEF View, Reported

----------------------------------------------------------------------------
(***************************************************************************)
(* What one recording does, given items as ItemFacts describes them: the   *)
(* rows stay well formed, and when nothing fails they show the new view of *)
(* every alert, or a recovering row that was passed over.                  *)
(***************************************************************************)
LEMMA RecordHistory ==
    ASSUME TypeOK, HistoryInv, NEW ts, NEW items, NEW itemState, NEW firstState, NEW overall,
           NEW view,
           \A k \in Keys : /\ view[k] \in {"inactive", "recovering", "firing", "nodata"}
                           /\ k \in items => /\ itemState[k] = view[k]
                                             /\ firstState[k] \in {"firing", view[k]}
                                             /\ active[k].state = "absent" => firstState[k] = view[k]
                           /\ k \notin items => view[k] = View(k, active[k].state),
           RecordRuleStateHistory(ts, items, itemState, firstState, overall)
    PROVE  /\ RowsInv'
           /\ handledRestart' \/ historyLost'
           /\ ~historyLost' => \A k \in Keys :
                 HistoryView(k)' \in {view[k], "recovering"}
           /\ ~historyLost => \A k \in Keys :
                 history'[k] # history[k] => history'[k].state = view[k]
<1>1. CASE historyLost' = TRUE /\ UNCHANGED history
    BY <1>1 DEF HistoryInv, RowsInv
<1>2. CASE /\ handledRestart' = TRUE /\ UNCHANGED historyLost
           /\ ~handledRestart /\ Saved # {}
           /\ \E first \in LatestSaved :
                 history' = ReconciledRows(ts, items, itemState, firstState, overall, first)
  <2>1. PICK first \in LatestSaved :
            history' = ReconciledRows(ts, items, itemState, firstState, overall, first)
      BY <1>2
  <2>2. \A k \in Keys : IF k \notin RevisedKeys(items, itemState)
                        THEN history'[k] = history[k]
                        ELSE history'[k].state = RevisedState(k, items, itemState, firstState)
      BY <2>1 DEF ReconciledRows
  <2>3. ASSUME NEW k \in Keys, k \in RevisedKeys(items, itemState)
        PROVE  /\ history'[k].state \in {"inactive", "recovering", "firing", "nodata"}
               /\ ~historyLost => history'[k].state = view[k]
    <3>1. history'[k].state = RevisedState(k, items, itemState, firstState)
        BY <2>2, <2>3
    <3>2. CASE k \in items
        BY <3>1, <3>2, <1>2 DEF RevisedState, HistoryInv, FreshInv
    <3>3. CASE k \notin items
        BY <3>1, <3>3, <1>2 DEF RevisedState, HistoryInv, FreshInv, View
    <3> QED
        BY <3>2, <3>3
  <2>4. ASSUME NEW k \in Keys, k \notin RevisedKeys(items, itemState), ~historyLost
        PROVE  HistoryView(k)' \in {view[k], "recovering"}
    <3>1. history'[k] = history[k]
        BY <2>2, <2>4
    <3>2. active[k].state = "absent" /\ history[k] \in Row
        BY <1>2, <2>4 DEF HistoryInv, FreshInv, TypeOK
    <3>3. CASE k \in Saved /\ k \in items
        BY <2>4, <3>1, <3>3 DEF RevisedKeys, HistoryView, Saved
    <3>4. CASE k \in Saved /\ k \notin items
      <4>1. history[k].state \notin Alarming /\ history[k] # NoRow
          BY <2>4, <3>4 DEF RevisedKeys, Saved
      <4>2. history[k].state \in {"inactive", "recovering"}
          BY <4>1, <3>2 DEF HistoryInv, RowsInv, Alarming, Row, ReportedStates, AlertStates
      <4>3. view[k] = "inactive"
          BY <3>2, <3>4 DEF View
      <4> QED
          BY <4>1, <4>2, <4>3, <3>1 DEF HistoryView
    <3>5. CASE k \notin Saved
      <4>1. history[k] = NoRow /\ k \notin items
          BY <2>4, <3>5 DEF RevisedKeys, Saved
      <4> QED
          BY <4>1, <3>1, <3>2 DEF HistoryView, View
    <3> QED
        BY <3>3, <3>4, <3>5
  <2>5. RowsInv'
      BY <2>2, <2>3 DEF RowsInv, HistoryInv
  <2>6. ASSUME NEW k \in Keys, k \in RevisedKeys(items, itemState), ~historyLost
        PROVE  HistoryView(k)' = view[k]
      BY <2>3, <2>6 DEF HistoryView, NoRow
  <2> QED
      BY <1>2, <2>2, <2>3, <2>4, <2>5, <2>6
<1>3. CASE /\ handledRestart' = TRUE /\ UNCHANGED historyLost
           /\ handledRestart \/ Saved = {}
           /\ history' = PlainRows(ts, items, itemState, overall)
  <2>1. \A k \in Keys : IF k \in items THEN history'[k].state = itemState[k]
                                       ELSE history'[k] = history[k]
      BY <1>3 DEF PlainRows
  <2>2. RowsInv'
      BY <2>1 DEF RowsInv, HistoryInv
  <2>3. ASSUME NEW k \in Keys, ~historyLost
        PROVE  HistoryView(k)' \in {view[k], "recovering"}
    <3>1. CASE k \in items
        BY <2>1, <3>1 DEF HistoryView, NoRow
    <3>2. CASE k \notin items
      <4>1. HistoryView(k)' = HistoryView(k) /\ view[k] = View(k, active[k].state)
          BY <2>1, <3>2 DEF HistoryView
      <4>2. CASE handledRestart
          BY <4>1, <4>2, <2>3 DEF HistoryInv, HistoryTracksAlerts, AlertView, View, Live
      <4>3. CASE ~handledRestart
          BY <4>1, <4>3, <2>3, <1>3
             DEF HistoryInv, FreshInv, View, HistoryView, Saved
      <4> QED
          BY <4>2, <4>3
    <3> QED
        BY <3>1, <3>2
  <2> QED
      BY <1>3, <2>1, <2>2, <2>3
<1> QED
    BY <1>1, <1>2, <1>3 DEF RecordRuleStateHistory

----------------------------------------------------------------------------
(* The steps                                                               *)

\* One evaluation, seen by the history.
LEMMA EvaluateHistory ==
    ASSUME TypeOK, HistoryInv, Evaluate
    PROVE  /\ HistoryInv'
           /\ ~historyLost => \A k \in Keys :
                 history'[k] # history[k] => history'[k].state = View(k, active'[k].state)
<1>1. PICK ts \in EvalTimestamps, g \in [Series -> Grades], hasData \in BOOLEAN :
          Eval(ts, g, hasData)
    BY DEF Evaluate
<1>2. ts \in Times
    BY TimestampFacts DEF TypeOK
<1> DEFINE last == IF hasData THEN ts ELSE lastData
           result == ResultVector(ts, last, g)
           next == [k \in Keys |-> NextAlert(k, ts, result, g)]
           items == Items(ts, result, next)
           itemState == [k \in Keys |-> ItemState(k, result, next)]
           firstState == [k \in Keys |-> FirstState(k, ts, result, next)]
           view == [k \in Keys |-> View(k, next[k].state)]
<1>3. active' = next /\ RecordRuleStateHistory(ts, items, itemState, firstState, State(next))
    BY <1>1 DEF Eval
<1>4. active \in [Keys -> Alert]
    BY DEF TypeOK
<1> HIDE DEF result
<1>5. \A k \in Keys : /\ k \in items => itemState[k] = view[k]
                      /\ k \notin items => view[k] = View(k, active[k].state)
    BY <1>2, <1>4, ItemFacts
<1>11. last \in Times
    BY <1>2 DEF TypeOK
<1>12. ASSUME NEW k \in Keys, k \in items
       PROVE  /\ firstState[k] \in {"firing", view[k]}
              /\ active[k].state = "absent" => firstState[k] = view[k]
  <2>1. /\ FirstState(k, ts, result, next) \in {"firing", ItemState(k, result, next)}
        /\ active[k].state = "absent" =>
              FirstState(k, ts, result, next) = ItemState(k, result, next)
      BY <1>2, <1>4, <1>11, FirstItemFacts DEF result
  <2> QED
      BY <1>5, <1>12, <2>1
<1>6. \A k \in Keys : view[k] \in {"inactive", "recovering", "firing", "nodata"}
    BY ViewFacts
<1>7. \A k \in Keys : view[k] = View(k, active'[k].state)
    BY <1>3
<1> HIDE DEF next, items, itemState, firstState, view
<1>8. /\ RowsInv'
      /\ handledRestart' \/ historyLost'
      /\ ~historyLost' => \A k \in Keys : HistoryView(k)' \in {view[k], "recovering"}
      /\ ~historyLost => \A k \in Keys :
            history'[k] # history[k] => history'[k].state = view[k]
    BY <1>3, <1>5, <1>6, <1>12, RecordHistory
<1>9. FreshInv'
    BY <1>8 DEF FreshInv
<1>10. HistoryTracksAlerts'
    BY <1>7, <1>8 DEF HistoryTracksAlerts, AlertView, View, Live
<1> QED
    BY <1>7, <1>8, <1>9, <1>10 DEF HistoryInv

\* SendAlerts stamps alerts and leaves their states alone.
LEMMA SendAlertsStates ==
    ASSUME TypeOK, SendAlerts
    PROVE  \A k \in Keys : active'[k].state = active[k].state
<1>1. active' = [k \in Keys |-> IF NeedsSending(active[k], now)
                                THEN Stamp(active[k], now) ELSE active[k]]
    BY DEF SendAlerts
<1> QED
    BY <1>1 DEF Stamp, TypeOK, Alert

\* A new rule object has nothing to disagree with the rows it finds.
LEMMA FreshHistory ==
    ASSUME RowsInv, FreshRule, UNCHANGED history
    PROVE  HistoryInv'
BY DEF FreshRule, HistoryInv, RowsInv, FreshInv, HistoryTracksAlerts, NoAlert

LEMMA KeptHistory ==
    ASSUME HistoryInv, UNCHANGED <<history, handledRestart, historyLost>>,
           \A k \in Keys : active'[k].state = active[k].state
    PROVE  HistoryInv'
<1>1. \A k \in Keys : HistoryView(k)' = HistoryView(k) /\ AlertView(k)' = AlertView(k)
    BY DEF HistoryView, AlertView, Live
<1> QED
    BY <1>1 DEF HistoryInv, RowsInv, FreshInv, HistoryTracksAlerts

LEMMA HistoryStep ==
    ASSUME TypeOK, HistoryInv, [Next]_vars
    PROVE  /\ HistoryInv'
           /\ ~historyLost => \A k \in Keys :
                 history'[k] # history[k] => history'[k].state = View(k, active'[k].state)
<1>1. CASE Evaluate
    BY <1>1, EvaluateHistory
<1>2. CASE EvaluateFails \/ SendAlertsFails \/ UNCHANGED vars
  <2>1. UNCHANGED <<history, handledRestart, historyLost, active>>
      BY <1>2 DEF EvaluateFails, SendAlertsFails, ruleVars, auxVars, vars
  <2> QED
      BY <2>1, KeptHistory
<1>3. CASE SendAlerts
  <2>1. UNCHANGED <<history, handledRestart, historyLost>>
      BY <1>3 DEF SendAlerts
  <2> QED
      BY <1>3, <2>1, SendAlertsStates, KeptHistory
<1>4. CASE EditTask \/ DisableAndEnable \/ Restart
  <2>1. /\ UNCHANGED history
        /\ FreshRule \/ UNCHANGED <<active, handledRestart, historyLost>>
      BY <1>4 DEF EditTask, DisableAndEnable, Restart
  <2> QED
      BY <2>1, FreshHistory, KeptHistory DEF HistoryInv
<1> QED
    BY <1>1, <1>2, <1>3, <1>4 DEF Next

LEMMA HistoryInvariant == Spec => []HistoryInv
<1>1. Init => HistoryInv
    BY DEF Init, HistoryInv, RowsInv, FreshInv, HistoryTracksAlerts, NoRow, NoAlert
<1>2. HistoryInv /\ TypeOK /\ [Next]_vars => HistoryInv'
    BY HistoryStep
<1> QED
    BY <1>1, <1>2, TypeCorrect, PTL DEF Spec

(***************************************************************************)
(* The last saved row of every alert is what the Active map says of it,    *)
(* once the restart is handled and unless a history operation of this rule *)
(* object failed; a row saved as recovering may have been passed over.     *)
(***************************************************************************)
THEOREM HistoryTracked == Spec => []HistoryTracksAlerts
BY HistoryInvariant, PTL DEF HistoryInv

(***************************************************************************)
(* No step records a firing alert as inactive, unless a history operation  *)
(* of this rule object failed before.                                      *)
(***************************************************************************)
THEOREM NoFalseResolutions == Spec => NoFalseResolution
<1>1. TypeOK /\ HistoryInv /\ [Next]_vars =>
        [\A k \in Keys :
           /\ ~historyLost
           /\ history'[k] # history[k] /\ history'[k].state = "inactive"
           => active'[k].state \notin {"firing", "recovering"}]_vars
    BY HistoryStep DEF View, Reported
<1> QED
    BY <1>1, TypeCorrect, HistoryInvariant, PTL DEF Spec, NoFalseResolution
=============================================================================
