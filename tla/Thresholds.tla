----------------------------- MODULE Thresholds -----------------------------
(***************************************************************************)
(* How the points of one series become the grades AlertRule starts from:   *)
(* the conditions a rule may state, the reduction and comparison of        *)
(* BasicRuleThreshold.shouldAlertWithTarget, the boolean policies, and the *)
(* severities that are open from one evaluation to the next.               *)
(*                                                                         *)
(* Values are integers; NaN stands for every point the code drops.  A unit *)
(* is the factor from the threshold's unit to the unit of the result.      *)
(***************************************************************************)
EXTENDS Integers, Sequences, SequencesExt

CONSTANTS
    Values,      \* finite values a point can have
    Targets,     \* targets and recovery targets, in the threshold's unit
    Units,       \* conversion factors
    Severities,  \* threshold names
    Operators,   \* comparison operators of the API in use
    MinPoints,   \* values of DataQualityPolicy.MinPoints in use
    MaxPoints,   \* bound: points in the evaluation window
    NaN,         \* an unusable point
    None         \* an absent field

\* Reduction.legacy
MatchType == [at_least_once |-> "AtleastOnce", all_the_time |-> "AllTheTimes",
              average |-> "OnAverage", total |-> "InTotal", last |-> "Last"]

\* NumericOperator.legacy
CompareOp == [eq |-> "ValueIsEq", neq |-> "ValueIsNotEq",
              gt |-> "ValueIsAbove", gte |-> "ValueAboveOrEq",
              lt |-> "ValueIsBelow", lte |-> "ValueBelowOrEq"]

BooleanPolicies == {"at_least_once", "all_the_time", "last"}

ASSUME ConstantsAssumption ==
    /\ Values \subseteq Int /\ Targets \subseteq Int
    /\ Units \subseteq Nat \ {0} /\ MinPoints \subseteq Nat
    /\ Operators \subseteq DOMAIN CompareOp
    /\ MaxPoints \in Nat \ {0}
    /\ NaN \notin Values /\ NaN \notin BOOLEAN /\ None \notin Targets

VARIABLES
    cond,    \* the rule's condition
    window,  \* points of the series in the evaluation window, oldest first
    active   \* per severity: the alert of the series in BaseRule.Active

vars == <<cond, window, active>>

----------------------------------------------------------------------------
(* Conditions that pass validation                                         *)

Threshold == [target : Targets, recovery : Targets \cup {None}, unit : Units]

NumericConditions ==
    [kind : {"numeric"}, reduction : DOMAIN MatchType, operator : Operators,
     thresholds : UNION {[S -> Threshold] : S \in SUBSET Severities \ {{}}},
     minPoints : MinPoints]

BooleanConditions ==
    [kind : {"boolean"}, reduction : BooleanPolicies, operator : {None},
     thresholds : {[s \in {x} |-> None] : x \in Severities}, minPoints : MinPoints]

Conditions == NumericConditions \cup BooleanConditions

Points(c) == (IF c.kind = "numeric" THEN Values ELSE BOOLEAN) \cup {NaN}

----------------------------------------------------------------------------
(* shouldAlertWithTarget.  A sample is a fraction: averages are not whole. *)

Sample(alert, num, den) == [alert |-> alert, num |-> num, den |-> den]
NotAlerting == Sample(FALSE, 0, 1)

\* removeGroupinSetPoints, and the points with a BoolValue.
Usable(w) ==
    LET kept[i \in 0 .. Len(w)] ==
            IF i = 0 THEN <<>>
            ELSE IF w[i] = NaN THEN kept[i - 1] ELSE Append(kept[i - 1], w[i])
    IN  kept[Len(w)]

\* The tests of every reduction but one: no operator with "or equal" has one.
Meets(op, v, t) == \/ op = "ValueIsAbove" /\ v > t
                   \/ op = "ValueIsBelow" /\ v < t
                   \/ op = "ValueIsEq" /\ v = t
                   \/ op = "ValueIsNotEq" /\ v # t

\* Seeded fault: a point on the target does not break an "above".
BreaksStrictly(op, v, t) == \/ op = "ValueIsAbove" /\ v < t
                            \/ op = "ValueIsBelow" /\ v >= t
                            \/ op = "ValueIsEq" /\ v # t
                            \/ op = "ValueIsNotEq" /\ v = t

\* AllTheTimes looks for a point that breaks the condition instead.
Breaks(op, v, t) == \/ op = "ValueIsAbove" /\ v <= t
                    \/ op = "ValueIsBelow" /\ v >= t
                    \/ op = "ValueIsEq" /\ v # t
                    \/ op = "ValueIsNotEq" /\ v = t

\* Seeded fault: the oldest point is reported, not the first that matches.
AtleastOnceOldest(op, pts, t) ==
    Sample(\E i \in DOMAIN pts : Meets(op, pts[i], t), pts[1], 1)

AtleastOnce(op, pts, t) ==
    LET hits == {i \in DOMAIN pts : Meets(op, pts[i], t)}
    IN  IF hits = {} THEN NotAlerting ELSE Sample(TRUE, pts[Min(hits)], 1)

AllTheTimes(op, pts, t) ==
    IF \E i \in DOMAIN pts : Breaks(op, pts[i], t) THEN NotAlerting
    ELSE Sample(TRUE, CASE op = "ValueIsAbove" -> Min(ToSet(pts))
                        [] op = "ValueIsBelow" -> Max(ToSet(pts))
                        [] op = "ValueIsNotEq" -> Head(pts)
                        [] OTHER -> t, 1)

SumOf(pts) ==
    LET sum[i \in 0 .. Len(pts)] == IF i = 0 THEN 0 ELSE sum[i - 1] + pts[i]
    IN  sum[Len(pts)]

OnAverage(op, pts, t) == Sample(Meets(op, SumOf(pts), t * Len(pts)), SumOf(pts), Len(pts))
InTotal(op, pts, t) == Sample(Meets(op, SumOf(pts), t), SumOf(pts), 1)
LastPoint(op, pts, t) == Sample(Meets(op, Last(pts), t), Last(pts), 1)

ShouldAlertWithTarget(c, w, t) ==
    LET match == MatchType[c.reduction]
        op == CompareOp[c.operator]
        pts == Usable(w)
    IN  IF pts = <<>> THEN NotAlerting
        ELSE CASE match = "AtleastOnce" -> AtleastOnce(op, pts, t)
               [] match = "AllTheTimes" -> AllTheTimes(op, pts, t)
               [] match = "OnAverage" -> OnAverage(op, pts, t)
               [] match = "InTotal" -> InTotal(op, pts, t)
               [] match = "Last" -> LastPoint(op, pts, t)

\* BooleanRuleThreshold.Eval
BooleanMatched(policy, pts) ==
    /\ pts # <<>>
    /\ CASE policy = "last" -> Last(pts)
         [] policy = "at_least_once" -> \E i \in DOMAIN pts : pts[i]
         [] policy = "all_the_time" -> ~\E i \in DOMAIN pts : ~pts[i]

----------------------------------------------------------------------------
(* Thresholds                                                              *)

\* Seeded fault: the target is taken in the threshold's own unit.
ConvertToRuleUnitNot(t, val) == val

ConvertToRuleUnit(t, val) == val * t.unit

TargetOf(t) == ConvertToRuleUnit(t, t.target)
RecoveryOf(t) == ConvertToRuleUnit(t, t.recovery)

ShouldEval(c, w) == c.minPoints > 0 => Len(w) >= c.minPoints

\* The grade of the series for severity s, as AlertRule uses it.
Grade(c, s, w) ==
    LET t == c.thresholds[s]
        alerts(x) == ShouldAlertWithTarget(c, w, x).alert
        target == IF c.kind = "boolean" THEN BooleanMatched(c.reduction, Usable(w))
                  ELSE alerts(TargetOf(t))
        recovery == c.kind = "numeric" /\ t.recovery # None /\ alerts(RecoveryOf(t))
    IN  IF ShouldEval(c, w) /\ target THEN "target"
        ELSE IF ShouldEval(c, w) /\ recovery THEN "recovery"
        ELSE "none"

\* The severities whose sample is in the vector Eval returns.
InVector(s) == LET g == Grade(cond, s, window)
               IN  \/ g = "target"
                   \/ g = "recovery" /\ active[s] # "absent"

----------------------------------------------------------------------------
(* Actions                                                                 *)

Init == /\ cond \in Conditions
        /\ window = <<>>
        /\ active = [s \in DOMAIN cond.thresholds |-> "absent"]

\* A point enters the window the next query covers.
Arrive(v) == /\ Len(window) < MaxPoints
             /\ window' = Append(window, v)
             /\ UNCHANGED <<cond, active>>

\* The window moves past its oldest point.
Expire == /\ window # <<>>
          /\ window' = Tail(window)
          /\ UNCHANGED <<cond, active>>

\* One evaluation; a resolved alert is kept or, after its retention, forgotten.
Evaluate(forgotten) ==
    /\ active' = [s \in DOMAIN active |->
                    IF InVector(s) THEN "open"
                    ELSE IF active[s] = "open" THEN "resolved"
                    ELSE IF s \in forgotten THEN "absent" ELSE active[s]]
    /\ UNCHANGED <<cond, window>>

Next == \/ \E v \in Points(cond) : Arrive(v)
        \/ Expire
        \/ \E forgotten \in SUBSET DOMAIN active : Evaluate(forgotten)

Spec == Init /\ [][Next]_vars

----------------------------------------------------------------------------
(* Properties                                                              *)

\* What the operator says, in the wire's words.
Stated(op, v, t) == CASE op = "eq" -> v = t
                      [] op = "neq" -> v # t
                      [] op = "gt" -> v > t
                      [] op = "gte" -> v >= t
                      [] op = "lt" -> v < t
                      [] op = "lte" -> v <= t

\* What the condition says of a series, without the code's loops.
Used(w) == {i \in DOMAIN w : w[i] # NaN}
TotalOf(w) == MapThenSumSet(LAMBDA i : w[i], Used(w))
StatedOf(c, v, t) == IF c.kind = "boolean" THEN v ELSE Stated(c.operator, v, t)

StatedMatch(c, w, t) ==
    /\ Used(w) # {}
    /\ CASE c.reduction = "at_least_once" -> \E i \in Used(w) : StatedOf(c, w[i], t)
         [] c.reduction = "all_the_time" -> \A i \in Used(w) : StatedOf(c, w[i], t)
         [] c.reduction = "average" -> StatedOf(c, TotalOf(w), t * Cardinality(Used(w)))
         [] c.reduction = "total" -> StatedOf(c, TotalOf(w), t)
         [] c.reduction = "last" -> StatedOf(c, w[Max(Used(w))], t)

\* A threshold alerts exactly when the condition the user stated holds of the
\* usable points, for the target and for the recovery target: "If any sample
\* matches the condition, the rule is firing.", "If all samples match the
\* condition, the rule is firing.", and so on for each reduction of
\* shouldAlertWithTarget and each policy of BooleanRuleThreshold.Eval.
AlertsAsStated ==
    \A s \in DOMAIN cond.thresholds :
        LET t == cond.thresholds[s]
            agree(x) == ShouldAlertWithTarget(cond, window, x).alert <=> StatedMatch(cond, window, x)
        IN  IF cond.kind = "boolean"
            THEN BooleanMatched(cond.reduction, Usable(window)) <=> StatedMatch(cond, window, None)
            ELSE agree(TargetOf(t)) /\ (t.recovery # None => agree(RecoveryOf(t)))

\* The value shown in a notification is one that meets the target: the sample
\* chosen from the window is evidence for the alert.
ReportedValueMeetsTarget ==
    cond.kind = "numeric" =>
        \A s \in DOMAIN cond.thresholds :
            LET t == TargetOf(cond.thresholds[s])
                smpl == ShouldAlertWithTarget(cond, window, t)
            IN  smpl.alert => Stated(cond.operator, smpl.num, t * smpl.den)

\* x is no stricter than y under an ordering operator.
Looser(op, x, y) == IF op = "gt" THEN x <= y ELSE op = "lt" /\ x >= y

\* Severities nest: while the alert of a severity is open, so is the alert of
\* every severity whose target is no stricter than its target and recovery
\* target, in the unit of the result, through every evaluation of a moving
\* window and whatever the Active map remembers.
SeveritiesNest ==
    cond.kind = "numeric" =>
        \A s, l \in DOMAIN cond.thresholds :
            LET strict == cond.thresholds[s]
                loose == cond.thresholds[l]
            IN  /\ active[s] = "open"
                /\ Looser(cond.operator, loose.target * loose.unit, strict.target * strict.unit)
                /\ strict.recovery # None =>
                     Looser(cond.operator, loose.target * loose.unit, strict.recovery * strict.unit)
                => active[l] = "open"
=============================================================================
