-------------------------- MODULE RuleManagerProofs --------------------------
(***************************************************************************)
(* Proofs about RuleManager for any number of concurrent requests, rules   *)
(* and task objects, and any combination of faults.                        *)
(***************************************************************************)
EXTENDS RuleManager, TLAPS

(* Types                                                                   *)

\* A request in progress is about a rule.
RequestInv == \A c \in Clients : req[c].pc # "ready" => req[c].rule \in RuleIds

TypeInv == TypeOK /\ RequestInv

LEMMA RecordFacts ==
    /\ Ready \in Req /\ Ready.pc = "ready"
    /\ NoTask \in Task /\ NoTask.status = "gone"
    /\ \A r \in RuleIds, d \in Defs \cup {NoDef} :
         /\ Started(r, d) \in Task
         /\ Started(r, d).status = "idle" /\ Started(r, d).rule = r /\ ~Started(r, d).done
BY DEF Ready, Req, NoTask, Task, TaskRefs, Started

\* What req[c] becomes decides whether the requests stay well formed.
LEMMA ReqUpdateType ==
    ASSUME TypeInv, NEW c \in Clients, NEW q \in Req, req' = [req EXCEPT ![c] = q],
           q.pc # "ready" => q.rule \in RuleIds
    PROVE  req' \in [Clients -> Req] /\ RequestInv'
BY DEF TypeInv, TypeOK, RequestInv

\* Requests that arrive.
LEMMA ArriveType ==
    ASSUME TypeInv, NEW c \in Clients, NEW kind, NEW r \in RuleIds, NEW d \in Defs \cup {NoDef},
           NEW pc \in {"begin", "sync"}, Arrive(c, kind, r, d, pc)
    PROVE  /\ req' \in [Clients -> Req]
           /\ RequestInv'
<1> DEFINE q == [Ready EXCEPT !.pc = pc, !.kind = kind, !.rule = r, !.def = d]
<1>1. req' = [req EXCEPT ![c] = q] /\ kind \in Requests
    BY DEF Arrive
<1>2. q \in Req /\ q.rule \in RuleIds
    BY <1>1, ConstantsAssumption DEF Ready, Req, TaskRefs
<1> HIDE DEF q
<1>3. req' \in [Clients -> Req]
    BY <1>1, <1>2 DEF TypeInv, TypeOK
<1>4. RequestInv'
    BY <1>1, <1>2 DEF TypeInv, TypeOK, RequestInv
<1> QED
    BY <1>3, <1>4

\* Requests that end with an error.
LEMMA FailType ==
    ASSUME TypeInv, NEW c \in Clients, Fail(c), req[c].pc # "ready"
    PROVE  /\ req' \in [Clients -> Req] /\ RequestInv'
           /\ txOwner' \in Clients \cup {None} /\ txDb' \in Table
<1>1. txOwner' \in Clients \cup {None} /\ txDb' \in Table
    BY DEF Fail, TypeInv, TypeOK
<1>2. CASE req' = [req EXCEPT ![c].pc = "sync", ![c].restoring = TRUE]
  <2> DEFINE q == [req[c] EXCEPT !.pc = "sync", !.restoring = TRUE]
  <2>1. req[c] \in Req /\ req[c].rule \in RuleIds
      BY DEF TypeInv, TypeOK, RequestInv
  <2>2. q \in Req /\ q.rule = req[c].rule
      BY <2>1 DEF Req
  <2>3. req' = [req EXCEPT ![c] = q]
      BY <1>2 DEF TypeInv, TypeOK
  <2> HIDE DEF q
  <2> QED
      BY <1>1, <2>1, <2>2, <2>3, ReqUpdateType
<1>3. CASE req' = [req EXCEPT ![c] = Ready]
    BY <1>1, <1>3, RecordFacts DEF TypeInv, TypeOK, RequestInv
<1> QED
    BY <1>2, <1>3 DEF Fail

\* Requests that go on after their task was changed.
LEMMA DeployedType ==
    ASSUME TypeInv, NEW c \in Clients, req[c].pc # "ready"
    PROVE  /\ Deployed(c) \in Req
           /\ Deployed(c).pc # "ready" => Deployed(c).rule \in RuleIds
           /\ Deployed(c).pc # "stopping"
<1>1. req[c] \in Req /\ req[c].rule \in RuleIds
    BY DEF TypeInv, TypeOK, RequestInv
<1>2. CASE req[c].restoring
    BY <1>2, RecordFacts DEF Deployed
<1>3. CASE ~req[c].restoring
  <2> DEFINE pc == IF req[c].kind = "patch" THEN "begin" ELSE "commit"
             q == [req[c] EXCEPT !.pc = pc, !.old = 0, !.new = 0]
  <2>1. pc \in {"begin", "commit"}
      OBVIOUS
  <2>2. Deployed(c) = q
      BY <1>3 DEF Deployed
  <2> HIDE DEF pc
  <2>3. q \in Req /\ q.pc = pc /\ q.rule = req[c].rule
      BY <1>1, <2>1 DEF Req, TaskRefs
  <2> QED
      BY <1>1, <2>1, <2>2, <2>3
<1> QED
    BY <1>2, <1>3

\* How a request moves: the step writes one request and leaves the rest alone.
LEMMA RequestSteps ==
    ASSUME TypeInv, NEW c \in Clients,
           Request(c) \/ StoreStep(c) \/ TaskStep(c)
    PROVE  req' \in [Clients -> Req] /\ RequestInv'
<1>0. req[c] \in Req
    BY DEF TypeInv, TypeOK
<1>1. CASE Request(c)
  <2>1. CASE CreateRule(c)
    <3>1. PICK r \in unused, d \in Defs : Arrive(c, "create", r, d, "begin")
        BY <2>1 DEF CreateRule
    <3>2. r \in RuleIds
        BY DEF TypeInv, TypeOK
    <3> QED
        BY <3>1, <3>2, ArriveType
  <2>2. CASE EditRule(c)
    <3>1. PICK r \in RuleIds, d \in Defs : Arrive(c, "edit", r, d, "begin")
        BY <2>2 DEF EditRule
    <3> QED
        BY <3>1, ArriveType
  <2>3. CASE DeleteRule(c)
    <3>1. PICK r \in RuleIds : Arrive(c, "delete", r, NoDef, "begin")
        BY <2>3 DEF DeleteRule
    <3> QED
        BY <3>1, ArriveType
  <2>4. CASE PatchRule(c)
    <3>1. PICK r \in RuleIds, d \in Defs : Arrive(c, "patch", r, d, "sync")
        BY <2>4 DEF PatchRule
    <3> QED
        BY <3>1, ArriveType
  <2> QED
      BY <1>1, <2>1, <2>2, <2>3, <2>4 DEF Request
<1>2. CASE TxBusy(c) \/ CallbackFails(c) \/ CommitFails(c) \/ PrepareFails(c)
  <2>1. Fail(c) /\ req[c].pc # "ready"
      BY <1>2 DEF TxBusy, CallbackFails, CommitFails, PrepareFails, Locks
  <2> QED
      BY <2>1, FailType
<1>3. CASE BeginTx(c)
  <2> DEFINE pc == IF req[c].kind = "patch" THEN "commit" ELSE "callback"
             q == [req[c] EXCEPT !.pc = pc]
  <2>1. req' = [req EXCEPT ![c] = q] /\ pc \in {"commit", "callback"} /\ req[c].rule \in RuleIds
      BY <1>3 DEF BeginTx, TypeInv, TypeOK, RequestInv
  <2> HIDE DEF pc
  <2>2. q \in Req /\ q.rule = req[c].rule
      BY <1>0, <2>1 DEF Req
  <2> HIDE DEF q
  <2> QED
      BY <2>1, <2>2, ReqUpdateType
<1>4. CASE Callback(c)
  <2>1. PICK pc \in {"lock", "sync"}, op \in {"add", "delete", req[c].op} :
           req' = [req EXCEPT ![c] = [req[c] EXCEPT !.pc = pc, !.op = op]]
      BY <1>0, <1>4 DEF Callback, TypeInv, TypeOK, Req
  <2> DEFINE q == [req[c] EXCEPT !.pc = pc, !.op = op]
  <2>2. q \in Req /\ q.rule = req[c].rule
      BY <1>0, <2>1 DEF Req
  <2>3. req[c].rule \in RuleIds
      BY <1>4 DEF Callback, TypeInv, RequestInv
  <2> HIDE DEF q
  <2> QED
      BY <2>1, <2>2, <2>3, ReqUpdateType DEF q
<1>5. CASE Commit(c)
    BY <1>5, RecordFacts, ReqUpdateType DEF Commit
<1>6. CASE SyncRuleStateWithTask(c)
  <2> DEFINE r == req[c].rule
             op == IF req[c].def.disabled THEN IF tasks[r] # 0 THEN "delete" ELSE "none"
                                          ELSE IF tasks[r] # 0 THEN "edit" ELSE "add"
             q == [req[c] EXCEPT !.pc = "lock", !.op = op]
  <2>1. req[c].pc # "ready" /\ r \in RuleIds /\ op \in {"add", "edit", "delete", "none"}
      BY <1>6 DEF SyncRuleStateWithTask, TypeInv, RequestInv
  <2>2. req' = [req EXCEPT ![c] = Deployed(c)] \/ req' = [req EXCEPT ![c] = q]
      BY <1>6 DEF SyncRuleStateWithTask
  <2> HIDE DEF op
  <2>3. q \in Req /\ q.rule = r
      BY <1>0, <2>1 DEF Req
  <2> HIDE DEF q
  <2> QED
      BY <2>1, <2>2, <2>3, DeployedType, ReqUpdateType
<1>7. CASE AddTask(c) \/ EditTask(c) \/ DeleteTask(c) \/ TaskStopped(c)
  <2>1. req[c].pc # "ready" /\ req[c].rule \in RuleIds
      BY <1>7 DEF AddTask, EditTask, DeleteTask, TaskStopped, Locks, TypeInv, RequestInv
  <2>2. \/ req' = [req EXCEPT ![c] = Deployed(c)]
        \/ Fail(c)
        \/ \E old, new \in TaskRefs :
             req' = [req EXCEPT ![c] = [req[c] EXCEPT !.pc = "stopping", !.old = old, !.new = new]]
    <3>0. tasks[req[c].rule] \in TaskRefs /\ req[c].new \in TaskRefs
        BY <1>0, <2>1 DEF TypeInv, TypeOK, Req
    <3>1. CASE AddTask(c)
        BY <3>1 DEF AddTask
    <3>2. CASE EditTask(c)
      <4>1. PICK t \in TaskIds :
               \/ req' = [req EXCEPT ![c] = Deployed(c)]
               \/ req' = [req EXCEPT ![c].pc = "stopping", ![c].old = tasks[req[c].rule],
                                    ![c].new = t]
          BY <3>2 DEF EditTask
      <4>2. CASE req' = [req EXCEPT ![c].pc = "stopping", ![c].old = tasks[req[c].rule],
                                    ![c].new = t]
        <5>1. req' = [req EXCEPT ![c] = [req[c] EXCEPT !.pc = "stopping",
                                                      !.old = tasks[req[c].rule], !.new = t]]
            BY <4>2 DEF TypeInv, TypeOK
        <5> QED
            BY <3>0, <5>1 DEF TaskRefs
      <4> QED
          BY <4>1, <4>2
    <3>3. CASE DeleteTask(c)
      <4>1. CASE req' = [req EXCEPT ![c].pc = "stopping", ![c].old = tasks[req[c].rule]]
        <5>1. [req[c] EXCEPT !.pc = "stopping", !.old = tasks[req[c].rule]]
              = [req[c] EXCEPT !.pc = "stopping", !.old = tasks[req[c].rule], !.new = req[c].new]
            BY <1>0 DEF Req
        <5>2. req' = [req EXCEPT ![c] = [req[c] EXCEPT !.pc = "stopping", !.old = tasks[req[c].rule]]]
            BY <4>1 DEF TypeInv, TypeOK
        <5> QED
            BY <3>0, <5>1, <5>2
      <4> QED
          BY <3>3, <4>1 DEF DeleteTask
    <3>4. CASE TaskStopped(c)
        BY <3>4 DEF TaskStopped
    <3> QED
        BY <1>7, <3>1, <3>2, <3>3, <3>4
  <2>3. CASE Fail(c)
      BY <2>1, <2>3, FailType
  <2>4. CASE req' = [req EXCEPT ![c] = Deployed(c)]
      BY <2>1, <2>4, DeployedType, ReqUpdateType
  <2>5. ASSUME NEW old \in TaskRefs, NEW new \in TaskRefs,
               req' = [req EXCEPT ![c] = [req[c] EXCEPT !.pc = "stopping", !.old = old, !.new = new]]
        PROVE  req' \in [Clients -> Req] /\ RequestInv'
    <3> DEFINE q == [req[c] EXCEPT !.pc = "stopping", !.old = old, !.new = new]
    <3>1. q \in Req /\ q.rule = req[c].rule
        BY <1>0 DEF Req
    <3> HIDE DEF q
    <3> QED
        BY <2>1, <2>5, <3>1, ReqUpdateType DEF q
  <2> QED
      BY <2>2, <2>3, <2>4, <2>5
<1> QED
    BY <1>1, <1>2, <1>3, <1>4, <1>5, <1>6, <1>7 DEF StoreStep, TaskStep

\* The table a transaction writes is a table.
LEMMA WrittenType ==
    ASSUME TypeInv, NEW c \in Clients
    PROVE  Written(c) \in Table
<1>1. req[c].def \in Defs \cup {NoDef}
    BY DEF TypeInv, TypeOK, Req
<1> QED
    BY <1>1 DEF Written, Table, TypeInv, TypeOK

\* A step of a request keeps the types of the store and of the manager.
LEMMA RequestStepTypes ==
    ASSUME TypeInv, NEW c \in Clients,
           Request(c) \/ StoreStep(c) \/ TaskStep(c)
    PROVE  TypeInv'
<1>0. req' \in [Clients -> Req] /\ RequestInv'
    BY RequestSteps
<1> USE DEF TypeInv
<1>1. CASE Request(c)
  <2>1. unused' \subseteq RuleIds /\ UNCHANGED <<db, txDb, txOwner, managerVars, sync, excused>>
      BY <1>1 DEF Request, CreateRule, EditRule, DeleteRule, PatchRule, storeVars, TypeOK
  <2> QED
      BY <1>0, <2>1 DEF TypeOK, managerVars
<1>2. CASE TxBusy(c) \/ CallbackFails(c) \/ CommitFails(c) \/ PrepareFails(c)
  <2>1. Fail(c) /\ req[c].pc # "ready" /\ UNCHANGED <<db, unused, managerVars, sync>>
      BY <1>2 DEF TxBusy, CallbackFails, CommitFails, PrepareFails, Locks
  <2>2. excused' \in BOOLEAN
      BY <1>2 DEF TxBusy, CallbackFails, CommitFails, PrepareFails, TypeOK
  <2> QED
      BY <1>0, <2>1, <2>2, FailType DEF TypeOK, managerVars
<1>3. CASE BeginTx(c)
    BY <1>0, <1>3, WrittenType DEF BeginTx, TypeOK, managerVars
<1>4. CASE Callback(c) \/ SyncRuleStateWithTask(c)
    BY <1>0, <1>4 DEF Callback, SyncRuleStateWithTask, TypeOK, managerVars, storeVars
<1>5. CASE Commit(c)
  <2>1. excused' \in BOOLEAN
      BY <1>5 DEF Commit
  <2> QED
      BY <1>0, <1>5, <2>1 DEF Commit, TypeOK, managerVars
<1>6. CASE AddTask(c) \/ EditTask(c) \/ DeleteTask(c) \/ TaskStopped(c)
  <2>1. req[c].pc # "ready" /\ req[c].rule \in RuleIds /\ req[c] \in Req
      BY <1>6 DEF AddTask, EditTask, DeleteTask, TaskStopped, Locks, RequestInv, TypeOK
  <2>2. req[c].def \in Defs \cup {NoDef} /\ req[c].new \in TaskRefs
      BY <2>1 DEF Req
  <2>3. Started(req[c].rule, req[c].def) \in Task
      BY <2>1, <2>2, RecordFacts
  <2>4. 0 \in TaskRefs /\ TaskIds \subseteq TaskRefs
      BY DEF TaskRefs
  <2>5. CASE AddTask(c)
    <3>1. /\ UNCHANGED <<db, unused, mtx, sync, excused>>
          /\ \/ Fail(c)
             \/ UNCHANGED <<txOwner, txDb>>
        BY <2>5 DEF AddTask
    <3>2. tasks' \in [RuleIds -> TaskRefs] /\ rules' \in [RuleIds -> TaskRefs]
      <4>1. tasks \in [RuleIds -> TaskRefs] /\ rules \in [RuleIds -> TaskRefs]
          BY DEF TypeOK
      <4>2. \E t \in TaskIds : /\ rules' = [rules EXCEPT ![req[c].rule] = t]
                              /\ \/ tasks' = [tasks EXCEPT ![req[c].rule] = t]
                                 \/ tasks' = tasks
          BY <2>5, Zenon DEF AddTask
      <4> QED
          BY <2>4, <4>1, <4>2
    <3>3. task' \in [TaskIds -> Task]
        BY <2>3, <2>5 DEF AddTask, TypeOK
    <3>4. txOwner' \in Clients \cup {None} /\ txDb' \in Table
        BY <3>1, <2>1, FailType DEF TypeOK
    <3> QED
        BY <1>0, <3>1, <3>2, <3>3, <3>4 DEF TypeOK
  <2>6. CASE EditTask(c)
    <3>1. UNCHANGED <<storeVars, sync, excused>>
        BY <2>6 DEF EditTask
    <3>2. tasks' \in [RuleIds -> TaskRefs] /\ rules' \in [RuleIds -> TaskRefs]
      <4>1. tasks \in [RuleIds -> TaskRefs] /\ rules \in [RuleIds -> TaskRefs]
          BY DEF TypeOK
      <4>2. \E t \in TaskIds : /\ rules' = [rules EXCEPT ![req[c].rule] = t]
                              /\ \/ tasks' = [tasks EXCEPT ![req[c].rule] = t]
                                 \/ tasks' = [tasks EXCEPT ![req[c].rule] = 0]
          BY <2>6, Zenon DEF EditTask
      <4> QED
          BY <2>4, <4>1, <4>2
    <3>3. task' \in [TaskIds -> Task]
      <4>1. CASE task' = [task EXCEPT ![tasks[req[c].rule]].done = TRUE]
          BY <4>1 DEF TypeOK, Task
      <4> QED
          BY <2>3, <2>6, <4>1 DEF EditTask, TypeOK
    <3>4. mtx' \in Clients \cup {None}
        BY <2>6 DEF EditTask, TypeOK
    <3> QED
        BY <1>0, <3>1, <3>2, <3>3, <3>4 DEF TypeOK, storeVars
  <2>7. CASE DeleteTask(c)
    <3>1. UNCHANGED <<storeVars, tasks, rules, sync, excused>> /\ mtx' \in {mtx, c}
        BY <2>7 DEF DeleteTask
    <3>2. task' \in [TaskIds -> Task]
      <4>1. CASE task' = [task EXCEPT ![tasks[req[c].rule]].done = TRUE]
          BY <4>1 DEF TypeOK, Task
      <4> QED
          BY <2>7, <4>1 DEF DeleteTask, TypeOK
    <3> QED
        BY <1>0, <3>1, <3>2 DEF TypeOK, storeVars
  <2>8. CASE TaskStopped(c)
    <3>1. UNCHANGED <<storeVars, sync, excused>> /\ mtx' = None
        BY <2>8 DEF TaskStopped
    <3>2. tasks' \in [RuleIds -> TaskRefs] /\ rules' \in [RuleIds -> TaskRefs]
        BY <2>2, <2>4, <2>8 DEF TaskStopped, TypeOK
    <3>3. task' \in [TaskIds -> Task]
        BY <2>3, <2>8 DEF TaskStopped, TypeOK
    <3> QED
        BY <1>0, <3>1, <3>2, <3>3 DEF TypeOK, storeVars
  <2> QED
      BY <1>6, <2>5, <2>6, <2>7, <2>8
<1> QED
    BY <1>1, <1>2, <1>3, <1>4, <1>5, <1>6 DEF StoreStep, TaskStep

\* What Restart deploys: a task of its own for every enabled rule.
LEMMA RestartFacts ==
    ASSUME TypeInv, Restart
    PROVE  \E at \in [RuleIds -> TaskRefs] :
             /\ \A r \in RuleIds : (at[r] = 0) = db[r].disabled
             /\ \A r, s \in RuleIds : at[r] = at[s] /\ at[r] # 0 => r = s
             /\ tasks' = at /\ rules' = at
             /\ \A t \in TaskIds :
                  \/ \E r \in RuleIds : at[r] = t /\ task'[t] = Started(r, db[r])
                  \/ (\A r \in RuleIds : at[r] # t) /\ task'[t] = NoTask
             /\ task' = [t \in TaskIds |-> task'[t]]
<1> DEFINE fresh == {at \in [RuleIds -> TaskRefs] :
                       /\ \A r \in RuleIds : (at[r] = 0) = db[r].disabled
                       /\ \A r, s \in RuleIds : at[r] = at[s] /\ at[r] # 0 => r = s}
           at == CHOOSE f \in fresh : TRUE
<1>1. /\ fresh # {} /\ tasks' = at /\ rules' = at
      /\ task' = [t \in TaskIds |->
                    IF \E r \in RuleIds : at[r] = t
                    THEN LET r == CHOOSE r \in RuleIds : at[r] = t IN Started(r, db[r])
                    ELSE NoTask]
    BY DEF Restart
<1>2. at \in fresh
    BY <1>1
<1> HIDE DEF at
<1>3. ASSUME NEW t \in TaskIds
      PROVE  \/ \E r \in RuleIds : at[r] = t /\ task'[t] = Started(r, db[r])
             \/ (\A r \in RuleIds : at[r] # t) /\ task'[t] = NoTask
    BY <1>1
<1> QED
    BY <1>1, <1>2, <1>3

\* Restart keeps the types.
LEMMA RestartType ==
    ASSUME TypeInv, Restart
    PROVE  TypeInv'
<1>1. tasks' \in [RuleIds -> TaskRefs] /\ rules' \in [RuleIds -> TaskRefs]
    BY RestartFacts
<1>2. task' \in [TaskIds -> Task]
  <2>1. \A r \in RuleIds : db[r] \in Defs \cup {NoDef}
      BY DEF TypeInv, TypeOK, Table
  <2>2. \A t \in TaskIds : task'[t] \in Task
      BY <2>1, RestartFacts, RecordFacts
  <2> QED
      BY <2>2, RestartFacts
<1>3. /\ req' = [c \in Clients |-> Ready] /\ txDb' = db /\ txOwner' = None /\ mtx' = None
      /\ sync' = "idle" /\ excused' = FALSE /\ UNCHANGED <<db, unused>>
    BY DEF Restart
<1>4. req' \in [Clients -> Req] /\ RequestInv'
    BY <1>3, RecordFacts DEF RequestInv
<1> QED
    BY <1>1, <1>2, <1>3, <1>4 DEF TypeInv, TypeOK

\* The types, with the fact that a request in progress is about a rule.
LEMMA TypeInvariant == Spec => []TypeInv
<1>1. Init => TypeInv
  <2> SUFFICES ASSUME Init PROVE TypeInv
      OBVIOUS
  <2>1. req \in [Clients -> Req] /\ task \in [TaskIds -> Task] /\ RequestInv
      BY RecordFacts DEF Init, RequestInv
  <2> QED
      BY <2>1 DEF Init, TypeInv, TypeOK, Table, TaskRefs
<1>2. TypeInv /\ [Next]_vars => TypeInv'
  <2> SUFFICES ASSUME TypeInv, [Next]_vars PROVE TypeInv'
      OBVIOUS
  <2>1. ASSUME NEW c \in Clients, Request(c) \/ StoreStep(c) \/ TaskStep(c) PROVE TypeInv'
      BY <2>1, RequestStepTypes
  <2>2. ASSUME NEW t \in TaskIds, Iterate(t) \/ PutAlerts(t) \/ Terminate(t) PROVE TypeInv'
    <3>1. task' \in [TaskIds -> Task]
      <4>1. CASE Iterate(t)
          BY <4>1 DEF Iterate, TypeInv, TypeOK, Task
      <4>2. CASE PutAlerts(t)
          BY <4>2 DEF PutAlerts, TypeInv, TypeOK, Task
      <4>3. CASE Terminate(t)
          BY <4>3, RecordFacts DEF Terminate, TypeInv, TypeOK
      <4> QED
          BY <2>2, <4>1, <4>2, <4>3
    <3>2. UNCHANGED <<storeVars, mtx, tasks, rules, req, sync, excused>>
        BY <2>2 DEF Iterate, PutAlerts, Terminate
    <3> QED
        BY <3>1, <3>2 DEF TypeInv, TypeOK, RequestInv, storeVars
  <2>3. CASE SyncLock \/ SyncDone \/ SyncSkipped
      BY <2>3 DEF SyncLock, SyncDone, SyncSkipped, TypeInv, TypeOK, RequestInv,
                  storeVars, managerVars
  <2>4. CASE Restart
      BY <2>4, RestartType
  <2>5. CASE UNCHANGED vars
      BY <2>5 DEF vars, TypeInv, TypeOK, RequestInv
  <2> QED
      BY <2>1, <2>2, <2>3, <2>4, <2>5 DEF Next
<1> QED
    BY <1>1, <1>2, PTL DEF Spec

\* Every variable keeps the shape of what it models, for any number of
\* requests, rules and tasks.
THEOREM TypeCorrect == Spec => []TypeOK
BY TypeInvariant, PTL DEF TypeInv

----------------------------------------------------------------------------
(* The tasks                                                               *)

\* The request holding Manager.mtx is the one that waits for a task to end.
LockInv == \A c \in Clients : (req[c].pc = "stopping") <=> (mtx = c)

\* What that request knows of the task it waits for and of the one to start.
StopInv ==
    \A c \in Clients : mtx = c =>
        /\ req[c].old \in TaskIds
        /\ Running(req[c].old) => task[req[c].old].rule = req[c].rule
        /\ req[c].op = "edit" => /\ tasks[req[c].rule] = 0
                                 /\ req[c].new \in TaskIds /\ ~Running(req[c].new)
        /\ req[c].op # "edit" => tasks[req[c].rule] = req[c].old

\* An entry of the tasks map is a running task of that rule, or is about to go.
MapInv ==
    \A r \in RuleIds : tasks[r] # 0 =>
        \/ Running(tasks[r]) /\ task[tasks[r]].rule = r
        \/ \E c \in Clients : /\ mtx = c /\ req[c].op # "edit"
                              /\ req[c].rule = r /\ req[c].old = tasks[r]

\* A running task is in the map or waited for; a stopped one is waited for.
RunInv ==
    \A t \in TaskIds : Running(t) =>
        /\ task[t].rule \in RuleIds
        /\ \/ tasks[task[t].rule] = t /\ ~task[t].done
           \/ \E c \in Clients : mtx = c /\ req[c].old = t

TaskInv == LockInv /\ StopInv /\ MapInv /\ RunInv

\* The invariant says what is to be shown.
LEMMA TaskInvImplies ==
    ASSUME TypeInv, TaskInv
    PROVE  NoLeakedTask /\ OneEvaluatorPerRule
<1>1. NoLeakedTask
    BY DEF TaskInv, RunInv, LockInv, NoLeakedTask
<1>2. ASSUME NEW t \in TaskIds, NEW u \in TaskIds,
             Running(t), Running(u), task[t].rule = task[u].rule
      PROVE  t = u
  <2>0. t # 0 /\ u # 0
      BY ConstantsAssumption
  <2>1. CASE \E c \in Clients : mtx = c /\ req[c].old = t
    <3>1. PICK c \in Clients : mtx = c /\ req[c].old = t
        BY <2>1
    <3>2. task[t].rule = req[c].rule /\ tasks[req[c].rule] \in {0, t}
        BY <1>2, <3>1 DEF TaskInv, StopInv
    <3>3. tasks[task[u].rule] = u \/ \E d \in Clients : mtx = d /\ req[d].old = u
        BY <1>2 DEF TaskInv, RunInv
    <3> QED
        BY <1>2, <2>0, <3>1, <3>2, <3>3
  <2>2. CASE \E c \in Clients : mtx = c /\ req[c].old = u
    <3>1. PICK c \in Clients : mtx = c /\ req[c].old = u
        BY <2>2
    <3>2. task[u].rule = req[c].rule /\ tasks[req[c].rule] \in {0, u}
        BY <1>2, <3>1 DEF TaskInv, StopInv
    <3>3. tasks[task[t].rule] = t \/ \E d \in Clients : mtx = d /\ req[d].old = t
        BY <1>2 DEF TaskInv, RunInv
    <3> QED
        BY <1>2, <2>0, <3>1, <3>2, <3>3
  <2>3. CASE tasks[task[t].rule] = t /\ tasks[task[u].rule] = u
      BY <1>2, <2>3
  <2> QED
      BY <1>2, <2>1, <2>2, <2>3 DEF TaskInv, RunInv
<1> QED
    BY <1>1, <1>2 DEF OneEvaluatorPerRule

\* Steps that leave the tasks and the mutex alone: only requests that do not
\* hold the mutex move, and none of them to "stopping".
LEMMA QuietStep ==
    ASSUME TypeInv, TaskInv, UNCHANGED <<mtx, tasks, task>>,
           \A c \in Clients : req'[c] = req[c] \/ (mtx # c /\ req'[c].pc # "stopping")
    PROVE  TaskInv'
<1>1. LockInv'
    BY DEF TaskInv, LockInv
<1>2. StopInv'
    BY DEF TaskInv, StopInv, Running
<1>3. MapInv'
    BY DEF TaskInv, MapInv, Running
<1>4. RunInv'
    BY DEF TaskInv, RunInv, Running
<1> QED
    BY <1>1, <1>2, <1>3, <1>4 DEF TaskInv

\* A request that fails moves away from, never to, waiting for a task.
LEMMA FailQuiet ==
    ASSUME TypeInv, NEW c \in Clients, Fail(c)
    PROVE  /\ req'[c].pc # "stopping"
           /\ \A d \in Clients \ {c} : req'[d] = req[d]
<1>1. CASE req' = [req EXCEPT ![c].pc = "sync", ![c].restoring = TRUE]
  <2>1. req[c] \in Req
      BY DEF TypeInv, TypeOK
  <2>2. req'[c] = [req[c] EXCEPT !.pc = "sync", !.restoring = TRUE]
      BY <1>1 DEF TypeInv, TypeOK
  <2>3. req'[c].pc = "sync"
      BY <2>1, <2>2 DEF Req
  <2> QED
      BY <1>1, <2>3 DEF TypeInv, TypeOK
<1>2. CASE req' = [req EXCEPT ![c] = Ready]
    BY <1>2, RecordFacts DEF TypeInv, TypeOK
<1> QED
    BY <1>1, <1>2 DEF Fail

\* Requests that arrive, use the store or fail leave the tasks alone.
LEMMA StoreStepTasks ==
    ASSUME TypeInv, TaskInv, NEW c \in Clients,
           Request(c) \/ StoreStep(c) \/ PrepareFails(c) \/ SyncRuleStateWithTask(c)
    PROVE  TaskInv'
<1>0. req[c] \in Req /\ req \in [Clients -> Req]
    BY DEF TypeInv, TypeOK
<1>1. /\ req[c].pc # "stopping" /\ UNCHANGED <<mtx, tasks, task>>
      /\ req'[c].pc # "stopping"
      /\ \A d \in Clients \ {c} : req'[d] = req[d]
  <2>1. CASE Request(c)
    <3>1. UNCHANGED <<mtx, tasks, task>>
        BY <2>1 DEF Request, CreateRule, EditRule, DeleteRule, PatchRule, managerVars
    <3>2. PICK kind, r, d, pc : Arrive(c, kind, r, d, pc) /\ pc \in {"begin", "sync"}
        BY <2>1 DEF Request, CreateRule, EditRule, DeleteRule, PatchRule
    <3>3. [Ready EXCEPT !.pc = pc, !.kind = kind, !.rule = r, !.def = d].pc = pc
        BY DEF Ready
    <3> QED
        BY <1>0, <3>1, <3>2, <3>3 DEF Arrive
  <2>2. CASE TxBusy(c) \/ CallbackFails(c) \/ CommitFails(c) \/ PrepareFails(c)
    <3>1. Fail(c) /\ req[c].pc # "stopping" /\ UNCHANGED <<mtx, tasks, task>>
        BY <2>2 DEF TxBusy, CallbackFails, CommitFails, PrepareFails, Locks, managerVars
    <3> QED
        BY <3>1, FailQuiet
  <2>3. CASE BeginTx(c)
    <3> DEFINE pc == IF req[c].kind = "patch" THEN "commit" ELSE "callback"
    <3>1. /\ req' = [req EXCEPT ![c] = [req[c] EXCEPT !.pc = pc]]
          /\ req[c].pc # "stopping" /\ UNCHANGED <<mtx, tasks, task>>
        BY <1>0, <2>3 DEF BeginTx, managerVars
    <3>2. [req[c] EXCEPT !.pc = pc].pc = pc
        BY <1>0 DEF Req
    <3> QED
        BY <1>0, <3>1, <3>2
  <2>4. CASE Callback(c)
    <3>1. \A d \in Clients \ {c} : req'[d] = req[d]
        BY <1>0, <2>4 DEF Callback
    <3>2. req'[c].pc \in {"lock", "sync"}
        BY <1>0, <2>4 DEF Callback, Req
    <3> QED
        BY <2>4, <3>1, <3>2 DEF Callback, managerVars
  <2>5. CASE Commit(c)
      BY <1>0, <2>5, RecordFacts DEF Commit, managerVars
  <2>6. CASE SyncRuleStateWithTask(c)
    <3>1. /\ req[c].pc = "sync" /\ UNCHANGED <<mtx, tasks, task>>
          /\ \/ req' = [req EXCEPT ![c] = Deployed(c)]
             \/ \E op : req' = [req EXCEPT ![c] = [req[c] EXCEPT !.pc = "lock", !.op = op]]
        BY <2>6 DEF SyncRuleStateWithTask, managerVars
    <3>2. \A op : [req[c] EXCEPT !.pc = "lock", !.op = op].pc = "lock"
        BY <1>0 DEF Req
    <3>3. Deployed(c).pc # "stopping"
        BY <3>1, DeployedType
    <3> QED
      <4>1. CASE req' = [req EXCEPT ![c] = Deployed(c)]
          BY <1>0, <3>1, <3>3, <4>1
      <4>2. ASSUME NEW op, req' = [req EXCEPT ![c] = [req[c] EXCEPT !.pc = "lock", !.op = op]]
            PROVE  req'[c].pc = "lock" /\ \A d \in Clients \ {c} : req'[d] = req[d]
          BY <1>0, <3>2, <4>2
      <4> QED
          BY <3>1, <4>1, <4>2
  <2> QED
      BY <2>1, <2>2, <2>3, <2>4, <2>5, <2>6 DEF StoreStep
<1>2. mtx # c
    BY <1>1 DEF TaskInv, LockInv
<1> QED
    BY <1>1, <1>2, QuietStep

\* addTask, and editTask when there is no task: the new task enters the map.
LEMMA TaskStarts ==
    ASSUME TypeInv, TaskInv, NEW c \in Clients, NEW t \in TaskIds,
           mtx = None, mtx' = None, NewTask(t), req[c].rule \in RuleIds, tasks[req[c].rule] = 0,
           tasks' = [tasks EXCEPT ![req[c].rule] = t],
           task' = [task EXCEPT ![t] = Started(req[c].rule, req[c].def)],
           req' = [req EXCEPT ![c] = Deployed(c)], req[c].pc # "ready"
    PROVE  TaskInv'
<1>0. /\ req \in [Clients -> Req] /\ tasks \in [RuleIds -> TaskRefs] /\ task \in [TaskIds -> Task]
      /\ t # 0 /\ req[c].def \in Defs \cup {NoDef}
    BY ConstantsAssumption DEF TypeInv, TypeOK, Req
<1>1. ~Running(t) /\ \A r \in RuleIds : tasks[r] # t
    BY DEF NewTask, Free
<1>2. \A d \in Clients : mtx # d /\ mtx' # d
    BY ConstantsAssumption
<1>3. \A d \in Clients : req'[d].pc # "stopping"
    BY <1>0, <1>2, DeployedType DEF TaskInv, LockInv
<1>4. task'[t].status = "idle" /\ task'[t].rule = req[c].rule /\ ~task'[t].done
    BY <1>0, RecordFacts
<1>5. \A u \in TaskIds \ {t} : task'[u] = task[u]
    BY <1>0
<1>6. /\ tasks'[req[c].rule] = t
      /\ \A r \in RuleIds \ {req[c].rule} : tasks'[r] = tasks[r]
    BY <1>0
<1>7. MapInv'
    BY <1>1, <1>2, <1>4, <1>5, <1>6, <1>0 DEF TaskInv, MapInv, Running, TaskRefs
<1>8. RunInv'
  <2> SUFFICES ASSUME NEW u \in TaskIds, Running(u)'
               PROVE  task'[u].rule \in RuleIds /\ tasks'[task'[u].rule] = u /\ ~task'[u].done
      BY DEF RunInv
  <2>1. CASE u = t
      BY <2>1, <1>4, <1>6
  <2>2. CASE u # t
    <3>1. Running(u) /\ task'[u] = task[u]
        BY <2>2, <1>5 DEF Running
    <3>2. task[u].rule \in RuleIds /\ tasks[task[u].rule] = u /\ ~task[u].done
        BY <1>2, <3>1 DEF TaskInv, RunInv
    <3>3. u # 0
        BY ConstantsAssumption
    <3> QED
        BY <1>6, <3>1, <3>2, <3>3
  <2> QED
      BY <2>1, <2>2
<1>9. LockInv' /\ StopInv'
    BY <1>2, <1>3 DEF LockInv, StopInv
<1> QED
    BY <1>7, <1>8, <1>9 DEF TaskInv

\* editTask and deleteTask take the mutex and stop the task of the rule.
LEMMA TaskStops ==
    ASSUME TypeInv, TaskInv, NEW c \in Clients, NEW q \in Req, mtx = None, mtx' = c,
           req[c].rule \in RuleIds, tasks[req[c].rule] # 0,
           task' = [task EXCEPT ![tasks[req[c].rule]].done = TRUE],
           req' = [req EXCEPT ![c] = q],
           q.pc = "stopping", q.rule = req[c].rule, q.old = tasks[req[c].rule],
           \/ /\ q.op = "edit" /\ tasks' = [tasks EXCEPT ![req[c].rule] = 0]
              /\ q.new \in TaskIds /\ ~Running(q.new)
           \/ q.op = "delete" /\ tasks' = tasks
    PROVE  TaskInv'
<1> DEFINE r == req[c].rule
           old == tasks[r]
<1>0. /\ req \in [Clients -> Req] /\ tasks \in [RuleIds -> TaskRefs] /\ task \in [TaskIds -> Task]
      /\ old \in TaskIds /\ old # 0
    BY DEF TypeInv, TypeOK, TaskRefs
<1>1. \A d \in Clients : mtx # d
    BY ConstantsAssumption
<1>2. Running(old) /\ task[old].rule = r
    BY <1>1 DEF TaskInv, MapInv
<1>3. /\ \A u \in TaskIds : task'[u].status = task[u].status /\ task'[u].rule = task[u].rule
      /\ \A u \in TaskIds \ {old} : task'[u].done = task[u].done
    BY <1>0 DEF Task
<1>4. /\ req'[c] = q /\ \A d \in Clients \ {c} : req'[d] = req[d]
      /\ \A d \in Clients : req[d].pc # "stopping"
    BY <1>0, <1>1 DEF TaskInv, LockInv
<1>5. /\ tasks'[r] \in {0, old} /\ (q.op = "edit" => tasks'[r] = 0)
      /\ (q.op # "edit" => tasks'[r] = old)
      /\ \A s \in RuleIds \ {r} : tasks'[s] = tasks[s]
    BY <1>0
<1>6. LockInv'
    BY <1>4 DEF LockInv
<1>7. StopInv'
  <2> SUFFICES ASSUME NEW d \in Clients, mtx' = d
               PROVE  /\ req'[d].old \in TaskIds
                      /\ Running(req[d].old)' => task'[req'[d].old].rule = req'[d].rule
                      /\ req'[d].op = "edit" => /\ tasks'[req'[d].rule] = 0
                                                /\ req'[d].new \in TaskIds /\ ~Running(req[d].new)'
                      /\ req'[d].op # "edit" => tasks'[req'[d].rule] = req'[d].old
      BY DEF StopInv
  <2>1. d = c /\ req'[d] = q
      BY <1>4
  <2> QED
      BY <1>0, <1>2, <1>3, <1>5, <2>1 DEF Running
<1>8. MapInv'
  <2> SUFFICES ASSUME NEW s \in RuleIds, tasks'[s] # 0
               PROVE  Running(tasks[s])' /\ task'[tasks'[s]].rule = s
      BY DEF MapInv
  <2>1. CASE s = r
      BY <1>0, <1>2, <1>3, <1>5, <2>1 DEF Running
  <2>2. CASE s # r
    <3>1. tasks'[s] = tasks[s] /\ tasks[s] \in TaskIds
        BY <1>0, <1>5, <2>2 DEF TaskRefs
    <3>2. Running(tasks[s]) /\ task[tasks[s]].rule = s
        BY <1>1, <3>1 DEF TaskInv, MapInv
    <3> QED
        BY <1>3, <3>1, <3>2 DEF Running
  <2> QED
      BY <2>1, <2>2
<1>9. RunInv'
  <2> SUFFICES ASSUME NEW u \in TaskIds, Running(u)'
               PROVE  /\ task'[u].rule \in RuleIds
                      /\ \/ tasks'[task'[u].rule] = u /\ ~task'[u].done
                         \/ u = old
      BY <1>4 DEF RunInv
  <2>1. Running(u) /\ task'[u].rule = task[u].rule
      BY <1>3 DEF Running
  <2>2. task[u].rule \in RuleIds /\ tasks[task[u].rule] = u /\ ~task[u].done
      BY <1>1, <2>1 DEF TaskInv, RunInv
  <2> QED
      BY <1>3, <1>5, <2>1, <2>2
<1> QED
    BY <1>6, <1>7, <1>8, <1>9 DEF TaskInv

\* The task has ended: its successor starts, or the entries go.
LEMMA TaskStoppedTasks ==
    ASSUME TypeInv, TaskInv, NEW c \in Clients, TaskStopped(c)
    PROVE  TaskInv'
<1> DEFINE r == req[c].rule
           new == req[c].new
           old == req[c].old
<1>0. /\ req \in [Clients -> Req] /\ tasks \in [RuleIds -> TaskRefs] /\ task \in [TaskIds -> Task]
      /\ r \in RuleIds /\ req[c].def \in Defs \cup {NoDef} /\ req[c].pc = "stopping"
    BY DEF TaskStopped, TypeInv, TypeOK, RequestInv, Req
<1>1. /\ mtx = c /\ ~Running(old) /\ mtx' = None /\ req' = [req EXCEPT ![c] = Deployed(c)]
      /\ \A d \in Clients : mtx' # d
    BY <1>0, ConstantsAssumption DEF TaskStopped, TaskInv, LockInv
<1>2. \A d \in Clients : req'[d].pc # "stopping"
  <2>1. Deployed(c).pc # "stopping"
      BY <1>0, DeployedType
  <2> QED
      BY <1>0, <1>1, <2>1 DEF TaskInv, LockInv
<1>3. LockInv' /\ StopInv'
    BY <1>1, <1>2 DEF LockInv, StopInv
<1>4. ASSUME NEW s \in RuleIds \ {r}, tasks[s] # 0
      PROVE  Running(tasks[s]) /\ task[tasks[s]].rule = s
    BY <1>1, <1>4 DEF TaskInv, MapInv
<1>5. ASSUME NEW u \in TaskIds, Running(u)
      PROVE  task[u].rule \in RuleIds /\ tasks[task[u].rule] = u /\ ~task[u].done
    BY <1>1, <1>5 DEF TaskInv, RunInv
<1>6. CASE req[c].op = "edit"
  <2>1. /\ task' = [task EXCEPT ![new] = Started(r, req[c].def)]
        /\ tasks' = [tasks EXCEPT ![r] = new]
      BY <1>6 DEF TaskStopped
  <2>2. new \in TaskIds /\ new # 0 /\ ~Running(new) /\ tasks[r] = 0
      BY <1>1, <1>6, ConstantsAssumption DEF TaskInv, StopInv
  <2>3. /\ task'[new].status = "idle" /\ task'[new].rule = r /\ ~task'[new].done
        /\ \A u \in TaskIds \ {new} : task'[u] = task[u]
      BY <1>0, <2>1, <2>2, RecordFacts
  <2>4. tasks'[r] = new /\ \A s \in RuleIds \ {r} : tasks'[s] = tasks[s]
      BY <1>0, <2>1
  <2>5. MapInv'
    <3> SUFFICES ASSUME NEW s \in RuleIds, tasks'[s] # 0
                 PROVE  Running(tasks[s])' /\ task'[tasks'[s]].rule = s
        BY DEF MapInv
    <3>1. CASE s = r
        BY <2>3, <2>4, <3>1 DEF Running
    <3>2. CASE s # r
      <4>1. tasks'[s] = tasks[s] /\ tasks[s] \in TaskIds
          BY <1>0, <2>4, <3>2 DEF TaskRefs
      <4>2. Running(tasks[s]) /\ task[tasks[s]].rule = s
          BY <1>4, <3>2, <4>1
      <4> QED
          BY <2>2, <2>3, <4>1, <4>2 DEF Running
    <3> QED
        BY <3>1, <3>2
  <2>6. RunInv'
    <3> SUFFICES ASSUME NEW u \in TaskIds, Running(u)'
                 PROVE  task'[u].rule \in RuleIds /\ tasks'[task'[u].rule] = u /\ ~task'[u].done
        BY DEF RunInv
    <3>1. CASE u = new
        BY <1>0, <2>3, <2>4, <3>1
    <3>2. CASE u # new
      <4>1. task'[u] = task[u] /\ Running(u) /\ u # 0
          BY <2>3, <3>2, ConstantsAssumption DEF Running
      <4> QED
          BY <1>5, <2>2, <2>4, <4>1
    <3> QED
        BY <3>1, <3>2
  <2> QED
      BY <1>3, <2>5, <2>6 DEF TaskInv
<1>7. CASE req[c].op # "edit"
  <2>1. task' = task /\ tasks' = [tasks EXCEPT ![r] = 0]
      BY <1>7 DEF TaskStopped
  <2>2. tasks[r] = old
      BY <1>1, <1>7 DEF TaskInv, StopInv
  <2>3. tasks'[r] = 0 /\ \A s \in RuleIds \ {r} : tasks'[s] = tasks[s]
      BY <1>0, <2>1
  <2>4. MapInv'
      BY <1>4, <2>1, <2>3 DEF MapInv, Running
  <2>5. RunInv'
    <3> SUFFICES ASSUME NEW u \in TaskIds, Running(u)'
                 PROVE  task'[u].rule \in RuleIds /\ tasks'[task'[u].rule] = u /\ ~task'[u].done
        BY DEF RunInv
    <3>1. Running(u) /\ task'[u] = task[u]
        BY <2>1 DEF Running
    <3>2. u # old
        BY <1>1, <3>1
    <3> QED
        BY <1>5, <2>2, <2>3, <3>1, <3>2
  <2> QED
      BY <1>3, <2>4, <2>5 DEF TaskInv
<1> QED
    BY <1>6, <1>7

\* A step of a task's goroutine: only a stopped task ends.
LEMMA GoroutineTasks ==
    ASSUME TypeInv, TaskInv, NEW t \in TaskIds, Iterate(t) \/ PutAlerts(t) \/ Terminate(t)
    PROVE  TaskInv'
<1>0. /\ req \in [Clients -> Req] /\ tasks \in [RuleIds -> TaskRefs] /\ task \in [TaskIds -> Task]
      /\ UNCHANGED <<mtx, tasks, req>> /\ Running(t)
    BY DEF TypeInv, TypeOK, Iterate, PutAlerts, Terminate, Running
<1>1. LockInv'
    BY <1>0 DEF TaskInv, LockInv
<1>2. CASE Iterate(t) \/ PutAlerts(t)
  <2>1. \A u \in TaskIds : /\ task'[u].rule = task[u].rule /\ task'[u].done = task[u].done
                           /\ Running(u)' <=> Running(u)
    <3>1. CASE Iterate(t)
        BY <1>0, <3>1 DEF Iterate, Running, Task
    <3>2. CASE PutAlerts(t)
        BY <1>0, <3>2 DEF PutAlerts, Running, Task
    <3> QED
        BY <1>2, <3>1, <3>2
  <2>2. StopInv'
      BY <1>0, <2>1 DEF TaskInv, StopInv
  <2>3. MapInv'
      BY <1>0, <2>1 DEF TaskInv, MapInv, TaskRefs
  <2>4. RunInv'
      BY <1>0, <2>1 DEF TaskInv, RunInv
  <2> QED
      BY <1>1, <2>2, <2>3, <2>4 DEF TaskInv
<1>3. CASE Terminate(t)
  <2>1. /\ ~Running(t)' /\ \A u \in TaskIds \ {t} : task'[u] = task[u]
        /\ \A u \in TaskIds : Running(u)' => Running(u)
      BY <1>0, <1>3, RecordFacts DEF Terminate, Running
  <2>2. PICK c \in Clients : mtx = c /\ req[c].old = t
      BY <1>0, <1>3 DEF Terminate, TaskInv, RunInv
  <2>3. StopInv'
    <3> SUFFICES ASSUME NEW d \in Clients, mtx = d
                 PROVE  /\ req[d].old \in TaskIds
                        /\ Running(req[d].old)' => task'[req[d].old].rule = req[d].rule
                        /\ req[d].op = "edit" => /\ tasks[req[d].rule] = 0
                                                 /\ req[d].new \in TaskIds /\ ~Running(req[d].new)'
                        /\ req[d].op # "edit" => tasks[req[d].rule] = req[d].old
        BY <1>0 DEF StopInv
    <3> QED
        BY <1>0, <2>1, <2>2 DEF TaskInv, StopInv
  <2>4. MapInv'
    <3> SUFFICES ASSUME NEW r \in RuleIds, tasks[r] # 0
                 PROVE  \/ Running(tasks[r])' /\ task'[tasks[r]].rule = r
                        \/ \E d \in Clients : /\ mtx = d /\ req[d].op # "edit"
                                              /\ req[d].rule = r /\ req[d].old = tasks[r]
        BY <1>0 DEF MapInv
    <3>1. CASE tasks[r] = t
      <4>1. task[t].rule = req[c].rule /\ (req[c].op = "edit" => tasks[req[c].rule] = 0)
          BY <1>0, <2>2 DEF TaskInv, StopInv
      <4>2. CASE task[t].rule = r
          BY <2>2, <3>1, <4>1, <4>2
      <4> QED
          BY <3>1, <4>2 DEF TaskInv, MapInv
    <3>2. CASE tasks[r] # t
      <4>1. tasks[r] \in TaskIds
          BY <1>0 DEF TaskRefs
      <4> QED
        <5>1. task'[tasks[r]] = task[tasks[r]]
            BY <2>1, <3>2, <4>1
        <5>2. Running(tasks[r])' <=> Running(tasks[r])
            BY <1>0, <5>1 DEF Running
        <5> QED
            BY <5>1, <5>2 DEF TaskInv, MapInv
    <3> QED
        BY <3>1, <3>2
  <2>5. RunInv'
    <3> SUFFICES ASSUME NEW u \in TaskIds, Running(u)'
                 PROVE  /\ task'[u].rule \in RuleIds
                        /\ \/ tasks[task'[u].rule] = u /\ ~task'[u].done
                           \/ \E d \in Clients : mtx = d /\ req[d].old = u
        BY <1>0 DEF RunInv
    <3>1. u # t /\ Running(u) /\ task'[u] = task[u]
        BY <2>1
    <3> QED
        BY <3>1 DEF TaskInv, RunInv
  <2> QED
      BY <1>1, <2>3, <2>4, <2>5 DEF TaskInv
<1> QED
    BY <1>2, <1>3

\* Restart deploys one task per enabled rule and holds no lock.
LEMMA RestartTasks ==
    ASSUME TypeInv, Restart
    PROVE  TaskInv'
<1>1. PICK at \in [RuleIds -> TaskRefs] :
         /\ \A r, s \in RuleIds : at[r] = at[s] /\ at[r] # 0 => r = s
         /\ tasks' = at
         /\ \A t \in TaskIds :
              \/ \E r \in RuleIds : at[r] = t /\ task'[t] = Started(r, db[r])
              \/ (\A r \in RuleIds : at[r] # t) /\ task'[t] = NoTask
    BY RestartFacts
<1>2. mtx' = None /\ req' = [c \in Clients |-> Ready] /\ \A c \in Clients : mtx' # c
    BY ConstantsAssumption DEF Restart
<1>3. LockInv' /\ StopInv'
    BY <1>2, RecordFacts DEF LockInv, StopInv
<1>4. \A r \in RuleIds : db[r] \in Defs \cup {NoDef}
    BY DEF TypeInv, TypeOK, Table
<1>5. MapInv'
  <2> SUFFICES ASSUME NEW r \in RuleIds, tasks'[r] # 0
               PROVE  Running(tasks[r])' /\ task'[tasks'[r]].rule = r
      BY DEF MapInv
  <2>1. at[r] \in TaskIds
      BY <1>1 DEF TaskRefs
  <2>2. task'[at[r]] = Started(r, db[r])
      BY <1>1, <2>1
  <2> QED
      BY <1>1, <1>4, <2>2, RecordFacts DEF Running
<1>6. RunInv'
  <2> SUFFICES ASSUME NEW t \in TaskIds, Running(t)'
               PROVE  task'[t].rule \in RuleIds /\ tasks'[task'[t].rule] = t /\ ~task'[t].done
      BY DEF RunInv
  <2>1. PICK r \in RuleIds : at[r] = t /\ task'[t] = Started(r, db[r])
      BY <1>1, RecordFacts DEF Running
  <2> QED
      BY <1>1, <1>4, <2>1, RecordFacts
<1> QED
    BY <1>3, <1>5, <1>6 DEF TaskInv

\* The task invariant holds in every reachable state.
LEMMA TaskInvariant == Spec => []TaskInv
<1>1. Init => TaskInv
  <2> SUFFICES ASSUME Init PROVE TaskInv
      OBVIOUS
  <2>1. /\ \A c \in Clients : mtx # c /\ req[c].pc = "ready"
        /\ \A t \in TaskIds : ~Running(t)
        /\ \A r \in RuleIds : tasks[r] = 0
      BY ConstantsAssumption, RecordFacts DEF Init, Running
  <2> QED
      BY <2>1 DEF TaskInv, LockInv, StopInv, MapInv, RunInv
<1>2. TypeInv /\ TaskInv /\ [Next]_vars => TaskInv'
  <2> SUFFICES ASSUME TypeInv, TaskInv, [Next]_vars PROVE TaskInv'
      OBVIOUS
  <2>1. ASSUME NEW c \in Clients, Request(c) \/ StoreStep(c) \/ TaskStep(c) PROVE TaskInv'
    <3>0. req[c] \in Req /\ req \in [Clients -> Req]
        BY DEF TypeInv, TypeOK
    <3>1. CASE Request(c) \/ StoreStep(c) \/ PrepareFails(c) \/ SyncRuleStateWithTask(c)
        BY <3>1, StoreStepTasks
    <3>2. CASE AddTask(c)
      <4>1. PICK t \in TaskIds :
               /\ NewTask(t)
               /\ IF tasks[req[c].rule] = 0
                  THEN /\ tasks' = [tasks EXCEPT ![req[c].rule] = t]
                       /\ task' = [task EXCEPT ![t] = Started(req[c].rule, req[c].def)]
                       /\ req' = [req EXCEPT ![c] = Deployed(c)]
                  ELSE Fail(c) /\ UNCHANGED <<tasks, task>>
          BY <3>2 DEF AddTask
      <4>2. /\ mtx = None /\ mtx' = None /\ req[c].pc = "lock" /\ req[c].rule \in RuleIds
            /\ mtx # c
          BY <3>2, ConstantsAssumption DEF AddTask, Locks, TypeInv, RequestInv
      <4>3. CASE tasks[req[c].rule] = 0
          BY <4>1, <4>2, <4>3, TaskStarts
      <4>4. CASE tasks[req[c].rule] # 0
          BY <4>1, <4>2, <4>4, FailQuiet, QuietStep
      <4> QED
          BY <4>3, <4>4
    <3>3. CASE EditTask(c)
      <4> DEFINE old == tasks[req[c].rule]
      <4>1. PICK t \in TaskIds :
               /\ NewTask(t)
               /\ IF old = 0
                  THEN /\ tasks' = [tasks EXCEPT ![req[c].rule] = t]
                       /\ task' = [task EXCEPT ![t] = Started(req[c].rule, req[c].def)]
                       /\ req' = [req EXCEPT ![c] = Deployed(c)]
                       /\ UNCHANGED mtx
                  ELSE /\ tasks' = [tasks EXCEPT ![req[c].rule] = 0]
                       /\ task' = [task EXCEPT ![old].done = TRUE]
                       /\ req' = [req EXCEPT ![c].pc = "stopping", ![c].old = old, ![c].new = t]
                       /\ mtx' = c
          BY <3>3 DEF EditTask
      <4>2. /\ mtx = None /\ req[c].pc = "lock" /\ req[c].op = "edit" /\ req[c].rule \in RuleIds
          BY <3>3 DEF EditTask, Locks, TypeInv, RequestInv
      <4>3. CASE old = 0
          BY <4>1, <4>2, <4>3, TaskStarts
      <4>4. CASE old # 0
        <5> DEFINE q == [req[c] EXCEPT !.pc = "stopping", !.old = old, !.new = t]
        <5>1. old \in TaskRefs /\ t \in TaskRefs /\ ~Running(t)
            BY <4>1, <4>2 DEF TypeInv, TypeOK, TaskRefs, NewTask, Free
        <5>2. /\ q \in Req /\ q.pc = "stopping" /\ q.rule = req[c].rule /\ q.old = old
              /\ q.op = "edit" /\ q.new = t
            BY <3>0, <4>2, <5>1 DEF Req
        <5>3. req' = [req EXCEPT ![c] = q]
            BY <3>0, <4>1, <4>4
        <5> HIDE DEF q
        <5> QED
            BY <4>1, <4>2, <4>4, <5>1, <5>2, <5>3, TaskStops
      <4> QED
          BY <4>3, <4>4
    <3>4. CASE DeleteTask(c)
      <4> DEFINE old == tasks[req[c].rule]
      <4>1. /\ mtx = None /\ req[c].pc = "lock" /\ req[c].op = "delete" /\ req[c].rule \in RuleIds
            /\ mtx # c
          BY <3>4, ConstantsAssumption DEF DeleteTask, Locks, TypeInv, RequestInv
      <4>2. CASE old = 0
        <5>1. req' = [req EXCEPT ![c] = Deployed(c)] /\ UNCHANGED <<mtx, tasks, task>>
            BY <3>4, <4>2 DEF DeleteTask
        <5>2. Deployed(c).pc # "stopping"
            BY <4>1, DeployedType
        <5> QED
            BY <3>0, <4>1, <5>1, <5>2, QuietStep
      <4>3. CASE old # 0
        <5> DEFINE q == [req[c] EXCEPT !.pc = "stopping", !.old = old]
        <5>1. old \in TaskRefs
            BY <4>1 DEF TypeInv, TypeOK
        <5>2. q \in Req /\ q.pc = "stopping" /\ q.rule = req[c].rule /\ q.old = old /\ q.op = "delete"
            BY <3>0, <4>1, <5>1 DEF Req
        <5>3. req' = [req EXCEPT ![c] = q] /\ mtx' = c /\ tasks' = tasks
              /\ task' = [task EXCEPT ![old].done = TRUE]
            BY <3>0, <3>4, <4>3 DEF DeleteTask
        <5> HIDE DEF q
        <5> QED
            BY <4>1, <4>3, <5>2, <5>3, TaskStops
      <4> QED
          BY <4>2, <4>3
    <3>5. CASE TaskStopped(c)
        BY <3>5, TaskStoppedTasks
    <3> QED
        BY <2>1, <3>1, <3>2, <3>3, <3>4, <3>5 DEF TaskStep
  <2>2. ASSUME NEW t \in TaskIds, Iterate(t) \/ PutAlerts(t) \/ Terminate(t) PROVE TaskInv'
      BY <2>2, GoroutineTasks
  <2>3. CASE SyncLock \/ SyncDone \/ SyncSkipped \/ UNCHANGED vars
    <3>1. UNCHANGED <<mtx, tasks, task, req>>
        BY <2>3 DEF SyncLock, SyncDone, SyncSkipped, managerVars, vars
    <3> QED
        BY <3>1, QuietStep
  <2>4. CASE Restart
      BY <2>4, RestartTasks
  <2> QED
      BY <2>1, <2>2, <2>3, <2>4 DEF Next
<1> QED
    BY <1>1, <1>2, TypeInvariant, PTL DEF Spec

\* However many requests interleave and whatever fails: no evaluation goroutine
\* is lost from Manager.tasks while it runs.
THEOREM NoTaskLeaks == Spec => []NoLeakedTask
BY TypeInvariant, TaskInvariant, TaskInvImplies, PTL

\* However many requests interleave and whatever fails: no rule is ever
\* evaluated by two goroutines.
THEOREM SingleEvaluator == Spec => []OneEvaluatorPerRule
BY TypeInvariant, TaskInvariant, TaskInvImplies, PTL

=============================================================================
