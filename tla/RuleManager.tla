----------------------------- MODULE RuleManager -----------------------------
(***************************************************************************)
(* The rule manager of the query-service: API requests that create, edit,  *)
(* patch and delete alert rules, the stored rules (one SQLite writer at a  *)
(* time), the tasks and rules maps behind Manager.mtx, the goroutines of   *)
(* the rule tasks, and the Alertmanager poller, which takes serversMtx and *)
(* the database in the opposite order.                                     *)
(*                                                                         *)
(* The HTTP listener opens after Manager.Start has returned and is shut    *)
(* down before Manager.Stop, so requests meet a started manager only.      *)
(***************************************************************************)
EXTENDS Integers

CONSTANTS
    Clients,    \* concurrent API requests
    RuleIds,    \* identifiers valuer.GenerateUUID can return
    Revisions,  \* rule definitions, apart from the disabled flag
    TaskIds,    \* bound: task objects alive at a time
    Requests,   \* kinds of request considered
    Faults,     \* what can fail: "callback", "prepare", "commit"
    None

ASSUME ConstantsAssumption ==
    /\ TaskIds \subseteq Nat \ {0}
    /\ Requests \subseteq {"create", "edit", "patch", "delete"}
    /\ Faults \subseteq {"callback", "prepare", "commit"}
    /\ None \notin Clients

VARIABLES
    db,       \* committed rules table
    txDb,     \* the rules table as the open transaction sees it
    txOwner,  \* request holding SQLite's write lock
    unused,   \* identifiers not yet generated
    mtx,      \* request holding Manager.mtx
    tasks,    \* Manager.tasks: rule -> task, 0 when there is none
    rules,    \* Manager.rules: rule -> task whose rule object it is
    task,     \* the task objects
    req,      \* the requests in progress
    sync,     \* SyncServers: "idle", or "locked" while it holds serversMtx
    excused   \* auxiliary: a disabled rule was created, or a transaction
              \* failed after its task was changed, since the last restart

vars == <<db, txDb, txOwner, unused, mtx, tasks, rules, task, req, sync, excused>>
storeVars == <<db, txDb, txOwner, unused>>
managerVars == <<mtx, tasks, rules, task>>

----------------------------------------------------------------------------
Defs == [disabled : BOOLEAN, rev : Revisions]
NoDef == [disabled |-> TRUE, rev |-> None]
Table == [RuleIds -> Defs \cup {NoDef}]

TaskRefs == TaskIds \cup {0}
\* status: "idle" between iterations, "eval" inside one, "gone" when Run has
\* closed terminated, or before Run is called.
Task == [rule : RuleIds \cup {None}, def : Defs \cup {NoDef},
         status : {"idle", "eval", "gone"}, done : BOOLEAN]
NoTask == [rule |-> None, def |-> NoDef, status |-> "gone", done |-> FALSE]

Req == [pc : {"ready", "begin", "callback", "sync", "lock", "stopping", "commit"},
        kind : {"create", "edit", "patch", "delete", "none"},
        rule : RuleIds \cup {None}, def : Defs \cup {NoDef},
        op : {"add", "edit", "delete", "none"},
        old : TaskRefs, new : TaskRefs,
        restoring : BOOLEAN]
Ready ==
    [pc |-> "ready", kind |-> "none", rule |-> None, def |-> NoDef, op |-> "none",
     old |-> 0, new |-> 0, restoring |-> FALSE]

Running(t) == task[t].status # "gone"

\* A task object nothing refers to any more.
Free == {t \in TaskIds : /\ ~Running(t)
                         /\ \A r \in RuleIds : tasks[r] # t /\ rules[r] # t
                         /\ \A c \in Clients : req[c].old # t /\ req[c].new # t}
NewTask(t) == t \in Free /\ \A u \in Free : t <= u

----------------------------------------------------------------------------
(* Requests arrive                                                         *)

Arrive(c, kind, r, d, pc) ==
    /\ kind \in Requests
    /\ req[c].pc = "ready"
    /\ req' = [req EXCEPT ![c] = [Ready EXCEPT !.pc = pc, !.kind = kind,
                                                     !.rule = r, !.def = d]]

\* Manager.CreateRule draws an identifier.
CreateRule(c) ==
    \E r \in unused, d \in Defs :
        /\ Arrive(c, "create", r, d, "begin")
        /\ unused' = unused \ {r}
        /\ UNCHANGED <<db, txDb, txOwner, managerVars, sync, excused>>

\* Manager.EditRule and DeleteRule read the committed row outside any
\* transaction; a missing row ends the request.
EditRule(c) ==
    \E r \in RuleIds, d \in Defs :
        /\ db[r] # NoDef
        /\ Arrive(c, "edit", r, d, "begin")
        /\ UNCHANGED <<storeVars, managerVars, sync, excused>>

DeleteRule(c) ==
    \E r \in RuleIds :
        /\ db[r] # NoDef
        /\ Arrive(c, "delete", r, NoDef, "begin")
        /\ UNCHANGED <<storeVars, managerVars, sync, excused>>

\* Manager.PatchRule overlays the request on the committed row and deploys the
\* result before it opens the transaction.
PatchRule(c) ==
    \E r \in RuleIds, d \in Defs :
        /\ db[r] # NoDef
        /\ d.disabled = db[r].disabled \/ d.rev = db[r].rev
        /\ Arrive(c, "patch", r, d, "sync")
        /\ UNCHANGED <<storeVars, managerVars, sync, excused>>

----------------------------------------------------------------------------
(* How requests end                                                        *)

\* The request returns an error; an open transaction is rolled back.  PatchRule
\* tries to restore the task first, unless that is what failed.
Fail(c) ==
    /\ IF req[c].kind = "patch" /\ req[c].pc \in {"begin", "commit"}
       THEN req' = [req EXCEPT ![c].pc = "sync", ![c].restoring = TRUE]
       ELSE req' = [req EXCEPT ![c] = Ready]
    /\ IF txOwner = c THEN txOwner' = None /\ txDb' = db
                      ELSE UNCHANGED <<txOwner, txDb>>

\* What follows the change of the task.
Deployed(c) ==
    IF req[c].restoring THEN Ready
    ELSE [req[c] EXCEPT !.pc = IF req[c].kind = "patch" THEN "begin" ELSE "commit",
                        !.old = 0, !.new = 0]

----------------------------------------------------------------------------
(* sqlrulestore inside RunInTxCtx                                          *)

\* Seeded fault: the definition is not written back.
WrittenBare(c) == [db EXCEPT ![req[c].rule] = [req[c].def EXCEPT !.rev = None]]

\* An UPDATE or DELETE whose row is gone changes nothing and is no error.
Written(c) ==
    LET r == req[c].rule
    IN  [db EXCEPT ![r] = IF req[c].kind # "create" /\ db[r] = NoDef THEN NoDef ELSE req[c].def]

BeginTx(c) ==
    /\ req[c].pc = "begin"
    /\ txOwner = None
    /\ txOwner' = c
    /\ txDb' = Written(c)
    /\ req' = [req EXCEPT ![c].pc = IF req[c].kind = "patch" THEN "commit" ELSE "callback"]
    /\ UNCHANGED <<db, unused, managerVars, sync, excused>>

\* busy_timeout: the write lock was not to be had.
TxBusy(c) ==
    /\ req[c].pc = "begin"
    /\ txOwner # None
    /\ Fail(c)
    /\ excused' = (excused \/ req[c].kind = "patch")
    /\ UNCHANGED <<db, unused, managerVars, sync>>

\* Notification config, matchers and inhibit rules at the Alertmanager.
Callback(c) ==
    /\ req[c].pc = "callback"
    /\ \/ req[c].kind = "create" /\ req' = [req EXCEPT ![c].pc = "lock", ![c].op = "add"]
       \/ req[c].kind = "delete" /\ req' = [req EXCEPT ![c].pc = "lock", ![c].op = "delete"]
       \/ req[c].kind = "edit" /\ req' = [req EXCEPT ![c].pc = "sync"]
    /\ UNCHANGED <<storeVars, managerVars, sync, excused>>

CallbackFails(c) ==
    /\ "callback" \in Faults
    /\ req[c].pc = "callback"
    /\ Fail(c)
    /\ UNCHANGED <<db, unused, managerVars, sync, excused>>

Commit(c) ==
    /\ req[c].pc = "commit"
    /\ db' = txDb
    /\ txOwner' = None
    /\ req' = [req EXCEPT ![c] = Ready]
    /\ excused' = (excused \/ (req[c].kind = "create" /\ req[c].def.disabled))
    /\ UNCHANGED <<txDb, unused, managerVars, sync>>

CommitFails(c) ==
    /\ "commit" \in Faults
    /\ req[c].pc = "commit"
    /\ Fail(c)
    /\ excused' = TRUE
    /\ UNCHANGED <<db, unused, managerVars, sync>>

----------------------------------------------------------------------------
(* syncRuleStateWithTask and the task operations                           *)

\* Seeded fault: the task of an enabled rule is left as it is.
SyncRuleStateWithTaskLazy(c) ==
    LET r == req[c].rule
        op == IF req[c].def.disabled THEN IF tasks[r] # 0 THEN "delete" ELSE "none"
                                     ELSE IF tasks[r] # 0 THEN "none" ELSE "add"
    IN  /\ req[c].pc = "sync"
        /\ req' = [req EXCEPT ![c] = IF op = "none" THEN Deployed(c)
                                     ELSE [@ EXCEPT !.pc = "lock", !.op = op]]
        /\ UNCHANGED <<storeVars, managerVars, sync, excused>>

\* The tasks map is read without Manager.mtx.
SyncRuleStateWithTask(c) ==
    LET r == req[c].rule
        op == IF req[c].def.disabled THEN IF tasks[r] # 0 THEN "delete" ELSE "none"
                                     ELSE IF tasks[r] # 0 THEN "edit" ELSE "add"
    IN  /\ req[c].pc = "sync"
        /\ req' = [req EXCEPT ![c] = IF op = "none" THEN Deployed(c)
                                     ELSE [@ EXCEPT !.pc = "lock", !.op = op]]
        /\ UNCHANGED <<storeVars, managerVars, sync, excused>>

Locks(c, op) == req[c].pc = "lock" /\ req[c].op = op /\ mtx = None

\* prepareTaskFunc refuses the rule before anything is changed.
PrepareFails(c) ==
    /\ "prepare" \in Faults
    /\ Locks(c, "add") \/ Locks(c, "edit")
    /\ Fail(c)
    /\ UNCHANGED <<db, unused, managerVars, sync, excused>>

Started(r, d) == [rule |-> r, def |-> d, status |-> "idle", done |-> FALSE]

\* Seeded fault: an existing task is not noticed.
AddTaskUnchecked(c) ==
    LET r == req[c].rule
    IN  /\ Locks(c, "add")
        /\ \E t \in TaskIds :
            /\ NewTask(t)
            /\ rules' = [rules EXCEPT ![r] = t]
            /\ tasks' = [tasks EXCEPT ![r] = t]
            /\ task' = [task EXCEPT ![t] = Started(r, req[c].def)]
            /\ req' = [req EXCEPT ![c] = Deployed(c)]
        /\ UNCHANGED <<storeVars, mtx, sync, excused>>

\* addTask: the rules entry is replaced before the tasks map is consulted.
AddTask(c) ==
    LET r == req[c].rule
    IN  /\ Locks(c, "add")
        /\ \E t \in TaskIds :
            /\ NewTask(t)
            /\ rules' = [rules EXCEPT ![r] = t]
            /\ IF tasks[r] = 0
               THEN /\ tasks' = [tasks EXCEPT ![r] = t]
                    /\ task' = [task EXCEPT ![t] = Started(r, req[c].def)]
                    /\ req' = [req EXCEPT ![c] = Deployed(c)]
                    /\ UNCHANGED <<txOwner, txDb>>
               ELSE /\ Fail(c)
                    /\ UNCHANGED <<tasks, task>>
        /\ UNCHANGED <<db, unused, mtx, sync, excused>>

\* editTask up to oldTask.Stop(): close(done), then wait, holding the mutex.
EditTask(c) ==
    LET r == req[c].rule
        old == tasks[r]
    IN  /\ Locks(c, "edit")
        /\ \E t \in TaskIds :
            /\ NewTask(t)
            /\ rules' = [rules EXCEPT ![r] = t]
            /\ IF old = 0
               THEN /\ tasks' = [tasks EXCEPT ![r] = t]
                    /\ task' = [task EXCEPT ![t] = Started(r, req[c].def)]
                    /\ req' = [req EXCEPT ![c] = Deployed(c)]
                    /\ UNCHANGED mtx
               ELSE /\ tasks' = [tasks EXCEPT ![r] = 0]
                    /\ task' = [task EXCEPT ![old].done = TRUE]
                    /\ req' = [req EXCEPT ![c].pc = "stopping", ![c].old = old, ![c].new = t]
                    /\ mtx' = c
        /\ UNCHANGED <<storeVars, sync, excused>>

\* Seeded fault: the entries are removed and the task is not stopped.
DeleteTaskOnly(c) ==
    LET r == req[c].rule
    IN  /\ Locks(c, "delete")
        /\ tasks' = [tasks EXCEPT ![r] = 0]
        /\ rules' = [rules EXCEPT ![r] = 0]
        /\ req' = [req EXCEPT ![c] = Deployed(c)]
        /\ UNCHANGED <<storeVars, mtx, task, sync, excused>>

\* deleteTask up to oldg.Stop(); the entry stays in the map meanwhile.
DeleteTask(c) ==
    LET old == tasks[req[c].rule]
    IN  /\ Locks(c, "delete")
        /\ IF old = 0
           THEN /\ req' = [req EXCEPT ![c] = Deployed(c)]
                /\ UNCHANGED <<mtx, task>>
           ELSE /\ task' = [task EXCEPT ![old].done = TRUE]
                /\ req' = [req EXCEPT ![c].pc = "stopping", ![c].old = old]
                /\ mtx' = c
        /\ UNCHANGED <<storeVars, tasks, rules, sync, excused>>

\* Seeded fault: deleteTask leaves the rules entry behind.
TaskStoppedKeepsRule(c) ==
    LET r == req[c].rule
    IN  /\ req[c].pc = "stopping"
        /\ ~Running(req[c].old)
        /\ IF req[c].op = "edit"
           THEN /\ task' = [task EXCEPT ![req[c].new] = Started(r, req[c].def)]
                /\ tasks' = [tasks EXCEPT ![r] = req[c].new]
           ELSE /\ tasks' = [tasks EXCEPT ![r] = 0]
                /\ UNCHANGED task
        /\ mtx' = None
        /\ req' = [req EXCEPT ![c] = Deployed(c)]
        /\ UNCHANGED <<rules, storeVars, sync, excused>>

\* <-terminated: the new task takes over, or the entries go.
TaskStopped(c) ==
    LET r == req[c].rule
    IN  /\ req[c].pc = "stopping"
        /\ ~Running(req[c].old)
        /\ IF req[c].op = "edit"
           THEN /\ task' = [task EXCEPT ![req[c].new] = Started(r, req[c].def)]
                /\ tasks' = [tasks EXCEPT ![r] = req[c].new]
                /\ UNCHANGED rules
           ELSE /\ tasks' = [tasks EXCEPT ![r] = 0]
                /\ rules' = [rules EXCEPT ![r] = 0]
                /\ UNCHANGED task
        /\ mtx' = None
        /\ req' = [req EXCEPT ![c] = Deployed(c)]
        /\ UNCHANGED <<storeVars, sync, excused>>

----------------------------------------------------------------------------
(* RuleTask.Run                                                            *)

Iterate(t) ==
    /\ task[t].status = "idle" /\ ~task[t].done
    /\ task' = [task EXCEPT ![t].status = "eval"]
    /\ UNCHANGED <<storeVars, mtx, tasks, rules, req, sync, excused>>

\* SendAlerts ends the iteration; Service.PutAlerts needs serversMtx.
PutAlerts(t) ==
    /\ task[t].status = "eval"
    /\ sync = "idle"
    /\ task' = [task EXCEPT ![t].status = "idle"]
    /\ UNCHANGED <<storeVars, mtx, tasks, rules, req, sync, excused>>

Terminate(t) ==
    /\ task[t].status = "idle" /\ task[t].done
    /\ task' = [task EXCEPT ![t] = NoTask]
    /\ UNCHANGED <<storeVars, mtx, tasks, rules, req, sync, excused>>

----------------------------------------------------------------------------
(* Service.SyncServers                                                     *)

SyncLock ==
    /\ sync = "idle"
    /\ sync' = "locked"
    /\ UNCHANGED <<storeVars, managerVars, req, excused>>

\* configStore.Set when the hash changed, nothing otherwise.
SyncDone ==
    /\ sync = "locked"
    /\ txOwner = None
    /\ sync' = "idle"
    /\ UNCHANGED <<storeVars, managerVars, req, excused>>

\* Seeded fault: configStore.Set waits for the write lock without a timeout.
SyncSkippedNever ==
    /\ sync = "locked"
    /\ txOwner = None
    /\ sync' = "idle"
    /\ UNCHANGED <<storeVars, managerVars, req, excused>>

\* The hash is unchanged, or configStore.Set met busy_timeout and was logged.
SyncSkipped ==
    /\ sync = "locked"
    /\ txOwner # None
    /\ sync' = "idle"
    /\ UNCHANGED <<storeVars, managerVars, req, excused>>

----------------------------------------------------------------------------
\* The process dies (a concurrent map access included) and Manager.initiate
\* starts a task for every enabled rule it finds.
Restart ==
    LET fresh == {at \in [RuleIds -> TaskRefs] :
                    /\ \A r \in RuleIds : (at[r] = 0) = db[r].disabled
                    /\ \A r, s \in RuleIds : at[r] = at[s] /\ at[r] # 0 => r = s}
        at == CHOOSE f \in fresh : TRUE
    IN  /\ fresh # {}
        /\ tasks' = at
        /\ rules' = at
        /\ task' = [t \in TaskIds |->
                      IF \E r \in RuleIds : at[r] = t
                      THEN LET r == CHOOSE r \in RuleIds : at[r] = t IN Started(r, db[r])
                      ELSE NoTask]
        /\ req' = [c \in Clients |-> Ready]
        /\ txDb' = db
        /\ txOwner' = None
        /\ mtx' = None
        /\ sync' = "idle"
        /\ excused' = FALSE
        /\ UNCHANGED <<db, unused>>

Init ==
    /\ db = [r \in RuleIds |-> NoDef]
    /\ txDb = db
    /\ txOwner = None
    /\ unused = RuleIds
    /\ mtx = None
    /\ tasks = [r \in RuleIds |-> 0]
    /\ rules = [r \in RuleIds |-> 0]
    /\ task = [t \in TaskIds |-> NoTask]
    /\ req = [c \in Clients |-> Ready]
    /\ sync = "idle"
    /\ excused = FALSE

Request(c) == CreateRule(c) \/ EditRule(c) \/ DeleteRule(c) \/ PatchRule(c)
StoreStep(c) == \/ BeginTx(c) \/ TxBusy(c) \/ Callback(c) \/ CallbackFails(c)
                \/ Commit(c) \/ CommitFails(c)
TaskStep(c) == \/ SyncRuleStateWithTask(c) \/ PrepareFails(c) \/ AddTask(c)
               \/ EditTask(c) \/ DeleteTask(c) \/ TaskStopped(c)

Next ==
    \/ \E c \in Clients : Request(c) \/ StoreStep(c) \/ TaskStep(c)
    \/ \E t \in TaskIds : Iterate(t) \/ PutAlerts(t) \/ Terminate(t)
    \/ SyncLock \/ SyncDone \/ SyncSkipped
    \/ Restart

Spec == Init /\ [][Next]_vars

\* Goroutines that can run do; sync.Mutex and sync.RWMutex hand the lock to a
\* waiting goroutine in the end.
Fairness ==
    /\ \A c \in Clients : WF_vars(StoreStep(c)) /\ SF_vars(TaskStep(c))
    /\ \A t \in TaskIds : SF_vars(PutAlerts(t)) /\ WF_vars(Terminate(t))
    /\ WF_vars(SyncDone \/ SyncSkipped)

FairSpec == Spec /\ Fairness

----------------------------------------------------------------------------
(* Properties                                                              *)

\* Every variable keeps the shape of what it models.
TypeOK ==
    /\ db \in Table /\ txDb \in Table
    /\ txOwner \in Clients \cup {None}
    /\ unused \subseteq RuleIds
    /\ mtx \in Clients \cup {None}
    /\ tasks \in [RuleIds -> TaskRefs] /\ rules \in [RuleIds -> TaskRefs]
    /\ task \in [TaskIds -> Task]
    /\ req \in [Clients -> Req]
    /\ sync \in {"idle", "locked"}
    /\ excused \in BOOLEAN

\* A rule is never evaluated by two goroutines: editTask and deleteTask wait
\* for the old task, addTask refuses a second one, however requests interleave.
OneEvaluatorPerRule ==
    \A t, u \in TaskIds : Running(t) /\ Running(u) /\ task[t].rule = task[u].rule => t = u

\* No evaluation goroutine outlives its entry in Manager.tasks: it is in the map,
\* or a request that holds Manager.mtx is waiting for it to end.
NoLeakedTask ==
    \A t \in TaskIds : Running(t) =>
        \/ tasks[task[t].rule] = t
        \/ \E c \in Clients : mtx = c /\ req[c].pc = "stopping" /\ req[c].old = t

Quiet == \A c \in Clients : req[c].pc = "ready"

\* What runs for a rule is what is stored.
InStep(r) ==
    IF db[r].disabled THEN tasks[r] = 0
    ELSE tasks[r] # 0 /\ task[tasks[r]].def = db[r] /\ ~task[tasks[r]].done

\* Requests one at a time keep the tasks in step with the stored rules, also
\* when the callback or prepareTaskFunc fails halfway.
TasksFollowStore == Quiet /\ ~excused => \A r \in RuleIds : InStep(r)

\* With requests one at a time, the rule object ListRuleStates, GetRule and
\* PatchRule report on is the one that is evaluated: addTask, editTask and
\* deleteTask change the rules map with the tasks map, whatever fails.
ReportedRuleIsEvaluated == Quiet => \A r \in RuleIds : rules[r] = tasks[r]

\* Every request ends: the cycle rule edit -> evaluation -> serversMtx ->
\* SQLite write lock -> rule edit is broken by busy_timeout.
RequestsEnd == \A c \in Clients : req[c].pc # "ready" ~> req[c].pc = "ready"

\* A rule that is not stored has no task.
NoTaskWithoutRule == Quiet => \A r \in RuleIds : db[r] = NoDef => tasks[r] = 0
=============================================================================
