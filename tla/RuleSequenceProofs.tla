------------------------- MODULE RuleSequenceProofs -------------------------
(***************************************************************************)
(* Proofs about RuleManager when requests come one at a time: what runs is *)
(* what is stored, and what is reported on is what runs, for any number of *)
(* rules and whatever fails halfway.                                       *)
(***************************************************************************)
EXTENDS RuleManagerProofs

(* The inductive invariant                                                 *)

\* The requests of the instance come one at a time.
OneRequest == \A c, d \in Clients : c = d

\* The task of rule r is what definition d asks for.
Fits(r, d) ==
    IF d.disabled THEN tasks[r] = 0
    ELSE tasks[r] # 0 /\ task[tasks[r]].def = d /\ ~task[tasks[r]].done

Handles(c, r) == req[c].pc # "ready" /\ req[c].rule = r

\* Where a request has not changed the task yet, and where it has.
Before(q) == q.pc \in {"callback", "sync", "lock"} \/ (q.pc = "begin" /\ q.kind # "patch")
After(q) == q.pc = "commit" \/ (q.pc = "begin" /\ q.kind = "patch")

\* Rules nobody handles are in step with the store.
StoreInv ==
    \A r \in RuleIds : ~excused /\ (\A c \in Clients : ~Handles(c, r)) => Fits(r, db[r])

\* Identifiers not yet drawn belong to nothing.
UnusedInv ==
    \A r \in unused : /\ db[r] = NoDef /\ tasks[r] = 0
                      /\ \A c \in Clients : ~Handles(c, r)

\* The two maps agree, but for the rule an edit is waiting to start again.
ReportInv ==
    \A r \in RuleIds :
        \/ rules[r] = tasks[r]
        \/ \E c \in Clients : /\ req[c].pc = "stopping" /\ req[c].rule = r
                              /\ req[c].op = "edit" /\ rules[r] = req[c].new

\* The transaction of a request, and the row it was admitted with.
TxInv(c) ==
    LET q == req[c]
    IN  /\ (txOwner = c) <=> \/ q.pc \in {"callback", "sync", "lock", "stopping"} /\ q.kind # "patch"
                             \/ q.pc = "commit"
        /\ txOwner = c => txDb = [db EXCEPT ![q.rule] = q.def]
        /\ q.pc # "ready" =>
             /\ q.kind # "none"
             /\ (q.kind = "create") <=> (db[q.rule] = NoDef)
             /\ q.kind = "create" => q.pc \notin {"sync", "stopping"}
             /\ q.kind = "delete" => q.def.disabled
             /\ q.kind = "patch" => q.pc # "callback"

\* What a request is about to do to the task of its rule, or has done.
DeployInv(c) ==
    LET q == req[c]
    IN  q.pc # "ready" =>
        /\ q.restoring => q.kind = "patch" /\ excused
        /\ q.kind = "create" /\ Before(q) => tasks[q.rule] = 0
        /\ q.pc = "lock" =>
             \/ q.op = "add" /\ tasks[q.rule] = 0 /\ (q.kind = "create" \/ ~q.def.disabled)
             \/ q.op = "edit" /\ tasks[q.rule] # 0 /\ ~q.def.disabled
             \/ q.op = "delete" /\ q.def.disabled
        /\ q.pc = "stopping" =>
             \/ q.op = "edit" /\ ~q.def.disabled /\ rules[q.rule] = q.new
                /\ \A r \in RuleIds : tasks[r] # q.new
             \/ q.op = "delete" /\ q.def.disabled
        /\ ~excused /\ Before(q) => Fits(q.rule, db[q.rule])
        /\ ~excused /\ After(q) => \/ Fits(q.rule, q.def)
                                   \/ q.kind = "create" /\ q.def.disabled

SeqInv ==
    /\ StoreInv /\ UnusedInv /\ ReportInv
    /\ \A c \in Clients : TxInv(c) /\ DeployInv(c)

----------------------------------------------------------------------------
\* The same, with the only request there is named.
StoreAt(c) == \A r \in RuleIds : ~excused /\ ~Handles(c, r) => Fits(r, db[r])
UnusedAt(c) == \A r \in unused : db[r] = NoDef /\ tasks[r] = 0 /\ ~Handles(c, r)
ReportAt(c) ==
    \A r \in RuleIds : \/ rules[r] = tasks[r]
                       \/ /\ req[c].pc = "stopping" /\ req[c].rule = r
                          /\ req[c].op = "edit" /\ rules[r] = req[c].new
SeqAt(c) == StoreAt(c) /\ UnusedAt(c) /\ ReportAt(c) /\ TxInv(c) /\ DeployInv(c)

LEMMA OneClient ==
    ASSUME OneRequest, NEW c \in Clients, SeqAt(c)'
    PROVE  SeqInv'
<1>1. \A d \in Clients : d = c
    BY DEF OneRequest
<1>2. StoreInv' /\ UnusedInv'
    BY <1>1 DEF SeqAt, StoreAt, UnusedAt, StoreInv, UnusedInv
<1>3. ReportInv'
    BY DEF SeqAt, ReportAt, ReportInv
<1>4. \A d \in Clients : TxInv(d)' /\ DeployInv(d)'
    BY <1>1 DEF SeqAt
<1> QED
    BY <1>2, <1>3, <1>4 DEF SeqInv

LEMMA OneClientFacts ==
    ASSUME OneRequest, SeqInv, TypeInv, NEW c \in Clients
    PROVE  /\ SeqAt(c)
           /\ txOwner \in {c, None} /\ c # None
           /\ req \in [Clients -> Req] /\ req[c] \in Req
           /\ req[c].pc # "ready" => req[c].rule \in RuleIds
           /\ unused \subseteq RuleIds
<1>1. \A d \in Clients : d = c
    BY DEF OneRequest
<1>2. StoreAt(c) /\ UnusedAt(c)
    BY <1>1 DEF SeqInv, StoreInv, UnusedInv, StoreAt, UnusedAt
<1>3. ReportAt(c)
    BY <1>1 DEF SeqInv, ReportInv, ReportAt
<1>4. /\ txOwner \in {c, None} /\ c # None
      /\ req \in [Clients -> Req] /\ req[c] \in Req /\ unused \subseteq RuleIds
      /\ (req[c].pc # "ready" => req[c].rule \in RuleIds)
    BY <1>1, ConstantsAssumption DEF TypeInv, TypeOK, RequestInv
<1> QED
    BY <1>2, <1>3, <1>4 DEF SeqInv, SeqAt

\* A step that leaves maps, tasks and table alone leaves the other rules alone.
LEMMA FitsKept ==
    ASSUME UNCHANGED <<tasks, task>>
    PROVE  \A r, d : Fits(r, d)' <=> Fits(r, d)
BY DEF Fits

----------------------------------------------------------------------------
(* Requests arrive                                                         *)

LEMMA ArriveSeq ==
    ASSUME OneRequest, TypeInv, SeqInv, NEW c \in Clients, Request(c)
    PROVE  SeqInv'
<1>0. /\ SeqAt(c) /\ txOwner \in {c, None} /\ c # None
      /\ req \in [Clients -> Req] /\ req[c] \in Req /\ unused \subseteq RuleIds
    BY OneClientFacts
<1>1. PICK kind, r, d, pc :
        /\ Arrive(c, kind, r, d, pc)
        /\ UNCHANGED <<db, txDb, txOwner, mtx, tasks, rules, task, excused>>
        /\ r \in RuleIds
        /\ \/ /\ kind = "create" /\ pc = "begin" /\ unused' = unused \ {r} /\ r \in unused
           \/ /\ kind \in {"edit", "delete", "patch"} /\ unused' = unused /\ db[r] # NoDef
              /\ pc = IF kind = "patch" THEN "sync" ELSE "begin"
              /\ kind = "delete" => d = NoDef
  <2>1. CASE CreateRule(c)
      BY <2>1, <1>0 DEF CreateRule, managerVars
  <2>2. CASE EditRule(c)
      BY <2>2 DEF EditRule, managerVars, storeVars
  <2>3. CASE DeleteRule(c)
      BY <2>3 DEF DeleteRule, managerVars, storeVars
  <2>4. CASE PatchRule(c)
      BY <2>4 DEF PatchRule, managerVars, storeVars
  <2> QED
      BY <2>1, <2>2, <2>3, <2>4 DEF Request
<1> DEFINE q == [Ready EXCEPT !.pc = pc, !.kind = kind, !.rule = r, !.def = d]
<1>2. req[c].pc = "ready" /\ req'[c] = q
    BY <1>0, <1>1 DEF Arrive
<1>3. /\ q.pc = pc /\ q.kind = kind /\ q.rule = r /\ q.def = d
      /\ q.restoring = FALSE /\ q.op = "none"
    BY DEF Ready
<1> HIDE DEF q
<1>4. txOwner # c
    BY <1>0, <1>2 DEF SeqAt, TxInv
<1>5. \A s, e : Fits(s, e)' <=> Fits(s, e)
    BY <1>1, FitsKept
<1>6. \A s \in RuleIds : ~excused => Fits(s, db[s])
    BY <1>0, <1>2 DEF SeqAt, StoreAt, Handles
<1>7. TxInv(c)'
  <2>1. NoDef.disabled
      BY DEF NoDef
  <2> QED
      BY <1>0, <1>1, <1>2, <1>3, <1>4, <2>1 DEF SeqAt, UnusedAt, TxInv
<1>8. DeployInv(c)'
    BY <1>0, <1>1, <1>2, <1>3, <1>5, <1>6 DEF SeqAt, UnusedAt, DeployInv, Before, After
<1>9. StoreAt(c)'
    BY <1>1, <1>5, <1>6 DEF StoreAt, Fits
<1>10. UnusedAt(c)'
    BY <1>0, <1>1, <1>2, <1>3 DEF SeqAt, UnusedAt, Handles
<1>11. ReportAt(c)'
    BY <1>0, <1>1, <1>2 DEF SeqAt, ReportAt
<1> QED
    BY <1>7, <1>8, <1>9, <1>10, <1>11, OneClient DEF SeqAt

----------------------------------------------------------------------------
(* The store                                                               *)

\* RunInTxCtx opens: the transaction sees the request's definition.
LEMMA BeginTxSeq ==
    ASSUME OneRequest, TypeInv, SeqInv, NEW c \in Clients, BeginTx(c)
    PROVE  SeqInv'
<1>0. /\ SeqAt(c) /\ req \in [Clients -> Req] /\ req[c] \in Req /\ req[c].rule \in RuleIds
    BY OneClientFacts DEF BeginTx
<1>1. /\ req[c].pc = "begin" /\ txOwner' = c /\ txDb' = Written(c)
      /\ UNCHANGED <<db, unused, mtx, tasks, rules, task, excused>>
    BY DEF BeginTx, managerVars
<1> DEFINE pc == IF req[c].kind = "patch" THEN "commit" ELSE "callback"
           q == [req[c] EXCEPT !.pc = pc]
<1>2. req'[c] = q
    BY <1>0 DEF BeginTx
<1>3. /\ q.pc = pc /\ q.kind = req[c].kind /\ q.rule = req[c].rule /\ q.def = req[c].def
      /\ q.restoring = req[c].restoring /\ q.op = req[c].op /\ q.new = req[c].new
    BY <1>0 DEF Req
<1> HIDE DEF q
<1>4. \A s, e : Fits(s, e)' <=> Fits(s, e)
    BY <1>1, FitsKept
<1>5. Written(c) = [db EXCEPT ![req[c].rule] = req[c].def]
    BY <1>0, <1>1 DEF SeqAt, TxInv, Written
<1>6. TxInv(c)'
    BY <1>0, <1>1, <1>2, <1>3, <1>5 DEF SeqAt, TxInv
<1>7. DeployInv(c)'
    BY <1>0, <1>1, <1>2, <1>3, <1>4 DEF SeqAt, DeployInv, Before, After
<1>8. StoreAt(c)' /\ UnusedAt(c)' /\ ReportAt(c)'
    BY <1>0, <1>1, <1>2, <1>3, <1>4 DEF SeqAt, StoreAt, UnusedAt, ReportAt, Handles
<1> QED
    BY <1>6, <1>7, <1>8, OneClient DEF SeqAt

\* The callback chooses the task operation; an edit looks at the tasks map first.
LEMMA CallbackSeq ==
    ASSUME OneRequest, TypeInv, SeqInv, NEW c \in Clients, Callback(c)
    PROVE  SeqInv'
<1>0. /\ SeqAt(c) /\ req \in [Clients -> Req] /\ req[c] \in Req /\ req[c].rule \in RuleIds
    BY OneClientFacts DEF Callback
<1>1. /\ req[c].pc = "callback"
      /\ UNCHANGED <<db, txDb, txOwner, unused, mtx, tasks, rules, task, excused>>
    BY DEF Callback, managerVars, storeVars
<1>2. PICK pc, op :
        /\ req'[c] = [req[c] EXCEPT !.pc = pc, !.op = op]
        /\ \/ req[c].kind = "create" /\ pc = "lock" /\ op = "add"
           \/ req[c].kind = "delete" /\ pc = "lock" /\ op = "delete"
           \/ req[c].kind = "edit" /\ pc = "sync"
  <2>1. CASE req[c].kind \in {"create", "delete"}
      BY <2>1, <1>0 DEF Callback
  <2>2. CASE req[c].kind = "edit"
    <3>1. req'[c] = [req[c] EXCEPT !.pc = "sync"]
        BY <2>2, <1>0 DEF Callback
    <3>2. req'[c] = [req[c] EXCEPT !.pc = "sync", !.op = req[c].op]
        BY <3>1, <1>0 DEF Req
    <3> QED
        BY <2>2, <3>2
  <2> QED
      BY <2>1, <2>2 DEF Callback
<1> DEFINE q == [req[c] EXCEPT !.pc = pc, !.op = op]
<1>3. /\ q.pc = pc /\ q.kind = req[c].kind /\ q.rule = req[c].rule /\ q.def = req[c].def
      /\ q.restoring = req[c].restoring /\ q.op = op /\ q.new = req[c].new
    BY <1>0 DEF Req
<1>4. req'[c] = q
    BY <1>2
<1> HIDE DEF q
<1>5. \A s, e : Fits(s, e)' <=> Fits(s, e)
    BY <1>1, FitsKept
<1>6. TxInv(c)'
    BY <1>0, <1>1, <1>2, <1>3, <1>4 DEF SeqAt, TxInv
<1>7. DeployInv(c)'
    BY <1>0, <1>1, <1>2, <1>3, <1>4, <1>5 DEF SeqAt, TxInv, DeployInv, Before, After
<1>8. StoreAt(c)' /\ UnusedAt(c)' /\ ReportAt(c)'
    BY <1>0, <1>1, <1>2, <1>3, <1>4, <1>5 DEF SeqAt, StoreAt, UnusedAt, ReportAt, Handles
<1> QED
    BY <1>6, <1>7, <1>8, OneClient DEF SeqAt

\* The request's definition is stored; its task already fits.
LEMMA CommitSeq ==
    ASSUME OneRequest, TypeInv, SeqInv, NEW c \in Clients, Commit(c)
    PROVE  SeqInv'
<1>0. /\ SeqAt(c) /\ req \in [Clients -> Req] /\ req[c] \in Req /\ req[c].rule \in RuleIds
      /\ c # None /\ db \in [RuleIds -> Defs \cup {NoDef}] /\ unused \subseteq RuleIds
    BY OneClientFacts DEF Commit, TypeInv, TypeOK, Table
<1> DEFINE r == req[c].rule
<1>1. /\ req[c].pc = "commit" /\ db' = txDb /\ txOwner' = None /\ req'[c] = Ready
      /\ excused' = (excused \/ (req[c].kind = "create" /\ req[c].def.disabled))
      /\ UNCHANGED <<unused, tasks, rules, task>>
    BY <1>0 DEF Commit, managerVars
<1>2. db'[r] = req[c].def /\ \A s \in RuleIds \ {r} : db'[s] = db[s]
    BY <1>0, <1>1 DEF SeqAt, TxInv
<1>3. Ready.pc = "ready"
    BY RecordFacts
<1>4. \A s, e : Fits(s, e)' <=> Fits(s, e)
    BY <1>1, FitsKept
<1>5. TxInv(c)' /\ DeployInv(c)'
    BY <1>0, <1>1, <1>3 DEF TxInv, DeployInv
<1>6. StoreAt(c)'
  <2> SUFFICES ASSUME NEW s \in RuleIds, ~excused' PROVE Fits(s, db'[s])
      BY <1>1, <1>4 DEF StoreAt, Fits
  <2>1. ~excused /\ ~(req[c].kind = "create" /\ req[c].def.disabled)
      BY <1>1
  <2>2. CASE s = r
      BY <1>0, <1>1, <1>2, <2>1, <2>2 DEF SeqAt, DeployInv, After
  <2>3. CASE s # r
      BY <1>0, <1>2, <2>1, <2>3 DEF SeqAt, StoreAt, Handles
  <2> QED
      BY <2>2, <2>3
<1>7. UnusedAt(c)'
    BY <1>0, <1>1, <1>2, <1>3 DEF SeqAt, UnusedAt, Handles
<1>8. ReportAt(c)'
    BY <1>0, <1>1 DEF SeqAt, ReportAt
<1> QED
    BY <1>5, <1>6, <1>7, <1>8, OneClient DEF SeqAt

\* A request that ends with an error: its transaction is rolled back, and its
\* task is as it was, or is known not to be.
LEMMA FailSeq ==
    ASSUME OneRequest, TypeInv, SeqInv, NEW c \in Clients, Fail(c),
           UNCHANGED <<db, unused, tasks, rules, task>>,
           \/ excused' = TRUE /\ req[c].pc = "commit"
           \/ excused' = excused /\ req[c].pc \in {"callback", "lock"}
    PROVE  SeqInv'
<1>0. /\ SeqAt(c) /\ req \in [Clients -> Req] /\ req[c] \in Req /\ req[c].rule \in RuleIds
      /\ txOwner \in {c, None} /\ c # None
    BY OneClientFacts
<1>1. \A s, e : Fits(s, e)' <=> Fits(s, e)
    BY FitsKept
<1>2. txOwner' # c
    BY <1>0 DEF Fail
<1>3. CASE req' = [req EXCEPT ![c].pc = "sync", ![c].restoring = TRUE] /\ req[c].kind = "patch"
           /\ req[c].pc = "commit"
  <2> DEFINE q == [req[c] EXCEPT !.pc = "sync", !.restoring = TRUE]
  <2>1. req'[c] = q
      BY <1>0, <1>3
  <2>2. /\ q.pc = "sync" /\ q.kind = "patch" /\ q.rule = req[c].rule /\ q.def = req[c].def
      BY <1>0, <1>3 DEF Req
  <2> HIDE DEF q
  <2>3. TxInv(c)'
      BY <1>0, <1>2, <1>3, <2>1, <2>2 DEF SeqAt, TxInv
  <2>4. DeployInv(c)'
      BY <1>3, <2>1, <2>2 DEF DeployInv
  <2>5. StoreAt(c)' /\ UnusedAt(c)' /\ ReportAt(c)'
      BY <1>0, <1>3, <2>1, <2>2 DEF SeqAt, StoreAt, UnusedAt, ReportAt, Handles
  <2> QED
      BY <2>3, <2>4, <2>5, OneClient DEF SeqAt
<1>4. CASE req' = [req EXCEPT ![c] = Ready]
  <2>1. req'[c] = Ready /\ Ready.pc = "ready"
      BY <1>0, <1>4, RecordFacts
  <2>2. TxInv(c)' /\ DeployInv(c)'
      BY <1>2, <2>1 DEF TxInv, DeployInv
  <2>3. StoreAt(c)'
    <3> SUFFICES ASSUME NEW s \in RuleIds, ~excused' PROVE Fits(s, db[s])
        BY <1>1 DEF StoreAt, Fits
    <3>1. ~excused /\ Before(req[c])
        BY DEF Before
    <3> QED
        BY <1>0, <3>1 DEF SeqAt, StoreAt, DeployInv, Handles
  <2>4. UnusedAt(c)' /\ ReportAt(c)'
      BY <1>0, <2>1 DEF SeqAt, UnusedAt, ReportAt, Handles
  <2> QED
      BY <2>2, <2>3, <2>4, OneClient DEF SeqAt
<1> QED
    BY <1>3, <1>4 DEF Fail

\* The callback, prepareTaskFunc or the commit fails; the write lock of SQLite
\* is never found taken by another request.
LEMMA FaultSeq ==
    ASSUME OneRequest, TypeInv, SeqInv, NEW c \in Clients,
           TxBusy(c) \/ CallbackFails(c) \/ PrepareFails(c) \/ CommitFails(c)
    PROVE  SeqInv'
<1>1. CASE TxBusy(c)
    BY <1>1, OneClientFacts DEF TxBusy, SeqAt, TxInv
<1>2. CASE CallbackFails(c) \/ PrepareFails(c)
    BY <1>2, FailSeq DEF CallbackFails, PrepareFails, Locks, managerVars
<1>3. CASE CommitFails(c)
    BY <1>3, FailSeq DEF CommitFails, managerVars
<1> QED
    BY <1>1, <1>2, <1>3

----------------------------------------------------------------------------
(* The tasks                                                               *)

\* With Manager.mtx free every task in the map belongs to one rule.
LEMMA TasksApart ==
    ASSUME TypeInv, TaskInv, mtx = None
    PROVE  /\ \A r \in RuleIds : tasks[r] # 0 => tasks[r] \in TaskIds /\ task[tasks[r]].rule = r
           /\ \A r, s \in RuleIds : tasks[r] # 0 /\ tasks[r] = tasks[s] => r = s
<1>1. \A c \in Clients : mtx # c
    BY ConstantsAssumption
<1>2. \A r \in RuleIds : tasks[r] # 0 => tasks[r] \in TaskIds /\ task[tasks[r]].rule = r
    BY <1>1 DEF TaskInv, MapInv, TypeInv, TypeOK, TaskRefs
<1> QED
    BY <1>2

\* What follows the change of the task, field by field.
LEMMA DeployedFacts ==
    ASSUME NEW c \in Clients, req[c] \in Req
    PROVE  /\ req[c].restoring => Deployed(c).pc = "ready"
           /\ ~req[c].restoring =>
                /\ Deployed(c).pc = IF req[c].kind = "patch" THEN "begin" ELSE "commit"
                /\ Deployed(c).kind = req[c].kind /\ Deployed(c).rule = req[c].rule
                /\ Deployed(c).def = req[c].def /\ ~Deployed(c).restoring
<1>1. CASE req[c].restoring
    BY <1>1, RecordFacts DEF Deployed
<1>2. CASE ~req[c].restoring
  <2> DEFINE pc == IF req[c].kind = "patch" THEN "begin" ELSE "commit"
             q == [req[c] EXCEPT !.pc = pc, !.old = 0, !.new = 0]
  <2>1. /\ q.pc = pc /\ q.kind = req[c].kind /\ q.rule = req[c].rule
        /\ q.def = req[c].def /\ q.restoring = req[c].restoring
      BY DEF Req
  <2>2. Deployed(c) = q
      BY <1>2 DEF Deployed
  <2> QED
      BY <1>2, <2>1, <2>2
<1> QED
    BY <1>1, <1>2

\* A request is done with the task of its rule: the task fits the request's
\* definition, and nothing else was touched.
LEMMA DeploySeq ==
    ASSUME OneRequest, TypeInv, SeqInv, NEW c \in Clients,
           req[c].pc \in {"sync", "lock", "stopping"},
           req' = [req EXCEPT ![c] = Deployed(c)],
           UNCHANGED <<db, txDb, txOwner, unused, excused>>,
           \A s \in RuleIds : s # req[c].rule =>
              /\ tasks'[s] = tasks[s] /\ rules'[s] = rules[s]
              /\ Fits(s, db[s]) => Fits(s, db[s])',
           rules'[req[c].rule] = tasks'[req[c].rule],
           \A r, d : /\ ~excused /\ r = req[c].rule /\ d = req[c].def
                     /\ ~(req[c].kind = "create" /\ d.disabled)
                     => Fits(r, d)'
    PROVE  SeqInv'
<1>0. /\ SeqAt(c) /\ req \in [Clients -> Req] /\ req[c] \in Req /\ req[c].rule \in RuleIds
      /\ txOwner \in {c, None} /\ c # None /\ unused \subseteq RuleIds
    BY OneClientFacts
<1> DEFINE q == Deployed(c)
<1>1. req'[c] = q
    BY <1>0
<1>2. /\ req[c].restoring => q.pc = "ready"
      /\ ~req[c].restoring =>
           /\ q.pc = IF req[c].kind = "patch" THEN "begin" ELSE "commit"
           /\ q.kind = req[c].kind /\ q.rule = req[c].rule
           /\ q.def = req[c].def /\ ~q.restoring
    BY <1>0, DeployedFacts
<1> HIDE DEF q
<1>3. req[c].restoring => req[c].kind = "patch" /\ excused
    BY <1>0 DEF SeqAt, DeployInv
<1>4. TxInv(c)'
    BY <1>0, <1>1, <1>2, <1>3 DEF SeqAt, TxInv
<1>5. DeployInv(c)'
    BY <1>0, <1>1, <1>2, <1>3 DEF DeployInv, Before, After, Fits
<1>6. StoreAt(c)'
  <2> SUFFICES ASSUME NEW s \in RuleIds, ~excused, ~Handles(c, s)' PROVE Fits(s, db[s])'
      BY DEF StoreAt
  <2>1. s # req[c].rule
      BY <1>1, <1>2, <1>3 DEF Handles
  <2> QED
      BY <1>0, <2>1 DEF SeqAt, StoreAt, Handles
<1>7. UnusedAt(c)'
  <2> SUFFICES ASSUME NEW s \in unused PROVE db[s] = NoDef /\ tasks'[s] = 0 /\ ~Handles(c, s)'
      BY DEF UnusedAt
  <2>1. s # req[c].rule /\ db[s] = NoDef /\ tasks[s] = 0
      BY <1>0 DEF SeqAt, UnusedAt, Handles
  <2> QED
      BY <1>0, <1>1, <1>2, <2>1 DEF Handles
<1>8. ReportAt(c)'
    BY <1>0 DEF SeqAt, ReportAt
<1> QED
    BY <1>4, <1>5, <1>6, <1>7, <1>8, OneClient DEF SeqAt

\* syncRuleStateWithTask chooses the operation by the tasks map it sees.
LEMMA SyncSeq ==
    ASSUME OneRequest, TypeInv, SeqInv, NEW c \in Clients, SyncRuleStateWithTask(c)
    PROVE  SeqInv'
<1>0. /\ SeqAt(c) /\ req \in [Clients -> Req] /\ req[c] \in Req /\ req[c].rule \in RuleIds
    BY OneClientFacts DEF SyncRuleStateWithTask
<1> DEFINE r == req[c].rule
           op == IF req[c].def.disabled THEN IF tasks[r] # 0 THEN "delete" ELSE "none"
                                        ELSE IF tasks[r] # 0 THEN "edit" ELSE "add"
<1>1. /\ req[c].pc = "sync"
      /\ req' = [req EXCEPT ![c] = IF op = "none" THEN Deployed(c)
                                   ELSE [req[c] EXCEPT !.pc = "lock", !.op = op]]
      /\ UNCHANGED <<db, txDb, txOwner, unused, mtx, tasks, rules, task, excused>>
    BY <1>0 DEF SyncRuleStateWithTask, storeVars, managerVars
<1>2. \A s, e : Fits(s, e)' <=> Fits(s, e)
    BY <1>1, FitsKept
<1>3. CASE op = "none"
  <2>1. Fits(r, req[c].def)
      BY <1>3 DEF Fits
  <2>2. \A s, e : s = r /\ e = req[c].def => Fits(s, e)'
      BY <1>2, <2>1
  <2>3. \A s \in RuleIds : Fits(s, db[s]) => Fits(s, db[s])'
      BY <1>1 DEF Fits
  <2>4. rules'[r] = tasks'[r]
      BY <1>0, <1>1 DEF SeqAt, ReportAt
  <2> QED
      BY <1>1, <1>3, <2>2, <2>3, <2>4, DeploySeq
<1>4. CASE op # "none"
  <2> DEFINE q == [req[c] EXCEPT !.pc = "lock", !.op = op]
  <2>1. req'[c] = q
      BY <1>0, <1>1, <1>4
  <2>2. /\ q.pc = "lock" /\ q.kind = req[c].kind /\ q.rule = r /\ q.def = req[c].def
        /\ q.restoring = req[c].restoring /\ q.op = op /\ q.new = req[c].new
      BY <1>0 DEF Req
  <2> HIDE DEF q
  <2>3. TxInv(c)'
      BY <1>0, <1>1, <2>1, <2>2 DEF SeqAt, TxInv
  <2>4. DeployInv(c)'
      BY <1>0, <1>1, <1>2, <1>4, <2>1, <2>2 DEF SeqAt, TxInv, DeployInv, Before, After
  <2>5. StoreAt(c)' /\ UnusedAt(c)' /\ ReportAt(c)'
      BY <1>0, <1>1, <1>2, <2>1, <2>2 DEF SeqAt, StoreAt, UnusedAt, ReportAt, Handles
  <2> QED
      BY <2>3, <2>4, <2>5, OneClient DEF SeqAt
<1> QED
    BY <1>3, <1>4

\* A task for the request's definition enters the maps.
LEMMA StartSeq ==
    ASSUME OneRequest, TypeInv, SeqInv, NEW c \in Clients, NEW t \in TaskIds,
           req[c].pc \in {"lock", "stopping"},
           ~req[c].def.disabled \/ req[c].kind = "create",
           \A s \in RuleIds : s # req[c].rule => tasks[s] # t,
           tasks' = [tasks EXCEPT ![req[c].rule] = t],
           task' = [task EXCEPT ![t] = Started(req[c].rule, req[c].def)],
           rules'[req[c].rule] = t,
           \A s \in RuleIds : s # req[c].rule => rules'[s] = rules[s],
           req' = [req EXCEPT ![c] = Deployed(c)],
           UNCHANGED <<db, txDb, txOwner, unused, excused>>
    PROVE  SeqInv'
<1>0. /\ req[c].rule \in RuleIds /\ req[c].def \in Defs \cup {NoDef} /\ t # 0
      /\ tasks \in [RuleIds -> TaskRefs] /\ task \in [TaskIds -> Task]
    BY OneClientFacts, ConstantsAssumption DEF TypeInv, TypeOK, Req
<1>1. /\ tasks'[req[c].rule] = t /\ task'[t] = Started(req[c].rule, req[c].def)
      /\ \A s \in RuleIds : s # req[c].rule => tasks'[s] = tasks[s]
      /\ \A u \in TaskIds : u # t => task'[u] = task[u]
    BY <1>0
<1>2. task'[t].def = req[c].def /\ ~task'[t].done
    BY <1>1 DEF Started
<1>3. \A r, d : /\ ~excused /\ r = req[c].rule /\ d = req[c].def
                /\ ~(req[c].kind = "create" /\ d.disabled)
                => Fits(r, d)'
    BY <1>0, <1>1, <1>2 DEF Fits
<1>4. ASSUME NEW s \in RuleIds, s # req[c].rule, Fits(s, db[s])
      PROVE  Fits(s, db[s])'
  <2>1. tasks[s] # 0 => tasks[s] \in TaskIds /\ tasks[s] # t
      BY <1>0, <1>4 DEF TaskRefs
  <2>2. tasks'[s] = tasks[s] /\ (tasks[s] # 0 => task'[tasks[s]] = task[tasks[s]])
      BY <1>1, <1>4, <2>1
  <2> QED
      BY <1>4, <2>2 DEF Fits
<1> QED
    BY <1>1, <1>3, <1>4, DeploySeq

\* addTask finds no task, since the request saw none.
LEMMA AddTaskSeq ==
    ASSUME OneRequest, TypeInv, SeqInv, NEW c \in Clients, AddTask(c)
    PROVE  SeqInv'
<1>0. /\ SeqAt(c) /\ req[c].rule \in RuleIds /\ req[c].pc = "lock" /\ req[c].op = "add"
      /\ rules \in [RuleIds -> TaskRefs]
    BY OneClientFacts DEF AddTask, Locks, TypeInv, TypeOK
<1>1. tasks[req[c].rule] = 0 /\ (~req[c].def.disabled \/ req[c].kind = "create")
    BY <1>0 DEF SeqAt, DeployInv
<1>2. PICK t \in TaskIds :
        /\ NewTask(t)
        /\ rules' = [rules EXCEPT ![req[c].rule] = t]
        /\ tasks' = [tasks EXCEPT ![req[c].rule] = t]
        /\ task' = [task EXCEPT ![t] = Started(req[c].rule, req[c].def)]
        /\ req' = [req EXCEPT ![c] = Deployed(c)]
        /\ UNCHANGED <<db, txDb, txOwner, unused, excused>>
    BY <1>1 DEF AddTask
<1>3. \A s \in RuleIds : tasks[s] # t
    BY <1>2 DEF NewTask, Free
<1>4. rules'[req[c].rule] = t /\ \A s \in RuleIds : s # req[c].rule => rules'[s] = rules[s]
    BY <1>0, <1>2
<1> QED
    BY <1>0, <1>1, <1>2, <1>3, <1>4, StartSeq

\* Waiting for a task to end: no other rule's task is touched.
LEMMA StopSeq ==
    ASSUME OneRequest, TypeInv, TaskInv, SeqInv, NEW c \in Clients, NEW q, mtx = None,
           req[c].pc = "lock", tasks[req[c].rule] # 0,
           task' = [task EXCEPT ![tasks[req[c].rule]].done = TRUE],
           req' = [req EXCEPT ![c] = q],
           q.pc = "stopping", q.kind = req[c].kind, q.rule = req[c].rule, q.def = req[c].def,
           q.restoring = req[c].restoring,
           \/ /\ q.op = "edit" /\ ~q.def.disabled /\ q.new \in TaskIds
              /\ tasks' = [tasks EXCEPT ![req[c].rule] = 0]
              /\ rules' = [rules EXCEPT ![req[c].rule] = q.new]
              /\ \A s \in RuleIds : tasks[s] # q.new
           \/ q.op = "delete" /\ q.def.disabled /\ tasks' = tasks /\ rules' = rules,
           UNCHANGED <<db, txDb, txOwner, unused, excused>>
    PROVE  SeqInv'
<1>0. /\ SeqAt(c) /\ req[c].rule \in RuleIds /\ c # None /\ unused \subseteq RuleIds
      /\ tasks \in [RuleIds -> TaskRefs] /\ rules \in [RuleIds -> TaskRefs]
      /\ task \in [TaskIds -> Task] /\ req'[c] = q
    BY OneClientFacts DEF TypeInv, TypeOK
<1> DEFINE r == req[c].rule
<1>1. /\ \A s \in RuleIds : s # r => tasks'[s] = tasks[s] /\ rules'[s] = rules[s]
      /\ q.op = "edit" => tasks'[r] = 0 /\ rules'[r] = q.new
    BY <1>0
<1>2. ASSUME NEW s \in RuleIds, s # r, Fits(s, db[s])
      PROVE  Fits(s, db[s])'
  <2>1. tasks[s] # 0 => tasks[s] \in TaskIds /\ tasks[s] # tasks[r]
      BY <1>0, <1>2, TasksApart
  <2>2. tasks'[s] = tasks[s] /\ (tasks[s] # 0 => task'[tasks[s]] = task[tasks[s]])
      BY <1>0, <1>1, <1>2, <2>1
  <2> QED
      BY <1>2, <2>2 DEF Fits
<1>3. req[c].kind # "create"
    BY <1>0 DEF SeqAt, DeployInv, Before
<1>4. TxInv(c)'
    BY <1>0, <1>3 DEF SeqAt, TxInv
<1>5. DeployInv(c)'
  <2>1. q.op = "edit" => \A s \in RuleIds : tasks'[s] # q.new
    <3>1. q.op = "edit" => q.new # 0
        BY ConstantsAssumption
    <3> QED
        BY <1>0, <1>1, <3>1
  <2>2. ~Before(q) /\ ~After(q)
      BY DEF Before, After
  <2> QED
      BY <1>0, <1>1, <2>1, <2>2 DEF SeqAt, DeployInv
<1>6. StoreAt(c)'
    BY <1>0, <1>2 DEF SeqAt, StoreAt, Handles
<1>7. UnusedAt(c)'
    BY <1>0, <1>1 DEF SeqAt, UnusedAt, Handles
<1>8. ReportAt(c)'
  <2>1. \A s \in RuleIds : rules[s] = tasks[s]
      BY <1>0 DEF SeqAt, ReportAt
  <2> QED
      BY <1>0, <1>1, <2>1 DEF ReportAt
<1> QED
    BY <1>4, <1>5, <1>6, <1>7, <1>8, OneClient DEF SeqAt

\* editTask finds the task the request saw and stops it.
LEMMA EditTaskSeq ==
    ASSUME OneRequest, TypeInv, TaskInv, SeqInv, NEW c \in Clients, EditTask(c)
    PROVE  SeqInv'
<1>0. /\ SeqAt(c) /\ req[c].rule \in RuleIds /\ req[c].pc = "lock" /\ req[c].op = "edit"
      /\ mtx = None /\ req \in [Clients -> Req] /\ req[c] \in Req
    BY OneClientFacts DEF EditTask, Locks
<1> DEFINE old == tasks[req[c].rule]
<1>1. old # 0 /\ ~req[c].def.disabled
    BY <1>0 DEF SeqAt, DeployInv
<1>2. PICK t \in TaskIds :
        /\ NewTask(t)
        /\ rules' = [rules EXCEPT ![req[c].rule] = t]
        /\ tasks' = [tasks EXCEPT ![req[c].rule] = 0]
        /\ task' = [task EXCEPT ![old].done = TRUE]
        /\ req' = [req EXCEPT ![c].pc = "stopping", ![c].old = old, ![c].new = t]
        /\ UNCHANGED <<db, txDb, txOwner, unused, excused>>
    BY <1>1 DEF EditTask, storeVars
<1>3. \A s \in RuleIds : tasks[s] # t
    BY <1>2 DEF NewTask, Free
<1> DEFINE q == [req[c] EXCEPT !.pc = "stopping", !.old = old, !.new = t]
<1>4. req' = [req EXCEPT ![c] = q]
    BY <1>0, <1>2
<1>5. /\ q.pc = "stopping" /\ q.kind = req[c].kind /\ q.rule = req[c].rule
      /\ q.def = req[c].def /\ q.restoring = req[c].restoring /\ q.op = "edit" /\ q.new = t
    BY <1>0 DEF Req
<1> HIDE DEF q
<1>6. /\ q.op = "edit" /\ ~q.def.disabled /\ q.new \in TaskIds
      /\ tasks' = [tasks EXCEPT ![req[c].rule] = 0]
      /\ rules' = [rules EXCEPT ![req[c].rule] = q.new]
      /\ \A s \in RuleIds : tasks[s] # q.new
    BY <1>1, <1>2, <1>3, <1>5
<1>7. task' = [task EXCEPT ![old].done = TRUE] /\ UNCHANGED <<db, txDb, txOwner, unused, excused>>
    BY <1>2
<1> QED
    BY <1>0, <1>1, <1>4, <1>5, <1>6, <1>7, StopSeq

\* deleteTask stops the task, or finds none.
LEMMA DeleteTaskSeq ==
    ASSUME OneRequest, TypeInv, TaskInv, SeqInv, NEW c \in Clients, DeleteTask(c)
    PROVE  SeqInv'
<1>0. /\ SeqAt(c) /\ req[c].rule \in RuleIds /\ req[c].pc = "lock" /\ req[c].op = "delete"
      /\ mtx = None /\ req \in [Clients -> Req] /\ req[c] \in Req
    BY OneClientFacts DEF DeleteTask, Locks
<1> DEFINE old == tasks[req[c].rule]
<1>1. req[c].def.disabled
    BY <1>0 DEF SeqAt, DeployInv
<1>2. UNCHANGED <<db, txDb, txOwner, unused, tasks, rules, excused>>
    BY DEF DeleteTask, storeVars
<1>3. CASE old = 0
  <2>1. req' = [req EXCEPT ![c] = Deployed(c)] /\ UNCHANGED task
      BY <1>3 DEF DeleteTask
  <2>2. \A s, e : Fits(s, e)' <=> Fits(s, e)
      BY <1>2, <2>1, FitsKept
  <2>3. Fits(req[c].rule, req[c].def)
      BY <1>1, <1>3 DEF Fits
  <2>4. \A s \in RuleIds : Fits(s, db[s]) => Fits(s, db[s])'
      BY <1>2, <2>1 DEF Fits
  <2>5. rules'[req[c].rule] = tasks'[req[c].rule]
      BY <1>0, <1>2 DEF SeqAt, ReportAt
  <2>6. \A s, e : s = req[c].rule /\ e = req[c].def => Fits(s, e)'
      BY <2>2, <2>3
  <2> QED
      BY <1>0, <1>2, <2>1, <2>4, <2>5, <2>6, DeploySeq
<1>4. CASE old # 0
  <2> DEFINE q == [req[c] EXCEPT !.pc = "stopping", !.old = old]
  <2>1. req' = [req EXCEPT ![c] = q] /\ task' = [task EXCEPT ![old].done = TRUE]
      BY <1>0, <1>4 DEF DeleteTask
  <2>2. /\ q.pc = "stopping" /\ q.kind = req[c].kind /\ q.rule = req[c].rule
        /\ q.def = req[c].def /\ q.restoring = req[c].restoring /\ q.op = "delete"
      BY <1>0 DEF Req
  <2> HIDE DEF q
  <2> QED
      BY <1>0, <1>1, <1>2, <1>4, <2>1, <2>2, StopSeq
<1> QED
    BY <1>3, <1>4

\* The old task has ended: the new one enters the maps, or the entries go.
LEMMA TaskStoppedSeq ==
    ASSUME OneRequest, TypeInv, TaskInv, SeqInv, NEW c \in Clients, TaskStopped(c)
    PROVE  SeqInv'
<1>0. /\ SeqAt(c) /\ req[c].rule \in RuleIds /\ req[c].pc = "stopping"
      /\ req' = [req EXCEPT ![c] = Deployed(c)]
      /\ UNCHANGED <<db, txDb, txOwner, unused, excused>>
      /\ tasks \in [RuleIds -> TaskRefs] /\ rules \in [RuleIds -> TaskRefs]
    BY OneClientFacts DEF TaskStopped, storeVars, TypeInv, TypeOK
<1>1. mtx = c
    BY <1>0 DEF TaskInv, LockInv
<1>2. CASE req[c].op = "edit"
  <2>1. /\ task' = [task EXCEPT ![req[c].new] = Started(req[c].rule, req[c].def)]
        /\ tasks' = [tasks EXCEPT ![req[c].rule] = req[c].new] /\ rules' = rules
      BY <1>2 DEF TaskStopped
  <2>2. /\ ~req[c].def.disabled /\ rules[req[c].rule] = req[c].new
        /\ \A s \in RuleIds : tasks[s] # req[c].new
      BY <1>0, <1>2 DEF SeqAt, DeployInv
  <2>3. req[c].new \in TaskIds
      BY <1>1, <1>2 DEF TaskInv, StopInv
  <2> QED
      BY <1>0, <2>1, <2>2, <2>3, StartSeq
<1>3. CASE req[c].op # "edit"
  <2>1. task' = task /\ tasks' = [tasks EXCEPT ![req[c].rule] = 0]
        /\ rules' = [rules EXCEPT ![req[c].rule] = 0]
      BY <1>3 DEF TaskStopped
  <2>2. req[c].def.disabled
      BY <1>0, <1>3 DEF SeqAt, DeployInv
  <2>3. /\ tasks'[req[c].rule] = 0 /\ rules'[req[c].rule] = 0
        /\ \A s \in RuleIds : s # req[c].rule => tasks'[s] = tasks[s] /\ rules'[s] = rules[s]
      BY <1>0, <2>1
  <2>4. \A s, e : s = req[c].rule /\ e = req[c].def => Fits(s, e)'
      BY <2>2, <2>3 DEF Fits
  <2>5. \A s \in RuleIds : s # req[c].rule => (Fits(s, db[s]) => Fits(s, db[s])')
      BY <1>0, <2>1, <2>3 DEF Fits
  <2> QED
      BY <1>0, <2>3, <2>4, <2>5, DeploySeq
<1> QED
    BY <1>2, <1>3

----------------------------------------------------------------------------
(* Everything else                                                         *)

\* Steps that no request takes and that no task in step notices.
LEMMA IdleSeq ==
    ASSUME TypeInv, SeqInv,
           UNCHANGED <<db, txDb, txOwner, unused, tasks, rules, req, excused>>,
           \A r \in RuleIds : \A d : Fits(r, d) => Fits(r, d)'
    PROVE  SeqInv'
<1>1. StoreInv'
    BY DEF SeqInv, StoreInv, Handles, Fits
<1>2. UnusedInv' /\ ReportInv'
    BY DEF SeqInv, UnusedInv, ReportInv, Handles
<1>3. ASSUME NEW c \in Clients PROVE TxInv(c)' /\ DeployInv(c)'
  <2>1. TxInv(c)'
      BY DEF SeqInv, TxInv
  <2>2. req[c].pc # "ready" => req[c].rule \in RuleIds
      BY DEF TypeInv, RequestInv
  <2>3. DeployInv(c)'
      BY <2>2 DEF SeqInv, DeployInv, Before, After
  <2> QED
      BY <2>1, <2>3
<1> QED
    BY <1>1, <1>2, <1>3 DEF SeqInv

\* A goroutine ends only when it was stopped.
LEMMA GoroutineSeq ==
    ASSUME TypeInv, SeqInv, NEW t \in TaskIds, Iterate(t) \/ PutAlerts(t) \/ Terminate(t)
    PROVE  SeqInv'
<1>0. /\ task \in [TaskIds -> Task] /\ tasks \in [RuleIds -> TaskRefs]
      /\ UNCHANGED <<db, txDb, txOwner, unused, tasks, rules, req, excused>>
    BY DEF TypeInv, TypeOK, Iterate, PutAlerts, Terminate, storeVars
<1>1. \A u \in TaskIds : ~task[u].done => task'[u].def = task[u].def /\ ~task'[u].done
  <2>1. CASE Iterate(t)
      BY <1>0, <2>1 DEF Iterate, Task
  <2>2. CASE PutAlerts(t)
      BY <1>0, <2>2 DEF PutAlerts, Task
  <2>3. CASE Terminate(t)
      BY <1>0, <2>3 DEF Terminate
  <2> QED
      BY <2>1, <2>2, <2>3
<1>2. ASSUME NEW r \in RuleIds, NEW d, Fits(r, d) PROVE Fits(r, d)'
  <2>1. tasks[r] # 0 => tasks[r] \in TaskIds
      BY <1>0 DEF TaskRefs
  <2> QED
      BY <1>0, <1>1, <1>2, <2>1 DEF Fits
<1> QED
    BY <1>0, <1>2, IdleSeq

\* Manager.initiate starts what is stored.
LEMMA RestartSeq ==
    ASSUME TypeInv, SeqInv, Restart
    PROVE  SeqInv'
<1>1. PICK at \in [RuleIds -> TaskRefs] :
         /\ \A r \in RuleIds : (at[r] = 0) = db[r].disabled
         /\ \A r, s \in RuleIds : at[r] = at[s] /\ at[r] # 0 => r = s
         /\ tasks' = at /\ rules' = at
         /\ \A t \in TaskIds :
              \/ \E r \in RuleIds : at[r] = t /\ task'[t] = Started(r, db[r])
              \/ (\A r \in RuleIds : at[r] # t) /\ task'[t] = NoTask
    BY RestartFacts
<1>2. /\ req' = [c \in Clients |-> Ready] /\ txOwner' = None
      /\ db' = db /\ unused' = unused
    BY DEF Restart
<1>3. /\ \A c \in Clients : req'[c].pc = "ready" /\ txOwner' # c
      /\ \A c \in Clients : \A r : ~Handles(c, r)'
    BY <1>2, RecordFacts, ConstantsAssumption DEF Handles
<1>4. ASSUME NEW r \in RuleIds PROVE Fits(r, db[r])'
  <2>1. CASE db[r].disabled
      BY <1>1, <1>2, <2>1 DEF Fits
  <2>2. CASE ~db[r].disabled
    <3>1. at[r] # 0 /\ at[r] \in TaskIds
      <4>1. (at[r] = 0) = db[r].disabled
          BY <1>1
      <4>2. at[r] # 0
          BY <2>2, <4>1, Zenon
      <4> QED
          BY <4>2 DEF TaskRefs
    <3>2. PICK s \in RuleIds : at[s] = at[r] /\ task'[at[r]] = Started(s, db[s])
        BY <1>1, <3>1
    <3>3. task'[at[r]].def = db[r] /\ ~task'[at[r]].done
      <4>1. s = r
          BY <1>1, <3>1, <3>2
      <4> QED
          BY <3>2, <4>1 DEF Started
    <3> QED
        BY <1>1, <1>2, <2>2, <3>1, <3>3 DEF Fits
  <2> QED
      BY <2>1, <2>2
<1>5. StoreInv'
    BY <1>4 DEF StoreInv
<1>6. UnusedInv'
  <2>1. \A r \in unused : r \in RuleIds /\ db[r] = NoDef
      BY DEF SeqInv, UnusedInv, TypeInv, TypeOK
  <2>2. \A r \in unused : tasks'[r] = 0
      BY <1>2, <1>4, <2>1 DEF Fits, NoDef
  <2> QED
      BY <1>2, <1>3, <2>1, <2>2 DEF UnusedInv
<1>7. ReportInv'
    BY <1>1 DEF ReportInv
<1>8. \A c \in Clients : TxInv(c)' /\ DeployInv(c)'
    BY <1>3 DEF TxInv, DeployInv
<1> QED
    BY <1>5, <1>6, <1>7, <1>8 DEF SeqInv

\* The invariant of requests that come one at a time.
LEMMA SeqInvariant ==
    ASSUME OneRequest
    PROVE  Spec => []SeqInv
<1>1. Init => SeqInv
  <2> SUFFICES ASSUME Init PROVE SeqInv
      OBVIOUS
  <2>1. /\ \A c \in Clients : req[c].pc = "ready" /\ txOwner # c
        /\ \A r \in RuleIds : db[r] = NoDef /\ tasks[r] = 0 /\ rules[r] = 0
        /\ unused = RuleIds
      BY ConstantsAssumption, RecordFacts DEF Init
  <2>2. StoreInv
      BY <2>1 DEF StoreInv, Fits, NoDef
  <2>3. UnusedInv /\ ReportInv
      BY <2>1 DEF UnusedInv, ReportInv, Handles
  <2>4. \A c \in Clients : TxInv(c) /\ DeployInv(c)
      BY <2>1 DEF TxInv, DeployInv
  <2> QED
      BY <2>2, <2>3, <2>4 DEF SeqInv
<1>2. TypeInv /\ TaskInv /\ SeqInv /\ [Next]_vars => SeqInv'
  <2> SUFFICES ASSUME TypeInv, TaskInv, SeqInv, [Next]_vars PROVE SeqInv'
      OBVIOUS
  <2>1. ASSUME NEW c \in Clients, Request(c) \/ StoreStep(c) PROVE SeqInv'
      BY <2>1, ArriveSeq, BeginTxSeq, CallbackSeq, CommitSeq, FaultSeq DEF StoreStep
  <2>2. ASSUME NEW c \in Clients, TaskStep(c) PROVE SeqInv'
      BY <2>2, SyncSeq, FaultSeq, AddTaskSeq, EditTaskSeq, DeleteTaskSeq, TaskStoppedSeq
         DEF TaskStep
  <2>3. ASSUME NEW t \in TaskIds, Iterate(t) \/ PutAlerts(t) \/ Terminate(t) PROVE SeqInv'
      BY <2>3, GoroutineSeq
  <2>4. CASE SyncLock \/ SyncDone \/ SyncSkipped \/ UNCHANGED vars
    <3>1. UNCHANGED <<db, txDb, txOwner, unused, tasks, rules, task, req, excused>>
        BY <2>4 DEF SyncLock, SyncDone, SyncSkipped, storeVars, managerVars, vars
    <3>2. \A r \in RuleIds : \A d : Fits(r, d) => Fits(r, d)'
        BY <3>1, FitsKept
    <3> QED
        BY <3>1, <3>2, IdleSeq
  <2>5. CASE Restart
      BY <2>5, RestartSeq
  <2> QED
      BY <2>1, <2>2, <2>3, <2>4, <2>5 DEF Next
<1> QED
    BY <1>1, <1>2, TypeInvariant, TaskInvariant, PTL DEF Spec

\* Requests that come one at a time keep the tasks in step with the stored
\* rules, whatever fails halfway, until a transaction fails after its task was
\* changed or a disabled rule is created: for any number of rules and tasks.
THEOREM SequentialTasksFollowStore ==
    ASSUME OneRequest
    PROVE  Spec => []TasksFollowStore
<1>1. SeqInv => TasksFollowStore
    BY DEF SeqInv, StoreInv, TasksFollowStore, Quiet, Handles, InStep, Fits
<1> QED
    BY <1>1, SeqInvariant, PTL

\* With requests one at a time the rule object the API reports on is the one
\* that is evaluated, whatever fails, for any number of rules and tasks.
THEOREM SequentialReports ==
    ASSUME OneRequest
    PROVE  Spec => []ReportedRuleIsEvaluated
<1>1. SeqInv => ReportedRuleIsEvaluated
    BY DEF SeqInv, ReportInv, ReportedRuleIsEvaluated, Quiet
<1> QED
    BY <1>1, SeqInvariant, PTL

=============================================================================
