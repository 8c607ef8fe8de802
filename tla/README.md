# A TLA+ model of SigInsight

SigInsight is an observability server: a Go query-service that stores its own
state in SQLite, keeps telemetry in ClickHouse, evaluates alert rules, embeds an
Alertmanager, and serves a single-page application written in TypeScript and
React. This directory holds TLA+ modules that model the parts with the most state
and the most concurrency, the TLC runs that check them on small instances, and
TLAPS proofs of their main safety properties for every instance. The parts are

- the **alerting core** of the server: rules, tasks, manager, thresholds;
- the **session**: the server's token pairs and the browser tabs that rotate them;
- **live tailing**: a log stream from the server's cursor to the list on the page;
- the **query builder**: one query kept in the URL, as staged and as edited, and the
  explorer pages and alert editor that write it.

## 1. Inventory

Paths are relative to `src/pkg/`, or to `src/frontend/src/` where marked (f).

| component | state | operations | shared with | what makes it correct |
|---|---|---|---|---|
| threshold rule (`query-service/rules/threshold_rule.go`, `base_rule.go`) | `Active`, `handledRestart`, `lastTimestampWithDatapoints`, health | `Eval`, `SendAlerts`, `RecordRuleStateHistory`, `State` | its task; Alertmanager; history table | alerts reach and leave the Alertmanager; history agrees with `Active` |
| rule task (`rules/rule_task.go`) | `done`, `terminated`, the rule | `Run`, `Eval`, `Stop`, `CopyState` | the manager | stops exactly once, keeps the alerts across an edit |
| rule state history (`query-service/app/rulestatehistorystore`) | rows in ClickHouse | append, last row per fingerprint, statistics | rules | last row is the state of the alert |
| rule manager (`rules/manager.go`) | `tasks`, `rules`, `mtx`, `block` | create, edit, patch, delete, start, stop, listings, test notification | store, tasks, Alertmanager | one evaluator per rule; what runs is what is stored |
| rule store (`ruler/rulestore/sqlrulestore`, `sqlstore`) | `rule` table | create, edit and delete in a transaction around a callback | manager, everything on SQLite | atomic with the callback |
| threshold comparison (`types/ruletypes/threshold.go`) | none | compare a series with targets by operator and match type | rule | agrees with the stated operator |
| evaluation windows (`types/ruletypes/evaluation.go`) | none | rolling and cumulative windows | rule | windows tile time |
| Alertmanager service (`alertmanager/service.go`, `signozalertmanager`) | `servers`, `serversMtx` | `SyncServers` (poller), `PutAlerts`, configuration calls | rules, manager | no deadlock with rule edits; servers converge to the stored configuration |
| Alertmanager configuration store | one row per organisation, channels, matchers | `Get`, `Set`, channel operations | manager, service | no lost update |
| Alertmanager server, dispatcher | silences, notification log, aggregation groups | maintenance, dispatch, notify | service | snapshots survive; groups flush |
| tokenizer (`tokenizer/*`, `types/authtypes/token.go`) | rows in SQL and cache (opaque), none (jwt) | create, identify, rotate, delete, gc | session module | one session is one chain of pairs; it ends when the configuration says |
| session client (f: `api/index.ts`, `api/utils.ts`, `AppRoutes/utils.ts`, `providers/App`) | the pair in `localStorage`, `isLoggedIn` per tab, rotations in flight | send, rotate on 401, retry once, log out | tokenizer, other tabs | every request settles; the stored pair can always be rotated |
| live logs (`livelogs/handler.go`) | per stream: cursor, batch | start, poll, send | the page | rows ahead of the cursor are sent, in order |
| live tail page (f: `providers/EventSource.tsx`, `container/LiveLogs`) | connection, flags, reconnect timer, batch, list | open, error, rotate, reconnect, pause, change filter, debounce | live logs, session client | one connection; the list is of one filter, in order, without repetitions |
| query builder provider (f: `providers/QueryBuilder.tsx`) | `stagedQuery`, `currentQuery`, `calledFromHandleRunQuery` | rehydrate from the URL, redirect, run, reset | every page with a query; the browser's history | what is run is what the URL says; edits are kept; effects settle |
| explorer pages, alert editor (f: `pages/LogsExplorer`, `features/alerting/basic-editor`, ...) | alert type, drafts, preview | edit, run, pick a time, change type, preview | provider | type, query and preview agree |
| agent configuration, OpAMP | versions, connected agents | new version, deployment status | collectors | an agent runs the latest version it reported |
| retention (`query-service/app/retentionstore`) | TTL status rows | asynchronous change | ClickHouse | a failed change is reported as failed |
| caches, service registry, SQL migrator, schema readiness, statistics | small | see `PROJECT.json` | | |
| light query engine, query builders, filter grammar, HTTP handlers, the rest of the frontend | none, or client side | text generation, decoding, rendering | | not models of state |

How the alerting core fits together:

- an API request (create, edit, patch, delete) writes the `rule` row in a SQLite
  transaction and, inside that transaction, sets the Alertmanager's notification
  configuration and swaps the rule's task under `Manager.mtx`. Stopping the old
  task waits for its current evaluation while both locks are held. `PatchRule`
  swaps the task first and writes after.
- every task has a goroutine that, once per interval, runs `rule.Eval` (query,
  state machine of every alert, state history) and then `rule.SendAlerts`, which
  calls `PutAlerts` on the Alertmanager service under `serversMtx`.
- a poller takes `serversMtx` and, holding it, writes the configuration row, for
  which it needs SQLite's only write lock.
- a restart loses every task, every alert, and the Alertmanager's alerts; rules
  and history rows survive. `initiate` starts a task per enabled rule, and the
  first recording of each rule reconciles the saved rows.

How the other parts fit together:

- every API call of a tab sends the access token it finds in `localStorage`. A 401
  makes it rotate the stored pair through a query client that shares equal rotations
  within the tab, and send once more; a rotation that fails, for whatever reason, ends
  in a `Logout` that nobody awaits and that clears `localStorage` for every tab. Live
  streams rotate through another query client. The server keeps, per opaque session,
  the current and the previous pair.
- the live tail opens an `EventSource` through a provider that outlives the page. Any
  error makes the provider rotate, and flags in its state make the page arm a timer that
  reconnects. The filter of the query changes under it, and messages pass through a
  batch and a debounce before they are listed.
- the query builder provider has effects on the path and on the URL; the pages have
  effects of their own that redirect. Handlers write state and URL at once; what effects
  see is what the last commit rendered.

What is hard there: the order in which requests meet; locks taken in opposite
orders; notifications that are lost silently; timestamps (resend, expiry,
retention) that must fit each other; a state machine whose memory lives in three
places (rule, Alertmanager, history) that fail independently; state carried or
not carried over an edit; tabs that rotate one pair at a time, answers that are lost
after the server acted; asynchronous continuations that read React state which has
moved on; effects that set each other off. `PROJECT.json` lists these hazards with their lines.

## 2. Modules

| module | contents |
|---|---|
| `AlertRule` | one rule: evaluation, notification, history, edit, disable and enable, restart |
| `MCAlertRule` | its instance for TLC (symmetry of series) |
| `AlertRuleProofs` | theorems about `AlertRule`: types, notifications, missing data |
| `AlertHistoryProofs` | theorems about `AlertRule`: the rule state history |
| `RuleManager` | requests, SQLite's write lock, `Manager.mtx`, task goroutines, `SyncServers`, restart |
| `MCRuleManager` | its instance for TLC (symmetry of requests and rules) |
| `RuleManagerProofs` | theorems about `RuleManager`: types, tasks under concurrent requests |
| `RuleSequenceProofs` | theorems about `RuleManager` with requests one at a time |
| `Thresholds` | one series against the condition of its rule: reductions, operators, boolean policies, severities |
| `MCThresholds` | its instance for TLC (symmetry of severities, a set with a negative value) |
| `ThresholdsProofs` | theorems about `Thresholds` |
| `Tokenizer` | the server's token pairs: both providers, create, identify, rotate, delete, gc |
| `Session` | extends `Tokenizer` with the browser: tabs, requests, streams, rotations, logouts |
| `SessionChain` | the abstract promise of a server that remembers sessions; `Session` implements it |
| `MCSession` | the instance of `Session` for TLC (which actor is in which tab) |
| `SessionProofs` | theorems about `Session`, the refinement included |
| `LiveTail` | the stream, the `EventSource` provider, the page's effects and its list |
| `LiveTailProofs` | theorems about `LiveTail` |
| `QueryBuilder` | URL and history, staged and edited query, commits and effects, alert editor |
| `QueryBuilderProofs` | theorems about `QueryBuilder` |

`AlertRule` and `RuleManager` meet at the task: `RuleManager` treats an iteration as
begin and end, `AlertRule` says what an iteration does and what `CopyState` (edit), a fresh task
(disable and enable, changed name or labels) and a restart do to its memory.
`Thresholds` computes the *grade* that `AlertRule` takes as the input of an
evaluation (`Grade`), from points, targets, units and recovery targets.
`Session` and `LiveTail` meet at a stream that breaks: `Session` has the rotation a
stream starts and what it does to the stored pair, `LiveTail` what its success or
failure does to the connection.
Operators marked *seeded fault* are variants of the operator after them, used to
see that the properties notice the fault; no action uses them.

### AlertRule

A *key* is the label set of an alert. Series are model values; a missing-data
alert is keyed by the time data was last seen, as its `lastSeen` label is. The
value of a series is abstracted to a *grade*: it meets the target, it meets only
the recovery target, or neither. `Matches` and `IsRecovering` translate what
`BasicRuleThresholds.Eval` makes of it. `Upsert`, `Fire`, `Recover`, `Forgets` and
`Resolve` are the branches of the loop over `Active` in `ThresholdRule.Eval`;
`Items` is `itemsToAdd`; `RecordRuleStateHistory` has its three outcomes (read
fails, write fails, written) and its reconciliation. One iteration is two steps,
`Evaluate` and `SendAlerts`, so a restart can fall between them; `EvaluateFails`
and `SendAlertsFails` are their early returns. `SendAlerts` loses its alerts in
one of its branches, because `prepareNotifyFunc` drops the error of `PutAlerts`.
`am` is the `EndsAt` the embedded Alertmanager holds; it is indexed by the rule's
name and labels, since these are part of the alert's identity there but not of its
fingerprint in the history. The panic recovery around `RuleTask.Eval` ends an
iteration as an error does and is not a step of its own.

`interval` is the frequency of the task. `EvalTimestamps` are the slots at which it
evaluates (`IsSlot`, `EvalTimestamp` in the code): multiples of the frequency, offset by
the hash of the task, of which any number can be missed up to `MaxGap`. `EditTask` picks
the name and labels and the frequency of the new task; when name and labels are the old
ones, `CopyState` hands over `Active`, with the times of the last send and the expiry that
were stamped for the old frequency, and `handledRestart`, and leaves
`lastTimestampWithDatapoints` behind. `DisableAndEnable` and `Restart` start with nothing.

Auxiliary variables, which no guard reads: `lastSend`, `lostAt`, `historyLost`, and
`changedAt`, when alerts were last handed to a task of another frequency.

Simplifications: the wall clock is not set back; reconciled rows carry the
evaluation timestamp (the code uses `time.Now()`, a little later); one threshold
per series stands for each (series, threshold) pair; the filter for new series and
the minimum number of points only change which grade a series has; an edit changes
the name and labels, the frequency and, by the grades an evaluation may give, the
condition, but not `alertOnAbsent` and its duration; health and last error, which are
reported and steer nothing, are not kept.
`holdDuration` is a field of `BaseRule` that nothing sets: the runs use 0, the
theorems hold for any value.

### RuleManager

A request is a record with a program counter; each step is one lock acquisition
or one database operation. `Fail` is every error return, with the rollback and,
for a patch, the attempt to restore. `SyncRuleStateWithTask` reads `tasks` before
the mutex is taken, as the code does. `EditTask` and `DeleteTask` end at
`oldTask.Stop()`, which holds the mutex, `TaskStopped` continues when the goroutine
has closed `terminated`; the two remove the map entry at different points, as in
the code. Task objects are numbered and reused when nothing refers to them.
`TxBusy` is SQLite's `busy_timeout`. `SyncLock`, `SyncDone` and `SyncSkipped` are
the poller. `Restart` is a crash at any point followed by `initiate`; a fatal
concurrent map access is one such crash.

Requests meet only a started manager: `Server.Start` opens the listener after
`ruleManager.Start` has returned, and `Server.Stop` shuts it down before
`ruleManager.Stop`. `Manager.Pause` is not called by the program. One organisation
is modelled, and a rule that `initiate` cannot prepare is not.

### Thresholds

`Conditions` are the conditions that pass validation, numeric (`MatchType` and
`CompareOp` are the two `legacy` conversions) or boolean. `AtleastOnce`,
`AllTheTimes`, `OnAverage`, `InTotal` and `LastPoint` are the branches of
`shouldAlertWithTarget`; `Meets` is the test four of them make, `Breaks` the negated
test of the other. `Usable` drops the points the code drops. `Arrive` and `Expire`
move the evaluation window, `Evaluate` turns the severities in the returned vector
into open alerts, resolves the others, and forgets resolved ones at some later
evaluation; the recovery target is applied to every alert in the map, as the code
does.

Simplifications: values are whole numbers (an average is compared by
multiplication; float rounding is left out); a unit conversion is a factor; the
operator *outside bounds* cannot be reached from the API, which has no such
operator; the order of the thresholds (`sortThresholds`) only orders the vector,
whose entries are keyed by label set; samples for unmatched thresholds are made only
by test notifications.

### Tokenizer and Session

An access token and its refresh token travel together; a *pair* is a position in
`issued`, the sequence of all pairs ever made, with the pair each replaced. `rows` is the
`auth_token` table. `Rotates` and `GivesCurrent` are the two outcomes of `Token.Rotate` on
the row that `GetOrUpdateByAccessTokenOrPrevAccessToken` finds, `Evicts` and `CreateToken`
the two halves of `CreateToken`, which no transaction holds together. In `Session` an
*actor* is an API request or a live stream of a tab; `Send`, `Authenticate`, `Refuse`,
`StartRotation`, `RotationSucceeds`, `RotationFails` and `RetryRefused` are the
interceptors and, for a stream, `handleErrorConnection`. `rotations` is what the query
clients have in flight: a rotation under the same key in the same client is shared.
`RotationLost` loses the call before the server acts or the answer after it. `Logout` is
a call (`LogoutCalls`), the server's `DeleteSession`, and `FinishLogout`, which clears
`localStorage` whoever wrote it. `Reload` forgets what a tab had in flight.

Simplifications: one user; the tokenizer's cache, which holds what the table holds as
long as reads and writes of it do not overlap, and the idle lifetime are left out; no
unit of time passes while a rotation is in flight (the server gives it ten seconds, the
unit is the minute of grace); a second click on logout while one is under way is left out.
`ConfigValidate` assumes at least one token per user and durations that are not negative,
which `Config.Validate` does not check.

### LiveTail

`flags` is the provider's state as the handlers set it, `rendered` what the last commit
saw; `Commit` renders and runs the effects whose inputs changed, in their order
(`Effects`). `conns` are all the `EventSource`s ever made: the last is
`eventSourceRef.current`, and `instance` is the one the context handed to the listener.
`HandleErrorConnection` has three outcomes for the connection: an error the server sent
as an event, a loss the polyfill retries by itself, and one it gives up at; each runs the
handler up to its await, and `RotationSucceeds` and `RotationFails` are the rest, which may
come when everything has changed. `Poll`, `Read` and `Deliver` are the server's batches
and cursor, `UpdateLogs` the debounce.

Simplifications: a row is its place in the (timestamp, id) order; a render is over before
the network answers; the debounce's half second passes between polls.

### QueryBuilder

`app` is the browser's history together with the provider's state, `rendered` the same at
the last commit. `Commit` composes the effects in the order React runs them, the page's
before the provider's: `StepEffect`, `EditorEffect`, `ShareEffect`, `PathnameEffect`,
`UrlEffect`, each on the state the ones before it left but seeing what was rendered.
`RedirectWithQueryBuilderData` gives a new id and either pushes or replaces the entry of
the history, as `safeNavigate` decides; `Redirects` adds that `safeNavigate` ignores a target
that is the present URL but for the query's id, in which case a handler leaves its other
effects behind (the mark of the run button, the new type of the alert) and the URL as it was.
`OnSelectHandler` takes the edited query along with the new time, `OnValidCustomDateHandler`
puts the staged one in its place. A query is its signal, whether it is ordered by a
column its result has not got, and whether it has a step interval; an incomplete query in
the URL is one from an old link. `alertType` is a parameter that no link of the application
sets but `CreateRules` reads before it looks at the query (`InitialType`); redirects keep it.
`ran` is read by no guard, nor is `misled`: Back was used since the editor was opened, or
the editor was opened on an address whose `alertType` is not that of its query.

Simplifications: user events find no commit pending (React commits within the frame), but
a reload may come at any time; the comparison that drops a preview ignores the id (the
code also drops a preview when only the id changed); Forward, the edit of a stored rule,
and formulas are not modelled; `supersetQuery` is read by nothing.

## 3. Runs

Passing:

| run | properties | bounds |
|---|---|---|
| `rule_delivery` | `TypeOK`, `FiringIsHeld`, `ResolvedIsReleased`, `HistoryTracksAlerts`, `ForgottenSoonExpires` | 1 series, all grades, frequencies 1 and 2, `ResendDelay` 1, `ResolvedRetention` 2, gaps up to 2, `MaxTime` 6 |
| `rule_history` | `HistoryTracksAlerts`, `NoDataStandsAlone`, `NoFalseResolution` | 2 series, 2 identities, no recovery target, frequency 1, `AlertOnAbsent` with `NoDataAfter` 2, `ResolvedRetention` 1, gaps up to 2, `MaxTime` 5 |
| `manager_concurrent` | `TypeOK`, `OneEvaluatorPerRule`, `NoLeakedTask`, `RequestsEnd` | 2 requests of any kind at once, 1 rule, every fault, under `FairSpec` (no symmetry: it is unsound for liveness) |
| `manager_sequential` | `TasksFollowStore`, `ReportedRuleIsEvaluated` | 1 request at a time, 2 revisions, every fault |
| `thresholds` | `AlertsAsStated`, `ReportedValueMeetsTarget`, `SeveritiesNest` | 1 or 2 severities, targets 1 and 2, unit factors 1 and 2, values -1, 2, 3 and an unusable one, up to 3 points, operators eq, neq, gt, lt |
| `session` | `TypeOK`, `SessionNeverForks`, `StoredPairIsFindable`, `RotationKeepsLifetime`, `RequestsSettle`, `ImplementsChain` | both providers, 2 tabs, 2 requests of one and a stream of the other, 3 pairs, times up to 4, under `FairSpec` |
| `live_tail` | `TypeOK`, `OneConnection`, `ShownLogsMatchFilter`, `ShownInOrder`, `ListenerFollowsConnection`, `StoredRowsAreShown` | 1 filter beside the empty and the invalid one, 2 rows, list of 2, 3 connections, under `FairSpec` |
| `query_builder` | `TypeOK`, `StagedFollowsUrl`, `RunStagesWhatIsShown`, `TypeMatchesQuery`, `IntervalIsExplicit`, `PreviewIsCurrent`, `EditsSurvive`, `Settles` | 2 signals, 4 query ids, history of 3, under `FairSpec` |

- **FiringIsHeld**: from the moment `SendAlerts` ran, if no notification was lost
  within a resend delay, the Alertmanager keeps every alert that was firing or
  recovering open for three more periods. It relates `NeedsSending`'s strict
  comparison, the resend delay, the interval and `ValidUntil`; a lost notification
  is made good at the next resend. An edit of the frequency hands over alerts stamped for the
  old period: until `SendAlerts` has run more than a resend delay after it, three
  resend delays are promised, which with a much longer new frequency is less than the time
  to the next send (see below).
- **ResolvedIsReleased**: under the same condition no alert that `Eval` resolved is
  left open.
- **ForgottenSoonExpires**: when a resolved alert leaves `Active`, the Alertmanager has it
  open for less than what four of the longest periods exceed `ResolvedRetention` by,
  even when every notification of the resolution was lost, and whatever the
  frequency was edited to and from. For frequencies up to 3 minutes 45 seconds
  the program's 15 minutes leave nothing open; for longer ones a lost resolution can
  be forgotten while the alert is open, and the property bounds how long it stays so.
  The run's retention of 2 is less than four times its longest period of 2, so alerts
  forgotten while open occur in it.
- **NoDataStandsAlone**: an open missing-data alert excludes all others.
- **HistoryTracksAlerts**: after the restart is handled, and unless a history
  operation failed, the last saved row of every alert is its state, across
  restarts, edits, changes of identity and re-enabling. A row saved as *recovering* is
  excused: the reconciliation passes over it (see below).
- **NoFalseResolution**: no row that says inactive is written for a firing alert. The
  reconciliation takes every alert without a change in this evaluation for resolved,
  so it must not run once `Active` holds alerts; this is why `CopyState` has to carry
  `handledRestart` along with `Active`.
- **OneEvaluatorPerRule**, **NoLeakedTask**: no rule is evaluated twice, no goroutine
  is lost, however requests interleave.
- **TasksFollowStore**: with requests one at a time, what runs is what is stored.
  States after a disabled rule was created, or after a transaction failed once its
  task had been changed, are excused until the next restart: see below.
- **RequestsEnd**: rule edit waits for evaluation, evaluation for `serversMtx`,
  `SyncServers` for the write lock, which the edit holds. `busy_timeout` breaks the
  cycle; without it the property fails.
- **ReportedRuleIsEvaluated**: with requests one at a time, the rule object the API
  reports on is the one the task evaluates.
- **AlertsAsStated**: the decision of a threshold equals a definition by quantifiers
  and sums over the usable points, for target and recovery target.
- **ReportedValueMeetsTarget**: the value a notification shows satisfies the
  condition; the code picks it in a loop of its own (first match, minimum, maximum,
  target).
- **SeveritiesNest**: across evaluations of a moving window, with mixed units and
  recovery targets, an open severity has every milder one open beside it.
- **SessionNeverForks**: of all the actors that rotate one opaque pair at the same time,
  at most one gets a successor issued.
- **ImplementsChain**: what the rows go through is what `SessionChain` allows: a token
  rotated away, logged out or evicted never becomes current again, whatever arrives late.
- **StoredPairIsFindable**: the browser does not fall two rotations behind: the stored pair
  is the current or the previous pair of its session's row, the only two a rotation can
  find the row by, whatever answers were lost and whichever tabs were reloaded. Rows
  whose previous pair `RotateToken` has answered with the current one (`again`) are
  excused: two callers then hold answers with one pair, the first stores it and rotates it,
  its successor is rotated in turn, and the other answer, arriving only now, puts back a pair
  the row has forgotten. This takes four pairs, one more than the run has; the proof
  found it.
- **RotationKeepsLifetime**: rotating never prolongs an opaque session.
- **RequestsSettle**: every API request is served, rejected or gives way to a logout.
- **OneConnection**: at most one stream is open, the one the ref names, and none once the
  page is gone, whatever timer, click, effect or late rotation starts one.
- **ShownLogsMatchFilter**: no list mixes rows of two filters.
- **ShownInOrder**: newest first, no row twice, over lost connections and late rows.
- **ListenerFollowsConnection**: a connection shown as open is the one listened to, though
  the context that carries it is memoised.
- **StoredRowsAreShown**: a row ahead of the cursor is itself listed, or crowded out by a
  full list of newer ones, if the stream stays open; a later row does not stand in for it.
- **StagedFollowsUrl**: a settled page runs the query of its URL.
- **RunStagesWhatIsShown**: the run button runs the query shown, its order included.
- **TypeMatchesQuery**: the alert editor's type is that of its query and each draft is of
  the type it is kept for, through redirects, reloads and changes of the type, on an address
  with or without `alertType`. The claim ends when Back is used, which brings the old query and
  leaves the type, and is not made of an editor opened on an address that contradicts itself.
- **IntervalIsExplicit**: an alert query has an interval though the URL overwrites the
  normalised one.
- **PreviewIsCurrent**: a preview is of the query that is edited.
- **EditsSurvive**: no effect replaces an edited query by the URL's.
- **Settles**: the effects do not redirect for ever.

Why the bounds suffice. `MaxTime` 6 leaves room to fire, send, lose the
resolution, pass the retention of 2 and forget. The resend delay
of one tick means, by the strict comparison, a resend every second tick, so both
"sent now" and "not due" occur. Of the two frequencies one is the resend delay and one is
longer, so `Delta` takes both its values, and an edit goes either way between a send and
the next. `MaxGap` 2 is a slot of the longer frequency, or one missed slot of
the shorter. `rule_history` has one frequency, since the history knows no periods; its
`MaxTime` 5 leaves room for a silence, its end and a restart on either side. Two
requests already give every pair of critical sections; four task objects let both
replace a task while both old ones are still referred to. A second rule would only
add waiting for the mutex, and the theorems cover any number. Values and targets of
`thresholds` put points below, on and above targets, converted ones included; three
points separate first, last, least and greatest, and a window with an unusable point
still holds two others. In `session`, three pairs are a login, a rotation and a second
login or rotation, so that a pair can be two behind; two requests of one tab share a
rotation, which the stream of the other does not; time 4 passes both the rotation
interval (2) and the lifetime (3). In `live_tail`, three connections are one lost, one
replaced and one current; two rows separate order from repetition and fill the list; with
a batch of one the cursor moves between them. In `query_builder`, four ids are the first,
a redirect of an incomplete query, a run and a change of type; the run also passes with
`TimeSeries` FALSE. Deadlock is checked in every run but `live_tail` and `query_builder`:
a user may leave a page alone, and with the bounds used up nothing is left to do.

Fairness (`Fairness` in `RuleManager`). Weak fairness of a request's database steps
and of the poller: goroutines that can run do, and a wait for the write lock ends in
the lock or in `busy_timeout`. Strong fairness of steps that take `Manager.mtx` and
of `PutAlerts`, which takes `serversMtx` for reading: `sync.Mutex` and
`sync.RWMutex` hand the lock over to waiters that have starved. Weak fairness of
`Terminate`: `Run` looks at `done` before anything else. No fairness for requests
arriving, for iterations, for faults or for restarts.

`Session`: weak fairness of the server's answers and of the continuations the browser runs
on them; nobody has to log in, send or reload, and time need not pass. `LiveTail`: weak
fairness of commits, of the two timers, of the answer of a rotation, and of the server's
polling and sending; no connection has to open. `QueryBuilder`: weak fairness of commits.

Violations, each a disagreement between the code and what the repository says:

| run | what it shows |
|---|---|
| `found_orphan_task` | an edit racing a delete leaves a task for a rule that is not stored |
| `found_or_equal` | *gte* and *lte* are validated and offered by the editor, but no reduction tests them: never an alert, or with *all the time* always one |
| `found_rotation_grace` | the previous pair is refused during the grace promised for it and accepted after: the comparison in `Token.Rotate` is the wrong way round, so of two tabs that rotate together one logs the user out |
| `found_dead_tail` | a second rotation that succeeds before React commits the reconnect leaves the flags as they were rendered: no effect runs, no timer is armed, and a tail whose connection has gone stays dead |

Also met while modelling, without a run of their own.

Alerting:

- a row saved as *recovering* is not reconciled after a restart, only *firing* and
  *nodata* rows are (`base_rule.go:439`; the comment at 422 speaks of all);
- the recovery target is applied to resolved alerts still in `Active`, and reopens them
  (`threshold.go:243`);
- `CreateRule` starts a task for a disabled rule (`manager.go:544`; the comment at 827
  says that state and task match);
- after a failed transaction `PatchRule` "restores" the patched rule (`manager.go:911`);
- when the first history read of a rule fails, the reconciliation runs later against a
  filled `Active` map and records a firing alert as resolved (`NoFalseResolution` excuses
  rule objects with a failed history operation);
- an edit from a short to a long frequency carries over alerts that the Alertmanager holds for
  four of the old periods or resend delays, and the next send may be a new period
  away: after an edit from one minute to one hour a firing alert expires there in between
  (`rule_task.go:293`, `base_rule.go:397`);
- for frequencies above 3 minutes 45 seconds an alert whose resolution was never delivered is
  forgotten after the 15 minutes of `ResolvedRetention` while the Alertmanager holds it open;
- the reconciliation computes the overall state from the revised rows only, so a rule
  that still fires can be saved as inactive;
- `CopyState` leaves `lastTimestampWithDatapoints` behind, so an edit makes a missing-data
  alert eligible at once;
- of two patches that enable a rule at the same time, the refused one has already
  replaced the entry of `rules`;
- `MinPoints` counts points before the unusable ones are dropped (`alerting.go:537`);
- outside the models: reconciled rows are stamped with the wall clock, others with the
  slot (`base_rule.go:442`); `initiate` stops at the first organisation without rules
  (`manager.go:247`); a clock set back repeats evaluation times (`rule_task.go:146`); the
  Alertmanager's two maintenance loops write one state row (`server.go:147`), and its
  dispatcher's `Stop` has no effect before `Run` (`dispatcher.go:258`).

Session:

- a jwt session never ends: each rotation signs a refresh token with a full lifetime
  (`jwttokenizer/provider.go:149`; `config.go:57` calls it the time before the user is
  asked to log in). `SessionsEnd` states the promise; only its opaque half holds;
- a rotation that fails late, and any network failure of one, clears whatever pair is
  stored, a fresh login of another tab included (`api/utils.ts:15`);
- `DELETE /sessions` finds no row when a rotation won, and the rotation's answer stores
  its pair after the logout;
- the limit of sessions per user is checked outside a transaction.

Live tail:

- a pause during a pending rotation is undone when the rotation succeeds;
- with an empty filter any change of the query clears the list and reconnects, since the
  ref's null is taken for a change;
- rows stored behind the cursor, or while a connection was down, are never sent;
- after the polyfill has reconnected by itself, a rotation that fails closes the
  connection and leaves `isConnectionOpen` set.

Query builder:

- `calledFromHandleRunQuery` stays set for later changes of the URL on the same page;
- the guard against a change of path in progress (`QueryBuilder.tsx:854`) compares a value
  with itself in the same render and is always met;
- an address that names an `alertType` keeps it when the type is changed: after
  `?alertType=METRICS_BASED_ALERT`, a change to logs and a reload, the editor is of type
  metrics with a logs query (`CreateAlertRule/index.tsx:11`);
- `safeNavigate` ignores the run button when the edited query equals the URL's, although the
  staged one was sanitised and differs from it;
- a time typed in discards the edits of the query, a time picked from the list runs them
  (`DateTimeSelectionV2/index.tsx:447` and `329`);
- `propsRequired?.push('dataSource')` (`QueryBuilder.tsx:614`) grows a module constant at
  each edit.

## 4. Proofs

All constants are arbitrary within the named assumption of each module (`ConstantsAssumption`,
`ConfigValidate`, `SessionAssumption`, `LiveTailAssumption`, `QueryBuilderAssumption`). No theorem assumes
anything of the environment beyond the specification, except the two of `RuleSequenceProofs`
(one request at a time) and `AlertsStated` (no operator with "or equal").
Every inductive invariant that says more than types was checked with TLC before it was proved.

`AlertRuleProofs`:

- `TypeCorrect`: `Spec => []TypeOK`.
- `FiringHeld`, `ResolvedReleased`: both from `DeliveryInv`, which links each alert's
  `sentAt` with what the Alertmanager holds. The property alone is not inductive: it
  says nothing about an alert between two sends. The invariant adds that an alert
  firing or resolved by the last `SendAlerts` was stamped then or at most a resend
  delay before (`sentAt + ResendDelay >= lastSend`), and that the Alertmanager holds
  the `EndsAt` of every alert stamped after `lostAt`, which is `sentAt + 4 * Delta`
  while it fires, for the `Delta` of the frequency at the send: at least four resend delays,
  and the present `Delta` if it was stamped after `changedAt`. When
  `lostAt + ResendDelay < lastSend`, `sentAt > lostAt`, so the Alertmanager holds at least
  `lastSend + 3 * ResendDelay`, and when `changedAt + ResendDelay < lastSend` as well,
  `lastSend + 3 * Delta`.
- `ForgottenExpires`: from `ReleaseInv`, with `LongestDelta`, the longest of the frequencies the
  rule can be edited to, or the resend delay: what
  the Alertmanager holds is at most four of these past the last `SendAlerts`, so when
  `Eval` resolves an alert it is at most that much past the resolution, and no
  resend moves it further; more than a retention has passed when the alert is forgotten,
  which leaves less than the difference. Nothing is assumed of the retention.
- `NoDataAlone`: `Spec => []NoDataStandsAlone`; `NextAlert` closes every key outside
  the result, and the result with a missing-data key has no other.

`AlertHistoryProofs`: `HistoryTracked` (`Spec => []HistoryTracksAlerts`) and
`NoFalseResolutions` (`Spec => NoFalseResolution`), both from `HistoryInv`. The properties say
nothing of a rule object whose restart is not handled yet, and that is where the
reconciliation runs; `FreshInv` adds that such an object, unless it lost a history operation,
has an empty `Active` map, and `RowsInv` that no row is *pending*. `ItemFacts` is the core of
the argument: an item carries the new state of its alert, and an alert without an item has
the state it had. So appending the items keeps rows and alerts together, and the
reconciliation closes exactly the rows of alerts that are gone.

`RuleManagerProofs`:

- `TypeCorrect`: `TypeOK` together with `RequestInv` (a request past "ready" names a
  rule); without it a step could not be shown to index the maps with a rule.
- `NoTaskLeaks`, `SingleEvaluator`: from `TaskInv`, the conjunction of `LockInv` (only
  the request that is stopping holds the mutex), `StopInv` (its old task
  belongs to its rule; an edit has cleared the map entry and its new task does not
  run yet; a delete has left the entry), `MapInv` (an entry of `tasks` is a running
  task of that rule, or the one a delete is stopping) and `RunInv` (a running task is
  in the map and not told to stop, or is being stopped). `OneEvaluatorPerRule` follows:
  two running tasks of a rule would be the map's entry and the one being stopped,
  and `editTask` clears the entry before it waits, under the mutex.

`RuleSequenceProofs`: `SequentialTasksFollowStore` and `SequentialReports`, under `OneRequest`
(the instance has one client); `found_orphan_task` shows that two suffice to break the first.
`SeqInv` says where a request is between the store and the task: rules nobody handles are in
step with the store (`StoreInv`); a request that has not reached the task finds it as the
committed row asks, one that has passed it leaves it as its own definition asks (`DeployInv`);
the uncommitted table is the committed one with the request's definition (`TxInv`); an unused
id belongs to nothing (`UnusedInv`); `rules` and `tasks` differ only while an edit waits for
the old task (`ReportInv`). A commit then turns "as its definition asks" into "as the row
asks", and a failure before the task was touched leaves what was there; a failure after it
sets `excused`.

`SessionProofs`:

- `TypeCorrect`, `NoFork`, `LifetimeKept`: from `SessionInv`, which is `TypeOK` with
  `TokenInv`. Neither property is inductive: a rotation of a pair that has a successor
  already must be excluded. `HeadInv` says that no pair was made from one that is still
  current, `OwnInv` that no two rows share a current pair, `RowInv` that a row's pairs were
  issued and that its `createdAt` is the birth of its current pair, `OldInv` that a pair is
  made from an older one, `StatelessInv` that jwt keeps no rows. `TokenInv` is shown for
  the tokenizer's own steps (`CreateTokenInv` and its companions); every action of the
  browser is such a step or leaves the tokenizer alone.
- `ChainImplemented`: `Spec => Chain!Spec`. Creating maps to `Start`, a rotation to
  `Advance` (the new pair is fresh, the old one is spent), deleting and gc to `End`, all
  else to stuttering.
- `StoredPairFindable`: from `FindInv`. The property says nothing of answers on their way, so
  `HoldInv`, for each row that is not excused, adds that what is on its way for its session is the
  current pair, and only once; that once the browser stored or rotates the current pair it is
  not on its way again; and that while the current pair is being rotated the previous one is
  not stored. So when a rotation makes the current pair previous, the stored pair is the one
  that becomes previous, or belongs to another session. `ChainInv` keeps sessions apart.

`LiveTailProofs`: all but the last from `TailInv`, the conjunction of

- `ConnInv`: `OneConnection`; a timer or an open connection only while mounted; a
  connection that is connecting is shown as loading and not open; a connection that has
  opened is the one the listener is on or was not yet rendered as open; rows are due
  only on an open connection;
- `ListInv`: the batch is ascending, the list descending, and the batch is above the list;
- `CursorInv`: all that is listed or waiting is at most the cursor of the open connection,
  the cursor is at most the present, and rows due are ahead of it.

`SingleConnection` and `ListenerFollows` follow from the first. `InOrder` needs the third:
that a new connection shows nothing twice depends on it starting at the server's present,
which is past everything an earlier connection sent.

`ShownMatchesFilter` is from `FilterInv`. The list is compared with the filter the page last
saw, not with the present one: `SeenInv` says that the container's `prev` is the filter of the last
commit, and the present one unless a commit is pending, and `MatchInv` that while `prev` is
valid the batch, the list and the connection that is not closed all have filter `prev`. An
invalid filter leaves the connection of the old one open, so nothing can be said until a
valid one replaces it, which clears the list and reconnects in one commit.

`QueryBuilderProofs`: all from `QueryInv`, the conjunction of

- `RenderInv`, `IdInv`: what was rendered has a history and no pending edit; ids in use have
  been given out;
- `CompleteInv`: an id is of a complete query or of incomplete ones only. Without it a staged
  query could be taken for an incomplete one of the URL, and the redirect that completes it
  would be skipped;
- `StagedInv`: unless the history or the staged query moved since the last commit, the URL's query
  is complete and is staged. `StagedIsUrl` follows, and `EditsAreKept`: the effect that loads the
  URL's query, if it runs at all in such a commit, finds it staged;
- `CalledInv`, `RanInv`: the mark is set only on an explorer, and the query sent keeps its content
  wherever its id is (`RunIsStaged`);
- `StepInv`, `PreviewInv`, `SignalInv`: while the alert editor stays, a query without an interval or
  one the preview is not of is *touched*, so an effect is still to run; the query, the URL's
  and each draft are of their type until the editor is `misled` (`IntervalExplicit`,
  `PreviewOfCurrent`, `TypeIsOfQuery`).

`Commit` is proved effect by effect: a lemma for each says what it leaves of the state and of
these facts, and their composition is the step.

`ThresholdsProofs`: the invariants are all decided by the present window except `SeveritiesNest`,
which `Evaluate` establishes from any state, so beside them only types (`TypeInv`) need induction over
steps. The work is induction over data. The library's induction theorems take an operator and
cannot be used here; `SetInduction` (a set of naturals with 0 that is closed under + 1 is all
of them) follows from `WFMin`, which takes sets, and is what every argument below uses:

- `Recursion`: a function defined by a start and steps over `0 .. n` exists; hence the recursive
  functions of `SumOf` and `Usable` satisfy their defining equations (`SumFacts`, `KeptFacts`);
- `SetSum`: `MapThenSumSet`, which takes positions in an order nobody knows, gives the sum of
  the sequence that is 0 elsewhere, by induction over the number of positions; `UsableFacts` and
  `UsableSum`: filtering keeps number, members, last point and sum of the usable positions;
- `AlertsStated`: so each branch of `shouldAlertWithTarget` says what the reference says. The
  hypothesis `NoOrEqual` excludes *gte* and *lte*, for which `found_or_equal` refutes it;
- `ReportedMeetsTarget`: the first match, least and greatest values exist (`LeastNat`, `Extremes`)
  and are points that meet the target; it needs no hypothesis on the operators;
- `NestedSeverities`: an alert on a target is an alert on every looser one (`LooserAlerts`), so a
  severity in the vector, by target or by recovery target, has the milder one in it.

Only model-checked: all liveness (`RequestsEnd`, `RequestsSettle`, `StoredRowsAreShown`,
`Settles`: fairness is outside what the prover does) and the violations. What the hypotheses
exclude is excluded because it is false: two requests at once for `TasksFollowStore`, *gte* and
*lte* for `AlertsAsStated`.

## 5. Not modelled

See the components of `PROJECT.json`.

- In the alerting core: query construction and execution, links and message templates,
  JSON decoding, statistics over the history, test notifications.
- On the server: text generation (light query engine, query builders, grammar), request
  decoding, and modules that create, read, update and delete single rows have no state a
  model checker would add anything to. The Alertmanager's configuration, state and
  dispatcher, OpAMP, retention and the service registry are planned.
- In the frontend: the repository has some 137,700 lines of TypeScript, of which the map
  covers about 1,580. The rest is for the most part rendering, styling, constants, mock
  data, generated API clients and an ANTLR-generated parser, or character-level string
  processing (`utils/queryContextUtils.ts`): code without a protocol or without state,
  whose models would be transliterations. The asynchronous parts found in it, sessions,
  live tailing and the query in the URL, are modelled. The share is small because that
  logic is small, and it is not raised by naming lines that no definition translates.

## 6. Plan

In order:

1. `AlertmanagerConfig`: the configuration row, `Get` outside and `Set` inside the
   caller's transaction, rule matchers, inhibit rules, `SyncServers` writing what it
   reconciled. Properties: no lost update between a rule edit and the poller; inhibit
   rules of a deleted rule do not come back; the servers converge to the stored row.
   Composition with `RuleManager` at `Callback`.
2. Proofs: whether `TasksFollowStore` survives requests at once when each is on its own rule.
3. An abstract manager (stored rule, running rule) implemented by `RuleManager` with
   requests one at a time; an abstract alert implemented by `AlertRule`.
4. The tokenizer's cache beside its rows, with overlapping reads and writes.
5. `EvaluationWindows`: rolling and cumulative windows tile time without gaps.
6. `AlertmanagerState`: two maintenance loops over one state row; the dispatcher's start
   and stop. `AgentConfig`, `Retention`, the service registry.
7. The alert editor's edit of a stored rule.
