---------------------------- MODULE QueryBuilder ----------------------------
(***************************************************************************)
(* The query being built, in the three places the frontend keeps it: the    *)
(* compositeQuery parameter of the URL, the provider's stagedQuery (what is *)
(* run) and its currentQuery (what is edited), with the two kinds of page   *)
(* that write them: an explorer (useShareBuilderUrl, the run button, the    *)
(* time picker, saved views) and the alert editor (BasicAlertEditor).       *)
(*                                                                          *)
(* Handlers act at once and see what the last commit rendered; effects run  *)
(* when a render commits, those of the page before those of the provider.   *)
(* A query is abstracted to its signal, whether it is ordered by a column   *)
(* its result has not got ("stale"), and whether it has a step interval.    *)
(* Left out: supersetQuery, which nothing reads, and the names of queries.  *)
(***************************************************************************)
EXTENDS Naturals, Sequences

CONSTANTS
    Signals,    \* the data sources, and the alert types
    TimeSeries, \* the explorer shows a chart, not a list
    MaxIds,     \* bound on the query ids made before the user stops
    MaxHistory  \* bound on the browser's history

ASSUME QueryBuilderAssumption ==
    /\ {"metrics", "logs"} \subseteq Signals /\ "none" \notin Signals
    /\ TimeSeries \in BOOLEAN /\ MaxIds \in Nat /\ MaxHistory \in Nat

VARIABLES
    app,       \* the URLs of the history, and the provider's state
    rendered,  \* app at the last commit, NotRendered before the first
    editor,    \* the alert editor's state
    ran,       \* history: the last query the run button sent, with its id
    misled     \* history: Back was used since the editor was opened, or it was
               \* opened on an address that contradicts itself

vars == <<app, rendered, editor, ran, misled>>

None == [none |-> TRUE]
NotRendered == [none |-> TRUE]

Pages == {"home", "explorer", "alert"}
Content == [signal : Signals, order : {"none", "stale"}, step : BOOLEAN]
\* compositeQuery: its id, and whether all the fields of a query are there.
UrlQuery == [id : Nat, complete : BOOLEAN, content : Content]
StagedQuery == [id : Nat, content : Content]
\* alertType is a parameter no link of the application sets, "none" if absent.
Location == [page : Pages, query : UrlQuery \cup {None}, alertType : Signals \cup {"none"}]
App == [history : Seq(Location), staged : StagedQuery \cup {None},
        current : Content, touched : BOOLEAN, called : BOOLEAN, ids : Nat]
Editor == [type : Signals, drafts : [Signals -> Content \cup {None}],
           preview : Content \cup {None}]

\* The type of the state, across every redirect, reload and change of page.
TypeOK ==
    /\ app \in App /\ app.history # <<>>
    /\ rendered \in App \cup {NotRendered}
    /\ editor \in Editor \cup {None}
    /\ ran \in StagedQuery \cup {None}
    /\ misled \in BOOLEAN

\* The location of a state: the last entry of the history.
Url(s) == s.history[Len(s.history)]
Page(s) == Url(s).page

\* initialQueriesMap, and with the interval an alert needs.
InitialQuery(signal) == [signal |-> signal, order |-> "none", step |-> FALSE]
NormalizeAlertTimeSeriesQuery(c) == [c EXCEPT !.step = TRUE]
DefaultQueryForAlertType(t) == NormalizeAlertTimeSeriesQuery(InitialQuery(t))

\* The provider and the page as a browser loads them.
Loaded(history, ids) ==
    LET q == history[Len(history)].query
    IN [history |-> history, staged |-> None, called |-> FALSE, ids |-> ids,
        touched |-> FALSE,
        current |-> IF q = None THEN InitialQuery("metrics") ELSE q.content]

Init ==
    /\ \E u \in [page : Pages,
                 query : [id : {1}, complete : BOOLEAN, content : Content] \cup {None},
                 alertType : Signals \cup {"none"}] :
          /\ u.page # "alert" => u.alertType = "none"
          /\ app = Loaded(<<u>>, 1)
    /\ rendered = NotRendered
    /\ editor = None /\ ran = None /\ misled = FALSE

----------------------------------------------------------------------------
(* The provider's functions, on a state *)

\* setCurrentQuery. The query is a new object even when it has the old value,
\* and the effects that depend on it run.
SetCurrentQuery(s, c) == [s EXCEPT !.current = c, !.touched = TRUE]

\* resetQuery.
ResetQuery(s, c) == SetCurrentQuery([s EXCEPT !.staged = None], c)

Push(s, u) == [s EXCEPT !.history = Append(@, u)]
Replace(s, u) == [s EXCEPT !.history = [@ EXCEPT ![Len(s.history)] = u]]

\* redirectWithQueryBuilderData: the query gets a new id and goes to the URL of
\* the page shown, whose other parameters stay. safeNavigate replaces the entry
\* of the history when the target has a parameter (adds, or compositeQuery) the
\* URL had not.
RedirectWithQueryBuilderData(s, c, adds) ==
    LET u == [page |-> Page(app),
              query |-> [id |-> s.ids + 1, complete |-> TRUE, content |-> c],
              alertType |-> Url(app).alertType]
        t == [s EXCEPT !.ids = @ + 1]
    IN IF adds \/ Url(app).query = None THEN Replace(t, u) ELSE Push(t, u)

\* What a handler's redirect comes to. safeNavigate ignores a target that is the
\* URL but for the query's id; queries alike here may differ in what is left out.
Redirects(s, c, adds) ==
    {RedirectWithQueryBuilderData(s, c, adds)} \cup
    {t \in {s} : ~adds /\ Url(app).query # None /\ Url(app).query.content = c}

\* prepareQueryBuilderData: on an explorer the order is sanitized, unless the
\* run button has been used.
PrepareQueryBuilderData(s, c) ==
    IF Page(s) = "explorer" /\ ~s.called THEN [c EXCEPT !.order = "none"] ELSE c

\* initQueryBuilderData.
InitQueryBuilderData(s, seen) ==
    LET q == Url(seen).query
        c == PrepareQueryBuilderData(seen, q.content)
    IN SetCurrentQuery([s EXCEPT !.staged = [id |-> q.id, content |-> c]], c)

----------------------------------------------------------------------------
(* Effects: each takes the state the effects before it left, and app, which *)
(* is what the commit rendered.                                              *)

Fresh == rendered = NotRendered \/ Page(rendered) # Page(app)
Changed(field) == rendered = NotRendered \/ rendered[field] # app[field]

\* Seeded faults: the interval is never filled in; it is, whether it is there or not.
StepEffectNever(s) == s
StepEffectAlways(s) ==
    IF Page(app) = "alert" /\ (Fresh \/ app.touched)
    THEN SetCurrentQuery(s, [app.current EXCEPT !.step = TRUE])
    ELSE s

\* LiteQueryBuilder fills in the interval of a time series.
StepEffect(s) ==
    IF /\ Page(app) = "alert" \/ (Page(app) = "explorer" /\ TimeSeries)
       /\ (Fresh \/ app.touched) /\ ~app.current.step
    THEN SetCurrentQuery(s, [app.current EXCEPT !.step = TRUE])
    ELSE s

\* Seeded fault: the type is taken from an address that names none.
InitialTypeUnchecked == Url(app).alertType

\* CreateRules and BasicAlertEditor: the type and the first query of a new editor.
InitialType ==
    IF Url(app).alertType # "none" THEN Url(app).alertType
    ELSE IF Url(app).query # None THEN Url(app).query.content.signal
    ELSE "metrics"
InitialAlertQuery ==
    IF Url(app).query = None THEN DefaultQueryForAlertType(InitialType)
    ELSE NormalizeAlertTimeSeriesQuery(Url(app).query.content)

EditorEffect(s) ==
    IF Page(app) = "alert" /\ Fresh THEN ResetQuery(s, InitialAlertQuery) ELSE s

\* useShareBuilderUrl, once per explorer.
ShareEffect(s) ==
    IF Page(app) = "explorer" /\ Fresh /\ Url(app).query = None
    THEN RedirectWithQueryBuilderData(ResetQuery(s, InitialQuery("logs")),
                                      InitialQuery("logs"), FALSE)
    ELSE s

\* The provider's effect on the pathname.
PathnameEffect(s) ==
    IF rendered # NotRendered /\ Fresh
    THEN [s EXCEPT !.staged = None, !.called = FALSE]
    ELSE s

\* Seeded fault: the URL is compared with the query that is edited.
UrlEffectByContent(s) ==
    LET q == Url(app).query
    IN IF q = None \/ ~q.complete \/ q.content = app.current THEN s
       ELSE InitQueryBuilderData(s, app)

\* Seeded fault: stagedQuery is missing in the dependencies.
UrlEffectOnUrlOnly(s) ==
    LET q == Url(app).query
    IN IF ~(Fresh \/ Changed("history")) THEN s
       ELSE IF q = None THEN s
       ELSE IF app.staged # None /\ app.staged.id = q.id THEN s
       ELSE IF ~q.complete THEN RedirectWithQueryBuilderData(s, q.content, FALSE)
       ELSE InitQueryBuilderData(s, app)

\* The provider's effect on the URL's query.
UrlEffect(s) ==
    LET q == Url(app).query
    IN IF ~(Fresh \/ Changed("history") \/ Changed("staged") \/ Changed("called")) THEN s
       ELSE IF q = None THEN s
       ELSE IF app.staged # None /\ app.staged.id = q.id THEN s
       ELSE IF ~q.complete THEN RedirectWithQueryBuilderData(s, q.content, FALSE)
       ELSE InitQueryBuilderData(s, app)

NewEditor ==
    [type |-> InitialType,
     drafts |-> [t \in Signals |-> IF t = InitialType THEN InitialAlertQuery ELSE None],
     preview |-> None]

\* Seeded fault: the preview stays.
EditorCommitKeeps ==
    editor' = IF Page(app) # "alert" THEN None ELSE IF Fresh THEN NewEditor ELSE editor

\* The page's component is new, or stays and drops a preview that is not of
\* the query it shows, or goes.
EditorCommit ==
    editor' = IF Page(app) # "alert" THEN None
              ELSE IF Fresh THEN NewEditor
              ELSE IF editor.preview # None /\ editor.preview # app.current
              THEN [editor EXCEPT !.preview = None]
              ELSE editor

\* The address names a type, and has a query of another.
Contradicts ==
    /\ Url(app).alertType # "none" /\ Url(app).query # None
    /\ Url(app).query.content.signal # Url(app).alertType

Pending == app # rendered

\* What a commit shows: the state, its query no longer new.
Shown == [app EXCEPT !.touched = FALSE]

Commit ==
    /\ Pending
    /\ rendered' = Shown
    /\ app' = UrlEffect(PathnameEffect(ShareEffect(EditorEffect(StepEffect(Shown)))))
    /\ EditorCommit
    /\ misled' = IF Fresh /\ Page(app) = "alert" THEN Contradicts ELSE misled
    /\ UNCHANGED ran

----------------------------------------------------------------------------
(* The user, who finds the page settled: React commits within the frame *)

Idle == ~Pending
On(page) == Idle /\ Page(app) = page
MoreIds == app.ids < MaxIds
Room == MoreIds /\ Len(app.history) < MaxHistory

\* handleSetQueryData, from a row of LiteQueryBuilder: the interval stays, and
\* in the alert editor the signal.
HandleSetQueryData(c) ==
    /\ On("explorer") \/ On("alert")
    /\ app.current.step => c.step
    /\ Page(app) = "alert" => c.signal = app.current.signal
    /\ app' = SetCurrentQuery(app, c)
    /\ UNCHANGED <<rendered, editor, ran, misled>>

\* Seeded fault: the run is not marked as manual.
HandleRunQueryUnmarked ==
    /\ On("explorer") /\ Room
    /\ app' = RedirectWithQueryBuilderData(app, app.current, FALSE)
    /\ ran' = [id |-> app.ids + 1, content |-> app.current]
    /\ UNCHANGED <<rendered, editor, misled>>

HandleRunQuery ==
    /\ On("explorer") /\ Room
    /\ app' \in Redirects([app EXCEPT !.called = TRUE], app.current, FALSE)
    /\ ran' = IF app'.ids = app.ids THEN ran
              ELSE [id |-> app.ids + 1, content |-> app.current]
    /\ UNCHANGED <<rendered, editor, misled>>

\* The time picker's onSelectHandler: the edited query goes with the new time.
OnSelectHandler(adds) ==
    /\ On("explorer") /\ Room
    /\ Url(app).query # None
    /\ app' \in Redirects(app, app.current, adds)
    /\ UNCHANGED <<rendered, editor, ran, misled>>

\* onValidCustomDateHandler, the time typed in: the URL keeps its query, and the
\* staged query replaces the edited one.
OnValidCustomDateHandler(adds) ==
    LET s == IF adds THEN app ELSE Push(app, Url(app))
        c == PrepareQueryBuilderData(app, app.staged.content)
    IN /\ On("explorer") /\ Room
       /\ app.staged # None
       /\ app' = SetCurrentQuery([s EXCEPT !.staged = [id |-> app.staged.id, content |-> c]], c)
       /\ UNCHANGED <<rendered, editor, ran, misled>>

\* handleExplorerTabChange: another view, or a saved one.
HandleExplorerTabChange(c, adds) ==
    /\ On("explorer") /\ Room
    /\ app' \in Redirects(app, c, adds)
    /\ UNCHANGED <<rendered, editor, ran, misled>>

\* onCreateAlertsHandler: the query keeps its id, and loses its order in a list.
OnCreateAlertsHandler ==
    /\ On("explorer") /\ Room
    /\ app.staged # None
    /\ \E order \in {"none", app.staged.content.order} :
          app' = Push(app, [page |-> "alert",
                            query |-> [id |-> app.staged.id, complete |-> TRUE,
                                       content |-> [app.staged.content EXCEPT !.order = order]],
                            alertType |-> "none"])
    /\ ran' = None
    /\ UNCHANGED <<rendered, editor, misled>>

\* Seeded fault: the URL keeps the query of the old type.
ChangeAlertTypeSilently(t) ==
    LET next == DefaultQueryForAlertType(t)
    IN /\ On("alert") /\ t # editor.type
       /\ app' = ResetQuery(app, next)
       /\ editor' = [type |-> t, preview |-> None,
                     drafts |-> [editor.drafts EXCEPT ![editor.type] = app.current,
                                                      ![t] = next]]
       /\ UNCHANGED <<rendered, ran, misled>>

ChangeAlertType(t) ==
    LET next == IF editor.drafts[t] # None
                THEN NormalizeAlertTimeSeriesQuery(editor.drafts[t])
                ELSE DefaultQueryForAlertType(t)
    IN /\ On("alert") /\ Room
       /\ t # editor.type
       /\ app' \in Redirects(ResetQuery(app, next), next, FALSE)
       /\ editor' = [type |-> t, preview |-> None,
                     drafts |-> [editor.drafts EXCEPT ![editor.type] = app.current,
                                                      ![t] = next]]
       /\ UNCHANGED <<rendered, ran, misled>>

RunPreview ==
    /\ On("alert")
    /\ editor' = [editor EXCEPT !.preview = NormalizeAlertTimeSeriesQuery(app.current)]
    /\ UNCHANGED <<app, rendered, ran, misled>>

\* A link: a page without a query, unless it is the one shown.
Navigate(page) ==
    LET u == [page |-> page, query |-> None, alertType |-> "none"]
    IN /\ Idle /\ Room
       /\ u # Url(app)
       /\ app' = Push(app, u)
       /\ ran' = None
       /\ UNCHANGED <<rendered, editor, misled>>

Back ==
    /\ Idle /\ MoreIds
    /\ Len(app.history) > 1
    /\ app' = [app EXCEPT !.history = SubSeq(@, 1, Len(@) - 1)]
    /\ ran' = None
    /\ misled' = TRUE
    /\ UNCHANGED <<rendered, editor>>

\* At any time: the browser loads the page of the URL anew.
Reload ==
    /\ MoreIds
    /\ app' = Loaded(app.history, app.ids)
    /\ rendered' = NotRendered
    /\ editor' = None /\ ran' = None
    /\ UNCHANGED misled

Next ==
    \/ Commit
    \/ \E c \in Content : HandleSetQueryData(c)
    \/ HandleRunQuery
    \/ \E adds \in BOOLEAN : OnSelectHandler(adds) \/ OnValidCustomDateHandler(adds)
    \/ \E c \in Content, adds \in BOOLEAN : HandleExplorerTabChange(c, adds)
    \/ OnCreateAlertsHandler
    \/ \E t \in Signals : ChangeAlertType(t)
    \/ RunPreview
    \/ \E page \in Pages : Navigate(page)
    \/ Back
    \/ Reload

Spec == Init /\ [][Next]_vars

\* Fairness: React commits what is pending.
FairSpec == Spec /\ WF_vars(Commit)
----------------------------------------------------------------------------
\* Once the page has settled, a query in the URL is complete and is the one
\* that is staged: the provider's two effects, the page's own redirect and a
\* query that keeps its id across pages (onCreateAlertsHandler) leave no URL
\* whose query is not run.
StagedFollowsUrl ==
    Idle /\ Url(app).query # None =>
        /\ Url(app).query.complete
        /\ app.staged # None /\ app.staged.id = Url(app).query.id

\* What the run button sent is staged as it was shown: handleRunQuery marks the
\* run, and prepareQueryBuilderData does not strip the order the user chose.
RunStagesWhatIsShown ==
    ran # None /\ app.staged # None /\ app.staged.id = ran.id =>
        app.staged.content = ran.content

\* The rule the alert editor would save is of the type of its query, and each
\* draft it keeps is of the type it is kept for: changeAlertType aligns the URL
\* ("prevents the old query from overwriting the selected alert query"). The claim
\* ends when Back brings the old query and leaves the type, and it is not made of
\* an address that names one type and has a query of another.
TypeMatchesQuery ==
    Idle /\ Page(app) = "alert" /\ ~misled =>
        /\ app.current.signal = editor.type
        /\ \A t \in Signals : editor.drafts[t] # None => editor.drafts[t].signal = t

\* The alert editor's query has an interval once the page has settled, though
\* the URL's query overwrites the normalized one: LiteQueryBuilder's effect
\* restores what "requires an explicit interval for time-series requests".
IntervalIsExplicit == Idle /\ Page(app) = "alert" => app.current.step

\* The preview the alert editor holds is of the query that is edited, whatever
\* replaced that query: an edit, another type, the URL.
PreviewIsCurrent ==
    Idle /\ Page(app) = "alert" /\ editor.preview # None =>
        editor.preview = app.current

\* A commit that brings neither a URL nor a staged query keeps what the user
\* edited: the effects that load a query from the URL do not run on an edit.
EditsSurvive ==
    [][/\ Commit /\ rendered # NotRendered
       /\ rendered.history = app.history /\ rendered.staged = app.staged
       => app'.current \in {app.current, NormalizeAlertTimeSeriesQuery(app.current)}]_vars

\* The effects do not set each other off for ever (a redirect that is redirected
\* again, a query that is filled in again): the page settles unless the user
\* keeps reloading it.
Settles == []<>Idle \/ []<><<Reload>>_vars
=============================================================================
