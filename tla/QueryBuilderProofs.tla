------------------------- MODULE QueryBuilderProofs -------------------------
(***************************************************************************)
(* Proofs about QueryBuilder, for any signals, both kinds of explorer, and  *)
(* any number of query ids and entries of the history.                      *)
(***************************************************************************)
EXTENDS QueryBuilder, SequenceTheorems, TLAPS

(***************************************************************************)
(* What the properties rest on.  The queries of the history and the staged  *)
(* one have ids given out so far, and an id is of a complete query or of    *)
(* incomplete ones only, so that a staged query is never taken for an       *)
(* incomplete one in the URL.                                               *)
(***************************************************************************)
Queries(s) == {s.history[i].query : i \in DOMAIN s.history} \ {None}

RenderInv ==
    rendered # NotRendered =>
        /\ rendered.history # <<>> /\ ~rendered.touched
        /\ Page(rendered) = "alert" => editor # None
IdInv ==
    /\ \A q \in Queries(app) : q.id <= app.ids
    /\ app.staged # None => app.staged.id <= app.ids
    /\ ran # None => ran.id <= app.ids
CompleteInv ==
    /\ \A p, q \in Queries(app) : p.id = q.id => p.complete = q.complete
    /\ app.staged # None => \A q \in Queries(app) : q.id = app.staged.id => q.complete

(***************************************************************************)
(* Unless the provider's effect on the URL is still to run, the URL's query *)
(* is staged.  The mark of the run button is on an explorer with a staged   *)
(* query, or with the one that was sent and is to be staged.                *)
(***************************************************************************)
Moved == rendered.history # app.history \/ rendered.staged # app.staged
StagedInv ==
    rendered # NotRendered /\ ~Moved /\ Url(app).query # None =>
        /\ Url(app).query.complete
        /\ app.staged # None /\ app.staged.id = Url(app).query.id
CalledInv ==
    app.called =>
        /\ rendered # NotRendered /\ Page(rendered) = "explorer"
        /\ \/ app.staged # None
           \/ /\ rendered.history # app.history /\ Page(app) = "explorer"
              /\ Url(app).query # None /\ Url(app).query.complete
RanInv ==
    ran # None =>
        /\ app.called /\ Page(app) = "explorer"
        /\ \A q \in Queries(app) : q.id = ran.id => q.content = ran.content
        /\ app.staged # None /\ app.staged.id = ran.id => app.staged.content = ran.content

(***************************************************************************)
(* While the alert editor stays: a query without an interval, or one the    *)
(* preview is not of, is new and has an effect to run; and unless the       *)
(* editor is misled, the query, the one in the URL and each draft are of    *)
(* their type.                                                              *)
(***************************************************************************)
Editing == rendered # NotRendered /\ Page(rendered) = "alert" /\ Page(app) = "alert"
StepInv == Editing => app.current.step \/ app.touched
PreviewInv == Editing /\ editor.preview # None => editor.preview = app.current \/ app.touched
SignalInv ==
    Editing /\ ~misled =>
        /\ app.current.signal = editor.type
        /\ Url(app).query # None => Url(app).query.content.signal = editor.type
        /\ \A t \in Signals : editor.drafts[t] # None => editor.drafts[t].signal = t

QueryInv == /\ TypeOK /\ RenderInv /\ IdInv /\ CompleteInv /\ StagedInv /\ CalledInv
            /\ RanInv /\ StepInv /\ PreviewInv /\ SignalInv

----------------------------------------------------------------------------
(* The state and its fields *)

\* None is not a query, and NotRendered not a state.
LEMMA Kinds ==
    /\ None \notin UrlQuery /\ None \notin StagedQuery /\ None \notin Content
    /\ None \notin Editor /\ NotRendered \notin App
  BY DEF None, NotRendered, UrlQuery, StagedQuery, Content, Editor, App

\* What a state is made of.
LEMMA AppFields ==
    ASSUME NEW s \in App
    PROVE  /\ s.history \in Seq(Location) /\ s.staged \in StagedQuery \cup {None}
           /\ s.current \in Content /\ s.touched \in BOOLEAN /\ s.called \in BOOLEAN
           /\ s.ids \in Nat
  BY DEF App

LEMMA ContentFields ==
    ASSUME NEW c \in Content
    PROVE  /\ c.signal \in Signals /\ c.order \in {"none", "stale"} /\ c.step \in BOOLEAN
           /\ NormalizeAlertTimeSeriesQuery(c) \in Content
           /\ NormalizeAlertTimeSeriesQuery(c).step
           /\ NormalizeAlertTimeSeriesQuery(c).signal = c.signal
           /\ [c EXCEPT !.order = "none"] \in Content
           /\ [c EXCEPT !.order = "none"].signal = c.signal
  BY DEF Content, NormalizeAlertTimeSeriesQuery

\* A query that has its interval is normal already.
LEMMA AlreadyNormal ==
    ASSUME NEW c \in Content, c.step
    PROVE  NormalizeAlertTimeSeriesQuery(c) = c
  BY DEF Content, NormalizeAlertTimeSeriesQuery

LEMMA InitialContent ==
    ASSUME NEW t \in Signals
    PROVE  /\ InitialQuery(t) \in Content /\ InitialQuery(t).signal = t
           /\ DefaultQueryForAlertType(t) \in Content /\ DefaultQueryForAlertType(t).signal = t
  BY DEF InitialQuery, DefaultQueryForAlertType, NormalizeAlertTimeSeriesQuery, Content

\* Two states with the same fields are the same.
LEMMA SameApp ==
    ASSUME NEW s \in App, NEW t \in App,
           s.history = t.history, s.staged = t.staged, s.current = t.current,
           s.touched = t.touched, s.called = t.called, s.ids = t.ids
    PROVE  s = t
  BY DEF App

\* The location of a state is one of its history, and its query one of its queries.
LEMMA UrlFacts ==
    ASSUME NEW s \in App, s.history # <<>>
    PROVE  /\ Url(s) \in Location /\ Page(s) \in Pages
           /\ Url(s).query \in UrlQuery \cup {None} /\ Url(s).alertType \in Signals \cup {"none"}
           /\ Url(s).query # None => Url(s).query \in Queries(s)
           /\ Len(s.history) \in DOMAIN s.history /\ Len(s.history) \in Nat \ {0}
           /\ Queries(s) \subseteq UrlQuery
<1>1. s.history \in Seq(Location)
  BY AppFields
<1>2. Len(s.history) \in Nat \ {0} /\ DOMAIN s.history = 1 .. Len(s.history)
  BY <1>1, LenProperties, EmptySeq
<1>3. \A i \in DOMAIN s.history : s.history[i] \in Location
  BY <1>1, <1>2, ElementOfSeq
<1>4. Len(s.history) \in DOMAIN s.history
  BY <1>2
<1>5. \A u \in Location : /\ u.page \in Pages /\ u.query \in UrlQuery \cup {None}
                          /\ u.alertType \in Signals \cup {"none"}
  BY DEF Location
<1>6. Url(s) \in Location
  BY <1>3, <1>4 DEF Url
<1>7. /\ Page(s) \in Pages /\ Url(s).query \in UrlQuery \cup {None}
      /\ Url(s).alertType \in Signals \cup {"none"}
  BY <1>5, <1>6 DEF Page
<1>8. Url(s).query # None => Url(s).query \in Queries(s)
  BY <1>4 DEF Url, Queries
<1>9. Queries(s) \subseteq UrlQuery
  BY <1>3, <1>5 DEF Queries
<1> QED
  BY <1>2, <1>4, <1>6, <1>7, <1>8, <1>9

\* Setting the query that is edited, and dropping the one that is staged.
LEMMA SetFields ==
    ASSUME NEW s \in App, NEW c \in Content
    PROVE  /\ SetCurrentQuery(s, c) \in App /\ ResetQuery(s, c) \in App
           /\ SetCurrentQuery(s, c).current = c /\ SetCurrentQuery(s, c).touched = TRUE
           /\ SetCurrentQuery(s, c).history = s.history /\ SetCurrentQuery(s, c).ids = s.ids
           /\ SetCurrentQuery(s, c).staged = s.staged /\ SetCurrentQuery(s, c).called = s.called
           /\ ResetQuery(s, c).current = c /\ ResetQuery(s, c).touched = TRUE
           /\ ResetQuery(s, c).history = s.history /\ ResetQuery(s, c).ids = s.ids
           /\ ResetQuery(s, c).staged = None /\ ResetQuery(s, c).called = s.called
  BY DEF App, SetCurrentQuery, ResetQuery

\* A state with another history.
LEMMA NewHistory ==
    ASSUME NEW s \in App, NEW h \in Seq(Location), NEW t, t = [s EXCEPT !.history = h]
    PROVE  /\ t \in App /\ t.history = h /\ t.staged = s.staged /\ t.current = s.current
           /\ t.touched = s.touched /\ t.called = s.called /\ t.ids = s.ids
  BY DEF App

\* A new entry of the history.
LEMMA PushFacts ==
    ASSUME NEW s \in App, NEW u \in Location, NEW t, t = Push(s, u)
    PROVE  /\ t \in App /\ t.history # <<>> /\ t.history # s.history /\ Url(t) = u
           /\ Queries(t) \subseteq Queries(s) \cup {u.query}
           /\ t.staged = s.staged /\ t.current = s.current /\ t.touched = s.touched
           /\ t.called = s.called /\ t.ids = s.ids
<1> DEFINE h == Append(s.history, u)
<1>1. s.history \in Seq(Location)
  BY AppFields
<1>2. h \in Seq(Location) /\ Len(h) = Len(s.history) + 1
  BY <1>1
<1>3. h[Len(s.history) + 1] = u /\ \A i \in 1 .. Len(s.history) : h[i] = s.history[i]
  BY <1>1
<1>4. t = [s EXCEPT !.history = h]
  BY DEF Push
<1> HIDE DEF h
<1>5. /\ t \in App /\ t.history = h /\ t.staged = s.staged /\ t.current = s.current
      /\ t.touched = s.touched /\ t.called = s.called /\ t.ids = s.ids
  BY <1>2, <1>4, NewHistory
<1>6. Len(s.history) \in Nat /\ DOMAIN s.history = 1 .. Len(s.history)
  BY <1>1, LenProperties
<1>7. DOMAIN h = 1 .. Len(s.history) + 1
  BY <1>2, LenProperties
<1>8. h # <<>> /\ h # s.history
  BY <1>2, <1>6, EmptySeq
<1>9. Url(t) = u
  BY <1>2, <1>3, <1>5 DEF Url
<1>10. \A i \in DOMAIN h : i = Len(s.history) + 1 \/ i \in DOMAIN s.history
  BY <1>6, <1>7
<1>11. \A i \in DOMAIN h : h[i].query = u.query
                          \/ \E j \in DOMAIN s.history : h[i].query = s.history[j].query
  BY <1>3, <1>6, <1>10
<1>12. Queries(t) \subseteq Queries(s) \cup {u.query}
  BY <1>5, <1>11 DEF Queries
<1> QED
  BY <1>5, <1>8, <1>9, <1>12

\* Another last entry of the history.
LEMMA ReplaceFacts ==
    ASSUME NEW s \in App, s.history # <<>>, NEW u \in Location, NEW t, t = Replace(s, u)
    PROVE  /\ t \in App /\ t.history # <<>> /\ Url(t) = u
           /\ u # Url(s) => t.history # s.history
           /\ Queries(t) \subseteq Queries(s) \cup {u.query}
           /\ t.staged = s.staged /\ t.current = s.current /\ t.touched = s.touched
           /\ t.called = s.called /\ t.ids = s.ids
<1> DEFINE h == [s.history EXCEPT ![Len(s.history)] = u]
<1>1. s.history \in Seq(Location)
  BY AppFields
<1>2. Len(s.history) \in DOMAIN s.history /\ Len(s.history) \in Nat \ {0}
  BY UrlFacts
<1>3. h \in Seq(Location) /\ Len(h) = Len(s.history)
  BY <1>1, <1>2, ExceptSeq
<1>4. /\ DOMAIN h = DOMAIN s.history /\ h[Len(s.history)] = u
      /\ \A i \in DOMAIN s.history : i # Len(s.history) => h[i] = s.history[i]
  BY <1>2
<1>5. t = [s EXCEPT !.history = h]
  BY DEF Replace
<1> HIDE DEF h
<1>6. /\ t \in App /\ t.history = h /\ t.staged = s.staged /\ t.current = s.current
      /\ t.touched = s.touched /\ t.called = s.called /\ t.ids = s.ids
  BY <1>3, <1>5, NewHistory
<1>7. h # <<>>
  BY <1>2, <1>3, EmptySeq
<1>8. Url(t) = u
  BY <1>3, <1>4, <1>6 DEF Url
<1>9. u # Url(s) => h # s.history
  BY <1>4 DEF Url
<1>10. \A i \in DOMAIN h : h[i].query = u.query
                          \/ \E j \in DOMAIN s.history : h[i].query = s.history[j].query
  BY <1>4
<1>11. Queries(t) \subseteq Queries(s) \cup {u.query}
  BY <1>6, <1>10 DEF Queries
<1> QED
  BY <1>6, <1>7, <1>8, <1>9, <1>11

\* The state has a query in its URL that is new, or the history it had.
Redirected(t, q) ==
    /\ t.history # <<>> /\ t.history # app.history /\ t.ids = app.ids + 1
    /\ q \in UrlQuery /\ q.id = app.ids + 1 /\ q.complete
    /\ Url(t).query = q /\ Page(t) = Page(app)
    /\ Queries(t) \subseteq Queries(app) \cup {q}
Stays(t) == t.history = app.history /\ t.ids = app.ids

(***************************************************************************)
(* A redirect puts the query in the URL under an id nobody has had, and     *)
(* leaves the rest of the provider's state.                                 *)
(***************************************************************************)
LEMMA RedirectFacts ==
    ASSUME app \in App, app.history # <<>>, \A q \in Queries(app) : q.id <= app.ids,
           NEW s \in App, s.history = app.history, s.ids = app.ids,
           NEW c \in Content, NEW adds \in BOOLEAN,
           NEW t, t = RedirectWithQueryBuilderData(s, c, adds)
    PROVE  /\ t \in App /\ \E q : Redirected(t, q) /\ q.content = c
           /\ t.staged = s.staged /\ t.current = s.current /\ t.touched = s.touched
           /\ t.called = s.called
<1> DEFINE r == [id |-> app.ids + 1, complete |-> TRUE, content |-> c]
           u == [page |-> Page(app), query |-> r, alertType |-> Url(app).alertType]
           v == [s EXCEPT !.ids = @ + 1]
<1>1. app.ids \in Nat
  BY AppFields
<1>2. r \in UrlQuery /\ r.id = app.ids + 1 /\ r.complete = TRUE /\ r.content = c
  BY <1>1 DEF UrlQuery
<1>3. Page(app) \in Pages /\ Url(app).alertType \in Signals \cup {"none"}
  BY UrlFacts
<1>4. u \in Location /\ u.query = r /\ u.page = Page(app)
  BY <1>2, <1>3 DEF Location
<1>5. /\ v \in App /\ v.history = app.history /\ v.ids = app.ids + 1 /\ v.staged = s.staged
      /\ v.current = s.current /\ v.touched = s.touched /\ v.called = s.called
  BY <1>1 DEF App
<1>6. t = IF adds \/ Url(app).query = None THEN Replace(v, u) ELSE Push(v, u)
  BY DEF RedirectWithQueryBuilderData
<1> HIDE DEF r, u, v
<1>7. Url(v) = Url(app) /\ Queries(v) = Queries(app)
  BY <1>5 DEF Url, Queries
<1>8. u # Url(app)
  <2>1. CASE Url(app).query = None
    BY <1>2, <1>4, <2>1, Kinds
  <2>2. CASE Url(app).query # None
    <3>1. Url(app).query \in Queries(app) /\ Url(app).query \in UrlQuery
      BY <2>2, UrlFacts
    <3>2. Url(app).query.id <= app.ids /\ Url(app).query.id \in Nat
      BY <3>1 DEF UrlQuery
    <3> QED
      BY <1>1, <1>2, <1>4, <3>2
  <2> QED
    BY <2>1, <2>2
<1>9. CASE t = Push(v, u)
  <2>1. /\ t \in App /\ t.history # <<>> /\ t.history # v.history /\ Url(t) = u
        /\ Queries(t) \subseteq Queries(v) \cup {u.query}
        /\ t.staged = v.staged /\ t.current = v.current /\ t.touched = v.touched
        /\ t.called = v.called /\ t.ids = v.ids
    BY <1>4, <1>5, <1>9, PushFacts
  <2> QED
    BY <1>2, <1>4, <1>5, <1>7, <2>1 DEF Page, Redirected
<1>10. CASE t = Replace(v, u)
  <2>1. /\ t \in App /\ t.history # <<>> /\ t.history # v.history /\ Url(t) = u
        /\ Queries(t) \subseteq Queries(v) \cup {u.query}
        /\ t.staged = v.staged /\ t.current = v.current /\ t.touched = v.touched
        /\ t.called = v.called /\ t.ids = v.ids
    BY <1>4, <1>5, <1>7, <1>8, <1>10, ReplaceFacts
  <2> QED
    BY <1>2, <1>4, <1>5, <1>7, <2>1 DEF Page, Redirected
<1> QED
  BY <1>6, <1>9, <1>10

----------------------------------------------------------------------------
(* The effects of a commit *)

LEMMA ShownFields ==
    ASSUME app \in App
    PROVE  /\ Shown \in App /\ Shown.history = app.history /\ Shown.staged = app.staged
           /\ Shown.current = app.current /\ Shown.touched = FALSE
           /\ Shown.called = app.called /\ Shown.ids = app.ids
           /\ Page(Shown) = Page(app) /\ Url(Shown) = Url(app)
  BY DEF App, Shown, Page, Url

\* The effects before the one on the URL.
Before == PathnameEffect(ShareEffect(EditorEffect(StepEffect(Shown))))

\* The effect that fills in the interval.
LEMMA StepFields ==
    ASSUME app \in App, NEW s, s = StepEffect(Shown)
    PROVE  /\ s \in App /\ Stays(s) /\ s.staged = app.staged /\ s.called = app.called
           /\ \/ /\ s.current = app.current /\ s.touched = FALSE
                 /\ Page(app) = "alert" /\ app.touched => app.current.step
              \/ s.current = NormalizeAlertTimeSeriesQuery(app.current) /\ s.touched = TRUE
<1>1. /\ Shown \in App /\ Shown.history = app.history /\ Shown.staged = app.staged
      /\ Shown.current = app.current /\ Shown.touched = FALSE
      /\ Shown.called = app.called /\ Shown.ids = app.ids
  BY ShownFields
<1>2. app.current \in Content
  BY AppFields
<1>3. NormalizeAlertTimeSeriesQuery(app.current) \in Content
  BY <1>2, ContentFields
<1>4. CASE s = Shown /\ ~(Page(app) = "alert" /\ app.touched /\ ~app.current.step)
  BY <1>1, <1>4 DEF Stays
<1>5. CASE s = SetCurrentQuery(Shown, NormalizeAlertTimeSeriesQuery(app.current))
  <2> DEFINE c == NormalizeAlertTimeSeriesQuery(app.current)
             t == SetCurrentQuery(Shown, c)
  <2> HIDE DEF c
  <2>1. c \in Content
    BY <1>3 DEF c
  <2>2. /\ t \in App /\ t.current = c /\ t.touched = TRUE /\ t.history = Shown.history
        /\ t.ids = Shown.ids /\ t.staged = Shown.staged /\ t.called = Shown.called
    BY <1>1, <2>1, SetFields
  <2> QED
    BY <1>1, <1>5, <2>2 DEF Stays, c
<1> QED
  BY <1>4, <1>5 DEF StepEffect, NormalizeAlertTimeSeriesQuery

\* The page stays: the interval at most is filled in.
LEMMA BeforeStay ==
    ASSUME app \in App, ~Fresh, NEW b, b = Before
    PROVE  /\ b \in App /\ Stays(b) /\ b.staged = app.staged /\ b.called = app.called
           /\ \/ /\ b.current = app.current /\ b.touched = FALSE
                 /\ Page(app) = "alert" /\ app.touched => app.current.step
              \/ b.current = NormalizeAlertTimeSeriesQuery(app.current) /\ b.touched = TRUE
<1>1. b = StepEffect(Shown)
  BY DEF Before, PathnameEffect, ShareEffect, EditorEffect
<1> QED
  BY <1>1, StepFields

\* The query and the type of a new editor.
LEMMA InitialFacts ==
    ASSUME app \in App, app.history # <<>>
    PROVE  /\ InitialType \in Signals /\ InitialAlertQuery \in Content
           /\ ~Contradicts =>
                /\ InitialAlertQuery.signal = InitialType
                /\ Url(app).query # None => Url(app).query.content.signal = InitialType
           /\ NewEditor \in Editor
<1>1. "metrics" \in Signals
  BY QueryBuilderAssumption
<1>2. Url(app).query \in UrlQuery \cup {None} /\ Url(app).alertType \in Signals \cup {"none"}
  BY UrlFacts
<1>3. Url(app).query # None => Url(app).query.content \in Content
  BY <1>2 DEF UrlQuery
<1>4. InitialType \in Signals
  BY <1>1, <1>2, <1>3, ContentFields DEF InitialType
<1>6. /\ InitialAlertQuery \in Content
      /\ Url(app).query = None => InitialAlertQuery.signal = InitialType
      /\ Url(app).query # None => InitialAlertQuery.signal = Url(app).query.content.signal
  BY <1>3, <1>4, ContentFields, InitialContent DEF InitialAlertQuery
<1>7. ~Contradicts /\ Url(app).query # None => Url(app).query.content.signal = InitialType
  BY DEF Contradicts, InitialType
<1>5. NewEditor \in Editor
  BY <1>4, <1>6 DEF NewEditor, Editor
<1> QED
  BY <1>4, <1>5, <1>6, <1>7

\* A new page: the editor sets its first query, an explorer without a query redirects.
LEMMA BeforeFresh ==
    ASSUME app \in App, app.history # <<>>, \A q \in Queries(app) : q.id <= app.ids,
           CalledInv, Fresh, NEW b, b = Before
    PROVE  /\ b \in App /\ b.called = FALSE
           /\ b.staged = None \/ (rendered = NotRendered /\ b.staged = app.staged)
           /\ \/ Stays(b)
              \/ /\ Page(app) = "explorer" /\ Url(app).query = None
                 /\ \E q : Redirected(b, q)
           /\ Page(app) = "alert" => b.current = InitialAlertQuery /\ b.touched = TRUE
<1> DEFINE s == StepEffect(Shown)
           e == EditorEffect(s)
           h == ShareEffect(e)
<1>1. s \in App /\ Stays(s) /\ s.staged = app.staged /\ s.called = app.called
  BY StepFields
<1> HIDE DEF s
<1>2. /\ e \in App /\ Stays(e) /\ e.called = app.called
      /\ e.staged = app.staged \/ e.staged = None
      /\ Page(app) = "alert" => e.current = InitialAlertQuery /\ e.touched = TRUE
  BY <1>1, InitialFacts, SetFields DEF EditorEffect, Stays
<1> HIDE DEF e
<1>3. /\ h \in App /\ h.called = app.called
      /\ h.staged = app.staged \/ h.staged = None
      /\ Page(app) = "alert" => h.current = InitialAlertQuery /\ h.touched = TRUE
      /\ \/ Stays(h)
         \/ /\ Page(app) = "explorer" /\ Url(app).query = None
            /\ \E q : Redirected(h, q)
  <2>1. CASE Page(app) = "explorer" /\ Fresh /\ Url(app).query = None
    <3> DEFINE c == InitialQuery("logs")
               r == ResetQuery(e, c)
    <3>1. c \in Content
      BY QueryBuilderAssumption, InitialContent
    <3>2. h = RedirectWithQueryBuilderData(r, c, FALSE)
      BY <2>1 DEF ShareEffect
    <3> HIDE DEF c, h
    <3>3. r \in App /\ Stays(r) /\ r.staged = None /\ r.called = app.called
      BY <1>2, <3>1, SetFields DEF Stays
    <3> HIDE DEF r
    <3>4. h \in App /\ h.staged = r.staged /\ h.called = r.called /\ \E q : Redirected(h, q)
      BY <3>1, <3>2, <3>3, RedirectFacts DEF Stays
    <3> QED
      BY <2>1, <3>3, <3>4
  <2>2. CASE ~(Page(app) = "explorer" /\ Fresh /\ Url(app).query = None)
    <3>1. h = e
      BY <2>2 DEF ShareEffect
    <3> QED
      BY <1>2, <3>1
  <2> QED
    BY <2>1, <2>2
<1>4. b = PathnameEffect(h)
  BY DEF Before, s, e
<1> HIDE DEF h
<1>5. CASE rendered # NotRendered
  <2>1. b = [h EXCEPT !.staged = None, !.called = FALSE]
    BY <1>4, <1>5 DEF PathnameEffect
  <2>2. /\ b \in App /\ b.staged = None /\ b.called = FALSE /\ b.history = h.history
        /\ b.ids = h.ids /\ b.current = h.current /\ b.touched = h.touched
    BY <1>3, <2>1 DEF App
  <2>3. \A q : Redirected(h, q) => Redirected(b, q)
    BY <2>2 DEF Redirected, Url, Page, Queries
  <2> QED
    BY <1>3, <2>2, <2>3 DEF Stays
<1>6. CASE rendered = NotRendered
  <2>1. b = h
    BY <1>4, <1>6 DEF PathnameEffect
  <2>2. app.called = FALSE
    BY <1>6, AppFields DEF CalledInv
  <2> QED
    BY <1>3, <1>6, <2>1, <2>2
<1> QED
  BY <1>5, <1>6

\* The query of the URL, prepared to be staged.
LEMMA PrepareFacts ==
    ASSUME app \in App, NEW c \in Content, NEW d, d = PrepareQueryBuilderData(app, c)
    PROVE  /\ d \in Content /\ d.signal = c.signal
           /\ Page(app) # "explorer" \/ app.called => d = c
<1>1. [c EXCEPT !.order = "none"] \in Content /\ [c EXCEPT !.order = "none"].signal = c.signal
  BY ContentFields
<1> QED
  BY <1>1 DEF PrepareQueryBuilderData

\* Whether the URL's query is the one that is staged.
Matching == app.staged # None /\ app.staged.id = Url(app).query.id

(***************************************************************************)
(* What a commit does, after the first effects: nothing, as the URL's query *)
(* has not moved, is none or is staged; or it redirects an incomplete query *)
(* to a complete one; or it stages the query and shows it.                  *)
(***************************************************************************)
LEMMA UrlCases ==
    ASSUME QueryInv, Commit, NEW b, b = Before
    PROVE  /\ b \in App
           /\ \/ /\ app' = b
                 /\ (rendered # NotRendered /\ ~Fresh /\ ~Moved) \/ Url(app).query = None \/ Matching
              \/ /\ app' = RedirectWithQueryBuilderData(b, Url(app).query.content, FALSE)
                 /\ Url(app).query # None /\ ~Url(app).query.complete /\ Stays(b)
              \/ /\ app' = InitQueryBuilderData(b, app)
                 /\ Url(app).query # None /\ Url(app).query.complete /\ Stays(b) /\ ~Matching
<1>1. app \in App /\ app.history # <<>>
  BY DEF QueryInv, TypeOK
<1>2. /\ b \in App
      /\ Url(app).query # None => Stays(b)
  <2>1. CASE Fresh
    BY <1>1, <2>1, BeforeFresh DEF QueryInv, IdInv
  <2>2. CASE ~Fresh
    BY <1>1, <2>2, BeforeStay
  <2> QED
    BY <2>1, <2>2
<1>3. app' = UrlEffect(b)
  BY DEF Commit, Before
<1>4. CASE ~(Fresh \/ Changed("history") \/ Changed("staged") \/ Changed("called"))
  <2>1. app' = b
    BY <1>3, <1>4 DEF UrlEffect
  <2>2. rendered # NotRendered /\ ~Fresh /\ ~Moved
    BY <1>4 DEF Changed, Fresh, Moved
  <2> QED
    BY <1>2, <2>1, <2>2
<1>5. CASE Fresh \/ Changed("history") \/ Changed("staged") \/ Changed("called")
  <2>1. app' = IF Url(app).query = None THEN b
               ELSE IF Matching THEN b
               ELSE IF ~Url(app).query.complete
               THEN RedirectWithQueryBuilderData(b, Url(app).query.content, FALSE)
               ELSE InitQueryBuilderData(b, app)
    BY <1>3, <1>5 DEF UrlEffect, Matching
  <2> QED
    BY <1>2, <2>1
<1> QED
  BY <1>4, <1>5

LEMMA CommitRedirects ==
    ASSUME QueryInv, Commit, NEW b, b = Before, Url(app).query # None, Stays(b),
           app' = RedirectWithQueryBuilderData(b, Url(app).query.content, FALSE)
    PROVE  /\ app' \in App /\ app'.staged = b.staged /\ app'.called = b.called
           /\ app'.current = b.current /\ app'.touched = b.touched
           /\ \E q : Redirected(app', q) /\ q.content = Url(app).query.content
<1>1. app \in App /\ app.history # <<>> /\ b \in App
  BY UrlCases DEF QueryInv, TypeOK
<1>2. \A q \in Queries(app) : q.id <= app.ids
  BY DEF QueryInv, IdInv
<1>3. Url(app).query.content \in Content
  BY <1>1, UrlFacts DEF UrlQuery
<1> DEFINE c == Url(app).query.content
<1> HIDE DEF c
<1>4. c \in Content /\ app' = RedirectWithQueryBuilderData(b, c, FALSE)
  BY <1>3 DEF c
<1>5. b.history = app.history /\ b.ids = app.ids
  BY DEF Stays
<1>6. ASSUME NEW t, NEW adds \in BOOLEAN, t = RedirectWithQueryBuilderData(b, c, adds)
      PROVE  /\ t \in App /\ \E q : Redirected(t, q) /\ q.content = c
             /\ t.staged = b.staged /\ t.current = b.current /\ t.touched = b.touched
             /\ t.called = b.called
  BY <1>1, <1>2, <1>4, <1>5, <1>6, RedirectFacts
<1> QED
  BY <1>4, <1>6 DEF c

LEMMA CommitStages ==
    ASSUME QueryInv, Commit, NEW b \in App, Url(app).query # None, Stays(b),
           app' = InitQueryBuilderData(b, app)
    PROVE  /\ app' \in App /\ Stays(app') /\ app'.called = b.called /\ app'.touched = TRUE
           /\ app'.staged \in StagedQuery /\ app'.staged.id = Url(app).query.id
           /\ app'.staged.content = app'.current
           /\ app'.current.signal = Url(app).query.content.signal
           /\ Page(app) # "explorer" \/ app.called => app'.current = Url(app).query.content
<1> DEFINE q == Url(app).query
           c == PrepareQueryBuilderData(app, q.content)
           g == [id |-> q.id, content |-> c]
<1>1. app \in App /\ app.history # <<>>
  BY DEF QueryInv, TypeOK
<1>2. q \in UrlQuery
  BY <1>1, UrlFacts
<1>3. q.id \in Nat /\ q.content \in Content
  BY <1>2 DEF UrlQuery
<1>4. app' = SetCurrentQuery([b EXCEPT !.staged = g], c)
  BY DEF InitQueryBuilderData
<1> HIDE DEF q
<1>5. /\ c \in Content /\ c.signal = q.content.signal
      /\ Page(app) # "explorer" \/ app.called => c = q.content
  BY <1>1, <1>3, PrepareFacts
<1> HIDE DEF c
<1>6. g \in StagedQuery /\ g.id = q.id /\ g.content = c
  BY <1>3, <1>5 DEF StagedQuery
<1> HIDE DEF g
<1>7. /\ app' \in App /\ app'.staged = g /\ app'.current = c /\ app'.touched = TRUE
      /\ app'.history = b.history /\ app'.ids = b.ids /\ app'.called = b.called
  BY <1>4, <1>5, <1>6 DEF App, SetCurrentQuery
<1> QED
  BY <1>5, <1>6, <1>7 DEF q, Stays

\* What the effects before the one on the URL leave in t.
KeepsStaged(t) ==
    \/ ~Fresh /\ t.staged = app.staged
    \/ Fresh /\ (t.staged = None \/ (rendered = NotRendered /\ t.staged = app.staged))
KeepsCalled(t) == t.called = IF Fresh THEN FALSE ELSE app.called
KeepsCurrent(t) ==
    /\ ~Fresh => \/ /\ t.current = app.current /\ t.touched = FALSE
                    /\ Page(app) = "alert" /\ app.touched => app.current.step
                 \/ t.current = NormalizeAlertTimeSeriesQuery(app.current) /\ t.touched = TRUE
    /\ Fresh /\ Page(app) = "alert" => t.current = InitialAlertQuery /\ t.touched = TRUE

\* The three outcomes of a commit.
CommitKeeps ==
    /\ Stays(app') /\ KeepsStaged(app') /\ KeepsCurrent(app')
    /\ (rendered # NotRendered /\ ~Fresh /\ ~Moved) \/ Url(app).query = None \/ Matching
CommitMoves ==
    /\ KeepsStaged(app') /\ KeepsCurrent(app')
    /\ \E q : /\ Redirected(app', q)
              /\ Url(app).query # None => q.content = Url(app).query.content
              /\ Url(app).query = None => Fresh /\ Page(app) = "explorer"
CommitLoads ==
    /\ Stays(app') /\ Url(app).query # None /\ Url(app).query.complete /\ ~Matching
    /\ app'.touched = TRUE
    /\ app'.staged \in StagedQuery /\ app'.staged.id = Url(app).query.id
    /\ app'.staged.content = app'.current
    /\ app'.current.signal = Url(app).query.content.signal
    /\ Page(app) # "explorer" \/ app.called => app'.current = Url(app).query.content

LEMMA BeforeFacts ==
    ASSUME QueryInv, NEW b, b = Before
    PROVE  /\ b \in App /\ KeepsStaged(b) /\ KeepsCalled(b) /\ KeepsCurrent(b)
           /\ \/ Stays(b)
              \/ Fresh /\ Page(app) = "explorer" /\ Url(app).query = None /\ \E q : Redirected(b, q)
<1>1. /\ app \in App /\ app.history # <<>> /\ CalledInv
      /\ \A q \in Queries(app) : q.id <= app.ids
  BY DEF QueryInv, TypeOK, IdInv
<1>2. CASE Fresh
  <2>1. /\ b \in App /\ b.called = FALSE
        /\ b.staged = None \/ (rendered = NotRendered /\ b.staged = app.staged)
        /\ \/ Stays(b)
           \/ /\ Page(app) = "explorer" /\ Url(app).query = None
              /\ \E q : Redirected(b, q)
        /\ Page(app) = "alert" => b.current = InitialAlertQuery /\ b.touched = TRUE
    BY <1>1, <1>2, BeforeFresh
  <2> QED
    BY <1>2, <2>1 DEF KeepsStaged, KeepsCalled, KeepsCurrent
<1>3. CASE ~Fresh
  <2>1. /\ b \in App /\ Stays(b) /\ b.staged = app.staged /\ b.called = app.called
        /\ \/ /\ b.current = app.current /\ b.touched = FALSE
              /\ Page(app) = "alert" /\ app.touched => app.current.step
           \/ b.current = NormalizeAlertTimeSeriesQuery(app.current) /\ b.touched = TRUE
    BY <1>1, <1>3, BeforeStay
  <2> QED
    BY <1>3, <2>1 DEF KeepsStaged, KeepsCalled, KeepsCurrent
<1> QED
  BY <1>2, <1>3

LEMMA CommitShape ==
    ASSUME QueryInv, Commit
    PROVE  /\ app' \in App /\ KeepsCalled(app')
           /\ CommitKeeps \/ CommitMoves \/ CommitLoads
<1>1. PICK b : b = Before
  OBVIOUS
<1>2. /\ b \in App /\ KeepsStaged(b) /\ KeepsCalled(b) /\ KeepsCurrent(b)
      /\ \/ Stays(b)
         \/ Fresh /\ Page(app) = "explorer" /\ Url(app).query = None /\ \E q : Redirected(b, q)
  BY <1>1, BeforeFacts
<1>3. CASE /\ app' = b
           /\ (rendered # NotRendered /\ ~Fresh /\ ~Moved) \/ Url(app).query = None \/ Matching
  BY <1>2, <1>3 DEF CommitKeeps, CommitMoves
<1>4. CASE /\ app' = RedirectWithQueryBuilderData(b, Url(app).query.content, FALSE)
           /\ Url(app).query # None /\ ~Url(app).query.complete /\ Stays(b)
  <2>1. /\ app' \in App /\ app'.staged = b.staged /\ app'.called = b.called
        /\ app'.current = b.current /\ app'.touched = b.touched
        /\ \E q : Redirected(app', q) /\ q.content = Url(app).query.content
    BY <1>1, <1>4, CommitRedirects
  <2> QED
    BY <1>2, <1>4, <2>1 DEF CommitMoves, KeepsStaged, KeepsCalled, KeepsCurrent
<1>5. CASE /\ app' = InitQueryBuilderData(b, app)
           /\ Url(app).query # None /\ Url(app).query.complete /\ Stays(b) /\ ~Matching
  BY <1>2, <1>5, CommitStages DEF CommitLoads, KeepsCalled
<1> QED
  BY <1>1, <1>3, <1>4, <1>5, UrlCases

\* The history after a commit: its queries are old ones, or one with a new id.
LEMMA CommitQueries ==
    ASSUME QueryInv, Commit
    PROVE  /\ app'.history # <<>> /\ Page(app') = Page(app) /\ app'.ids >= app.ids
           /\ \A q \in Queries(app') : q \in Queries(app)
                 \/ (q \in UrlQuery /\ q.id = app.ids + 1 /\ q.complete /\ app'.ids = app.ids + 1)
           /\ \A q \in Queries(app') : q \in UrlQuery
<1>1. app \in App /\ app.history # <<>>
  BY DEF QueryInv, TypeOK
<1>2. app.ids \in Nat /\ Queries(app) \subseteq UrlQuery
  BY <1>1, AppFields, UrlFacts
<1>3. CASE Stays(app')
  BY <1>1, <1>2, <1>3 DEF Stays, Page, Url, Queries
<1>4. CASE \E q : Redirected(app', q)
  BY <1>2, <1>4 DEF Redirected
<1> QED
  BY <1>3, <1>4, CommitShape DEF CommitKeeps, CommitMoves, CommitLoads

LEMMA CommitTypes == ASSUME QueryInv, Commit PROVE TypeOK' /\ RenderInv'
<1>1. app \in App /\ app.history # <<>> /\ app' \in App /\ app'.history # <<>>
  BY CommitShape, CommitQueries DEF QueryInv, TypeOK
<1>2. /\ rendered' = Shown /\ ran' = ran /\ EditorCommit
      /\ misled' = IF Fresh /\ Page(app) = "alert" THEN Contradicts ELSE misled
  BY DEF Commit
<1>3. /\ rendered' \in App /\ rendered'.history = app.history /\ rendered'.touched = FALSE
      /\ Page(rendered') = Page(app)
  BY <1>1, <1>2, ShownFields
<1>4. editor' \in Editor \cup {None} /\ (Page(app) = "alert" => editor' \in Editor)
  <2>1. NewEditor \in Editor
    BY <1>1, InitialFacts
  <2>2. Page(app) = "alert" /\ ~Fresh => editor \in Editor
    BY DEF QueryInv, TypeOK, RenderInv, Fresh
  <2>3. editor \in Editor => [editor EXCEPT !.preview = None] \in Editor
    BY DEF Editor
  <2> QED
    BY <1>2, <2>1, <2>2, <2>3 DEF EditorCommit
<1>5. TypeOK'
  BY <1>1, <1>2, <1>3, <1>4 DEF QueryInv, TypeOK, Contradicts
<1>6. RenderInv'
  BY <1>1, <1>3, <1>4, Kinds DEF RenderInv
<1> QED
  BY <1>5, <1>6

\* The staged query after a commit.
LEMMA CommitStaged ==
    ASSUME QueryInv, Commit
    PROVE  \/ app'.staged = app.staged
           \/ app'.staged = None
           \/ /\ Url(app).query # None /\ Url(app).query \in Queries(app)
              /\ Url(app).query.complete /\ app'.staged.id = Url(app).query.id
              /\ app'.staged \in StagedQuery /\ Stays(app')
              /\ Page(app) # "explorer" \/ app.called =>
                   app'.staged.content = Url(app).query.content
<1>1. app \in App /\ app.history # <<>>
  BY DEF QueryInv, TypeOK
<1> QED
  BY <1>1, CommitShape, UrlFacts DEF CommitKeeps, CommitMoves, CommitLoads, KeepsStaged

LEMMA CommitIds == ASSUME QueryInv, Commit PROVE IdInv' /\ CompleteInv'
<1>1. app \in App /\ app.ids \in Nat /\ app'.ids \in Nat /\ app.staged \in StagedQuery \cup {None}
  BY AppFields, CommitShape DEF QueryInv, TypeOK
<1>2. /\ \A q \in Queries(app) : q \in UrlQuery /\ q.id \in Nat /\ q.id <= app.ids
      /\ app.staged # None => app.staged.id \in Nat /\ app.staged.id <= app.ids
      /\ ran # None => ran.id \in Nat /\ ran.id <= app.ids
  BY <1>1, UrlFacts DEF QueryInv, TypeOK, IdInv, UrlQuery, StagedQuery
<1>3. /\ app'.ids >= app.ids
      /\ \A q \in Queries(app') : q \in Queries(app)
            \/ (q \in UrlQuery /\ q.id = app.ids + 1 /\ q.complete /\ app'.ids = app.ids + 1)
  BY CommitQueries
<1>4. \/ app'.staged = app.staged
      \/ app'.staged = None
      \/ /\ Url(app).query \in Queries(app)
         /\ Url(app).query.complete /\ app'.staged.id = Url(app).query.id
  BY CommitStaged
<1>5. ran' = ran
  BY DEF Commit
<1>6. IdInv'
  BY <1>1, <1>2, <1>3, <1>4, <1>5 DEF IdInv
<1>7. /\ \A p, q \in Queries(app) : p.id = q.id => p.complete = q.complete
      /\ app.staged # None => \A q \in Queries(app) : q.id = app.staged.id => q.complete
  BY DEF QueryInv, CompleteInv
<1>8. \A q \in UrlQuery : q.complete \in BOOLEAN
  BY DEF UrlQuery
<1>9. ASSUME NEW p \in Queries(app'), NEW q \in Queries(app'), p.id = q.id
      PROVE  p.complete = q.complete
  <2>1. CASE p \in Queries(app) /\ q \in Queries(app)
    BY <1>7, <1>9, <2>1
  <2>2. CASE p \notin Queries(app) \/ q \notin Queries(app)
    <3>1. p \notin Queries(app) /\ q \notin Queries(app)
      BY <1>1, <1>2, <1>3, <1>9, <2>2
    <3> QED
      BY <1>3, <1>8, <3>1
  <2> QED
    BY <2>1, <2>2
<1>10. ASSUME app'.staged # None, NEW q \in Queries(app'), q.id = app'.staged.id
       PROVE  q.complete
  BY <1>1, <1>2, <1>3, <1>4, <1>7, <1>10
<1>11. CompleteInv'
  BY <1>9, <1>10 DEF CompleteInv
<1> QED
  BY <1>6, <1>11

LEMMA CommitStagedInv == ASSUME QueryInv, Commit PROVE StagedInv'
<1>1. app \in App /\ app.history # <<>>
  BY DEF QueryInv, TypeOK
<1>2. rendered'.history = app.history /\ rendered'.staged = app.staged
  BY <1>1, ShownFields DEF Commit
<1>3. SUFFICES ASSUME app'.history = app.history, app'.staged = app.staged, Url(app').query # None
               PROVE  /\ Url(app').query.complete
                      /\ app'.staged # None /\ app'.staged.id = Url(app').query.id
  BY <1>2 DEF StagedInv, Moved
<1>4. Url(app') = Url(app)
  BY <1>3 DEF Url
<1>5. ~CommitLoads
  BY <1>3, Kinds DEF CommitLoads, Matching
<1>6. ~CommitMoves
  BY <1>3 DEF CommitMoves, Redirected
<1>7. CommitKeeps
  BY <1>5, <1>6, CommitShape
<1>8. CASE rendered # NotRendered /\ ~Fresh /\ ~Moved
  BY <1>3, <1>4, <1>8 DEF QueryInv, StagedInv
<1>9. CASE Matching
  <2>1. Url(app).query \in Queries(app)
    BY <1>1, <1>3, <1>4, UrlFacts
  <2> QED
    BY <1>3, <1>4, <1>9, <2>1 DEF Matching, QueryInv, CompleteInv
<1> QED
  BY <1>3, <1>4, <1>7, <1>8, <1>9 DEF CommitKeeps

LEMMA CommitCalled == ASSUME QueryInv, Commit PROVE CalledInv' /\ RanInv'
<1>1. app \in App /\ app.history # <<>> /\ app.ids \in Nat /\ app.staged \in StagedQuery \cup {None}
  BY AppFields DEF QueryInv, TypeOK
<1>2. /\ rendered' \in App /\ Page(rendered') = Page(app) /\ rendered'.history = app.history
      /\ ran' = ran
  BY <1>1, ShownFields DEF Commit
<1>3. Page(app') = Page(app)
  BY CommitQueries
<1>4. app'.called => app.called /\ ~Fresh
  BY CommitShape DEF KeepsCalled
<1>5. CalledInv'
  <2>1. SUFFICES ASSUME app'.called PROVE Page(app) = "explorer" /\ app'.staged # None
    BY <1>2, Kinds DEF CalledInv
  <2>2. Page(app) = "explorer"
    BY <1>4, <2>1 DEF QueryInv, CalledInv, Fresh
  <2>3. app'.staged # None
    <3>1. CASE app.staged # None
      BY <1>4, <2>1, <3>1, CommitShape, Kinds
         DEF CommitKeeps, CommitMoves, CommitLoads, KeepsStaged
    <3>2. CASE app.staged = None
      <4>1. rendered.history # app.history /\ Url(app).query # None /\ Url(app).query.complete
        BY <1>4, <2>1, <3>2 DEF QueryInv, CalledInv
      <4>2. ~CommitKeeps
        BY <3>2, <4>1 DEF CommitKeeps, Moved, Matching
      <4>3. ~CommitMoves
        <5>1. PICK b : b = Before
          OBVIOUS
        <5>2. app' = InitQueryBuilderData(b, app) /\ Stays(b) /\ b \in App
          BY <3>2, <4>1, <5>1, UrlCases DEF Moved, Matching
        <5>3. Stays(app')
          BY <4>1, <5>2, CommitStages
        <5> QED
          BY <5>3 DEF CommitMoves, Redirected, Stays
      <4> QED
        BY <4>2, <4>3, CommitShape, Kinds DEF CommitLoads
    <3> QED
      BY <3>1, <3>2
  <2> QED
    BY <2>2, <2>3
<1>6. RanInv'
  <2>1. SUFFICES ASSUME ran # None PROVE RanInv'
    BY <1>2 DEF RanInv
  <2>2. /\ app.called /\ Page(app) = "explorer"
        /\ \A q \in Queries(app) : q.id = ran.id => q.content = ran.content
        /\ app.staged # None /\ app.staged.id = ran.id => app.staged.content = ran.content
    BY <2>1 DEF QueryInv, RanInv
  <2>3. rendered # NotRendered /\ Page(rendered) = "explorer"
    BY <2>2 DEF QueryInv, CalledInv
  <2>4. app'.called
    BY <2>2, <2>3, CommitShape DEF KeepsCalled, Fresh
  <2>5. ran.id \in Nat /\ ran.id <= app.ids
    BY <2>1 DEF QueryInv, TypeOK, IdInv, StagedQuery
  <2>6. \A q \in Queries(app') : q.id = ran.id => q.content = ran.content
    BY <1>1, <2>2, <2>5, CommitQueries
  <2>7. app'.staged # None /\ app'.staged.id = ran.id => app'.staged.content = ran.content
    BY <2>2, CommitStaged
  <2> QED
    BY <1>2, <1>3, <2>2, <2>4, <2>6, <2>7 DEF RanInv
<1> QED
  BY <1>5, <1>6

LEMMA CommitEditor == ASSUME QueryInv, Commit PROVE StepInv' /\ PreviewInv' /\ SignalInv'
<1>1. app \in App /\ app.history # <<>> /\ app.current \in Content /\ app.touched \in BOOLEAN
  BY AppFields DEF QueryInv, TypeOK
<1>2. /\ rendered' \in App /\ Page(rendered') = Page(app) /\ EditorCommit
      /\ misled' = IF Fresh /\ Page(app) = "alert" THEN Contradicts ELSE misled
  BY <1>1, ShownFields DEF Commit
<1>3. Page(app') = Page(app)
  BY CommitQueries
<1>4. SUFFICES ASSUME Page(app) = "alert" PROVE StepInv' /\ PreviewInv' /\ SignalInv'
  BY <1>2, <1>3, Kinds DEF StepInv, PreviewInv, SignalInv, Editing
<1>5. Url(app).query # None => Url(app).query.content \in Content
  BY <1>1, UrlFacts DEF UrlQuery
<1>6. Url(app').query # None =>
        Url(app).query # None /\ Url(app').query.content = Url(app).query.content
  <2>1. CASE Stays(app')
    BY <2>1 DEF Stays, Url
  <2>2. CASE CommitMoves
    BY <1>4, <2>2 DEF CommitMoves, Redirected
  <2> QED
    BY <2>1, <2>2, CommitShape DEF CommitKeeps, CommitLoads
<1>7. CASE Fresh
  <2>1. editor' = NewEditor
    BY <1>2, <1>4, <1>7 DEF EditorCommit
  <2>2. /\ app'.touched = TRUE
        /\ ~Contradicts => app'.current.signal = InitialType
    BY <1>1, <1>4, <1>7, CommitShape, InitialFacts
       DEF CommitKeeps, CommitMoves, CommitLoads, KeepsCurrent
  <2>3. StepInv' /\ PreviewInv'
    BY <2>2 DEF StepInv, PreviewInv
  <2>4. /\ editor'.type = InitialType /\ editor'.drafts[InitialType] = InitialAlertQuery
        /\ \A t \in Signals : editor'.drafts[t] # None => t = InitialType
    BY <1>1, <2>1, InitialFacts DEF NewEditor
  <2>5. SignalInv'
    <3>1. misled' = Contradicts
      BY <1>2, <1>4, <1>7
    <3> QED
      BY <1>1, <1>6, <2>2, <2>4, <3>1, InitialFacts DEF SignalInv
  <2> QED
    BY <2>3, <2>5
<1>8. CASE ~Fresh
  <2>1. Editing /\ editor \in Editor
    BY <1>4, <1>8 DEF Editing, Fresh, QueryInv, TypeOK, RenderInv
  <2>2. \/ /\ app'.current = app.current /\ app'.touched = FALSE
           /\ app.touched => app.current.step
        \/ app'.current = NormalizeAlertTimeSeriesQuery(app.current) /\ app'.touched = TRUE
        \/ /\ app'.touched = TRUE /\ Url(app).query # None
           /\ app'.current.signal = Url(app).query.content.signal
    BY <1>4, <1>8, CommitShape DEF CommitKeeps, CommitMoves, CommitLoads, KeepsCurrent
  <2>3. StepInv'
    BY <2>1, <2>2 DEF QueryInv, StepInv
  <2>4. /\ editor'.type = editor.type /\ editor'.drafts = editor.drafts
        /\ editor'.preview # None => editor'.preview = app.current
    <3>1. editor' = IF editor.preview # None /\ editor.preview # app.current
                    THEN [editor EXCEPT !.preview = None] ELSE editor
      BY <1>2, <1>4, <1>8 DEF EditorCommit
    <3> QED
      BY <2>1, <3>1 DEF Editor
  <2>5. PreviewInv'
    BY <2>2, <2>4 DEF PreviewInv
  <2>6. SignalInv'
    <3>1. SUFFICES ASSUME ~misled
                   PROVE  /\ app'.current.signal = editor.type
                          /\ Url(app').query # None => Url(app').query.content.signal = editor.type
                          /\ \A t \in Signals : editor.drafts[t] # None => editor.drafts[t].signal = t
      BY <1>2, <1>8, <2>4 DEF SignalInv
    <3>2. /\ app.current.signal = editor.type
          /\ Url(app).query # None => Url(app).query.content.signal = editor.type
          /\ \A t \in Signals : editor.drafts[t] # None => editor.drafts[t].signal = t
      BY <2>1, <3>1 DEF QueryInv, SignalInv
    <3>3. NormalizeAlertTimeSeriesQuery(app.current).signal = app.current.signal
      BY <1>1, ContentFields
    <3> QED
      BY <1>6, <2>2, <3>2, <3>3
  <2> QED
    BY <2>3, <2>5, <2>6
<1> QED
  BY <1>7, <1>8

LEMMA CommitStep == ASSUME QueryInv, Commit PROVE QueryInv'
  BY CommitTypes, CommitIds, CommitStagedInv, CommitCalled, CommitEditor DEF QueryInv

----------------------------------------------------------------------------
(* The user's steps *)

\* A page that has settled.
LEMMA IdleFacts ==
    ASSUME QueryInv, Idle
    PROVE  /\ app \in App /\ app.history # <<>> /\ rendered = app /\ rendered # NotRendered
           /\ app.ids \in Nat /\ app.staged \in StagedQuery \cup {None}
           /\ app.current \in Content /\ app.touched = FALSE /\ app.called \in BOOLEAN
           /\ app.called => app.staged # None /\ Page(app) = "explorer"
           /\ Page(app) = "alert" => Editing /\ editor \in Editor /\ app.current.step
<1>1. app = rendered /\ app \in App /\ app.history # <<>> /\ editor \in Editor \cup {None}
  BY DEF Idle, Pending, QueryInv, TypeOK
<1>2. rendered # NotRendered
  BY <1>1, Kinds
<1>3. app.touched = FALSE
  BY <1>1, <1>2, AppFields DEF QueryInv, RenderInv
<1>4. app.called => app.staged # None /\ Page(app) = "explorer"
  BY <1>1 DEF QueryInv, CalledInv
<1>5. Page(app) = "alert" => Editing /\ editor \in Editor /\ app.current.step
  BY <1>1, <1>2, <1>3 DEF QueryInv, RenderInv, Editing, StepInv
<1> QED
  BY <1>1, <1>2, <1>3, <1>4, <1>5, AppFields

\* A redirect with a new id, from a page that has settled.
LEMMA RedirectStep ==
    ASSUME QueryInv, Idle, app' \in App, rendered' = rendered, NEW q, Redirected(app', q),
           app'.staged = app.staged \/ app'.staged = None,
           ran' = ran \/ (ran' \in StagedQuery /\ ran'.id = app.ids + 1)
    PROVE  IdInv' /\ CompleteInv' /\ StagedInv'
<1>1. /\ app \in App /\ rendered = app /\ app.ids \in Nat /\ app.history # <<>>
      /\ app.staged \in StagedQuery \cup {None}
  BY IdleFacts
<1>2. /\ \A p \in Queries(app) : p \in UrlQuery /\ p.id \in Nat /\ p.id <= app.ids
      /\ app.staged # None => app.staged.id \in Nat /\ app.staged.id <= app.ids
      /\ ran # None => ran.id \in Nat /\ ran.id <= app.ids
  BY <1>1, UrlFacts DEF QueryInv, TypeOK, IdInv, UrlQuery, StagedQuery
<1>3. /\ app'.ids = app.ids + 1 /\ app'.history # app.history
      /\ q.id = app.ids + 1 /\ q.complete /\ q \in UrlQuery
      /\ \A p \in Queries(app') : p \in Queries(app) \/ p = q
  BY DEF Redirected
<1>4. IdInv'
  BY <1>1, <1>2, <1>3 DEF IdInv
<1>5. CompleteInv'
  BY <1>1, <1>2, <1>3 DEF QueryInv, CompleteInv
<1>6. StagedInv'
  BY <1>1, <1>3 DEF StagedInv, Moved
<1> QED
  BY <1>4, <1>5, <1>6

\* The run button, the time picker and the views of an explorer.
LEMMA ExplorerStep ==
    ASSUME QueryInv, On("explorer"), UNCHANGED <<rendered, editor, misled>>,
           NEW s \in App, Stays(s), s.staged = app.staged,
           NEW c \in Content, NEW adds \in BOOLEAN,
           app' = RedirectWithQueryBuilderData(s, c, adds),
           \/ s.called = app.called /\ ran' = ran
           \/ s.called = TRUE /\ ran' = [id |-> app.ids + 1, content |-> c]
    PROVE  QueryInv'
<1>1. Idle /\ Page(app) = "explorer"
  BY DEF On
<1>2. /\ app \in App /\ app.history # <<>> /\ rendered = app /\ rendered # NotRendered
      /\ app.ids \in Nat /\ app.called \in BOOLEAN
      /\ app.called => app.staged # None
      /\ app.staged \in StagedQuery \cup {None}
  BY <1>1, IdleFacts
<1>3. \A p \in Queries(app) : p \in UrlQuery /\ p.id \in Nat /\ p.id <= app.ids
  BY <1>2, UrlFacts DEF QueryInv, IdInv, UrlQuery
<1>4. /\ app' \in App /\ app'.staged = app.staged /\ app'.called = s.called
      /\ \E q : Redirected(app', q) /\ q.content = c
  BY <1>2, <1>3, RedirectFacts DEF Stays
<1>5. PICK q : Redirected(app', q) /\ q.content = c
  BY <1>4
<1>6. /\ app'.history # app.history /\ app'.history # <<>> /\ Page(app') = "explorer"
      /\ Url(app').query = q /\ q.complete /\ q.id = app.ids + 1 /\ q \in UrlQuery
      /\ \A p \in Queries(app') : p \in Queries(app) \/ p = q
  BY <1>1, <1>5 DEF Redirected
<1>7. \/ app'.called = app.called /\ ran' = ran
      \/ /\ app'.called = TRUE /\ ran' \in StagedQuery /\ ran'.id = app.ids + 1 /\ ran'.content = c
  <2>1. CASE s.called = TRUE /\ ran' = [id |-> app.ids + 1, content |-> c]
    <3>1. ran' \in StagedQuery /\ ran'.id = app.ids + 1 /\ ran'.content = c
      BY <1>2, <2>1 DEF StagedQuery
    <3> QED
      BY <1>4, <2>1, <3>1, Zenon
  <2> QED
    BY <1>4, <2>1, Zenon
<1>8. IdInv' /\ CompleteInv' /\ StagedInv'
  BY <1>1, <1>4, <1>5, <1>7, RedirectStep
<1>9. TypeOK' /\ RenderInv'
  BY <1>4, <1>6, <1>7 DEF QueryInv, TypeOK, RenderInv
<1>10. CalledInv'
  BY <1>1, <1>2, <1>4, <1>6, <1>7, Kinds DEF CalledInv
<1>11. RanInv'
  <2>1. CASE app'.called = app.called /\ ran' = ran
    <3>1. ran # None => ran.id \in Nat /\ ran.id <= app.ids
      BY DEF QueryInv, TypeOK, IdInv, StagedQuery
    <3>2. RanInv
      BY DEF QueryInv
    <3>3. SUFFICES ASSUME ran # None PROVE RanInv'
      BY <2>1 DEF RanInv
    <3>4. \A p \in Queries(app') : p.id = ran.id => p.content = ran.content
      BY <1>2, <1>6, <3>1, <3>2, <3>3 DEF RanInv
    <3> QED
      BY <1>2, <1>4, <1>6, <2>1, <3>2, <3>3, <3>4 DEF RanInv
  <2>2. CASE app'.called = TRUE /\ ran' \in StagedQuery /\ ran'.id = app.ids + 1 /\ ran'.content = c
    <3>1. app.staged # None => app.staged.id \in Nat /\ app.staged.id <= app.ids
      BY <1>2 DEF QueryInv, IdInv, StagedQuery
    <3>2. \A p \in Queries(app') : p.id = ran'.id => p.content = c
      BY <1>2, <1>3, <1>5, <1>6, <2>2
    <3>3. ~(app'.staged # None /\ app'.staged.id = ran'.id)
      BY <1>2, <1>4, <2>2, <3>1
    <3> QED
      BY <1>6, <2>2, <3>2, <3>3 DEF RanInv
  <2> QED
    BY <1>7, <2>1, <2>2
<1>12. StepInv' /\ PreviewInv' /\ SignalInv'
  BY <1>6 DEF StepInv, PreviewInv, SignalInv, Editing
<1> QED
  BY <1>8, <1>9, <1>10, <1>11, <1>12 DEF QueryInv

\* What a handler's redirect comes to: it is ignored only where the URL has a query.
LEMMA RedirectsCases ==
    ASSUME NEW s, NEW c, NEW adds, NEW t \in Redirects(s, c, adds)
    PROVE  \/ t = RedirectWithQueryBuilderData(s, c, adds)
           \/ t = s /\ Url(app).query # None /\ Url(app).query.content = c
  BY DEF Redirects

\* An explorer has settled on a query: it is staged.
LEMMA SettledQuery ==
    ASSUME QueryInv, Idle, Url(app).query # None
    PROVE  /\ Url(app).query.complete
           /\ app.staged # None /\ app.staged.id = Url(app).query.id
<1>1. rendered = app /\ rendered # NotRendered
  BY IdleFacts
<1> QED
  BY <1>1 DEF QueryInv, StagedInv, Moved

\* An explorer keeps the query in its URL, and that of the run button its content.
LEMMA KeptUrlStep ==
    ASSUME QueryInv, On("explorer"), UNCHANGED <<rendered, editor, ran, misled>>,
           app' \in App, app'.history # <<>>, app'.ids = app.ids,
           Page(app') = "explorer", Url(app').query = Url(app).query,
           \A q \in Queries(app') : q \in Queries(app),
           app.staged # None, app'.staged \in StagedQuery, app'.staged.id = app.staged.id,
           app.called => app'.called /\ app'.staged.content = app.staged.content
    PROVE  QueryInv'
<1>1. Idle /\ Page(app) = "explorer"
  BY DEF On
<1>2. /\ rendered = app /\ rendered # NotRendered /\ app.called \in BOOLEAN
      /\ Url(app).query # None =>
           /\ Url(app).query.complete
           /\ app.staged # None /\ app.staged.id = Url(app).query.id
  BY <1>1, IdleFacts, SettledQuery
<1>3. app'.staged # None
  BY Kinds
<1>4. TypeOK' /\ RenderInv'
  BY DEF QueryInv, TypeOK, RenderInv
<1>5. IdInv' /\ CompleteInv'
  BY <1>3 DEF QueryInv, IdInv, CompleteInv
<1>6. StagedInv'
  BY <1>2, <1>3 DEF StagedInv
<1>7. CalledInv'
  BY <1>1, <1>2, <1>3 DEF CalledInv
<1>8. RanInv'
  BY <1>1, <1>3 DEF QueryInv, RanInv
<1>9. StepInv' /\ PreviewInv' /\ SignalInv'
  BY DEF StepInv, PreviewInv, SignalInv, Editing
<1> QED
  BY <1>4, <1>5, <1>6, <1>7, <1>8, <1>9 DEF QueryInv

\* A redirect from an explorer is ignored: the mark of the run button at most is set.
LEMMA IgnoredStep ==
    ASSUME QueryInv, On("explorer"), UNCHANGED <<rendered, editor, ran, misled>>,
           Url(app).query # None, app' \in App, Stays(app'), app'.staged = app.staged,
           app.called => app'.called
    PROVE  QueryInv'
<1>1. Idle /\ Page(app) = "explorer"
  BY DEF On
<1>2. app.staged # None /\ app.staged \in StagedQuery \cup {None} /\ app.history # <<>>
  BY <1>1, SettledQuery, IdleFacts
<1>3. /\ app'.history = app.history /\ app'.ids = app.ids
      /\ Url(app') = Url(app) /\ Page(app') = Page(app) /\ Queries(app') = Queries(app)
  BY DEF Stays, Url, Page, Queries
<1> QED
  BY <1>1, <1>2, <1>3, KeptUrlStep

LEMMA HandleRunQueryStep == ASSUME QueryInv, HandleRunQuery PROVE QueryInv'
<1> DEFINE s == [app EXCEPT !.called = TRUE]
<1>1. app \in App /\ app.current \in Content /\ app.ids \in Nat /\ app.history # <<>>
  BY AppFields DEF QueryInv, TypeOK
<1>2. s \in App /\ Stays(s) /\ s.staged = app.staged /\ s.called = TRUE
  BY <1>1 DEF App, Stays
<1>3. /\ On("explorer") /\ UNCHANGED <<rendered, editor, misled>>
      /\ app' \in Redirects(s, app.current, FALSE)
      /\ ran' = IF app'.ids = app.ids THEN ran ELSE [id |-> app.ids + 1, content |-> app.current]
  BY DEF HandleRunQuery
<1> HIDE DEF s
<1>4. CASE app' = RedirectWithQueryBuilderData(s, app.current, FALSE)
  <2>1. \A q \in Queries(app) : q.id <= app.ids
    BY DEF QueryInv, IdInv
  <2>2. ASSUME NEW t, NEW adds \in BOOLEAN, t = RedirectWithQueryBuilderData(s, app.current, adds)
        PROVE  t.ids = app.ids + 1
    <3>1. s.history = app.history /\ s.ids = app.ids
      BY <1>2 DEF Stays
    <3> DEFINE c == app.current
    <3>2. c \in Content /\ t = RedirectWithQueryBuilderData(s, c, adds)
      BY <1>1, <2>2
    <3> HIDE DEF c
    <3>3. \E q : Redirected(t, q) /\ q.content = c
      BY <1>1, <1>2, <2>1, <3>1, <3>2, RedirectFacts
    <3> QED
      BY <3>3 DEF Redirected
  <2>3. app'.ids = app.ids + 1
    <3>1. \A adds \in BOOLEAN : app' = RedirectWithQueryBuilderData(s, app.current, adds)
             => app'.ids = app.ids + 1
      BY <2>2
    <3> QED
      BY <1>4, <3>1
  <2>5. ran' = [id |-> app.ids + 1, content |-> app.current]
    BY <1>1, <1>3, <2>3
  <2>4. \A adds \in BOOLEAN : app' = RedirectWithQueryBuilderData(s, app.current, adds) => QueryInv'
    BY <1>1, <1>2, <1>3, <2>5, ExplorerStep
  <2> QED
    BY <1>4, <2>4
<1>5. CASE app' = s /\ Url(app).query # None
  <2>1. ran' = ran
    BY <1>2, <1>3, <1>5 DEF Stays
  <2> QED
    BY <1>2, <1>3, <1>5, <2>1, IgnoredStep
<1> QED
  BY <1>3, <1>4, <1>5, RedirectsCases

LEMMA OnSelectHandlerStep ==
    ASSUME QueryInv, NEW adds \in BOOLEAN, OnSelectHandler(adds) PROVE QueryInv'
<1>1. app \in App /\ app.current \in Content /\ Stays(app)
  BY AppFields DEF QueryInv, TypeOK, Stays
<1>2. /\ On("explorer") /\ UNCHANGED <<rendered, editor, misled>> /\ ran' = ran
      /\ app' \in Redirects(app, app.current, adds)
  BY DEF OnSelectHandler
<1>3. CASE app' = RedirectWithQueryBuilderData(app, app.current, adds)
  BY <1>1, <1>2, <1>3, ExplorerStep
<1>4. CASE app' = app /\ Url(app).query # None
  BY <1>1, <1>2, <1>4, IgnoredStep
<1> QED
  BY <1>2, <1>3, <1>4, RedirectsCases

LEMMA HandleExplorerTabChangeStep ==
    ASSUME QueryInv, NEW c \in Content, NEW adds \in BOOLEAN, HandleExplorerTabChange(c, adds)
    PROVE  QueryInv'
<1>1. app \in App /\ Stays(app)
  BY DEF QueryInv, TypeOK, Stays
<1>2. /\ On("explorer") /\ UNCHANGED <<rendered, editor, misled>> /\ ran' = ran
      /\ app' \in Redirects(app, c, adds)
  BY DEF HandleExplorerTabChange
<1>3. CASE app' = RedirectWithQueryBuilderData(app, c, adds)
  BY <1>1, <1>2, <1>3, ExplorerStep
<1>4. CASE app' = app /\ Url(app).query # None
  BY <1>1, <1>2, <1>4, IgnoredStep
<1> QED
  BY <1>2, <1>3, <1>4, RedirectsCases

\* The time typed in: the staged query is prepared again, as the page shows it.
LEMMA OnValidCustomDateHandlerStep ==
    ASSUME QueryInv, NEW adds \in BOOLEAN, OnValidCustomDateHandler(adds) PROVE QueryInv'
<1> DEFINE s == IF adds THEN app ELSE Push(app, Url(app))
           c == PrepareQueryBuilderData(app, app.staged.content)
           g == [id |-> app.staged.id, content |-> c]
<1>1. /\ On("explorer") /\ app.staged # None /\ UNCHANGED <<rendered, editor, ran, misled>>
      /\ app' = SetCurrentQuery([s EXCEPT !.staged = g], c)
  BY DEF OnValidCustomDateHandler
<1>2. /\ app \in App /\ app.history # <<>> /\ Page(app) = "explorer"
      /\ app.staged \in StagedQuery
  BY <1>1, IdleFacts DEF On
<1>3. app.staged.id \in Nat /\ app.staged.content \in Content
  BY <1>2 DEF StagedQuery
<1>4. c \in Content /\ (app.called => c = app.staged.content)
  BY <1>2, <1>3, PrepareFacts
<1> HIDE DEF c
<1>5. g \in StagedQuery /\ g.id = app.staged.id /\ g.content = c
  BY <1>3, <1>4 DEF StagedQuery
<1> HIDE DEF g
<1>6. /\ Url(app) \in Location
      /\ Url(app).query # None => Url(app).query \in Queries(app)
  BY <1>2, UrlFacts
<1>7. /\ s \in App /\ s.history # <<>> /\ Url(s) = Url(app)
      /\ Queries(s) \subseteq Queries(app) \cup {Url(app).query}
      /\ s.called = app.called /\ s.ids = app.ids
  <2>1. CASE adds
    BY <1>2, <2>1
  <2>2. CASE ~adds
    <3>1. s = Push(app, Url(app))
      BY <2>2
    <3> HIDE DEF s
    <3> QED
      BY <1>2, <1>6, <3>1, PushFacts
  <2> QED
    BY <2>1, <2>2
<1> HIDE DEF s
<1>8. /\ app' \in App /\ app'.history = s.history /\ app'.ids = s.ids
      /\ app'.staged = g /\ app'.called = s.called
  BY <1>1, <1>4, <1>5, <1>7 DEF App, SetCurrentQuery
<1>9. /\ Url(app') = Url(app) /\ Page(app') = "explorer" /\ app'.history # <<>>
      /\ Queries(app') = Queries(s)
  BY <1>2, <1>7, <1>8 DEF Url, Page, Queries
<1>10. \A q \in Queries(app') : q \in Queries(app)
  BY <1>6, <1>7, <1>9 DEF Queries
<1> QED
  BY <1>1, <1>4, <1>5, <1>7, <1>8, <1>9, <1>10, KeptUrlStep

\* The history alone changes: a link, Back, an alert made from the explorer.
LEMMA HistoryStep ==
    ASSUME QueryInv, Idle, rendered' = rendered, editor' = editor, ran' = None,
           misled' \in BOOLEAN,
           app' \in App, app'.history # <<>>, app'.history # app.history,
           app'.staged = app.staged, app'.current = app.current, app'.touched = app.touched,
           app'.called = app.called, app'.ids = app.ids,
           \A q \in Queries(app') : q \in Queries(app)
              \/ (app.staged # None /\ q.complete = TRUE /\ q.id = app.staged.id),
           misled' \/ (Page(app) = "alert" /\ Page(app') = "alert" => Url(app').query = None),
           ~misled' => ~misled
    PROVE  QueryInv'
<1>1. /\ app \in App /\ app.history # <<>> /\ rendered = app /\ rendered # NotRendered
      /\ app.ids \in Nat /\ app.staged \in StagedQuery \cup {None}
      /\ app.called \in BOOLEAN
      /\ app.called => app.staged # None /\ Page(app) = "explorer"
      /\ Page(app) = "alert" => Editing /\ app.current.step
  BY IdleFacts
<1>2. TypeOK' /\ RenderInv'
  BY DEF QueryInv, TypeOK, RenderInv
<1>3. IdInv'
  BY DEF QueryInv, IdInv
<1>4. CompleteInv'
  <2>1. /\ \A p, q \in Queries(app) : p.id = q.id => p.complete = q.complete
        /\ app.staged # None => \A q \in Queries(app) : q.id = app.staged.id => q.complete
    BY DEF QueryInv, CompleteInv
  <2>2. \A q \in Queries(app) : q.complete \in BOOLEAN
    BY <1>1, UrlFacts DEF UrlQuery
  <2>3. app.staged # None => \A q \in Queries(app') : q.id = app.staged.id => q.complete = TRUE
    BY <2>1, <2>2
  <2>4. \A p, q \in Queries(app') : p.id = q.id => p.complete = q.complete
    BY <2>1, <2>3
  <2> QED
    BY <2>3, <2>4 DEF CompleteInv
<1>5. StagedInv'
  BY <1>1 DEF StagedInv, Moved
<1>6. CalledInv' /\ RanInv'
  BY <1>1 DEF CalledInv, RanInv
<1>7. Editing' => Editing /\ Page(app) = "alert" /\ Page(app') = "alert"
  BY <1>1 DEF Editing
<1>8. StepInv' /\ PreviewInv'
  BY <1>7 DEF QueryInv, StepInv, PreviewInv
<1>9. SignalInv'
  BY <1>7 DEF QueryInv, SignalInv
<1> QED
  BY <1>2, <1>3, <1>4, <1>5, <1>6, <1>8, <1>9 DEF QueryInv

LEMMA OnCreateAlertsHandlerStep == ASSUME QueryInv, OnCreateAlertsHandler PROVE QueryInv'
<1>1. /\ Idle /\ Page(app) = "explorer" /\ app.staged # None /\ ran' = None
      /\ UNCHANGED <<rendered, editor, misled>>
  BY DEF OnCreateAlertsHandler, On
<1>2. app \in App /\ app.staged \in StagedQuery /\ misled \in BOOLEAN
  BY <1>1, IdleFacts DEF QueryInv, TypeOK
<1>3. PICK order \in {"none", app.staged.content.order} :
          app' = Push(app, [page |-> "alert",
                            query |-> [id |-> app.staged.id, complete |-> TRUE,
                                       content |-> [app.staged.content EXCEPT !.order = order]],
                            alertType |-> "none"])
  BY DEF OnCreateAlertsHandler
<1> DEFINE c == [app.staged.content EXCEPT !.order = order]
           q == [id |-> app.staged.id, complete |-> TRUE, content |-> c]
           u == [page |-> "alert", query |-> q, alertType |-> "none"]
<1>4. app.staged.id \in Nat /\ app.staged.content \in Content
  BY <1>2 DEF StagedQuery
<1>5. c \in Content
  BY <1>4 DEF Content
<1>6. q \in UrlQuery /\ q.id = app.staged.id /\ q.complete = TRUE
  BY <1>4, <1>5 DEF UrlQuery
<1>7. u \in Location /\ u.query = q /\ u.page = "alert"
  BY <1>6 DEF Location, Pages
<1>8. app' = Push(app, u)
  BY <1>3
<1> HIDE DEF c, q, u
<1>9. /\ app' \in App /\ app'.history # <<>> /\ app'.history # app.history /\ Url(app') = u
      /\ Queries(app') \subseteq Queries(app) \cup {u.query}
      /\ app'.staged = app.staged /\ app'.current = app.current /\ app'.touched = app.touched
      /\ app'.called = app.called /\ app'.ids = app.ids
  BY <1>2, <1>7, <1>8, PushFacts
<1>10. \A p \in Queries(app') : p \in Queries(app)
          \/ (app.staged # None /\ p.complete = TRUE /\ p.id = app.staged.id)
  BY <1>1, <1>6, <1>7, <1>9
<1> QED
  BY <1>1, <1>2, <1>9, <1>10, HistoryStep

LEMMA NavigateStep == ASSUME QueryInv, NEW page \in Pages, Navigate(page) PROVE QueryInv'
<1> DEFINE u == [page |-> page, query |-> None, alertType |-> "none"]
<1>1. Idle /\ app' = Push(app, u) /\ ran' = None /\ UNCHANGED <<rendered, editor, misled>>
  BY DEF Navigate
<1>2. app \in App /\ misled \in BOOLEAN
  BY DEF QueryInv, TypeOK
<1>3. u \in Location /\ u.query = None
  BY DEF Location
<1> HIDE DEF u
<1>4. /\ app' \in App /\ app'.history # <<>> /\ app'.history # app.history /\ Url(app') = u
      /\ Queries(app') \subseteq Queries(app) \cup {u.query}
      /\ app'.staged = app.staged /\ app'.current = app.current /\ app'.touched = app.touched
      /\ app'.called = app.called /\ app'.ids = app.ids
  BY <1>1, <1>2, <1>3, PushFacts
<1>5. \A q \in Queries(app') : q \in Queries(app)
  BY <1>3, <1>4 DEF Queries
<1> QED
  BY <1>1, <1>2, <1>3, <1>4, <1>5, HistoryStep

LEMMA BackStep == ASSUME QueryInv, Back PROVE QueryInv'
<1> DEFINE n == Len(app.history)
           h == SubSeq(app.history, 1, n - 1)
<1>1. /\ Idle /\ n > 1 /\ ran' = None /\ misled' = TRUE /\ UNCHANGED <<rendered, editor>>
      /\ app' = [app EXCEPT !.history = h]
  BY DEF Back
<1>2. app \in App /\ app.history \in Seq(Location)
  BY AppFields DEF QueryInv, TypeOK
<1>3. n \in Nat /\ DOMAIN app.history = 1 .. n
  BY <1>2, LenProperties
<1>4. \A i \in 1 .. n - 1 : i \in DOMAIN app.history /\ app.history[i] \in Location
  BY <1>2, <1>3, ElementOfSeq
<1>5. n - 1 \in Nat /\ 1 <= n - 1 /\ n - 1 - 1 + 1 = n - 1
  BY <1>1, <1>3
<1> HIDE DEF n
<1>6. /\ h \in Seq(Location)
      /\ Len(h) = IF 1 <= n - 1 THEN n - 1 - 1 + 1 ELSE 0
      /\ \A i \in 1 .. n - 1 - 1 + 1 : h[i] = app.history[1 + i - 1]
  BY <1>4, <1>5, SubSeqProperties
<1> HIDE DEF h
<1>7. \A i \in 1 .. n - 1 : h[i] = app.history[i]
  <2>1. \A i \in 1 .. n - 1 : 1 + i - 1 = i
    BY <1>3
  <2> QED
    BY <1>5, <1>6, <2>1
<1>8. Len(h) = n - 1 /\ DOMAIN h = 1 .. n - 1
  BY <1>5, <1>6, LenProperties
<1>9. h # <<>> /\ h # app.history
  BY <1>3, <1>5, <1>8, EmptySeq DEF n
<1>10. /\ app' \in App /\ app'.history = h /\ app'.staged = app.staged
       /\ app'.current = app.current /\ app'.touched = app.touched
       /\ app'.called = app.called /\ app'.ids = app.ids
  BY <1>1, <1>2, <1>6, NewHistory
<1>11. \A q \in Queries(app') : q \in Queries(app)
  BY <1>4, <1>7, <1>8, <1>10 DEF Queries
<1> QED
  BY <1>1, <1>9, <1>10, <1>11, HistoryStep

LEMMA HandleSetQueryDataStep ==
    ASSUME QueryInv, NEW c \in Content, HandleSetQueryData(c) PROVE QueryInv'
<1>1. /\ app' = SetCurrentQuery(app, c) /\ UNCHANGED <<rendered, editor, ran, misled>> /\ Idle
      /\ Page(app) = "alert" => c.signal = app.current.signal
  BY DEF HandleSetQueryData, On
<1>2. app \in App /\ app.history # <<>>
  BY DEF QueryInv, TypeOK
<1>3. /\ app' \in App /\ app'.current = c /\ app'.touched = TRUE /\ app'.history = app.history
      /\ app'.ids = app.ids /\ app'.staged = app.staged /\ app'.called = app.called
  BY <1>1, <1>2, SetFields
<1>4. Url(app') = Url(app) /\ Page(app') = Page(app) /\ Queries(app') = Queries(app)
  BY <1>3 DEF Url, Page, Queries
<1>5. TypeOK' /\ RenderInv'
  BY <1>1, <1>2, <1>3 DEF QueryInv, TypeOK, RenderInv
<1>6. IdInv' /\ CompleteInv'
  BY <1>1, <1>3, <1>4 DEF QueryInv, IdInv, CompleteInv
<1>7. StagedInv' /\ CalledInv' /\ RanInv'
  BY <1>1, <1>3, <1>4 DEF QueryInv, StagedInv, Moved, CalledInv, RanInv
<1>8. StepInv' /\ PreviewInv'
  BY <1>3 DEF StepInv, PreviewInv
<1>9. SignalInv'
  BY <1>1, <1>3, <1>4 DEF QueryInv, SignalInv, Editing
<1> QED
  BY <1>5, <1>6, <1>7, <1>8, <1>9 DEF QueryInv

LEMMA RunPreviewStep == ASSUME QueryInv, RunPreview PROVE QueryInv'
<1>1. /\ Idle /\ Page(app) = "alert" /\ UNCHANGED <<app, rendered, ran, misled>>
      /\ editor' = [editor EXCEPT !.preview = NormalizeAlertTimeSeriesQuery(app.current)]
  BY DEF RunPreview, On
<1>2. editor \in Editor /\ app.current \in Content /\ app.current.step
  BY <1>1, IdleFacts
<1>3. NormalizeAlertTimeSeriesQuery(app.current) = app.current
  BY <1>2, AlreadyNormal
<1>4. /\ editor' \in Editor /\ editor'.preview = app.current /\ editor'.type = editor.type
      /\ editor'.drafts = editor.drafts
  BY <1>1, <1>2, <1>3 DEF Editor
<1>5. TypeOK' /\ RenderInv'
  BY <1>1, <1>4, Kinds DEF QueryInv, TypeOK, RenderInv
<1>6. IdInv' /\ CompleteInv' /\ StagedInv' /\ CalledInv' /\ RanInv' /\ StepInv'
  BY <1>1 DEF QueryInv, IdInv, CompleteInv, StagedInv, Moved, CalledInv, RanInv, StepInv, Editing
<1>7. PreviewInv' /\ SignalInv'
  BY <1>1, <1>4 DEF QueryInv, PreviewInv, SignalInv, Editing
<1> QED
  BY <1>5, <1>6, <1>7 DEF QueryInv

\* The query a load of the page shows.
LoadedQuery(h) ==
    IF h[Len(h)].query = None THEN InitialQuery("metrics") ELSE h[Len(h)].query.content

LEMMA LoadedContent ==
    ASSUME NEW h \in Seq(Location), h # <<>>
    PROVE  LoadedQuery(h) \in Content
<1> DEFINE q == h[Len(h)].query
<1>1. Len(h) \in DOMAIN h
  BY LenProperties, EmptySeq
<1>2. h[Len(h)] \in Location
  BY <1>1, LenProperties, ElementOfSeq
<1>3. q \in UrlQuery \cup {None}
  BY <1>2 DEF Location
<1>4. InitialQuery("metrics") \in Content
  BY QueryBuilderAssumption, InitialContent
<1> QED
  BY <1>3, <1>4 DEF UrlQuery, LoadedQuery

LEMMA ReloadStep == ASSUME QueryInv, Reload PROVE QueryInv'
<1>1. /\ app' = Loaded(app.history, app.ids) /\ rendered' = NotRendered
      /\ editor' = None /\ ran' = None /\ misled' = misled
  BY DEF Reload
<1>2. app \in App /\ app.history # <<>> /\ app.history \in Seq(Location) /\ app.ids \in Nat
  BY AppFields DEF QueryInv, TypeOK
<1> DEFINE c == LoadedQuery(app.history)
<1>3. c \in Content
  BY <1>2, LoadedContent
<1>4. app' = [history |-> app.history, staged |-> None, called |-> FALSE, ids |-> app.ids,
               touched |-> FALSE, current |-> c]
  BY <1>1 DEF Loaded, LoadedQuery
<1> HIDE DEF c
<1>5. /\ app' \in App /\ app'.history = app.history /\ app'.ids = app.ids
      /\ app'.staged = None /\ app'.called = FALSE
  BY <1>2, <1>3, <1>4 DEF App
<1>6. Queries(app') = Queries(app)
  BY <1>5 DEF Queries
<1>7. TypeOK' /\ RenderInv'
  BY <1>1, <1>2, <1>5 DEF QueryInv, TypeOK, RenderInv
<1>8. IdInv' /\ CompleteInv'
  BY <1>1, <1>5, <1>6 DEF QueryInv, IdInv, CompleteInv
<1>9. StagedInv' /\ CalledInv' /\ RanInv'
  BY <1>1, <1>5 DEF StagedInv, CalledInv, RanInv
<1>10. StepInv' /\ PreviewInv' /\ SignalInv'
  BY <1>1 DEF StepInv, PreviewInv, SignalInv, Editing
<1> QED
  BY <1>7, <1>8, <1>9, <1>10 DEF QueryInv

LEMMA ChangeAlertTypeStep ==
    ASSUME QueryInv, NEW t \in Signals, ChangeAlertType(t) PROVE QueryInv'
<1> DEFINE next == IF editor.drafts[t] # None
                   THEN NormalizeAlertTimeSeriesQuery(editor.drafts[t])
                   ELSE DefaultQueryForAlertType(t)
           s == ResetQuery(app, next)
<1>1. /\ Idle /\ Page(app) = "alert" /\ t # editor.type
      /\ app' \in Redirects(s, next, FALSE)
      /\ editor' = [type |-> t, preview |-> None,
                    drafts |-> [editor.drafts EXCEPT ![editor.type] = app.current, ![t] = next]]
      /\ UNCHANGED <<rendered, ran, misled>>
  BY DEF ChangeAlertType, On
<1>2. /\ app \in App /\ app.history # <<>> /\ rendered = app /\ rendered # NotRendered
      /\ app.ids \in Nat /\ app.current \in Content /\ app.called \in BOOLEAN /\ ~app.called
      /\ Editing /\ editor \in Editor
  BY <1>1, IdleFacts
<1>3. editor.drafts \in [Signals -> Content \cup {None}] /\ editor.type \in Signals
  BY <1>2 DEF Editor
<1>4. next \in Content /\ (editor.drafts[t] # None => next.signal = editor.drafts[t].signal)
      /\ (editor.drafts[t] = None => next.signal = t)
  <2>1. CASE editor.drafts[t] # None
    <3>1. editor.drafts[t] \in Content
      BY <1>3, <2>1
    <3> QED
      BY <2>1, <3>1, ContentFields
  <2>2. CASE editor.drafts[t] = None
    BY <2>2, InitialContent
  <2> QED
    BY <2>1, <2>2
<1> HIDE DEF next
<1>5. /\ s \in App /\ s.current = next /\ s.touched = TRUE /\ s.history = app.history
      /\ s.ids = app.ids /\ s.staged = None /\ s.called = app.called
  BY <1>2, <1>4, SetFields
<1> HIDE DEF s
<1>6. \A q \in Queries(app) : q.id <= app.ids
  BY DEF QueryInv, IdInv
<1>7. ASSUME NEW r, NEW adds \in BOOLEAN, r = RedirectWithQueryBuilderData(s, next, adds)
      PROVE  /\ r \in App /\ r.staged = s.staged /\ r.current = s.current
             /\ r.touched = s.touched /\ r.called = s.called
             /\ \E q : Redirected(r, q) /\ q.content = next
  BY <1>2, <1>4, <1>5, <1>6, <1>7, RedirectFacts
<1>8. /\ app' \in App /\ app'.staged = None /\ app'.current = next /\ app'.touched = TRUE
      /\ app'.called = FALSE /\ app'.history # <<>> /\ Page(app') = "alert"
      /\ Url(app').query # None /\ Url(app').query.content = next
      /\ IdInv' /\ CompleteInv' /\ StagedInv'
  <2>1. CASE app' = RedirectWithQueryBuilderData(s, next, FALSE)
    <3>1. /\ app' \in App /\ app'.staged = None /\ app'.current = next /\ app'.touched = TRUE
          /\ app'.called = FALSE /\ \E q : Redirected(app', q) /\ q.content = next
      BY <1>2, <1>5, <1>7, <2>1
    <3>2. PICK q : Redirected(app', q) /\ q.content = next
      BY <3>1
    <3>3. IdInv' /\ CompleteInv' /\ StagedInv'
      BY <1>1, <3>1, <3>2, RedirectStep
    <3> QED
      BY <1>1, <3>1, <3>2, <3>3, Kinds DEF Redirected
  <2>2. CASE app' = s /\ Url(app).query # None /\ Url(app).query.content = next
    <3>1. Url(app') = Url(app) /\ Page(app') = Page(app) /\ Queries(app') = Queries(app)
      BY <1>5, <2>2 DEF Url, Page, Queries
    <3>2. IdInv' /\ CompleteInv'
      BY <1>1, <1>5, <2>2, <3>1 DEF QueryInv, IdInv, CompleteInv
    <3>3. StagedInv'
      <4>1. app.staged # None
        BY <1>1, <2>2, SettledQuery
      <4> QED
        BY <1>1, <1>2, <1>5, <2>2, <4>1 DEF StagedInv, Moved
    <3> QED
      BY <1>1, <1>2, <1>5, <2>2, <3>1, <3>2, <3>3
  <2> QED
    BY <1>1, <2>1, <2>2, RedirectsCases
<1>11. /\ editor' \in Editor /\ editor'.type = t /\ editor'.preview = None
       /\ editor'.drafts = [editor.drafts EXCEPT ![editor.type] = app.current, ![t] = next]
  BY <1>1, <1>2, <1>3, <1>4 DEF Editor
<1>13. TypeOK' /\ RenderInv'
  BY <1>1, <1>8, <1>11, Kinds DEF QueryInv, TypeOK, RenderInv
<1>14. CalledInv' /\ RanInv'
  <2>1. ran = None
    BY <1>2 DEF QueryInv, RanInv
  <2> QED
    BY <1>1, <1>8, <2>1 DEF CalledInv, RanInv
<1>15. StepInv' /\ PreviewInv'
  BY <1>8 DEF StepInv, PreviewInv
<1>16. SignalInv'
  <2>1. SUFFICES ASSUME ~misled
                 PROVE  /\ next.signal = t
                        /\ \A x \in Signals : editor'.drafts[x] # None => editor'.drafts[x].signal = x
    BY <1>1, <1>8, <1>11 DEF SignalInv
  <2>2. /\ app.current.signal = editor.type
        /\ \A x \in Signals : editor.drafts[x] # None => editor.drafts[x].signal = x
    BY <1>2, <2>1 DEF QueryInv, SignalInv
  <2>3. next.signal = t
    BY <1>4, <2>2
  <2>4. \A x \in Signals : editor'.drafts[x] = IF x = t THEN next
                             ELSE IF x = editor.type THEN app.current ELSE editor.drafts[x]
    BY <1>3, <1>11
  <2> QED
    BY <2>2, <2>3, <2>4
<1> QED
  BY <1>8, <1>13, <1>14, <1>15, <1>16 DEF QueryInv

----------------------------------------------------------------------------
(* The theorems *)

LEMMA QueryInit == ASSUME Init PROVE QueryInv
<1> DEFINE First == [id : {1}, complete : BOOLEAN, content : Content] \cup {None}
<1>1. PICK u \in [page : Pages, query : First, alertType : Signals \cup {"none"}] :
          app = Loaded(<<u>>, 1)
  BY DEF Init
<1>2. u \in Location /\ (u.query # None => u.query.id = 1)
  <2>1. u.page \in Pages /\ u.query \in First /\ u.alertType \in Signals \cup {"none"}
    OBVIOUS
  <2>2. ASSUME NEW q \in [id : {1}, complete : BOOLEAN, content : Content]
        PROVE  q \in UrlQuery /\ q.id = 1
    BY DEF UrlQuery
  <2>3. u.query \in UrlQuery \cup {None} /\ (u.query # None => u.query.id = 1)
    BY <2>1, <2>2
  <2>4. u = [page |-> u.page, query |-> u.query, alertType |-> u.alertType]
    OBVIOUS
  <2> QED
    BY <2>1, <2>3, <2>4 DEF Location
<1> HIDE DEF First
<1>3. <<u>> \in Seq(Location) /\ <<u>> # <<>> /\ DOMAIN <<u>> = {1} /\ <<u>>[1] = u
  BY <1>2
<1> DEFINE h == <<u>>
           c == LoadedQuery(h)
<1>4. c \in Content
  BY <1>3, LoadedContent
<1>5. app = [history |-> h, staged |-> None, called |-> FALSE, ids |-> 1,
              touched |-> FALSE, current |-> c]
  BY <1>1 DEF Loaded, LoadedQuery
<1>6. h \in Seq(Location) /\ h = <<u>>
  BY <1>3
<1> HIDE DEF c, h
<1>7. /\ app \in App /\ app.history = <<u>> /\ app.ids = 1 /\ app.staged = None
      /\ app.called = FALSE
  BY <1>4, <1>5, <1>6 DEF App
<1>8. rendered = NotRendered /\ editor = None /\ ran = None /\ misled = FALSE
  BY DEF Init
<1>9. Queries(app) \subseteq {u.query} \ {None}
  BY <1>3, <1>7 DEF Queries
<1>10. TypeOK /\ RenderInv
  BY <1>3, <1>7, <1>8 DEF TypeOK, RenderInv
<1>11. IdInv /\ CompleteInv
  BY <1>2, <1>7, <1>8, <1>9 DEF IdInv, CompleteInv
<1>12. StagedInv /\ CalledInv /\ RanInv /\ StepInv /\ PreviewInv /\ SignalInv
  BY <1>7, <1>8 DEF StagedInv, CalledInv, RanInv, StepInv, PreviewInv, SignalInv, Editing
<1> QED
  BY <1>10, <1>11, <1>12 DEF QueryInv

\* Every step keeps the invariant.
LEMMA QueryNext == ASSUME QueryInv, [Next]_vars PROVE QueryInv'
<1>1. CASE UNCHANGED vars
  BY <1>1 DEF vars, QueryInv, TypeOK, RenderInv, IdInv, CompleteInv, StagedInv, Moved, CalledInv,
     RanInv, StepInv, PreviewInv, SignalInv, Editing
<1> QED
  BY <1>1, CommitStep, HandleSetQueryDataStep, HandleRunQueryStep, OnSelectHandlerStep,
     OnValidCustomDateHandlerStep,
     HandleExplorerTabChangeStep, OnCreateAlertsHandlerStep, ChangeAlertTypeStep, RunPreviewStep,
     NavigateStep, BackStep, ReloadStep DEF Next

LEMMA QueryAlways == Spec => []QueryInv
  BY QueryInit, QueryNext, PTL DEF Spec

(***************************************************************************)
(* The URLs, the provider's and the editor's state keep their types, for    *)
(* any signals and any number of ids and entries of the history.            *)
(***************************************************************************)
THEOREM TypeCorrect == Spec => []TypeOK
<1>1. QueryInv => TypeOK
  BY DEF QueryInv
<1> QED
  BY <1>1, QueryAlways, PTL

(***************************************************************************)
(* Whatever redirects, links, Back, loads of the page and runs came before, *)
(* once the page has settled the query in the URL is complete and is the    *)
(* one the provider has staged.                                             *)
(***************************************************************************)
THEOREM StagedIsUrl == Spec => []StagedFollowsUrl
<1>1. ASSUME QueryInv PROVE StagedFollowsUrl
  <2>1. SUFFICES ASSUME Idle, Url(app).query # None PROVE StagedFollowsUrl
    BY DEF StagedFollowsUrl
  <2>2. rendered = app /\ rendered # NotRendered
    BY <1>1, <2>1, IdleFacts
  <2> QED
    BY <1>1, <2>2 DEF QueryInv, StagedInv, Moved, StagedFollowsUrl
<1> QED
  BY <1>1, QueryAlways, PTL

(***************************************************************************)
(* What the run button sent is staged as it was shown, with the order the   *)
(* user chose, for as long as the page stays.                               *)
(***************************************************************************)
THEOREM RunIsStaged == Spec => []RunStagesWhatIsShown
<1>1. QueryInv => RunStagesWhatIsShown
  BY DEF QueryInv, RanInv, RunStagesWhatIsShown
<1> QED
  BY <1>1, QueryAlways, PTL

(***************************************************************************)
(* The alert editor's query, and each draft it keeps, is of its alert type, *)
(* over any number of changes of the type, until Back is used, for every    *)
(* address that does not name one type and have a query of another.         *)
(***************************************************************************)
THEOREM TypeIsOfQuery == Spec => []TypeMatchesQuery
<1>1. ASSUME QueryInv PROVE TypeMatchesQuery
  <2>1. Idle /\ Page(app) = "alert" => Editing
    BY <1>1, IdleFacts
  <2> QED
    BY <1>1, <2>1 DEF QueryInv, SignalInv, TypeMatchesQuery
<1> QED
  BY <1>1, QueryAlways, PTL

(***************************************************************************)
(* The alert editor's query has an interval whenever the page has settled.  *)
(***************************************************************************)
THEOREM IntervalExplicit == Spec => []IntervalIsExplicit
<1>1. ASSUME QueryInv PROVE IntervalIsExplicit
  BY <1>1, IdleFacts DEF IntervalIsExplicit
<1> QED
  BY <1>1, QueryAlways, PTL

(***************************************************************************)
(* A preview the alert editor holds is of the query that is edited.         *)
(***************************************************************************)
THEOREM PreviewOfCurrent == Spec => []PreviewIsCurrent
<1>1. ASSUME QueryInv PROVE PreviewIsCurrent
  <2>1. Idle /\ Page(app) = "alert" => Editing /\ app.touched = FALSE
    BY <1>1, IdleFacts
  <2> QED
    BY <1>1, <2>1 DEF QueryInv, PreviewInv, PreviewIsCurrent
<1> QED
  BY <1>1, QueryAlways, PTL

(***************************************************************************)
(* A commit that brings neither a URL nor a staged query keeps what the     *)
(* user edited, but for the interval it may fill in: the effect on the URL  *)
(* finds the URL's query staged, also when the mark of the run button is    *)
(* all that changed.                                                        *)
(***************************************************************************)
THEOREM EditsAreKept == Spec => EditsSurvive
<1> DEFINE A == /\ Commit /\ rendered # NotRendered
                /\ rendered.history = app.history /\ rendered.staged = app.staged
                => app'.current \in {app.current, NormalizeAlertTimeSeriesQuery(app.current)}
<1>1. ASSUME QueryInv PROVE A
  <2>1. SUFFICES ASSUME Commit, rendered # NotRendered,
                        rendered.history = app.history, rendered.staged = app.staged
                 PROVE  app'.current \in {app.current, NormalizeAlertTimeSeriesQuery(app.current)}
    OBVIOUS
  <2>2. Url(app).query # None => app.staged # None /\ app.staged.id = Url(app).query.id
    BY <1>1, <2>1 DEF QueryInv, StagedInv, Moved
  <2>3. ~Fresh
    BY <2>1 DEF Fresh, Page, Url
  <2>4. app' = UrlEffect(Before)
    BY <2>1 DEF Commit, Before
  <2>5. app' = Before
    BY <2>2, <2>4 DEF UrlEffect
  <2>6. app \in App
    BY <1>1 DEF QueryInv, TypeOK
  <2> QED
    BY <2>3, <2>5, <2>6, BeforeStay
<1>2. QueryInv /\ [Next]_vars => [A]_vars
  BY <1>1
<1> QED
  BY <1>2, QueryAlways, PTL DEF Spec, EditsSurvive
=============================================================================
