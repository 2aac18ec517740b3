----------------------------- MODULE PageProofs -----------------------------
(***************************************************************************)
(* Theorems about Page, for any boards, filters, repositories, fields,     *)
(* texts and number of calls in flight.                                    *)
(***************************************************************************)
EXTENDS Page, FiniteSetTheorems, TLAPS

(***************************************************************************)
(* Types.                                                                  *)
(***************************************************************************)
PageState == [view : View, data : View \cup {None}, tracked : SUBSET Repo, loading : BOOLEAN,
              error : BOOLEAN, mixed : BOOLEAN]
PanelState == [search : Search, draft : Search, items : Search \cup {None}, loading : BOOLEAN,
               error : BOOLEAN, retry : 0 .. MaxRetry, astray : BOOLEAN]
CallState == [kind : Kind, at : {"idle", "sent", "waiting", "back"}, again : BOOLEAN,
              gone : BOOLEAN, latest : BOOLEAN, view : View \cup {None},
              search : Search \cup {None}, repo : Repo \cup {None},
              answer : (SUBSET Repo) \cup {None}]

\* Only searches are the latest, what is loaded is a view, and what is changed a repository.
Fits(call) ==
    /\ call.at # "idle" => call.kind # "none"
    /\ call.latest => call.kind = "search"
    /\ call.kind = "load" /\ ~call.gone => call.view \in View
    /\ call.kind = "add" /\ call.view # None => call.view.board = "tracked"
    /\ call.kind \in Changes => call.repo \in Repo
    /\ OfTracked(call) /\ call.at = "back" => call.answer \in SUBSET Repo

Wellformed(cs) == cs \in [Call -> CallState] /\ \A c \in Call : Fits(cs[c])

(***************************************************************************)
(* The panel: at most one search in flight is still wanted, none while it  *)
(* counts down or shows an error, and unless it is astray that one is of   *)
(* the search displayed.                                                   *)
(***************************************************************************)
Live(cs) == {c \in Call : cs[c].latest /\ ~cs[c].gone}

Sober(pn, cs) ==
    /\ \A c, d \in Live(cs) : c = d
    /\ pn.retry > 0 \/ pn.error => Live(cs) = {}
    /\ pn.retry > 0 => pn.items = None

Sound(pn, cs) ==
    ~pn.astray =>
        /\ \A c \in Live(cs) : cs[c].search = pn.search /\ pn.search # NoSearch
        /\ ~pn.loading /\ ~pn.error =>
               pn.items = IF pn.search = NoSearch THEN None ELSE pn.search

(***************************************************************************)
(* The board: unless its list is mixed, it has one load in flight at most, *)
(* of the view chosen and with no change beside it.  When that is back,    *)
(* the tracked board differs from the server by what is being untracked,   *)
(* or by what is being added and will be loaded anew.                      *)
(***************************************************************************)
Listed(pg, cs, tr) ==
    /\ Pending(cs, {"track"}) = {}
    /\ \A c \in Pending(cs, Changes) : ~cs[c].gone
    /\ \A c \in Pending(cs, {"add"}) : cs[c].view # None
    /\ Pending(cs, {"add"}) = {} =>
           /\ \A c \in Pending(cs, {"untrack"}) : cs[c].at = "back" => cs[c].repo \notin tr
           /\ \A n \in Repo :
                  (\A c \in Pending(cs, {"untrack"}) : cs[c].repo # n)
                     => (n \in pg.tracked <=> n \in tr \cap Match[pg.view.filter])

Faithful(pg, cs, tr) ==
    pg.view.board # "discover" /\ ~pg.mixed =>
        /\ \A c \in Loading(cs) :
               /\ pg.loading /\ cs[c].view = pg.view /\ Pending(cs, Changes) = {}
               /\ pg.view.board = "tracked" /\ cs[c].at = "back" =>
                      cs[c].answer = tr \cap Match[pg.view.filter]
               /\ \A d \in Loading(cs) : d = c
        /\ ~pg.loading /\ ~pg.error =>
               /\ pg.view.board \in Public => pg.data = pg.view
               /\ pg.view.board = "tracked" => Listed(pg, cs, tr)

\* Whatever the panel shows, its next load is sound.
Ready(pg, pn, cs) ==
    /\ pg \in PageState /\ pn \in PanelState /\ Wellformed(cs) /\ Sober(pn, cs)
    /\ pg.view.board # "discover" => Live(cs) = {}

\* The page as it is while mounted.
Shown(pg, pn, cs, tr) ==
    /\ Ready(pg, pn, cs) /\ Faithful(pg, cs, tr)
    /\ pg.view.board = "discover" => Sound(pn, cs)

(***************************************************************************)
(* How the calls may change besides: none begins to wait, or asks for the  *)
(* account; no search becomes wanted; loads and changes stay as they are.  *)
(***************************************************************************)
Follows(cs, ds) ==
    \A c \in Call : /\ ds[c].at = "waiting" => cs[c].at = "waiting"
                    /\ ds[c].kind = "me" => cs[c].kind = "me"
Quieter(cs, ds) ==
    \A c \in Call : ds[c].latest /\ ~ds[c].gone =>
                        cs[c].latest /\ ~cs[c].gone /\ ds[c].search = cs[c].search
Bearing == {"load"} \cup Changes
SameBoard(cs, ds) ==
    \A c \in Call : cs[c].kind \in Bearing \/ ds[c].kind \in Bearing =>
        /\ ds[c].kind = cs[c].kind /\ ds[c].gone = cs[c].gone /\ ds[c].view = cs[c].view
        /\ ds[c].repo = cs[c].repo /\ ds[c].answer = cs[c].answer
        /\ (ds[c].at = "back" <=> cs[c].at = "back")

LEMMA FollowsTrans ==
    ASSUME NEW cs, NEW ds, NEW es, Follows(cs, ds), Follows(ds, es)
    PROVE  Follows(cs, es)
  BY DEF Follows

LEMMA QuietPanel ==
    ASSUME NEW pn, NEW cs, NEW ds, Quieter(cs, ds)
    PROVE  /\ Sober(pn, cs) => Sober(pn, ds)
           /\ Sound(pn, cs) => Sound(pn, ds)
           /\ Live(cs) = {} => Live(ds) = {}
  <1>1. \A c \in Live(ds) : c \in Live(cs) /\ ds[c].search = cs[c].search
    BY DEF Quieter, Live
  <1>2. Sober(pn, cs) => Sober(pn, ds)
    BY <1>1 DEF Sober
  <1>3. Sound(pn, cs) => Sound(pn, ds)
    BY <1>1 DEF Sound
  <1> QED BY <1>1, <1>2, <1>3

LEMMA SameFaithful ==
    ASSUME NEW pg, NEW cs, NEW ds, NEW tr, SameBoard(cs, ds), Faithful(pg, cs, tr)
    PROVE  Faithful(pg, ds, tr)
  <1>1. Loading(ds) = Loading(cs)
    BY DEF SameBoard, Bearing, Loading, Pending
  <1>2. \A K \in SUBSET Changes : Pending(ds, K) = Pending(cs, K)
    BY DEF SameBoard, Bearing, Pending
  <1>3. \A c \in Loading(cs) \cup Pending(cs, Changes) :
           /\ ds[c].gone = cs[c].gone /\ ds[c].view = cs[c].view /\ ds[c].repo = cs[c].repo
           /\ ds[c].answer = cs[c].answer /\ (ds[c].at = "back" <=> cs[c].at = "back")
    BY DEF SameBoard, Bearing, Pending, Loading
  <1>4. /\ {"track"} \in SUBSET Changes /\ {"add"} \in SUBSET Changes
        /\ {"untrack"} \in SUBSET Changes /\ Changes \in SUBSET Changes
    BY DEF Changes
  <1>5. \A c : c \in Pending(cs, {"add"}) \cup Pending(cs, {"untrack"}) => c \in Pending(cs, Changes)
    BY DEF Pending, Changes
  <1>6. Listed(pg, cs, tr) => Listed(pg, ds, tr)
    BY <1>2, <1>3, <1>4, <1>5 DEF Listed
  <1> QED BY <1>1, <1>2, <1>3, <1>4, <1>6 DEF Faithful

(***************************************************************************)
(* The calls of the tab.                                                   *)
(***************************************************************************)
LEMMA IdleFits == Idle \in CallState /\ Fits(Idle) /\ ~Idle.latest /\ Idle.at # "waiting"
  BY DEF Idle, CallState, Kind, Fits, Changes, OfTracked

LEMMA DoneFacts ==
    ASSUME NEW cs, Wellformed(cs), NEW c \in Call
    PROVE  LET ds == [cs EXCEPT ![c] = Idle]
           IN  Wellformed(ds) /\ Follows(cs, ds) /\ Quieter(cs, ds)
  BY IdleFits DEF Wellformed, Follows, Quieter, Idle

LEMMA ForgetFits ==
    ASSUME NEW call \in CallState, Fits(call), call.kind # "load" \/ call.gone
    PROVE  /\ Forget(call) \in CallState /\ Fits(Forget(call))
           /\ Forget(call).kind = call.kind /\ Forget(call).at = call.at
           /\ Forget(call).gone = call.gone /\ Forget(call).latest = call.latest
  <1>1. /\ Forget(call) \in CallState
        /\ Forget(call).kind = call.kind /\ Forget(call).at = call.at
        /\ Forget(call).gone = call.gone /\ Forget(call).latest = call.latest
        /\ Forget(call).view = None /\ Forget(call).repo = call.repo
    BY DEF Forget, CallState
  <1> QED BY <1>1 DEF Fits, OfTracked

LEMMA GoneFacts ==
    ASSUME NEW cs, Wellformed(cs), NEW kinds
    PROVE  LET ds == Gone(cs, kinds)
           IN  /\ Wellformed(ds) /\ Follows(cs, ds) /\ Quieter(cs, ds)
               /\ "search" \in kinds => Live(ds) = {}
               /\ kinds \cap Bearing = {} => SameBoard(cs, ds)
               /\ \A c \in Call : ds[c].kind = cs[c].kind /\ (cs[c].kind \in kinds => ds[c].gone)
  <1> DEFINE ds == Gone(cs, kinds)
             G(call) == [Forget(call) EXCEPT !.gone = TRUE]
  <1>1. ASSUME NEW c \in Call
        PROVE  /\ G(cs[c]) \in CallState /\ Fits(G(cs[c]))
               /\ G(cs[c]).kind = cs[c].kind /\ G(cs[c]).at = cs[c].at /\ G(cs[c]).gone
    <2>1. cs[c] \in CallState /\ Fits(cs[c])
      BY DEF Wellformed
    <2>2. /\ G(cs[c]) \in CallState
          /\ G(cs[c]).kind = cs[c].kind /\ G(cs[c]).at = cs[c].at /\ G(cs[c]).gone
          /\ G(cs[c]).view = None /\ G(cs[c]).repo = cs[c].repo /\ G(cs[c]).latest = cs[c].latest
      BY <2>1 DEF Forget, CallState
    <2> QED BY <2>1, <2>2 DEF Fits, OfTracked
  <1>2. ds = [c \in Call |-> IF cs[c].kind \in kinds THEN G(cs[c]) ELSE cs[c]]
    BY DEF Gone
  <1> HIDE DEF G, ds
  <1>3. Wellformed(ds)
    BY <1>1, <1>2 DEF Wellformed
  <1>4. Follows(cs, ds) /\ Quieter(cs, ds)
    BY <1>1, <1>2 DEF Follows, Quieter
  <1>5. "search" \in kinds => Live(ds) = {}
    BY <1>1, <1>2 DEF Live, Wellformed, Fits
  <1>6. kinds \cap Bearing = {} => SameBoard(cs, ds)
    BY <1>1, <1>2 DEF SameBoard
  <1>7. \A c \in Call : ds[c].kind = cs[c].kind /\ (cs[c].kind \in kinds => ds[c].gone)
    BY <1>1, <1>2
  <1> QED BY <1>3, <1>4, <1>5, <1>6, <1>7 DEF ds

LEMMA SupersededFacts ==
    ASSUME NEW cs, Wellformed(cs)
    PROVE  LET ds == Superseded(cs)
           IN  /\ Wellformed(ds) /\ Follows(cs, ds) /\ Live(ds) = {} /\ SameBoard(cs, ds)
               /\ \A c \in Call : ds[c].kind = cs[c].kind
  <1> DEFINE ds == Superseded(cs)
             S(call) == [Forget(call) EXCEPT !.latest = FALSE]
  <1>1. ASSUME NEW c \in Call, cs[c].kind = "search"
        PROVE  /\ S(cs[c]) \in CallState /\ Fits(S(cs[c]))
               /\ S(cs[c]).kind = "search" /\ S(cs[c]).at = cs[c].at /\ ~S(cs[c]).latest
    <2>1. cs[c] \in CallState /\ Fits(cs[c])
      BY DEF Wellformed
    <2>2. /\ S(cs[c]) \in CallState
          /\ S(cs[c]).kind = "search" /\ S(cs[c]).at = cs[c].at /\ ~S(cs[c]).latest
      BY <1>1, <2>1 DEF Forget, CallState
    <2> QED BY <2>2 DEF Fits, OfTracked, Changes
  <1>2. ds = [c \in Call |-> IF cs[c].kind = "search" /\ ~cs[c].gone THEN S(cs[c]) ELSE cs[c]]
    BY DEF Superseded
  <1> HIDE DEF S, ds
  <1>3. Wellformed(ds)
    BY <1>1, <1>2 DEF Wellformed
  <1>4. Follows(cs, ds) /\ Live(ds) = {}
    BY <1>1, <1>2 DEF Follows, Live, Wellformed, Fits
  <1>5. SameBoard(cs, ds)
    BY <1>1, <1>2 DEF SameBoard, Bearing, Changes
  <1>6. \A c \in Call : ds[c].kind = cs[c].kind
    BY <1>1, <1>2
  <1> QED BY <1>3, <1>4, <1>5, <1>6 DEF ds

(***************************************************************************)
(* The two loads: whatever was loaded or in flight before, the panel is    *)
(* sound after its load, and the board faithful after the page's.          *)
(***************************************************************************)
LEMMA NewLoad ==
    ASSUME NEW v \in View
    PROVE  LET load == [New("load") EXCEPT !.view = v]
           IN  /\ load \in CallState /\ Fits(load) /\ load.kind = "load" /\ load.at = "sent"
               /\ ~load.gone /\ ~load.latest /\ load.view = v
  BY DEF New, Idle, CallState, Kind, Fits, Changes, OfTracked

LEMMA NewSearch ==
    ASSUME NEW s \in Search
    PROVE  LET search == [New("search") EXCEPT !.search = s, !.latest = TRUE]
           IN  /\ search \in CallState /\ Fits(search) /\ search.kind = "search"
               /\ search.at = "sent" /\ ~search.gone /\ search.search = s
  BY DEF New, Idle, CallState, Kind, Fits, Changes, OfTracked

LEMMA LoadsFacts ==
    ASSUME NEW v \in View, NEW pg \in PageState, NEW cs, Wellformed(cs), NEW tr,
           v = pg.view \/ v.board # "discover", NEW l \in Loads(v, pg, cs)
    PROVE  /\ l[1] \in PageState /\ l[1].view = pg.view
           /\ Wellformed(l[2]) /\ Follows(cs, l[2]) /\ Quieter(cs, l[2])
           /\ Faithful(l[1], l[2], tr)
  <1>1. CASE v.board = "discover"
    <2>1. /\ l[1] = [pg EXCEPT !.loading = FALSE, !.error = FALSE, !.data = None, !.tracked = {}]
          /\ l[2] = cs
      BY <1>1 DEF Loads
    <2>2. l[1] \in PageState /\ l[1].view = pg.view
      BY <2>1 DEF PageState
    <2>3. Follows(cs, cs) /\ Quieter(cs, cs)
      BY DEF Follows, Quieter
    <2>4. Faithful(l[1], l[2], tr)
      BY <1>1, <2>2 DEF Faithful
    <2> QED BY <2>1, <2>2, <2>3, <2>4
  <1>2. CASE v.board # "discover"
    <2> DEFINE load == [New("load") EXCEPT !.view = v]
               mixed == Loading(cs) # {} \/ v # pg.view \/ Pending(cs, Changes) # {}
    <2>0. Loads(v, pg, cs) =
              {<<[pg EXCEPT !.loading = TRUE, !.error = FALSE, !.mixed = mixed],
                 [cs EXCEPT ![c] = load]>> : c \in Free(cs)}
      BY <1>2, Zenon DEF Loads
    <2>1. PICK c \in Free(cs) :
             /\ l[1] = [pg EXCEPT !.loading = TRUE, !.error = FALSE, !.mixed = mixed]
             /\ l[2] = [cs EXCEPT ![c] = load]
      <3> HIDE DEF mixed, load
      <3>1. PICK c \in Free(cs) :
               l = <<[pg EXCEPT !.loading = TRUE, !.error = FALSE, !.mixed = mixed],
                     [cs EXCEPT ![c] = load]>>
        BY <2>0, Zenon
      <3> QED BY <3>1
    <2>2. /\ load \in CallState /\ Fits(load) /\ load.kind = "load" /\ load.at = "sent"
          /\ ~load.gone /\ ~load.latest /\ load.view = v
      BY NewLoad
    <2>3. c \in Call /\ cs[c].kind = "none" /\ mixed \in BOOLEAN
      BY <2>1 DEF Free
    <2> HIDE DEF load, mixed
    <2>4. /\ l[1] \in PageState /\ l[1].view = pg.view /\ l[1].loading
          /\ l[1].mixed = mixed
      BY <2>1, <2>3 DEF PageState
    <2>5. Wellformed(l[2]) /\ Follows(cs, l[2]) /\ Quieter(cs, l[2])
      BY <2>1, <2>2, <2>3 DEF Wellformed, Follows, Quieter
    <2>6. ASSUME ~mixed PROVE Faithful(l[1], l[2], tr)
      <3>1. Loading(cs) = {} /\ v = pg.view /\ Pending(cs, Changes) = {}
        BY <2>6 DEF mixed
      <3>2. \A d \in Call : l[2][d] = IF d = c THEN load ELSE cs[d]
        BY <2>1, <2>3 DEF Wellformed
      <3>3. Loading(l[2]) = {c} /\ Pending(l[2], Changes) = {}
        BY <3>1, <3>2, <2>2, <2>3 DEF Loading, Pending, Changes
      <3> QED BY <3>1, <3>2, <3>3, <2>2, <2>3, <2>4 DEF Faithful
    <2>7. ASSUME mixed PROVE Faithful(l[1], l[2], tr)
      BY <2>7, <2>4 DEF Faithful
    <2> QED BY <2>4, <2>5, <2>6, <2>7
  <1> QED BY <1>1, <1>2

LEMMA PanelLoadsFacts ==
    ASSUME NEW pn \in PanelState, NEW cs, Wellformed(cs), Sober(pn, cs),
           NEW l \in PanelLoads(pn, cs)
    PROVE  /\ l[1] \in PanelState /\ Wellformed(l[2]) /\ Follows(cs, l[2])
           /\ SameBoard(cs, l[2]) /\ Sober(l[1], l[2]) /\ Sound(l[1], l[2])
  <1>s. Follows(cs, cs) /\ SameBoard(cs, cs)
    BY DEF Follows, SameBoard
  <1>1. CASE pn.search = NoSearch
    <2> DEFINE astray == \E c \in Call : cs[c].latest /\ ~cs[c].gone
    <2>1. /\ l[1] = [pn EXCEPT !.items = None, !.error = FALSE, !.loading = FALSE, !.astray = astray]
          /\ l[2] = cs
      BY <1>1 DEF PanelLoads
    <2>2. astray \in BOOLEAN /\ (~astray => Live(cs) = {})
      BY DEF Live
    <2> HIDE DEF astray
    <2>3. /\ l[1] \in PanelState /\ l[1].search = NoSearch /\ l[1].items = None
          /\ l[1].retry = pn.retry /\ ~l[1].error /\ l[1].astray = astray
      BY <1>1, <2>1, <2>2 DEF PanelState
    <2>4. Sober(l[1], l[2]) /\ Sound(l[1], l[2])
      BY <2>1, <2>2, <2>3 DEF Sober, Sound
    <2> QED BY <1>s, <2>1, <2>3, <2>4
  <1>2. CASE pn.search # NoSearch /\ pn.retry > 0
    <2>1. l[1] = [pn EXCEPT !.astray = ~pn.error] /\ l[2] = cs
      BY <1>2 DEF PanelLoads
    <2>2. /\ l[1] \in PanelState /\ l[1].retry = pn.retry /\ l[1].error = pn.error
          /\ l[1].items = pn.items /\ l[1].astray = ~pn.error
      BY <2>1 DEF PanelState
    <2>3. Sober(l[1], l[2]) /\ Sound(l[1], l[2])
      BY <1>2, <2>1, <2>2 DEF Sober, Sound
    <2> QED BY <1>s, <2>1, <2>2, <2>3
  <1>3. CASE pn.search # NoSearch /\ ~(pn.retry > 0)
    <2> DEFINE sent == [New("search") EXCEPT !.search = pn.search, !.latest = TRUE]
               bs == Superseded(cs)
    <2>1. PICK c \in Free(cs) :
             /\ l[1] = [pn EXCEPT !.loading = TRUE, !.error = FALSE, !.astray = FALSE]
             /\ l[2] = [bs EXCEPT ![c] = sent]
      BY <1>3 DEF PanelLoads
    <2>2. /\ sent \in CallState /\ Fits(sent) /\ sent.kind = "search"
          /\ sent.at = "sent" /\ sent.search = pn.search
      BY NewSearch DEF PanelState
    <2>3. /\ Wellformed(bs) /\ Follows(cs, bs) /\ Live(bs) = {} /\ SameBoard(cs, bs)
          /\ c \in Call /\ cs[c].kind = "none" /\ bs[c].kind = "none"
      BY SupersededFacts, <2>1 DEF Free
    <2> HIDE DEF sent, bs
    <2>4. /\ l[1] \in PanelState /\ l[1].search = pn.search /\ l[1].loading /\ ~l[1].error
          /\ l[1].retry = pn.retry /\ l[1].items = pn.items
      BY <2>1 DEF PanelState
    <2>5. \A d \in Call : l[2][d] = IF d = c THEN sent ELSE bs[d]
      BY <2>1, <2>3 DEF Wellformed
    <2>6. Wellformed(l[2]) /\ Follows(cs, l[2])
      BY <2>1, <2>2, <2>3 DEF Wellformed, Follows
    <2>7. SameBoard(cs, l[2])
      BY <2>2, <2>3, <2>5 DEF SameBoard, Bearing, Changes
    <2>8. \A d \in Live(l[2]) : d = c
      BY <2>3, <2>5 DEF Live
    <2>9. Sober(l[1], l[2]) /\ Sound(l[1], l[2])
      BY <1>3, <2>2, <2>3, <2>4, <2>5, <2>8 DEF Sober, Sound
    <2> QED BY <2>4, <2>6, <2>7, <2>9
  <1> QED BY <1>1, <1>2, <1>3

(***************************************************************************)
(* Renders, turns and mounts of the page, and its end.                     *)
(***************************************************************************)
LEMMA FreshFacts ==
    ASSUME NEW v \in View, NEW s \in Search
    PROVE  /\ FreshPage(v) \in PageState /\ FreshPage(v).view = v
           /\ FreshPanel(s) \in PanelState /\ FreshPanel(s).search = s
           /\ FreshPanel(s).retry = 0 /\ ~FreshPanel(s).error
           /\ NoSearch \in Search
  BY PageAssumption DEF FreshPage, FreshPanel, PageState, PanelState, Search, NoSearch

LEMMA FreshSober ==
    ASSUME NEW pn, NEW cs, NEW s \in Search, Sober(pn, cs)
    PROVE  Sober(FreshPanel(s), cs)
  BY PageAssumption DEF FreshPanel, Sober

LEMMA RenderedFacts ==
    ASSUME NEW pg, NEW pn, NEW cs, NEW tr, Ready(pg, pn, cs), Faithful(pg, cs, tr),
           NEW t \in Rendered(pg, pn, cs)
    PROVE  Shown(t[1], t[2], t[3], tr) /\ Follows(cs, t[3])
  <1>1. CASE pg.view.board = "discover"
    <2>1. PICK p \in PanelLoads(pn, cs) : t = <<pg, p[1], p[2]>>
      BY <1>1 DEF Rendered
    <2>2. /\ p[1] \in PanelState /\ Wellformed(p[2]) /\ Follows(cs, p[2])
          /\ SameBoard(cs, p[2]) /\ Sober(p[1], p[2]) /\ Sound(p[1], p[2])
      BY PanelLoadsFacts DEF Ready
    <2>3. Faithful(pg, p[2], tr)
      BY <2>2, SameFaithful
    <2> QED BY <1>1, <2>1, <2>2, <2>3 DEF Ready, Shown
  <1>2. CASE pg.view.board # "discover"
    <2>1. t = <<pg, pn, cs>>
      BY <1>2 DEF Rendered
    <2> QED BY <1>2, <2>1 DEF Ready, Shown, Follows
  <1> QED BY <1>1, <1>2

LEMMA TurnFacts ==
    ASSUME NEW v \in View, NEW pg, NEW pn, NEW cs, NEW tr, Ready(pg, pn, cs),
           NEW t \in Turn(v, pg, pn, cs)
    PROVE  Shown(t[1], t[2], t[3], tr) /\ Follows(cs, t[3]) /\ t[1].view = v
  <1> DEFINE here == pg.view.board = "discover"
             there == v.board = "discover"
             left == IF here /\ ~there THEN Gone(cs, {"search"}) ELSE cs
             panels == IF there
                       THEN PanelLoads(IF here THEN pn ELSE FreshPanel(pn.search), left)
                       ELSE {<<IF here THEN FreshPanel(pn.search) ELSE pn, left>>}
             moved == [pg EXCEPT !.view = v]
  <1>1. PICK p \in panels : \E l \in Loads(v, moved, p[2]) : t = <<l[1], p[1], l[2]>>
    BY DEF Turn
  <1>l. PICK l \in Loads(v, moved, p[2]) : t = <<l[1], p[1], l[2]>>
    BY <1>1
  <1>2. moved \in PageState /\ moved.view = v
    BY DEF Ready, PageState
  <1>3. FreshPanel(pn.search) \in PanelState /\ Sober(FreshPanel(pn.search), cs)
    BY FreshFacts, FreshSober DEF Ready, PanelState
  <1>4. /\ p[1] \in PanelState /\ Wellformed(p[2]) /\ Follows(cs, p[2])
        /\ Sober(p[1], p[2]) /\ (there => Sound(p[1], p[2])) /\ (~there => Live(p[2]) = {})
    <2>1. CASE there
      <3>1. PICK q \in PanelState : Sober(q, cs) /\ p \in PanelLoads(q, cs)
        BY <1>3, <2>1 DEF Ready
      <3> QED BY <2>1, <3>1, PanelLoadsFacts DEF Ready
    <2>2. CASE ~there /\ here
      <3>1. p = <<FreshPanel(pn.search), Gone(cs, {"search"})>>
        BY <2>2
      <3>2. LET ds == Gone(cs, {"search"})
            IN  Wellformed(ds) /\ Follows(cs, ds) /\ Quieter(cs, ds) /\ Live(ds) = {}
        BY GoneFacts DEF Ready
      <3> QED BY <1>3, <2>2, <3>1, <3>2, QuietPanel
    <2>3. CASE ~there /\ ~here
      <3>1. p = <<pn, cs>>
        BY <2>3
      <3> QED BY <2>3, <3>1 DEF Ready, Follows
    <2> QED BY <2>1, <2>2, <2>3
  <1> HIDE DEF moved, panels
  <1>5. /\ l[1] \in PageState /\ l[1].view = v
        /\ Wellformed(l[2]) /\ Follows(p[2], l[2]) /\ Quieter(p[2], l[2])
        /\ Faithful(l[1], l[2], tr)
    BY <1>2, <1>4, LoadsFacts
  <1>6. /\ Follows(cs, l[2]) /\ Sober(p[1], l[2])
        /\ (there => Sound(p[1], l[2])) /\ (~there => Live(l[2]) = {})
    <2>1. Follows(cs, l[2])
      BY <1>4, <1>5, FollowsTrans
    <2>2. /\ Sober(p[1], p[2]) => Sober(p[1], l[2])
          /\ Sound(p[1], p[2]) => Sound(p[1], l[2])
          /\ Live(p[2]) = {} => Live(l[2]) = {}
      BY <1>5, QuietPanel
    <2> QED BY <1>4, <2>1, <2>2
  <1> QED BY <1>l, <1>4, <1>5, <1>6 DEF Shown, Ready

LEMMA MountFacts ==
    ASSUME page \in PageState, panel \in PanelState, NEW cs, NEW tr, Wellformed(cs),
           Live(cs) = {}, NEW t \in Mount(cs)
    PROVE  Shown(t[1], t[2], t[3], tr) /\ Follows(cs, t[3])
  <1> DEFINE v == page.view
             panels == IF v.board = "discover" THEN PanelLoads(FreshPanel(panel.search), cs)
                       ELSE {<<FreshPanel(panel.search), cs>>}
  <1>1. PICK p \in panels : \E l \in Loads(v, FreshPage(v), p[2]) : t = <<l[1], p[1], l[2]>>
    BY DEF Mount
  <1>l. PICK l \in Loads(v, FreshPage(v), p[2]) : t = <<l[1], p[1], l[2]>>
    BY <1>1
  <1>2. /\ v \in View /\ panel.search \in Search
        /\ FreshPage(v) \in PageState /\ FreshPage(v).view = v
    BY FreshFacts DEF PageState, PanelState
  <1>3. \A s \in Search : FreshPanel(s) \in PanelState /\ Sober(FreshPanel(s), cs)
    BY <1>2, FreshFacts DEF Sober
  <1>4. /\ p[1] \in PanelState /\ Wellformed(p[2]) /\ Follows(cs, p[2]) /\ Sober(p[1], p[2])
        /\ (v.board = "discover" => Sound(p[1], p[2]))
        /\ (v.board # "discover" => Live(p[2]) = {})
    <2>1. CASE v.board = "discover"
      BY <2>1, <1>2, <1>3, PanelLoadsFacts
    <2>2. CASE v.board # "discover"
      <3>1. p = <<FreshPanel(panel.search), cs>>
        BY <2>2
      <3> QED BY <2>2, <3>1, <1>2, <1>3, FreshFacts DEF Follows
    <2> QED BY <2>1, <2>2
  <1> HIDE DEF v, panels
  <1>5. /\ l[1] \in PageState /\ l[1].view = v
        /\ Wellformed(l[2]) /\ Follows(p[2], l[2]) /\ Quieter(p[2], l[2])
        /\ Faithful(l[1], l[2], tr)
    BY <1>2, <1>4, LoadsFacts
  <1>6. /\ Follows(cs, l[2]) /\ Sober(p[1], l[2])
        /\ (v.board = "discover" => Sound(p[1], l[2]))
        /\ (v.board # "discover" => Live(l[2]) = {})
    <2>1. Follows(cs, l[2])
      BY <1>4, <1>5, FollowsTrans
    <2>2. /\ Sober(p[1], p[2]) => Sober(p[1], l[2])
          /\ Sound(p[1], p[2]) => Sound(p[1], l[2])
          /\ Live(p[2]) = {} => Live(l[2]) = {}
      BY <1>5, QuietPanel
    <2> QED BY <1>4, <2>1, <2>2
  <1> QED BY <1>l, <1>4, <1>5, <1>6 DEF Shown, Ready

(***************************************************************************)
(* The invariant.  Without a page nothing in flight has a component any    *)
(* more, and before the first one /api/auth/me is all there is.            *)
(***************************************************************************)
Waits == /\ \A c \in Call : calls[c].at = "waiting" => refreshing
         /\ timing => refreshing

Starts ==
    /\ \A c, d \in Call : calls[c].kind = "me" /\ calls[d].kind = "me" => c = d
    /\ \A c \in Call : calls[c].kind = "me" => auth = "loading"
    /\ auth = "loading" => ~refreshing /\ \A c \in Call : calls[c].kind \in {"me", "none"}
    /\ auth # "user" => \A c \in Call : calls[c].kind \in {"me", "none"} \/ calls[c].gone

Displays ==
    /\ Ready(page, panel, calls)
    /\ IF auth = "user" THEN Shown(page, panel, calls, tracks) ELSE Live(calls) = {}

TabInv ==
    /\ auth \in {"loading", "anon", "user"} /\ tracks \in SUBSET Repo
    /\ refreshing \in BOOLEAN /\ timing \in BOOLEAN
    /\ Waits /\ Starts /\ Displays

LEMMA TabInit == Init => TabInv
  <1> SUFFICES ASSUME Init PROVE TabInv
    OBVIOUS
  <1>1. PICK v \in View : page = FreshPage(v)
    BY DEF Init
  <1>2. PICK s \in Search : panel = FreshPanel(s)
    BY DEF Init
  <1>3. PICK c \in Call : calls = [d \in Call |-> IF d = c THEN New("me") ELSE Idle]
    BY DEF Init
  <1>4. New("me") \in CallState /\ Fits(New("me"))
    BY DEF New, Idle, CallState, Kind, Fits, Changes, OfTracked
  <1>5. /\ New("me").kind = "me" /\ New("me").at = "sent" /\ ~New("me").latest
        /\ Idle.kind = "none"
    BY DEF New, Idle
  <1>6. Wellformed(calls) /\ Live(calls) = {}
    BY <1>3, <1>4, <1>5, IdleFits DEF Wellformed, Live
  <1>7. Waits /\ Starts
    BY <1>3, <1>5, IdleFits DEF Init, Waits, Starts
  <1>8. Displays
    BY <1>1, <1>2, <1>6, FreshFacts DEF Init, Displays, Ready, Sober
  <1> QED BY <1>7, <1>8 DEF Init, TabInv

(***************************************************************************)
(* Three kinds of steps: the page goes; nothing displayed changes; and a   *)
(* mounted page changes.                                                   *)
(***************************************************************************)
LEMMA LogoutStep ==
    ASSUME TabInv, NEW cs, Wellformed(cs), Follows(calls, cs), ForceLogout(cs),
           \A c \in Call : cs[c].kind # "me", UNCHANGED tracks,
           refreshing' \in BOOLEAN, timing' \in BOOLEAN, timing' => refreshing',
           \A c \in Call : cs[c].at = "waiting" => refreshing'
    PROVE  TabInv'
  <1> DEFINE ds == Gone(cs, Kind \ {"none"})
  <1>1. /\ Wellformed(ds) /\ Follows(cs, ds) /\ Live(ds) = {}
        /\ \A c \in Call : ds[c].kind = cs[c].kind /\ (cs[c].kind \in Kind \ {"none"} => ds[c].gone)
    BY GoneFacts DEF Kind
  <1>2. calls' = ds /\ auth' = "anon"
    BY DEF ForceLogout
  <1> HIDE DEF ds
  <1>3. Waits' /\ Starts'
    BY <1>1, <1>2 DEF Waits, Starts, Follows, Wellformed, CallState
  <1>4. page.view \in View /\ panel.search \in Search
    BY DEF TabInv, Displays, Ready, PageState, PanelState
  <1>5. page' \in PageState
    BY <1>4, FreshFacts DEF ForceLogout
  <1>6. PICK s \in Search : panel' = FreshPanel(s)
    BY <1>4, FreshFacts DEF ForceLogout
  <1>7. Displays'
    BY <1>1, <1>2, <1>4, <1>5, <1>6, FreshFacts DEF Displays, Ready, Sober
  <1> QED BY <1>2, <1>3, <1>7 DEF TabInv

LEMMA ReadyQuiet ==
    ASSUME NEW pg, NEW pn, NEW cs, NEW ds, Ready(pg, pn, cs), Wellformed(ds), Quieter(cs, ds)
    PROVE  Ready(pg, pn, ds)
  <1>1. /\ Sober(pn, cs) => Sober(pn, ds)
        /\ Live(cs) = {} => Live(ds) = {}
    BY QuietPanel
  <1> QED BY <1>1 DEF Ready

LEMMA QuietStep ==
    ASSUME TabInv, UNCHANGED <<auth, page, panel>>, Wellformed(calls'), Quieter(calls, calls'),
           tracks' \in SUBSET Repo, auth = "user" => Faithful(page, calls', tracks')
    PROVE  Displays'
  <1>1. Ready(page, panel, calls')
    BY ReadyQuiet DEF TabInv, Displays
  <1>2. /\ Sound(panel, calls) => Sound(panel, calls')
        /\ Live(calls) = {} => Live(calls') = {}
    BY QuietPanel
  <1> QED BY <1>1, <1>2 DEF TabInv, Displays, Shown

LEMMA MountedStep ==
    ASSUME TabInv, OnPage, UNCHANGED <<auth, session>>, tracks' \in SUBSET Repo,
           Follows(calls, calls'), Shown(page', panel', calls', tracks')
    PROVE  TabInv'
  <1>1. Waits' /\ Starts'
    BY DEF OnPage, TabInv, Waits, Starts, Follows, session
  <1>2. Displays'
    BY DEF OnPage, Displays, Shown
  <1> QED BY <1>1, <1>2 DEF TabInv, session

\* A call that has a component is made by a mounted page.
LEMMA OfMounted ==
    ASSUME TabInv, NEW c \in Call, ~calls[c].gone, calls[c].kind \notin {"me", "none"}
    PROVE  OnPage
  BY DEF TabInv, Starts, OnPage

(***************************************************************************)
(* What the user does.                                                     *)
(***************************************************************************)
LEMMA ChooseStep ==
    ASSUME TabInv, NEW v \in View, Choose(v)
    PROVE  TabInv'
  <1>1. Ready(page, panel, calls) /\ tracks \in SUBSET Repo
    BY DEF TabInv, Displays
  <1>2. PICK t \in Turn(v, page, panel, calls) : page' = t[1] /\ panel' = t[2] /\ calls' = t[3]
    BY DEF Choose, Become
  <1>3. Shown(t[1], t[2], t[3], tracks) /\ Follows(calls, t[3])
    BY <1>1, TurnFacts
  <1> QED BY <1>1, <1>2, <1>3, MountedStep DEF Choose

LEMMA LoginStep == TabInv /\ Login => TabInv'
  <1> SUFFICES ASSUME TabInv, Login PROVE TabInv'
    OBVIOUS
  <1>1. /\ page \in PageState /\ panel \in PanelState /\ Wellformed(calls) /\ Live(calls) = {}
        /\ \A c \in Call : calls[c].kind # "me"
    BY DEF Login, TabInv, Displays, Ready, Starts
  <1>2. PICK t \in Mount(calls) : page' = t[1] /\ panel' = t[2] /\ calls' = t[3]
    BY DEF Login, Become
  <1>3. Shown(t[1], t[2], t[3], tracks) /\ Follows(calls, t[3])
    BY <1>1, MountFacts
  <1>4. Waits' /\ Starts' /\ Displays'
    BY <1>1, <1>2, <1>3 DEF Login, TabInv, Waits, Starts, Follows, Displays, Shown, session
  <1> QED BY <1>4 DEF Login, TabInv, session

LEMMA FollowsSelf == \A cs : Follows(cs, cs) /\ Quieter(cs, cs) /\ SameBoard(cs, cs)
  BY DEF Follows, Quieter, SameBoard

LEMMA LogoutHolds == TabInv /\ Logout => TabInv'
  <1> SUFFICES ASSUME TabInv, Logout PROVE TabInv'
    OBVIOUS
  <1>1. Wellformed(calls) /\ Follows(calls, calls) /\ \A c \in Call : calls[c].kind # "me"
    BY FollowsSelf DEF Logout, OnPage, TabInv, Displays, Ready, Starts
  <1> QED BY <1>1, LogoutStep DEF Logout, TabInv, Waits, session

LEMMA RetryLoadStep == TabInv /\ RetryLoad => TabInv'
  <1> SUFFICES ASSUME TabInv, RetryLoad PROVE TabInv'
    OBVIOUS
  <1>1. /\ page \in PageState /\ page.view \in View /\ Wellformed(calls)
        /\ Shown(page, panel, calls, tracks)
    BY DEF RetryLoad, OnPage, TabInv, Displays, Ready, PageState
  <1>2. PICK l \in Loads(page.view, page, calls) : page' = l[1] /\ calls' = l[2]
    BY DEF RetryLoad
  <1>3. /\ l[1] \in PageState /\ l[1].view = page.view
        /\ Wellformed(l[2]) /\ Follows(calls, l[2]) /\ Quieter(calls, l[2])
        /\ Faithful(l[1], l[2], tracks)
    BY <1>1, LoadsFacts
  <1>4. /\ Sober(panel, calls) => Sober(panel, l[2])
        /\ Sound(panel, calls) => Sound(panel, l[2])
        /\ Live(calls) = {} => Live(l[2]) = {}
    BY <1>3, QuietPanel
  <1>5. Shown(l[1], panel, l[2], tracks)
    BY <1>1, <1>3, <1>4 DEF Shown, Ready
  <1> QED BY <1>2, <1>3, <1>5, MountedStep DEF RetryLoad, TabInv

\* The page of a panel that has loaded.
LEMMA PanelStep ==
    ASSUME TabInv, OnPanel, UNCHANGED <<auth, page, session, tracks>>,
           NEW pn \in PanelState, Sober(pn, calls),
           \E l \in PanelLoads(pn, calls) : panel' = l[1] /\ calls' = l[2]
    PROVE  TabInv'
  <1>1. PICK l \in PanelLoads(pn, calls) : panel' = l[1] /\ calls' = l[2]
    OBVIOUS
  <1>2. Shown(page, panel, calls, tracks) /\ Wellformed(calls)
    BY DEF OnPanel, OnPage, TabInv, Displays, Ready
  <1>3. /\ l[1] \in PanelState /\ Wellformed(l[2]) /\ Follows(calls, l[2])
        /\ SameBoard(calls, l[2]) /\ Sober(l[1], l[2]) /\ Sound(l[1], l[2])
    BY <1>2, PanelLoadsFacts
  <1>4. Faithful(page, l[2], tracks)
    BY <1>2, <1>3, SameFaithful DEF Shown
  <1>5. Shown(page, l[1], l[2], tracks)
    BY <1>2, <1>3, <1>4 DEF Shown, Ready, OnPanel
  <1> QED BY <1>1, <1>3, <1>5, MountedStep DEF OnPanel, TabInv

LEMMA LandStep ==
    ASSUME TabInv, NEW f \in Field, Land(f)
    PROVE  TabInv'
  <1> DEFINE pn == [panel EXCEPT !.search[f] = panel.draft[f]]
  <1>1. panel \in PanelState /\ Sober(panel, calls)
    BY DEF TabInv, Displays, Ready
  <1>2. panel.search \in Search /\ panel.draft \in Search
    BY <1>1 DEF PanelState
  <1>3. [panel.search EXCEPT ![f] = panel.draft[f]] \in Search
    BY <1>2 DEF Search
  <1>4. pn = [panel EXCEPT !.search = [panel.search EXCEPT ![f] = panel.draft[f]]]
    BY <1>1 DEF PanelState
  <1>5. pn \in PanelState /\ Sober(pn, calls)
    BY <1>1, <1>3, <1>4 DEF PanelState, Sober
  <1>6. \E l \in PanelLoads(pn, calls) : panel' = l[1] /\ calls' = l[2]
    BY DEF Land
  <1> HIDE DEF pn
  <1> QED BY <1>5, <1>6, PanelStep DEF Land

LEMMA TypeStep ==
    ASSUME TabInv, NEW f \in Field, NEW x \in Text \cup {Empty}, Type(f, x)
    PROVE  TabInv'
  <1>1. /\ panel \in PanelState /\ Shown(page, panel, calls, tracks) /\ panel.draft \in Search
    BY DEF Type, OnPanel, OnPage, TabInv, Displays, Ready, PanelState
  <1>2. [panel.draft EXCEPT ![f] = x] \in Search
    BY <1>1 DEF Search
  <1>3. panel' = [panel EXCEPT !.draft = [panel.draft EXCEPT ![f] = x]]
    BY <1>1 DEF Type, PanelState
  <1>4. /\ panel' \in PanelState /\ panel'.search = panel.search /\ panel'.items = panel.items
        /\ panel'.loading = panel.loading /\ panel'.error = panel.error
        /\ panel'.retry = panel.retry /\ panel'.astray = panel.astray
    BY <1>1, <1>2, <1>3 DEF PanelState
  <1>5. Shown(page, panel', calls, tracks)
    BY <1>1, <1>4 DEF Shown, Ready, Sober, Sound
  <1> QED BY <1>5, FollowsSelf, MountedStep DEF Type, OnPanel, TabInv

LEMMA CountDownStep == TabInv /\ CountDown => TabInv'
  <1> SUFFICES ASSUME TabInv, CountDown PROVE TabInv'
    OBVIOUS
  <1>1. panel \in PanelState /\ Shown(page, panel, calls, tracks) /\ panel.retry > 0
    BY DEF CountDown, OnPanel, OnPage, TabInv, Displays, Ready
  <1>2. /\ panel' \in PanelState /\ panel'.search = panel.search /\ panel'.items = panel.items
        /\ panel'.loading = panel.loading /\ panel'.error = panel.error
        /\ panel'.retry < panel.retry /\ panel'.astray = panel.astray
    BY <1>1, PageAssumption DEF CountDown, PanelState
  <1>3. Shown(page, panel', calls, tracks)
    BY <1>1, <1>2 DEF Shown, Ready, Sober, Sound
  <1> QED BY <1>3, FollowsSelf, MountedStep DEF CountDown, OnPanel, TabInv

LEMMA RerenderStep == TabInv /\ (Rerender \/ RetrySearch) => TabInv'
  <1> SUFFICES ASSUME TabInv PROVE (Rerender \/ RetrySearch) => TabInv'
    OBVIOUS
  <1>1. CASE Rerender
    <2>1. Ready(page, panel, calls) /\ Faithful(page, calls, tracks)
      BY <1>1 DEF Rerender, OnPanel, OnPage, TabInv, Displays, Shown
    <2>2. PICK t \in Rendered(page, panel, calls) :
             page' = t[1] /\ panel' = t[2] /\ calls' = t[3]
      BY <1>1 DEF Rerender, Become
    <2>3. Shown(t[1], t[2], t[3], tracks) /\ Follows(calls, t[3])
      BY <2>1, RenderedFacts
    <2> QED BY <1>1, <2>2, <2>3, MountedStep DEF Rerender, OnPanel, TabInv
  <1>2. CASE RetrySearch
    <2>1. panel \in PanelState /\ Sober(panel, calls)
      BY DEF TabInv, Displays, Ready
    <2> QED BY <1>2, <2>1, PanelStep DEF RetrySearch
  <1> QED BY <1>1, <1>2

\* A change is asked for: unless it is mixed, the list is not being loaded.
LEMMA ChangeFaithful ==
    ASSUME NEW c \in Call, NEW call, Wellformed(calls), page \in PageState, Change(c, call),
           calls[c].kind = "none", call.kind \in Changes, ~call.gone, call.at = "sent",
           page.view.board # "discover" => call.kind # "track",
           call.kind = "add" /\ page.view.board = "tracked" => call.view # None,
           Faithful(page, calls, tracks)
    PROVE  Faithful(page', calls', tracks)
  <1>1. /\ page'.view = page.view /\ page'.loading = page.loading /\ page'.error = page.error
        /\ page'.data = page.data /\ page'.tracked = page.tracked
        /\ page'.mixed = (page.mixed \/ Loading(calls) # {})
    BY DEF Change, PageState
  <1>2. calls' = [calls EXCEPT ![c] = call] /\ \A d \in Call : calls'[d] = IF d = c THEN call ELSE calls[d]
    BY DEF Change, Wellformed
  <1>3. Loading(calls') = Loading(calls)
    BY <1>2 DEF Loading, Pending, Changes
  <1>4. \A K \in SUBSET Changes :
           Pending(calls', K) = IF call.kind \in K THEN Pending(calls, K) \cup {c} ELSE Pending(calls, K)
    BY <1>2 DEF Pending, Changes
  <1>5. ASSUME Listed(page, calls, tracks), page.view.board = "tracked"
        PROVE  Listed(page', calls', tracks)
    <2>1. /\ {"track"} \in SUBSET Changes /\ {"add"} \in SUBSET Changes
          /\ {"untrack"} \in SUBSET Changes /\ Changes \in SUBSET Changes
      BY DEF Changes
    <2>2. Pending(calls', {"track"}) = {}
      BY <1>4, <1>5, <2>1 DEF Listed
    <2>3. \A d \in Pending(calls', Changes) : ~calls'[d].gone
      BY <1>2, <1>4, <1>5, <2>1 DEF Listed, Pending
    <2>4. \A d \in Pending(calls', {"add"}) : calls'[d].view # None
      BY <1>2, <1>4, <1>5, <2>1 DEF Listed, Pending
    <2>5. ASSUME Pending(calls', {"add"}) = {}
          PROVE  /\ Pending(calls, {"add"}) = {}
                 /\ \A d \in Pending(calls', {"untrack"}) :
                        calls'[d].at = "back" => calls'[d].repo \notin tracks
      BY <1>2, <1>4, <1>5, <2>1, <2>5 DEF Listed, Pending
    <2>6. \A n : (\A d \in Pending(calls', {"untrack"}) : calls'[d].repo # n)
                   => \A d \in Pending(calls, {"untrack"}) : calls[d].repo # n
      BY <1>2 DEF Pending
    <2> QED BY <1>1, <1>5, <2>2, <2>3, <2>4, <2>5, <2>6 DEF Listed
  <1> QED BY <1>1, <1>3, <1>5 DEF Faithful

LEMMA ChangeStep ==
    ASSUME TabInv, OnPage, NEW c \in Free(calls), NEW call \in CallState, Fits(call),
           Change(c, call), call.kind \in Changes, ~call.gone, call.at = "sent", ~call.latest,
           page.view.board # "discover" => call.kind # "track",
           call.kind = "add" /\ page.view.board = "tracked" => call.view # None
    PROVE  TabInv'
  <1>1. /\ Shown(page, panel, calls, tracks) /\ Wellformed(calls) /\ page \in PageState
        /\ c \in Call /\ calls[c].kind = "none"
    BY DEF OnPage, TabInv, Displays, Ready, Free
  <1>2. Faithful(page', calls', tracks)
    BY <1>1, ChangeFaithful DEF Shown
  <1>3. page' \in PageState /\ page'.view = page.view
    <2>1. (page.mixed \/ Loading(calls) # {}) \in BOOLEAN
      OBVIOUS
    <2> QED BY <1>1, <2>1 DEF Change, PageState
  <1>4. Wellformed(calls') /\ Follows(calls, calls') /\ Quieter(calls, calls')
    BY <1>1 DEF Change, Wellformed, Follows, Quieter, Changes
  <1>5. /\ Sober(panel, calls) => Sober(panel, calls')
        /\ Sound(panel, calls) => Sound(panel, calls')
        /\ Live(calls) = {} => Live(calls') = {}
    BY <1>4, QuietPanel
  <1>6. Shown(page', panel', calls', tracks')
    BY <1>1, <1>2, <1>3, <1>4, <1>5 DEF Shown, Ready, Change
  <1> QED BY <1>4, <1>6, MountedStep DEF Change, TabInv

LEMMA AddStep ==
    ASSUME TabInv, NEW n \in Repo, Add(n) \/ Track(n) \/ Untrack(n)
    PROVE  TabInv'
  <1>p. page.view \in View /\ page.view # None
    BY PageAssumption DEF TabInv, Displays, Ready, PageState
  <1>1. CASE Add(n)
    <2> DEFINE w == IF page.view.board = "tracked" THEN page.view ELSE None
               call == [New("add") EXCEPT !.repo = n, !.view = w]
    <2>1. PICK c \in Free(calls) : Change(c, call)
      BY <1>1 DEF Add
    <2>2. /\ call \in CallState /\ Fits(call) /\ call.kind = "add" /\ ~call.gone /\ ~call.latest
          /\ call.at = "sent" /\ (page.view.board = "tracked" => call.view # None)
      BY <1>p DEF New, Idle, CallState, Kind, Fits, Changes, OfTracked
    <2> HIDE DEF call
    <2>3. call.kind \in Changes
      BY <2>2 DEF Changes
    <2> QED BY <1>1, <2>1, <2>2, <2>3, ChangeStep DEF Add
  <1>2. CASE Track(n)
    <2> DEFINE call == [New("track") EXCEPT !.repo = n]
    <2>1. PICK c \in Free(calls) : Change(c, call)
      BY <1>2 DEF Track
    <2>2. /\ call \in CallState /\ Fits(call) /\ call.kind = "track" /\ ~call.gone /\ ~call.latest
          /\ call.at = "sent" /\ call.kind \in Changes
      BY DEF New, Idle, CallState, Kind, Fits, Changes, OfTracked
    <2> HIDE DEF call
    <2> QED BY <1>2, <2>1, <2>2, ChangeStep DEF Track, OnPanel
  <1>3. CASE Untrack(n)
    <2> DEFINE call == [New("untrack") EXCEPT !.repo = n]
    <2>1. PICK c \in Free(calls) : Change(c, call)
      BY <1>3 DEF Untrack
    <2>2. /\ call \in CallState /\ Fits(call) /\ call.kind = "untrack" /\ ~call.gone /\ ~call.latest
          /\ call.at = "sent" /\ call.kind \in Changes
      BY DEF New, Idle, CallState, Kind, Fits, Changes, OfTracked
    <2> HIDE DEF call
    <2> QED BY <1>3, <2>1, <2>2, ChangeStep DEF Untrack
  <1> QED BY <1>1, <1>2, <1>3

(***************************************************************************)
(* The server.                                                             *)
(***************************************************************************)
LEMMA ServeFaithful ==
    ASSUME NEW c \in Call, Wellformed(calls), Serve(c), Faithful(page, calls, tracks)
    PROVE  Faithful(page, calls', tracks')
  <1> DEFINE answer == IF OfTracked(calls[c]) THEN tracks \cap Match[calls[c].view.filter] ELSE None
  <1>1. \A d \in Call :
           /\ calls'[d].kind = calls[d].kind /\ calls'[d].gone = calls[d].gone
           /\ calls'[d].view = calls[d].view /\ calls'[d].repo = calls[d].repo
           /\ calls'[d].at = IF d = c THEN "back" ELSE calls[d].at
           /\ calls'[d].answer = IF d = c THEN answer ELSE calls[d].answer
    BY DEF Serve, Wellformed, CallState
  <1>2. Loading(calls') = Loading(calls) /\ \A K : Pending(calls', K) = Pending(calls, K)
    BY <1>1 DEF Loading, Pending
  <1>3. /\ calls[c].kind \in Changes \/ OfTracked(calls[c])
        /\ calls[c].kind \in Changes => c \in Pending(calls, Changes)
        /\ calls[c].kind \notin Changes => tracks' = tracks
        /\ \A n : calls[c].kind \in {"load", "untrack"} /\ (calls[c].kind = "untrack" => n # calls[c].repo)
                    => (n \in tracks' <=> n \in tracks)
        /\ calls[c].kind = "untrack" => calls[c].repo \notin tracks' /\ tracks' \subseteq tracks
    BY DEF Serve, Pending, Changes, OfTracked
  <1>4. ASSUME NEW d \in Loading(calls), Pending(calls, Changes) = {},
               page.view.board = "tracked", calls[d].view = page.view,
               calls[d].at = "back" => calls[d].answer = tracks \cap Match[page.view.filter],
               calls'[d].at = "back"
        PROVE  calls'[d].answer = tracks' \cap Match[page.view.filter]
    <2>1. calls[c].kind \notin Changes /\ tracks' = tracks
      BY <1>3, <1>4
    <2>2. CASE d = c
      BY <1>1, <1>3, <1>4, <2>1, <2>2
    <2>3. CASE d # c
      BY <1>1, <1>4, <2>1, <2>3 DEF Loading, Pending
    <2> QED BY <2>2, <2>3
  <1>5. ASSUME Listed(page, calls, tracks) PROVE Listed(page, calls', tracks')
    <2>1. CASE Pending(calls, {"add"}) # {}
      BY <1>1, <1>2, <1>5, <2>1 DEF Listed, Pending
    <2>2. CASE Pending(calls, {"add"}) = {}
      <3>1. calls[c].kind \in {"load", "untrack"}
        BY <1>3, <1>5, <2>2 DEF Listed, Pending, Changes, OfTracked
      <3>2. \A d \in Pending(calls, {"untrack"}) :
               calls'[d].at = "back" => calls'[d].repo \notin tracks'
        BY <1>1, <1>3, <1>5, <2>2, <3>1 DEF Listed, Pending, Changes
      <3>3. \A n \in Repo : (\A d \in Pending(calls, {"untrack"}) : calls[d].repo # n)
                              => (n \in tracks' <=> n \in tracks)
        BY <1>3, <3>1 DEF Pending
      <3> QED BY <1>1, <1>2, <1>5, <2>2, <3>2, <3>3 DEF Listed, Pending
    <2> QED BY <2>1, <2>2
  <1> QED BY <1>1, <1>2, <1>4, <1>5 DEF Faithful, Loading, Pending

LEMMA ServeStep ==
    ASSUME TabInv, NEW c \in Call, Serve(c)
    PROVE  TabInv'
  <1> DEFINE call == calls[c]
             answer == IF OfTracked(call) THEN tracks \cap Match[call.view.filter] ELSE None
             back == [call EXCEPT !.at = "back", !.answer = answer, !.again = FALSE]
  <1>1. Wellformed(calls) /\ call \in CallState /\ Fits(call) /\ call.kind # "none" /\ call.at = "sent"
    BY DEF TabInv, Displays, Ready, Wellformed, Serve, Fits
  <1>2. calls' = [calls EXCEPT ![c] = back]
    BY <1>1 DEF Serve, Wellformed, CallState
  <1>3. answer \in (SUBSET Repo) \cup {None} /\ (OfTracked(call) => answer \in SUBSET Repo)
    BY DEF TabInv
  <1> HIDE DEF answer
  <1>4. /\ back \in CallState /\ back.kind = call.kind /\ back.gone = call.gone /\ back.at = "back"
        /\ back.view = call.view /\ back.repo = call.repo /\ back.latest = call.latest
        /\ back.search = call.search /\ back.answer = answer
    BY <1>1, <1>3 DEF CallState
  <1> HIDE DEF back
  <1>5. Fits(back)
    BY <1>1, <1>3, <1>4 DEF Fits, OfTracked
  <1>6. Wellformed(calls') /\ Follows(calls, calls') /\ Quieter(calls, calls')
    BY <1>1, <1>2, <1>4, <1>5 DEF Wellformed, Follows, Quieter
  <1>7. tracks' \in SUBSET Repo
    BY <1>1 DEF Serve, Fits, Changes, TabInv, OfTracked
  <1>8. auth = "user" => Faithful(page, calls', tracks')
    BY <1>1, ServeFaithful DEF TabInv, Displays, Shown
  <1>9. Displays'
    BY <1>6, <1>7, <1>8, QuietStep DEF Serve
  <1>s. UNCHANGED <<auth, refreshing, timing>>
    BY DEF Serve, session
  <1>k. \A d \in Call : calls'[d].kind = calls[d].kind /\ calls'[d].gone = calls[d].gone
    BY <1>1, <1>2, <1>4 DEF Wellformed
  <1>10. Waits' /\ Starts'
    <2>1. Waits'
      BY <1>6, <1>s DEF TabInv, Waits, Follows
    <2>2. Starts'
      BY <1>k, <1>s DEF TabInv, Starts
    <2> QED BY <2>1, <2>2
  <1> QED BY <1>7, <1>9, <1>10 DEF TabInv, Serve, session

(***************************************************************************)
(* Answers.                                                                *)
(***************************************************************************)

\* What a call without a component changed, or would have loaded, the list does not show.
LEMMA DropFaithful ==
    ASSUME NEW c \in Call, NEW call, Wellformed(calls), calls[c].gone,
           call.kind = "none" \/ (call.kind = "load" /\ call.gone),
           Faithful(page, calls, tracks)
    PROVE  Faithful(page, [calls EXCEPT ![c] = call], tracks)
  <1> DEFINE ds == [calls EXCEPT ![c] = call]
  <1>1. \A d \in Call : ds[d] = IF d = c THEN call ELSE calls[d]
    BY DEF Wellformed
  <1> HIDE DEF ds
  <1>2. Loading(ds) = Loading(calls) /\ c \notin Loading(calls)
    BY <1>1 DEF Loading, Pending
  <1>3. \A K \in SUBSET Changes : Pending(ds, K) = Pending(calls, K) \ {c}
    BY <1>1 DEF Pending, Changes
  <1>4. \A d \in Call : d # c => ds[d] = calls[d]
    BY <1>1
  <1>5. ASSUME Listed(page, calls, tracks) PROVE Listed(page, ds, tracks)
    <2>1. \A K \in SUBSET Changes : c \notin Pending(calls, K)
      BY <1>5 DEF Listed, Pending
    <2>2. \A K \in SUBSET Changes : Pending(ds, K) = Pending(calls, K)
      BY <1>3, <2>1
    <2>3. /\ {"track"} \in SUBSET Changes /\ {"add"} \in SUBSET Changes
          /\ {"untrack"} \in SUBSET Changes /\ Changes \in SUBSET Changes
      BY DEF Changes
    <2>4. \A K \in SUBSET Changes : \A d \in Pending(calls, K) : ds[d] = calls[d]
      BY <1>4, <2>1 DEF Pending
    <2> QED BY <1>5, <2>2, <2>3, <2>4 DEF Listed
  <1>6. Changes \in SUBSET Changes
    OBVIOUS
  <1>7. \A d \in Loading(calls) : ds[d] = calls[d]
    BY <1>2, <1>4 DEF Loading, Pending
  <1>8. Faithful(page, ds, tracks)
    BY <1>2, <1>3, <1>5, <1>6, <1>7 DEF Faithful
  <1> QED BY <1>8 DEF ds

\* A call ends and nobody looks at its answer.
LEMMA GoneStep ==
    ASSUME TabInv, NEW c \in Call, NEW call \in CallState, Fits(call), calls[c].gone,
           call.kind = "none" \/ (call.kind = "load" /\ call.gone), call.at # "waiting",
           Stay([calls EXCEPT ![c] = call]), UNCHANGED <<session, tracks>>,
           calls[c].kind \notin {"me", "none"}
    PROVE  TabInv'
  <1>1. Wellformed(calls) /\ calls' = [calls EXCEPT ![c] = call]
    BY DEF TabInv, Displays, Ready, Stay
  <1>2. \A d \in Call : calls'[d] = IF d = c THEN call ELSE calls[d]
    BY <1>1 DEF Wellformed
  <1>3. Wellformed(calls') /\ Follows(calls, calls') /\ Quieter(calls, calls')
    BY <1>1, <1>2 DEF Wellformed, Follows, Quieter, Fits
  <1>4. auth = "user" => Faithful(page, calls', tracks')
    BY <1>1, DropFaithful DEF TabInv, Displays, Shown
  <1>5. Displays'
    BY <1>3, <1>4, QuietStep DEF Stay, TabInv
  <1>6. auth # "loading"
    BY DEF TabInv, Starts, Fits
  <1>7. Waits' /\ Starts'
    BY <1>2, <1>3, <1>6 DEF TabInv, Waits, Starts, Follows, Stay, session
  <1> QED BY <1>5, <1>7 DEF TabInv, Stay, session

LEMMA DoneReady ==
    ASSUME TabInv, NEW c \in Call, NEW pg \in PageState,
           pg.view.board = page.view.board \/ Live(Done(c)) = {}
    PROVE  /\ Wellformed(Done(c)) /\ Follows(calls, Done(c)) /\ Quieter(calls, Done(c))
           /\ Ready(pg, panel, Done(c))
  <1>1. Ready(page, panel, calls) /\ Wellformed(calls)
    BY DEF TabInv, Displays, Ready
  <1>2. Wellformed(Done(c)) /\ Follows(calls, Done(c)) /\ Quieter(calls, Done(c))
    BY <1>1, DoneFacts DEF Done
  <1>3. Ready(page, panel, Done(c))
    BY <1>1, <1>2, ReadyQuiet
  <1> QED BY <1>2, <1>3 DEF Ready

\* An answer changes the page to pg, which is rendered.
LEMMA RenderedStep ==
    ASSUME TabInv, OnPage, NEW c \in Call, NEW pg \in PageState, pg.view = page.view,
           Faithful(pg, Done(c), tracks), UNCHANGED <<auth, session, tracks>>,
           \E t \in Rendered(pg, panel, Done(c)) : Become(t)
    PROVE  TabInv'
  <1>1. Ready(pg, panel, Done(c)) /\ Follows(calls, Done(c))
    BY DoneReady
  <1>2. PICK t \in Rendered(pg, panel, Done(c)) : page' = t[1] /\ panel' = t[2] /\ calls' = t[3]
    BY DEF Become
  <1>3. Shown(t[1], t[2], t[3], tracks) /\ Follows(Done(c), t[3])
    BY <1>1, RenderedFacts
  <1>4. Follows(calls, t[3])
    BY <1>1, <1>3, FollowsTrans
  <1> QED BY <1>2, <1>3, <1>4, MountedStep DEF TabInv

LEMMA DoneCalls ==
    ASSUME NEW c \in Call, Wellformed(calls)
    PROVE  /\ \A d \in Call : Done(c)[d] = IF d = c THEN Idle ELSE calls[d]
           /\ Loading(Done(c)) = Loading(calls) \ {c}
           /\ \A K \in SUBSET Changes : Pending(Done(c), K) = Pending(calls, K) \ {c}
  <1>1. \A d \in Call : Done(c)[d] = IF d = c THEN Idle ELSE calls[d]
    BY DEF Done, Wellformed
  <1>2. Idle.kind = "none"
    BY DEF Idle
  <1> QED BY <1>1, <1>2 DEF Loading, Pending, Changes

LEMMA GoneArrival ==
    ASSUME TabInv, NEW c \in Call, calls[c].gone, calls[c].kind \notin {"me", "none"},
           Stay(Done(c)), UNCHANGED <<session, tracks>>
    PROVE  TabInv'
  <1>1. Idle.kind = "none"
    BY DEF Idle
  <1> QED BY <1>1, IdleFits, GoneStep DEF Done

LEMMA LoadArrivesStep ==
    ASSUME TabInv, NEW c \in Call, LoadArrives(c)
    PROVE  TabInv'
  <1> DEFINE shown == IF OfTracked(calls[c])
                      THEN [page EXCEPT !.tracked = calls[c].answer, !.data = None, !.loading = FALSE]
                      ELSE [page EXCEPT !.data = calls[c].view, !.tracked = {}, !.loading = FALSE]
  <1>0. /\ calls[c].kind = "load" /\ (OfTracked(calls[c]) => calls[c].at = "back")
        /\ UNCHANGED <<session, tracks>>
    BY DEF LoadArrives, Arriving, Failing
  <1>1. CASE calls[c].gone
    BY <1>0, <1>1, GoneArrival DEF LoadArrives
  <1>2. CASE ~calls[c].gone
    <2>1. /\ OnPage /\ page \in PageState /\ Wellformed(calls) /\ Faithful(page, calls, tracks)
          /\ page.view \in View
      BY <1>0, <1>2, OfMounted DEF OnPage, TabInv, Displays, Ready, Shown, PageState
    <2>2. calls[c].view \in View /\ (OfTracked(calls[c]) => calls[c].answer \in SUBSET Repo)
      BY <1>0, <1>2, <2>1 DEF Wellformed, Fits
    <2>3. /\ shown \in PageState /\ shown.view = page.view /\ shown.mixed = page.mixed
          /\ OfTracked(calls[c]) => shown.tracked = calls[c].answer
          /\ ~OfTracked(calls[c]) => shown.data = calls[c].view
      BY <2>1, <2>2 DEF PageState
    <2> HIDE DEF shown
    <2>4. Faithful(shown, Done(c), tracks)
      <3>1. SUFFICES ASSUME page.view.board # "discover", ~page.mixed
                     PROVE  Faithful(shown, Done(c), tracks)
        BY <2>3 DEF Faithful
      <3>2. c \in Loading(calls)
        BY <1>0, <1>2 DEF Loading, Pending
      <3>3. /\ calls[c].view = page.view /\ Pending(calls, Changes) = {}
            /\ page.view.board = "tracked" /\ calls[c].at = "back" =>
                   calls[c].answer = tracks \cap Match[page.view.filter]
            /\ Loading(calls) = {c}
        BY <2>1, <3>1, <3>2 DEF Faithful
      <3>4. Loading(Done(c)) = {} /\ \A K \in SUBSET Changes : Pending(Done(c), K) = {}
        BY <2>1, <3>3, DoneCalls DEF Pending
      <3>5. /\ {"track"} \in SUBSET Changes /\ {"add"} \in SUBSET Changes
            /\ {"untrack"} \in SUBSET Changes /\ Changes \in SUBSET Changes
        BY DEF Changes
      <3>6. ASSUME page.view.board = "tracked" PROVE Listed(shown, Done(c), tracks)
        <4>1. shown.tracked = tracks \cap Match[page.view.filter]
          BY <1>0, <1>2, <2>3, <3>3, <3>6 DEF OfTracked
        <4> QED BY <2>3, <3>4, <3>5, <4>1 DEF Listed
      <3>7. ASSUME page.view.board \in Public PROVE shown.data = shown.view
        BY <2>3, <3>3, <3>7, PageAssumption DEF OfTracked
      <3> QED BY <2>3, <3>4, <3>6, <3>7 DEF Faithful
    <2>5. UNCHANGED auth /\ \E t \in Rendered(shown, panel, Done(c)) : Become(t)
      BY <1>2 DEF LoadArrives, shown
    <2> QED BY <1>0, <2>1, <2>3, <2>4, <2>5, RenderedStep
  <1> QED BY <1>1, <1>2

LEMMA LoadFailsStep ==
    ASSUME TabInv, NEW c \in Call, LoadFails(c)
    PROVE  TabInv'
  <1> DEFINE shown == [page EXCEPT !.error = TRUE, !.loading = FALSE]
  <1>1. /\ calls[c].kind = "load" /\ ~calls[c].gone
        /\ UNCHANGED <<session, tracks>>
    BY DEF LoadFails, Failing
  <1>2. /\ OnPage /\ page \in PageState /\ Wellformed(calls) /\ Faithful(page, calls, tracks)
    BY <1>1, OfMounted DEF OnPage, TabInv, Displays, Ready, Shown
  <1>3. /\ shown \in PageState /\ shown.view = page.view /\ shown.mixed = page.mixed
        /\ shown.error
    BY <1>2 DEF PageState
  <1>4. UNCHANGED auth /\ \E t \in Rendered(shown, panel, Done(c)) : Become(t)
    BY DEF LoadFails
  <1> HIDE DEF shown
  <1>5. Faithful(shown, Done(c), tracks)
    <2>1. SUFFICES ASSUME page.view.board # "discover", ~page.mixed
                   PROVE  Faithful(shown, Done(c), tracks)
      BY <1>3 DEF Faithful
    <2>2. Loading(calls) = {c}
      BY <1>1, <1>2, <2>1 DEF Faithful, Loading, Pending
    <2>3. Loading(Done(c)) = {}
      BY <1>2, <2>2, DoneCalls
    <2> QED BY <1>3, <2>3 DEF Faithful
  <1> QED BY <1>1, <1>2, <1>3, <1>4, <1>5, RenderedStep

LEMMA TrackArrivesStep ==
    ASSUME TabInv, NEW c \in Call, TrackArrives(c)
    PROVE  TabInv'
  <1> DEFINE shown == [page EXCEPT !.tracked = @ \cup {calls[c].repo}]
  <1>1. calls[c].kind = "track" /\ UNCHANGED <<session, tracks>>
    BY DEF TrackArrives, Arriving, Failing
  <1>2. CASE calls[c].gone
    BY <1>1, <1>2, GoneArrival DEF TrackArrives
  <1>3. CASE ~calls[c].gone
    <2>1. /\ OnPage /\ page \in PageState /\ Wellformed(calls) /\ Faithful(page, calls, tracks)
      BY <1>1, <1>3, OfMounted DEF OnPage, TabInv, Displays, Ready, Shown
    <2>2. calls[c].repo \in Repo
      BY <1>1, <2>1 DEF Wellformed, Fits, Changes
    <2>3. /\ shown \in PageState /\ shown.view = page.view /\ shown.mixed = page.mixed
          /\ shown.error = page.error /\ shown.loading = page.loading /\ shown.data = page.data
      BY <2>1, <2>2 DEF PageState
    <2>4. UNCHANGED auth /\ \E t \in Rendered(shown, panel, Done(c)) : Become(t)
      BY <1>3 DEF TrackArrives
    <2> HIDE DEF shown
    <2>5. Faithful(shown, Done(c), tracks)
      <3>1. SUFFICES ASSUME page.view.board # "discover", ~page.mixed
                     PROVE  Faithful(shown, Done(c), tracks)
        BY <2>3 DEF Faithful
      <3>2. c \in Pending(calls, Changes) /\ c \in Pending(calls, {"track"})
        BY <1>1 DEF Pending, Changes
      <3>3. Loading(calls) = {} /\ ~Listed(page, calls, tracks)
        BY <2>1, <3>1, <3>2 DEF Faithful, Listed
      <3>4. Loading(Done(c)) = {}
        BY <2>1, <3>3, DoneCalls
      <3> QED BY <2>1, <2>3, <3>1, <3>3, <3>4 DEF Faithful
    <2> QED BY <1>1, <2>1, <2>3, <2>4, <2>5, RenderedStep
  <1> QED BY <1>2, <1>3

LEMMA UntrackArrivesStep ==
    ASSUME TabInv, NEW c \in Call, UntrackArrives(c)
    PROVE  TabInv'
  <1> DEFINE shown == [page EXCEPT !.tracked = @ \ {calls[c].repo}]
  <1>1. calls[c].kind = "untrack" /\ calls[c].at = "back" /\ UNCHANGED <<session, tracks>>
    BY DEF UntrackArrives, Arriving, Failing, Changes
  <1>2. CASE calls[c].gone
    BY <1>1, <1>2, GoneArrival DEF UntrackArrives
  <1>3. CASE ~calls[c].gone
    <2>1. /\ OnPage /\ page \in PageState /\ Wellformed(calls) /\ Faithful(page, calls, tracks)
      BY <1>1, <1>3, OfMounted DEF OnPage, TabInv, Displays, Ready, Shown
    <2>3. /\ shown \in PageState /\ shown.view = page.view /\ shown.mixed = page.mixed
          /\ shown.error = page.error /\ shown.loading = page.loading /\ shown.data = page.data
          /\ shown.tracked = page.tracked \ {calls[c].repo}
      BY <2>1 DEF PageState
    <2>4. UNCHANGED auth /\ \E t \in Rendered(shown, panel, Done(c)) : Become(t)
      BY <1>3 DEF UntrackArrives
    <2> HIDE DEF shown
    <2>5. Faithful(shown, Done(c), tracks)
      <3>1. SUFFICES ASSUME page.view.board # "discover", ~page.mixed
                     PROVE  Faithful(shown, Done(c), tracks)
        BY <2>3 DEF Faithful
      <3>2. c \in Pending(calls, Changes) /\ c \in Pending(calls, {"untrack"})
        BY <1>1 DEF Pending, Changes
      <3>3. Loading(calls) = {}
        BY <2>1, <3>1, <3>2 DEF Faithful
      <3>4. /\ {"track"} \in SUBSET Changes /\ {"add"} \in SUBSET Changes
            /\ {"untrack"} \in SUBSET Changes /\ Changes \in SUBSET Changes
        BY DEF Changes
      <3>5. /\ Loading(Done(c)) = {}
            /\ \A K \in SUBSET Changes : Pending(Done(c), K) = Pending(calls, K) \ {c}
            /\ \A d \in Call : d # c => Done(c)[d] = calls[d]
        BY <2>1, <3>3, DoneCalls
      <3>6. Pending(Done(c), {"add"}) = Pending(calls, {"add"})
        BY <1>1, <3>4, <3>5 DEF Pending
      <3>7. \A K : \A d \in Pending(calls, K) : d \in Call
        BY DEF Pending
      <3>8. ASSUME Listed(page, calls, tracks) PROVE Listed(shown, Done(c), tracks)
        <4>1. /\ Pending(Done(c), {"track"}) = {}
              /\ \A d \in Pending(Done(c), Changes) : ~Done(c)[d].gone
              /\ \A d \in Pending(Done(c), {"add"}) : Done(c)[d].view # None
          BY <3>4, <3>5, <3>6, <3>7, <3>8 DEF Listed
        <4>2. ASSUME Pending(calls, {"add"}) = {}
              PROVE  /\ \A d \in Pending(Done(c), {"untrack"}) :
                            Done(c)[d].at = "back" => Done(c)[d].repo \notin tracks
                     /\ calls[c].repo \notin tracks
          BY <1>1, <3>2, <3>4, <3>5, <3>7, <3>8, <4>2 DEF Listed
        <4>3. ASSUME Pending(calls, {"add"}) = {}, NEW n \in Repo,
                     \A d \in Pending(Done(c), {"untrack"}) : Done(c)[d].repo # n
              PROVE  n \in shown.tracked <=> n \in tracks \cap Match[shown.view.filter]
          <5>1. CASE n = calls[c].repo
            BY <2>3, <4>2, <4>3, <5>1
          <5>2. CASE n # calls[c].repo
            <6>1. \A d \in Pending(calls, {"untrack"}) : calls[d].repo # n
              BY <3>4, <3>5, <3>7, <4>3, <5>2
            <6> QED BY <2>3, <3>8, <4>3, <5>2, <6>1 DEF Listed
          <5> QED BY <5>1, <5>2
        <4> QED BY <3>6, <4>1, <4>2, <4>3 DEF Listed
      <3> QED BY <2>1, <2>3, <3>1, <3>3, <3>5, <3>8 DEF Faithful
    <2> QED BY <1>1, <2>1, <2>3, <2>4, <2>5, RenderedStep
  <1> QED BY <1>2, <1>3

LEMMA AddArrivesStep ==
    ASSUME TabInv, NEW c \in Call, AddArrives(c)
    PROVE  TabInv'
  <1> DEFINE v == calls[c].view
             to == [page.view EXCEPT !.board = "tracked"]
             added == [page EXCEPT !.tracked = @ \cup {calls[c].repo}]
             first == IF v = None THEN {<<added, Done(c)>>} ELSE Loads(v, added, Done(c))
  <1>1. /\ calls[c].kind = "add" /\ UNCHANGED <<session, tracks>>
        /\ Wellformed(calls) /\ page \in PageState /\ page.view \in View /\ calls[c] \in CallState
        /\ Fits(calls[c]) /\ tracks \in SUBSET Repo
    BY DEF AddArrives, Arriving, Failing, TabInv, Displays, Ready, PageState, Wellformed
  <1>2. CASE calls[c].gone
    <2> DEFINE load == [New("load") EXCEPT !.gone = TRUE]
    <2>1. load \in CallState /\ Fits(load) /\ load.kind = "load" /\ load.gone /\ load.at = "sent"
      BY DEF New, Idle, CallState, Kind, Fits, Changes, OfTracked
    <2>2. Stay(Done(c)) \/ Stay([calls EXCEPT ![c] = load])
      BY <1>2 DEF AddArrives
    <2> HIDE DEF load
    <2> QED BY <1>1, <1>2, <2>1, <2>2, GoneArrival, GoneStep
  <1>3. CASE ~calls[c].gone
    <2>1. /\ OnPage /\ Shown(page, panel, calls, tracks)
      BY <1>1, <1>3, OfMounted DEF OnPage, TabInv, Displays
    <2>2. /\ added \in PageState /\ added.view = page.view /\ added.mixed = page.mixed
          /\ added.error = page.error /\ added.loading = page.loading /\ added.data = page.data
      BY <1>1 DEF PageState, Fits, Changes
    <2>3. to \in View /\ to.board = "tracked"
      BY <1>1 DEF View, Board
    <2>4. PICK l \in first :
             IF to = page.view THEN page' = l[1] /\ calls' = l[2] /\ UNCHANGED panel
             ELSE \E t \in Turn(to, l[1], panel, l[2]) : Become(t)
      BY <1>3 DEF AddArrives
    <2> HIDE DEF added, to
    <2>5. /\ Wellformed(Done(c)) /\ Follows(calls, Done(c)) /\ Quieter(calls, Done(c))
          /\ Ready(added, panel, Done(c))
      BY <2>2, DoneReady
    <2>6. /\ Ready(l[1], panel, l[2]) /\ Follows(calls, l[2]) /\ l[1].view = page.view
          /\ (to = page.view => Faithful(l[1], l[2], tracks))
      <3>1. CASE v = None
        <4>1. l[1] = added /\ l[2] = Done(c)
          BY <3>1
        <4>2. ASSUME page.view.board = "tracked", ~page.mixed PROVE Faithful(added, Done(c), tracks)
          <5>1. c \in Pending(calls, Changes) /\ c \in Pending(calls, {"add"})
            BY <1>1 DEF Pending, Changes
          <5>2. Loading(calls) = {} /\ ~Listed(page, calls, tracks)
            BY <2>1, <3>1, <4>2, <5>1 DEF Shown, Faithful, Listed
          <5>3. Loading(Done(c)) = {}
            BY <1>1, <5>2, DoneCalls
          <5> QED BY <2>1, <2>2, <4>2, <5>2, <5>3 DEF Faithful, Shown
        <4>3. to = page.view => Faithful(added, Done(c), tracks)
          BY <2>2, <2>3, <4>2 DEF Faithful
        <4> QED BY <2>2, <2>5, <4>1, <4>3
      <3>2. CASE v # None
        <4>1. v \in View /\ v.board = "tracked"
          BY <1>1, <3>2 DEF Fits, CallState
        <4>2. l \in Loads(v, added, Done(c))
          BY <3>2
        <4> HIDE DEF v
        <4>3. /\ l[1] \in PageState /\ l[1].view = added.view
              /\ Wellformed(l[2]) /\ Follows(Done(c), l[2]) /\ Quieter(Done(c), l[2])
              /\ Faithful(l[1], l[2], tracks)
          BY <2>2, <2>5, <4>1, <4>2, LoadsFacts
        <4>4. Ready(added, panel, l[2])
          BY <2>5, <4>3, ReadyQuiet
        <4>5. Follows(calls, l[2])
          BY <2>5, <4>3, FollowsTrans
        <4> QED BY <2>2, <4>3, <4>4, <4>5 DEF Ready
      <3> QED BY <3>1, <3>2
    <2>7. CASE to = page.view
      <3>1. Shown(l[1], panel, l[2], tracks)
        BY <2>3, <2>6, <2>7 DEF Shown
      <3> QED BY <1>1, <1>3, <2>1, <2>4, <2>6, <2>7, <3>1, MountedStep DEF AddArrives
    <2>8. CASE to # page.view
      <3>1. PICK t \in Turn(to, l[1], panel, l[2]) : page' = t[1] /\ panel' = t[2] /\ calls' = t[3]
        BY <2>4, <2>8 DEF Become
      <3>2. Shown(t[1], t[2], t[3], tracks) /\ Follows(l[2], t[3])
        <4>1. to \in View /\ Ready(l[1], panel, l[2])
          BY <2>3, <2>6
        <4>2. t \in Turn(to, l[1], panel, l[2])
          BY <3>1
        <4> HIDE DEF first, v
        <4> QED BY <4>1, <4>2, TurnFacts
      <3>3. Follows(calls, t[3])
        BY <2>6, <3>2, FollowsTrans
      <3> QED BY <1>1, <1>3, <2>1, <3>1, <3>2, <3>3, MountedStep DEF AddArrives
    <2> QED BY <2>7, <2>8
  <1> QED BY <1>2, <1>3

LEMMA ChangeFailsStep ==
    ASSUME TabInv, NEW c \in Call, ChangeFails(c)
    PROVE  TabInv'
  <1> DEFINE mixed == [page EXCEPT !.mixed = TRUE]
  <1>1. calls[c].kind \in Changes /\ UNCHANGED <<session, tracks>>
    BY DEF ChangeFails, Failing
  <1>2. mixed \in PageState /\ mixed.view = page.view /\ mixed.mixed
    BY DEF TabInv, Displays, Ready, PageState
  <1>3. \A cs : Faithful(mixed, cs, tracks)
    BY <1>2 DEF Faithful
  <1>4. CASE calls[c].kind = "untrack" /\ ~calls[c].gone
    <2>1. OnPage
      BY <1>4, OfMounted
    <2>2. UNCHANGED auth /\ \E t \in Rendered(mixed, panel, Done(c)) : Become(t)
      BY <1>4 DEF ChangeFails
    <2> HIDE DEF mixed
    <2> QED BY <1>1, <1>2, <1>3, <2>1, <2>2, RenderedStep
  <1>5. CASE ~(calls[c].kind = "untrack" /\ ~calls[c].gone)
    <2>1. page' = mixed /\ calls' = Done(c) /\ UNCHANGED <<auth, panel>>
      BY <1>5 DEF ChangeFails
    <2> HIDE DEF mixed
    <2>2. /\ Wellformed(Done(c)) /\ Follows(calls, Done(c)) /\ Quieter(calls, Done(c))
          /\ Ready(mixed, panel, Done(c))
      BY <1>2, DoneReady
    <2>3. /\ Sound(panel, calls) => Sound(panel, Done(c))
          /\ Live(calls) = {} => Live(Done(c)) = {}
      BY <2>2, QuietPanel
    <2>4. Displays'
      BY <1>1, <1>2, <1>3, <2>1, <2>2, <2>3 DEF TabInv, Displays, Shown
    <2>5. \A d \in Call : calls'[d] = IF d = c THEN Idle ELSE calls[d]
      BY <2>1, DoneCalls DEF TabInv, Displays, Ready
    <2>6. Waits' /\ Starts'
      BY <1>1, <2>1, <2>5, IdleFits DEF TabInv, Waits, Starts, session, Idle
    <2> QED BY <1>1, <2>1, <2>4, <2>6 DEF TabInv, session
  <1> QED BY <1>4, <1>5

\* A search ends: of the loads and changes nothing changes.
LEMMA DoneOther ==
    ASSUME NEW c \in Call, Wellformed(calls), calls[c].kind \notin Bearing
    PROVE  SameBoard(calls, Done(c))
  BY DoneCalls DEF SameBoard, Idle, Bearing, Changes

LEMMA SearchArrivesStep ==
    ASSUME TabInv, NEW c \in Call, SearchArrives(c)
    PROVE  TabInv'
  <1>1. /\ calls[c].kind = "search" /\ calls' = Done(c)
        /\ UNCHANGED <<auth, page, session, tracks>>
        /\ page \in PageState /\ panel \in PanelState /\ Wellformed(calls) /\ Sober(panel, calls)
    BY DEF SearchArrives, Arriving, Failing, TabInv, Displays, Ready
  <1>2. SameBoard(calls, Done(c))
    BY <1>1, DoneOther DEF Bearing, Changes
  <1>3. /\ Wellformed(Done(c)) /\ Follows(calls, Done(c)) /\ Quieter(calls, Done(c))
        /\ Ready(page, panel, Done(c))
    BY <1>1, DoneReady
  <1>4. auth = "user" => Faithful(page, Done(c), tracks)
    BY <1>2, SameFaithful DEF TabInv, Displays, Shown
  <1>w. Waits' /\ Starts'
    <2>1. \A d \in Call : calls'[d] = IF d = c THEN Idle ELSE calls[d]
      BY <1>1, DoneCalls
    <2> QED BY <1>1, <2>1, IdleFits DEF TabInv, Waits, Starts, session, Idle
  <1>5. CASE calls[c].gone \/ ~calls[c].latest
    <2>1. panel' = panel
      BY <1>5 DEF SearchArrives
    <2>2. Displays'
      BY <1>1, <1>3, <1>4, <2>1, QuietStep DEF TabInv
    <2> QED BY <1>1, <1>w, <2>2 DEF TabInv, session
  <1>6. CASE ~calls[c].gone /\ calls[c].latest
    <2>1. panel' = [panel EXCEPT !.items = calls[c].search, !.loading = FALSE]
      BY <1>6 DEF SearchArrives
    <2>2. calls[c].search \in Search \cup {None}
      BY <1>1 DEF Wellformed, CallState
    <2>3. /\ panel' \in PanelState /\ panel'.search = panel.search
          /\ panel'.items = calls[c].search /\ panel'.retry = panel.retry
          /\ panel'.error = panel.error /\ panel'.astray = panel.astray
      BY <1>1, <2>1, <2>2 DEF PanelState
    <2>4. /\ c \in Live(calls) /\ ~(panel.retry > 0) /\ Live(calls) = {c}
      BY <1>1, <1>6 DEF Live, Sober
    <2>5. Live(Done(c)) = {}
      BY <1>1, <2>4, DoneCalls, IdleFits DEF Live
    <2>6. Sound(panel, calls) => Sound(panel', Done(c))
      BY <2>3, <2>4, <2>5 DEF Sound
    <2>7. Sober(panel', Done(c))
      BY <2>3, <2>4, <2>5 DEF Sober
    <2>8. Displays'
      BY <1>1, <1>3, <1>4, <2>3, <2>5, <2>6, <2>7 DEF TabInv, Displays, Shown, Ready
    <2> QED BY <1>1, <1>w, <2>8 DEF TabInv, session
  <1> QED BY <1>5, <1>6

LEMMA SearchFailsStep ==
    ASSUME TabInv, NEW c \in Call, NEW secs \in 0 .. MaxRetry, SearchFails(c, secs)
    PROVE  TabInv'
  <1>1. /\ calls[c].kind = "search" /\ calls[c].latest /\ ~calls[c].gone /\ calls' = Done(c)
        /\ UNCHANGED <<auth, page, session, tracks>>
        /\ panel \in PanelState /\ Wellformed(calls) /\ Sober(panel, calls)
    BY DEF SearchFails, Failing, TabInv, Displays, Ready
  <1>2. OnPage /\ Shown(page, panel, calls, tracks)
    BY <1>1, OfMounted DEF OnPage, TabInv, Displays
  <1>3. SameBoard(calls, Done(c)) /\ Follows(calls, Done(c)) /\ Wellformed(Done(c))
    BY <1>1, DoneOther, DoneFacts DEF Bearing, Changes, Done
  <1>4. Faithful(page, Done(c), tracks)
    BY <1>2, <1>3, SameFaithful DEF Shown
  <1>5. /\ panel' \in PanelState /\ panel'.items = None /\ panel'.error
    BY <1>1, PageAssumption DEF SearchFails, PanelState
  <1>6. Live(calls) = {c}
    BY <1>1 DEF Live, Sober
  <1>7. Live(Done(c)) = {}
    BY <1>1, <1>6, DoneCalls, IdleFits DEF Live
  <1>8. Shown(page, panel', Done(c), tracks)
    BY <1>2, <1>3, <1>4, <1>5, <1>7 DEF Shown, Ready, Sober, Sound
  <1> QED BY <1>1, <1>2, <1>3, <1>8, MountedStep DEF TabInv

LEMMA TimerStep == TabInv /\ TimerTick => TabInv'
  <1> SUFFICES ASSUME TabInv, TimerTick PROVE TabInv'
    OBVIOUS
  <1>1. UNCHANGED <<auth, page, panel, calls, tracks>> /\ auth = "user"
    BY DEF TimerTick, OnPage
  <1>2. Displays'
    BY <1>1 DEF TabInv, Displays, Ready, Shown, Faithful, Listed, Loading, Pending, Sober, Sound, Live,
                Wellformed
  <1>3. Waits' /\ Starts'
    BY <1>1 DEF TimerTick, TabInv, Waits, Starts
  <1> QED BY <1>1, <1>2, <1>3 DEF TimerTick, TabInv

LEMMA MeStep ==
    ASSUME TabInv, NEW c \in Call, MeArrives(c) \/ MeFails(c)
    PROVE  TabInv'
  <1>1. /\ calls[c].kind = "me" /\ UNCHANGED <<session, tracks>> /\ auth = "loading"
        /\ \A d \in Call : calls[d].kind = "me" => d = c
        /\ page \in PageState /\ panel \in PanelState /\ Wellformed(calls) /\ Live(calls) = {}
    BY DEF MeArrives, MeFails, Arriving, Failing, TabInv, Starts, Displays, Ready
  <1>2. \A d \in Call : Done(c)[d] = IF d = c THEN Idle ELSE calls[d]
    BY <1>1, DoneCalls
  <1>3. /\ Wellformed(Done(c)) /\ Follows(calls, Done(c)) /\ Live(Done(c)) = {}
        /\ \A d \in Call : Done(c)[d].kind # "me" /\ Done(c)[d].at # "waiting"
    <2>1. Wellformed(Done(c)) /\ Follows(calls, Done(c))
      BY <1>1, DoneFacts DEF Done
    <2>2. Live(Done(c)) = {}
      BY <1>1, <1>2, IdleFits DEF Live
    <2>3. \A d \in Call : Done(c)[d].kind # "me" /\ Done(c)[d].at # "waiting"
      BY <1>1, <1>2, IdleFits DEF Idle, TabInv, Waits, Starts
    <2> QED BY <2>1, <2>2, <2>3
  <1>4. CASE MeArrives(c)
    <2>1. PICK t \in Mount(Done(c)) : page' = t[1] /\ panel' = t[2] /\ calls' = t[3]
      BY <1>4 DEF MeArrives, Become
    <2>2. Shown(t[1], t[2], t[3], tracks) /\ Follows(Done(c), t[3])
      BY <1>1, <1>3, MountFacts
    <2>3. Displays'
      BY <1>1, <1>4, <2>1, <2>2 DEF MeArrives, Displays, Shown
    <2>4. \A d \in Call : calls'[d].kind # "me" /\ calls'[d].at # "waiting"
      BY <1>3, <2>1, <2>2 DEF Follows
    <2>5. Waits' /\ Starts'
      BY <1>1, <1>4, <2>4 DEF MeArrives, TabInv, Waits, Starts, session
    <2> QED BY <1>1, <1>4, <2>3, <2>5 DEF MeArrives, TabInv, session
  <1>5. CASE MeFails(c)
    <2>1. ForceLogout(Done(c))
      BY <1>5 DEF MeFails
    <2> QED BY <1>1, <1>3, <2>1, LogoutStep DEF TabInv, Waits, session
  <1> QED BY <1>4, <1>5

\* A call begins to wait, or is sent again.
LEMMA ResentFits ==
    ASSUME NEW call \in CallState, Fits(call), call.kind # "none"
    PROVE  LET waiting == [call EXCEPT !.at = "waiting"]
               sent == [call EXCEPT !.at = "sent", !.again = TRUE]
           IN  /\ waiting \in CallState /\ Fits(waiting) /\ waiting.at = "waiting"
               /\ waiting.kind = call.kind /\ waiting.gone = call.gone /\ waiting.view = call.view
               /\ waiting.repo = call.repo /\ waiting.answer = call.answer
               /\ waiting.latest = call.latest /\ waiting.search = call.search
               /\ sent \in CallState /\ Fits(sent) /\ sent.at = "sent"
               /\ sent.kind = call.kind /\ sent.gone = call.gone /\ sent.view = call.view
               /\ sent.repo = call.repo /\ sent.answer = call.answer
               /\ sent.latest = call.latest /\ sent.search = call.search
  BY DEF CallState, Fits, OfTracked

LEMMA UnauthorizedStep ==
    ASSUME TabInv, NEW c \in Call, Unauthorized(c)
    PROVE  TabInv'
  <1>1. /\ Wellformed(calls) /\ calls[c] \in CallState /\ Fits(calls[c])
        /\ calls[c].at = "sent" /\ calls[c].kind # "none" /\ UNCHANGED <<timing, tracks>>
    BY DEF Unauthorized, TabInv, Displays, Ready, Wellformed, Fits
  <1>2. CASE calls[c].kind # "me" /\ ~calls[c].again
    <2> DEFINE waiting == [calls[c] EXCEPT !.at = "waiting"]
    <2>1. /\ calls' = [calls EXCEPT ![c].at = "waiting"]
          /\ refreshing' = TRUE /\ UNCHANGED <<auth, page, panel>>
      BY <1>2 DEF Unauthorized
    <2>2. calls' = [calls EXCEPT ![c] = waiting]
      BY <1>1, <2>1 DEF Wellformed, CallState
    <2>3. /\ waiting \in CallState /\ Fits(waiting) /\ waiting.at = "waiting"
          /\ waiting.kind = calls[c].kind /\ waiting.gone = calls[c].gone
          /\ waiting.view = calls[c].view /\ waiting.repo = calls[c].repo
          /\ waiting.answer = calls[c].answer /\ waiting.latest = calls[c].latest
          /\ waiting.search = calls[c].search
      BY <1>1, ResentFits
    <2> HIDE DEF waiting
    <2>4. \A d \in Call : calls'[d] = IF d = c THEN waiting ELSE calls[d]
      BY <1>1, <2>2 DEF Wellformed
    <2>5. Wellformed(calls') /\ Quieter(calls, calls') /\ SameBoard(calls, calls')
      <3>1. Wellformed(calls')
        BY <1>1, <2>2, <2>3 DEF Wellformed
      <3>2. Quieter(calls, calls')
        BY <2>3, <2>4 DEF Quieter
      <3>3. SameBoard(calls, calls')
        BY <1>1, <2>3, <2>4 DEF SameBoard
      <3> QED BY <3>1, <3>2, <3>3
    <2>6. auth = "user" => Faithful(page, calls', tracks)
      BY <2>5, SameFaithful DEF TabInv, Displays, Shown
    <2>7. Displays'
      BY <1>1, <2>1, <2>5, <2>6, QuietStep DEF TabInv
    <2>8. Waits' /\ Starts'
      BY <1>1, <1>2, <2>1, <2>3, <2>4 DEF TabInv, Waits, Starts
    <2> QED BY <1>1, <2>1, <2>7, <2>8 DEF TabInv
  <1>3. CASE calls[c].kind = "me" \/ calls[c].again
    <2>1. /\ UNCHANGED refreshing
          /\ IF calls[c].kind = "me" \/ Reports(calls[c]) THEN ForceLogout(Done(c)) ELSE Stay(Done(c))
      BY <1>3 DEF Unauthorized
    <2>2. /\ \A d \in Call : Done(c)[d] = IF d = c THEN Idle ELSE calls[d]
          /\ Wellformed(Done(c)) /\ Follows(calls, Done(c)) /\ Quieter(calls, Done(c))
      BY <1>1, DoneCalls, DoneFacts DEF Done
    <2>3. CASE ForceLogout(Done(c))
      <3>1. \A d \in Call : Done(c)[d].kind # "me"
        BY <1>1, <2>2 DEF TabInv, Starts, Idle
      <3>2. \A d \in Call : Done(c)[d].at = "waiting" => refreshing'
        BY <2>1, <2>2 DEF TabInv, Waits, Follows
      <3> QED BY <1>1, <2>1, <2>2, <2>3, <3>1, <3>2, LogoutStep DEF TabInv, Waits
    <2>4. CASE Stay(Done(c)) /\ calls[c].kind # "me" /\ ~Reports(calls[c])
      <3>1. calls[c].kind \notin Bearing
        BY <2>4 DEF Reports, Bearing
      <3>2. SameBoard(calls, Done(c))
        BY <1>1, <3>1, DoneOther
      <3>3. auth = "user" => Faithful(page, Done(c), tracks)
        BY <3>2, SameFaithful DEF TabInv, Displays, Shown
      <3>4. Displays'
        BY <1>1, <2>2, <2>4, <3>3, QuietStep DEF TabInv, Stay
      <3>5. Waits' /\ Starts'
        BY <1>1, <2>1, <2>2, <2>4, IdleFits DEF TabInv, Waits, Starts, Stay, Idle, Follows
      <3> QED BY <1>1, <2>1, <2>4, <3>4, <3>5 DEF TabInv, Stay
    <2> QED BY <2>1, <2>3, <2>4
  <1> QED BY <1>2, <1>3

LEMMA RefreshOkStep == TabInv /\ RefreshOk => TabInv'
  <1> SUFFICES ASSUME TabInv, RefreshOk PROVE TabInv'
    OBVIOUS
  <1> DEFINE sent(call) == [call EXCEPT !.at = "sent", !.again = TRUE]
  <1>1. /\ calls' = [c \in Call |-> IF c \in Waiting THEN sent(calls[c]) ELSE calls[c]]
        /\ refreshing' = FALSE /\ timing' = FALSE /\ UNCHANGED <<auth, page, panel, tracks>>
        /\ Wellformed(calls) /\ refreshing
    BY DEF RefreshOk, TabInv, Displays, Ready
  <1>2. ASSUME NEW c \in Waiting
        PROVE  /\ c \in Call /\ calls[c].at = "waiting"
               /\ sent(calls[c]) \in CallState /\ Fits(sent(calls[c])) /\ sent(calls[c]).at = "sent"
               /\ sent(calls[c]).kind = calls[c].kind /\ sent(calls[c]).gone = calls[c].gone
               /\ sent(calls[c]).view = calls[c].view /\ sent(calls[c]).repo = calls[c].repo
               /\ sent(calls[c]).answer = calls[c].answer /\ sent(calls[c]).latest = calls[c].latest
               /\ sent(calls[c]).search = calls[c].search
    <2>1. c \in Call /\ calls[c].at = "waiting"
      BY DEF Waiting
    <2>2. calls[c] \in CallState /\ Fits(calls[c]) /\ calls[c].kind # "none"
      BY <1>1, <2>1 DEF Wellformed, Fits
    <2> QED BY <2>1, <2>2, ResentFits
  <1> HIDE DEF sent
  <1>3. \A d \in Call : calls'[d] = IF d \in Waiting THEN sent(calls[d]) ELSE calls[d]
    BY <1>1
  <1>4. Wellformed(calls')
    BY <1>1, <1>2 DEF Wellformed
  <1>5. Quieter(calls, calls')
    BY <1>2, <1>3 DEF Quieter
  <1>6. SameBoard(calls, calls')
    BY <1>2, <1>3 DEF SameBoard
  <1>7. auth = "user" => Faithful(page, calls', tracks)
    BY <1>6, SameFaithful DEF TabInv, Displays, Shown
  <1>8. Displays'
    BY <1>1, <1>4, <1>5, <1>7, QuietStep DEF TabInv
  <1>9. \A d \in Call : calls'[d].at # "waiting"
    BY <1>2, <1>3 DEF Waiting
  <1>10. \A d \in Call : calls'[d].kind = calls[d].kind /\ calls'[d].gone = calls[d].gone
    BY <1>2, <1>3
  <1>11. Waits' /\ Starts'
    BY <1>1, <1>9, <1>10 DEF TabInv, Waits, Starts
  <1> QED BY <1>1, <1>8, <1>11 DEF TabInv

LEMMA RefreshFailsStep == TabInv /\ RefreshFails => TabInv'
  <1> SUFFICES ASSUME TabInv, RefreshFails PROVE TabInv'
    OBVIOUS
  <1> DEFINE cs == [c \in Call |-> IF c \in Waiting THEN Idle ELSE calls[c]]
  <1>1. /\ refreshing /\ refreshing' = FALSE /\ timing' = FALSE /\ UNCHANGED tracks
        /\ IF timing \/ \E c \in Waiting : Reports(calls[c]) THEN ForceLogout(cs) ELSE Stay(cs)
        /\ Wellformed(calls) /\ auth # "loading"
    BY DEF RefreshFails, TabInv, Displays, Ready, Starts
  <1>2. \A d \in Call : cs[d] = IF d \in Waiting THEN Idle ELSE calls[d]
    OBVIOUS
  <1>3. Wellformed(cs)
    BY <1>1, IdleFits DEF Wellformed
  <1> HIDE DEF cs
  <1>4. Follows(calls, cs) /\ Quieter(calls, cs)
    BY <1>2, IdleFits DEF Follows, Quieter, Idle
  <1>5. \A d \in Call : cs[d].at # "waiting" /\ cs[d].kind # "me"
    BY <1>1, <1>2, IdleFits DEF TabInv, Starts, Waiting, Idle
  <1>6. CASE ForceLogout(cs)
    BY <1>1, <1>3, <1>4, <1>5, <1>6, LogoutStep
  <1>7. CASE Stay(cs) /\ \A c \in Waiting : ~Reports(calls[c])
    <2>1. \A c \in Waiting : calls[c].kind \notin Bearing
      BY <1>7 DEF Reports, Bearing
    <2>2. SameBoard(calls, cs)
      BY <1>2, <2>1 DEF SameBoard, Idle, Bearing, Changes
    <2>3. auth = "user" => Faithful(page, cs, tracks)
      BY <2>2, SameFaithful DEF TabInv, Displays, Shown
    <2>4. Displays'
      BY <1>1, <1>3, <1>4, <1>7, <2>3, QuietStep DEF TabInv, Stay
    <2>5. Waits' /\ Starts'
      BY <1>1, <1>2, <1>5, <1>7 DEF TabInv, Waits, Starts, Stay, Idle
    <2> QED BY <1>1, <1>7, <2>4, <2>5 DEF TabInv, Stay
  <1> QED BY <1>1, <1>6, <1>7

(***************************************************************************)
(* The invariant holds.                                                    *)
(***************************************************************************)
LEMMA TabNext == TabInv /\ [Next]_vars => TabInv'
  <1> SUFFICES ASSUME TabInv, [Next]_vars PROVE TabInv'
    OBVIOUS
  <1>1. CASE User
    BY <1>1, LoginStep, LogoutHolds, RetryLoadStep, RerenderStep, ChooseStep, TypeStep, AddStep DEF User
  <1>2. CASE Timers
    BY <1>2, CountDownStep, TimerStep, LandStep DEF Timers
  <1>3. CASE Arrival
    BY <1>3, RefreshOkStep, RefreshFailsStep, UnauthorizedStep, MeStep, LoadArrivesStep, LoadFailsStep,
       SearchArrivesStep, SearchFailsStep, AddArrivesStep, TrackArrivesStep, UntrackArrivesStep,
       ChangeFailsStep DEF Arrival
  <1>4. CASE \E c \in Call : Serve(c)
    BY <1>4, ServeStep
  <1>5. CASE UNCHANGED vars
    <2>1. UNCHANGED <<auth, page, panel, calls, refreshing, timing, tracks>>
      BY <1>5 DEF vars
    <2>2. Displays'
      BY <2>1 DEF TabInv, Displays, Ready, Shown, Faithful, Listed, Loading, Pending, Sober, Sound, Live,
                  Wellformed
    <2>3. Waits' /\ Starts'
      BY <2>1 DEF TabInv, Waits, Starts
    <2> QED BY <2>1, <2>2, <2>3 DEF TabInv
  <1> QED BY <1>1, <1>2, <1>3, <1>4, <1>5 DEF Next

THEOREM TabInvariant == Spec => []TabInv
  BY TabInit, TabNext, PTL DEF Spec

\* Types and the discipline of refreshes and searches: whoever waits for a refresh waits
\* for one that is under way (no apiFetch hangs on a refresh nobody makes), at most one
\* search's answer is still welcome, and the countdown runs over an empty panel.
THEOREM TypeCorrect == Spec => []TypeOK
  <1>1. TabInv => TypeOK
    <2> SUFFICES ASSUME TabInv PROVE TypeOK
      OBVIOUS
    <2>1. /\ page \in PageState /\ panel \in PanelState /\ Wellformed(calls) /\ Sober(panel, calls)
      BY DEF TabInv, Displays, Ready
    <2>2. {c \in Call : calls[c].latest /\ ~calls[c].gone} = Live(calls)
      BY DEF Live
    <2>3. Cardinality(Live(calls)) <= 1
      <3>1. CASE Live(calls) = {}
        BY <3>1, FS_EmptySet
      <3>2. CASE Live(calls) # {}
        <4>1. PICK c : Live(calls) = {c}
          BY <2>1, <3>2 DEF Sober
        <4> QED BY <4>1, FS_Singleton
      <3> QED BY <3>1, <3>2
    <2>4. Waiting # {} \/ timing => refreshing
      BY DEF TabInv, Waits, Waiting
    <2>5. panel.retry \in 0 .. MaxRetry /\ (panel.retry > 0 => panel.items = None)
      BY <2>1 DEF PanelState, Sober
    <2> QED BY <2>1, <2>2, <2>3, <2>4, <2>5 DEF TypeOK, TabInv, PageState, PanelState, Wellformed, CallState
  <1> QED BY <1>1, TabInvariant, PTL

\* What a panel that is at rest shows is the answer to the search it displays, in
\* whatever order answers, failures, renders and typing come.
THEOREM PanelShowsItsSearch == Spec => []PanelHonest
  <1>1. TabInv => PanelHonest
    BY DEF TabInv, Displays, Shown, Sound, PanelHonest, OnPanel, OnPage
  <1> QED BY <1>1, TabInvariant, PTL

\* A board at rest whose load met no other load and no change shows what is chosen now,
\* and the tracked board what the server holds.
THEOREM BoardShowsItsView == Spec => []PageHonest
  <1>1. TabInv => PageHonest
    <2> SUFFICES ASSUME TabInv, Settled PROVE
            /\ page.view.board \in Public => page.data = page.view
            /\ page.view.board = "tracked" /\ Pending(calls, Changes) = {} =>
                   page.tracked = tracks \cap Match[page.view.filter]
      BY DEF PageHonest
    <2>1. /\ page \in PageState /\ tracks \in SUBSET Repo /\ Faithful(page, calls, tracks)
          /\ ~page.mixed /\ ~page.loading /\ ~page.error
      BY DEF Settled, OnPage, TabInv, Displays, Shown, Ready
    <2>2. page.view.board \in Public => page.data = page.view
      BY <2>1, PageAssumption DEF Faithful
    <2>3. ASSUME page.view.board = "tracked", Pending(calls, Changes) = {}
          PROVE  page.tracked = tracks \cap Match[page.view.filter]
      <3>1. Pending(calls, {"add"}) = {} /\ Pending(calls, {"untrack"}) = {}
        BY <2>3 DEF Pending, Changes
      <3>2. Listed(page, calls, tracks)
        BY <2>1, <2>3 DEF Faithful
      <3>3. \A n \in Repo : n \in page.tracked <=> n \in tracks \cap Match[page.view.filter]
        BY <3>1, <3>2 DEF Listed
      <3>4. page.tracked \subseteq Repo
        BY <2>1 DEF PageState
      <3> QED BY <2>1, <3>3, <3>4
    <2> QED BY <2>2, <2>3
  <1> QED BY <1>1, TabInvariant, PTL
=============================================================================
