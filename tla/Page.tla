-------------------------------- MODULE Page --------------------------------
(***************************************************************************)
(* One tab of the frontend (frontend/src): App, the Leaderboard page with  *)
(* its board loads, the DiscoverPanel in it, and the API client they all   *)
(* call.  JavaScript runs a handler to its end, and React the effects it   *)
(* causes before the next one, so a handler with its effects is one step;  *)
(* calls take their time, and their answers arrive in any order.  A call's *)
(* continuation sees the page of the moment it was made, and outlives the  *)
(* component that made it.                                                 *)
(***************************************************************************)
EXTENDS Naturals, FiniteSets

CONSTANTS
    Public,    \* the public boards, each metric one of its own
    Filter,    \* what can be chosen on the page
    Match,     \* the repositories each filter lets through
    Repo,
    Field,     \* the filters of the discover panel that are typed
    Text,      \* what can be typed into them
    Empty,     \* nothing typed
    MaxRetry,  \* bound on retry_after_secs
    Call,      \* bound on the calls in flight
    None       \* no value

Board == Public \cup {"tracked", "discover"}
View == [board : Board, filter : Filter]
Search == [Field -> Text \cup {Empty}]
NoSearch == [f \in Field |-> Empty]   \* ~ hasDiscoverCondition

ASSUME PageAssumption ==
    /\ Match \in [Filter -> SUBSET Repo]
    /\ Empty \notin Text /\ MaxRetry \in Nat \ {0}
    /\ {"tracked", "discover"} \cap Public = {}
    /\ None \notin View

VARIABLES
    auth,     \* App: "loading", "anon" or "user"
    page,     \* Leaderboard: what is chosen, and its state
    panel,    \* DiscoverPanel, and the search chosen in Leaderboard
    calls,    \* the calls in flight
    refreshing, \* refreshInFlight # null
    timing,   \* the refresh timer waits for it
    tracks    \* the server: the repositories the user tracks

vars == <<auth, page, panel, calls, refreshing, timing, tracks>>
session == <<refreshing, timing>>

\* "add" is a track from the modal, "track" one from a row of the discover panel.
Kind == {"none", "me", "load", "search", "add", "track", "untrack"}
Changes == {"add", "track", "untrack"}

\* `again`: the retry of apiFetch; `view`: the view the handler closed over, where that
\* is of consequence; `latest`: seq = abortRef.current; `gone`: its component is unmounted.
Idle == [kind |-> "none", at |-> "idle", again |-> FALSE, gone |-> FALSE, latest |-> FALSE,
         view |-> None, search |-> None, repo |-> None, answer |-> None]
New(kind) == [Idle EXCEPT !.kind = kind, !.at = "sent"]

Free(cs) == {c \in Call : cs[c].kind = "none"}
Pending(cs, kinds) == {c \in Call : cs[c].kind \in kinds}
Loading(cs) == {c \in Pending(cs, {"load"}) : ~cs[c].gone}

\* What a continuation of no use any more still knows does not matter.
Forget(call) == [call EXCEPT !.view = None, !.search = None, !.answer = None]
Gone(cs, kinds) ==
    [c \in Call |-> IF cs[c].kind \in kinds THEN [Forget(cs[c]) EXCEPT !.gone = TRUE] ELSE cs[c]]

(***************************************************************************)
(* Loads.  Each operator gives the ways a part of the tab may go on: the   *)
(* part and the calls.                                                     *)
(***************************************************************************)

\* Leaderboard's load of the view v.  History: `mixed` if it shares its time with
\* another call that bears on the list, or is not of the view chosen now.
Loads(v, pg, cs) ==
    IF v.board = "discover"
    THEN {<<[pg EXCEPT !.loading = FALSE, !.error = FALSE, !.data = None, !.tracked = {}], cs>>}
    ELSE {<<[pg EXCEPT !.loading = TRUE, !.error = FALSE,
                       !.mixed = Loading(cs) # {} \/ v # pg.view
                                     \/ Pending(cs, Changes) # {}],
            [cs EXCEPT ![c] = [New("load") EXCEPT !.view = v]]>> : c \in Free(cs)}

\* Mutation of the next: the answers of earlier searches stay welcome.
SupersededKept(cs) == cs

\* ++abortRef.current
Superseded(cs) ==
    [c \in Call |-> IF cs[c].kind = "search" /\ ~cs[c].gone
                    THEN [Forget(cs[c]) EXCEPT !.latest = FALSE] ELSE cs[c]]

\* DiscoverPanel's load.  History: `astray` if it returns though a search is due, or
\* leaves one in flight that is not wanted any more.
PanelLoads(pn, cs) ==
    IF pn.search = NoSearch
    THEN {<<[pn EXCEPT !.items = None, !.error = FALSE, !.loading = FALSE,
                       !.astray = \E c \in Call : cs[c].latest /\ ~cs[c].gone], cs>>}
    ELSE IF pn.retry > 0 THEN {<<[pn EXCEPT !.astray = ~pn.error], cs>>}
    ELSE {<<[pn EXCEPT !.loading = TRUE, !.error = FALSE, !.astray = FALSE],
            [Superseded(cs) EXCEPT ![c] = [New("search") EXCEPT !.search = pn.search,
                                                               !.latest = TRUE]]>> : c \in Free(cs)}

\* Leaderboard is rendered and makes `filters` anew, so that the panel's load runs
\* whatever has changed.  A search superseded in the step that sent it is left out.
Rendered(pg, pn, cs) ==
    {<<pg, p[1], p[2]>> : p \in IF pg.view.board = "discover" THEN PanelLoads(pn, cs)
                                ELSE {<<pn, cs>>}}

FreshPage(v) == [view |-> v, data |-> None, tracked |-> {}, loading |-> TRUE, error |-> FALSE,
                 mixed |-> FALSE]
FreshPanel(s) == [search |-> s, draft |-> s, items |-> None, loading |-> FALSE, error |-> FALSE,
                  retry |-> 0, astray |-> FALSE]

\* Mutation of the next: load does not depend on the filters.
TurnFiltersMissed(v, pg, pn, cs) ==
    LET here == pg.view.board = "discover"
        there == v.board = "discover"
        left == IF here /\ ~there THEN Gone(cs, {"search"}) ELSE cs
        panels == IF there
                  THEN PanelLoads(IF here THEN pn ELSE FreshPanel(pn.search), left)
                  ELSE {<<IF here THEN FreshPanel(pn.search) ELSE pn, left>>}
        moved == [pg EXCEPT !.view = v]
    IN  UNION {IF v.board = pg.view.board THEN {<<moved, p[1], p[2]>>}
               ELSE {<<l[1], p[1], l[2]>> : l \in Loads(v, moved, p[2])} : p \in panels}

\* The page changes to the view v: the panel comes and goes with its board, and load
\* runs as an effect.
Turn(v, pg, pn, cs) ==
    LET here == pg.view.board = "discover"
        there == v.board = "discover"
        left == IF here /\ ~there THEN Gone(cs, {"search"}) ELSE cs
        panels == IF there
                  THEN PanelLoads(IF here THEN pn ELSE FreshPanel(pn.search), left)
                  ELSE {<<IF here THEN FreshPanel(pn.search) ELSE pn, left>>}
    IN  UNION {{<<l[1], p[1], l[2]>> : l \in Loads(v, [pg EXCEPT !.view = v], p[2])} :
                  p \in panels}

\* The page is mounted with what the URL says; the search in it is read on any board.
Mount(cs) ==
    LET v == page.view
        panels == IF v.board = "discover" THEN PanelLoads(FreshPanel(panel.search), cs)
                  ELSE {<<FreshPanel(panel.search), cs>>}
    IN  UNION {{<<l[1], p[1], l[2]>> : l \in Loads(v, FreshPage(v), p[2])} : p \in panels}

\* t is one of the results of Turn or Mount.
Become(t) == page' = t[1] /\ panel' = t[2] /\ calls' = t[3]

\* onUnauthorized = forceLogout: the page goes, its calls stay.  What is left is the
\* URL, which a mounted page keeps, with the search on the discover board only.
ForceLogout(cs) ==
    /\ auth' = "anon"
    /\ calls' = Gone(cs, Kind \ {"none"})
    /\ page' = FreshPage(page.view)
    /\ panel' = FreshPanel(IF auth = "user" /\ page.view.board # "discover"
                           THEN NoSearch ELSE panel.search)

Stay(cs) == calls' = cs /\ UNCHANGED <<auth, page, panel>>

(***************************************************************************)
(* What the user does.                                                     *)
(***************************************************************************)

OnPage == auth = "user"
OnPanel == OnPage /\ page.view.board = "discover"

\* Login or registration; the page is mounted whatever /me then says.
Login ==
    /\ auth = "anon"
    /\ auth' = "user"
    /\ \E t \in Mount(calls) : Become(t)
    /\ UNCHANGED <<session, tracks>>

\* onLogout, when the answer is there or has failed.
Logout ==
    /\ OnPage
    /\ ForceLogout(calls)
    /\ UNCHANGED <<session, tracks>>

\* A board, a metric, a day, a filter; a keyword typed on one board lands on another.
Choose(v) ==
    /\ OnPage
    /\ v # page.view
    /\ \E t \in Turn(v, page, panel, calls) : Become(t)
    /\ UNCHANGED <<auth, session, tracks>>

RetryLoad ==
    /\ OnPage /\ page.error /\ ~page.loading
    /\ \E l \in Loads(page.view, page, calls) : page' = l[1] /\ calls' = l[2]
    /\ UNCHANGED <<auth, panel, session, tracks>>

\* The fields are disabled during the countdown, but what was typed before lands all
\* the same.  A chip or a page button is a text that lands at once.
Type(f, t) ==
    /\ OnPanel /\ panel.retry = 0
    /\ panel' = [panel EXCEPT !.draft[f] = t]
    /\ UNCHANGED <<auth, page, calls, session, tracks>>

\* The debounce of a field ends.
Land(f) ==
    /\ OnPanel /\ panel.draft[f] # panel.search[f]
    /\ \E l \in PanelLoads([panel EXCEPT !.search[f] = panel.draft[f]], calls) :
           panel' = l[1] /\ calls' = l[2]
    /\ UNCHANGED <<auth, page, session, tracks>>

RetrySearch ==
    /\ OnPanel /\ panel.error /\ ~panel.loading /\ panel.retry = 0
    /\ \E l \in PanelLoads(panel, calls) : panel' = l[1] /\ calls' = l[2]
    /\ UNCHANGED <<auth, page, session, tracks>>

\* A dialog, the theme, the density, the answer of /api/meta.
Rerender ==
    /\ OnPanel
    /\ \E t \in Rendered(page, panel, calls) : Become(t)
    /\ UNCHANGED <<auth, session, tracks>>

CountDown ==
    /\ OnPanel /\ panel.retry > 0
    /\ panel' = [panel EXCEPT !.retry = @ - 1]
    /\ UNCHANGED <<auth, page, calls, session, tracks>>

\* The list is mixed with a change of what it lists.
Change(c, call) ==
    /\ calls' = [calls EXCEPT ![c] = call]
    /\ page' = [page EXCEPT !.mixed = @ \/ Loading(calls) # {}]
    /\ UNCHANGED <<auth, panel, session, tracks>>

\* From the modal, over any board: what it does later depends on the tracked board only.
Add(n) ==
    /\ OnPage
    /\ \E c \in Free(calls) :
           Change(c, [New("add") EXCEPT
               !.repo = n, !.view = IF page.view.board = "tracked" THEN page.view ELSE None])

\* From a row of the panel.
Track(n) ==
    /\ OnPanel /\ panel.items # None /\ ~panel.loading /\ ~panel.error
    /\ \E c \in Free(calls) : Change(c, [New("track") EXCEPT !.repo = n])

Untrack(n) ==
    /\ OnPage /\ page.view.board = "tracked" /\ ~page.loading /\ ~page.error
    /\ n \in page.tracked
    /\ \E c \in Free(calls) : Change(c, [New("untrack") EXCEPT !.repo = n])

(***************************************************************************)
(* The server.                                                             *)
(***************************************************************************)

OfTracked(call) == call.kind = "load" /\ ~call.gone /\ call.view.board = "tracked"

\* An answer that depends on what the server holds, or changes it, is made there and
\* travels.  Any other may as well be made when it arrives.
Serve(c) ==
    LET call == calls[c]
        answer == IF OfTracked(call) THEN tracks \cap Match[call.view.filter] ELSE None
    IN  /\ call.at = "sent" /\ (OfTracked(call) \/ call.kind \in Changes)
        /\ calls' = [calls EXCEPT ![c].at = "back", ![c].answer = answer, ![c].again = FALSE]
        /\ tracks' = CASE call.kind \in {"add", "track"} -> tracks \cup {call.repo}
                       [] call.kind = "untrack" -> tracks \ {call.repo}
                       [] call.kind = "load" -> tracks
        /\ UNCHANGED <<auth, page, panel, session>>

(***************************************************************************)
(* Answers.  Whether an access token is accepted is up to time and module  *)
(* Sessions; any call may fail, by the server or the network.              *)
(***************************************************************************)

\* startRefreshTimer's tick of a visible tab.
TimerTick ==
    /\ OnPage
    /\ refreshing' = TRUE /\ timing' = TRUE
    /\ UNCHANGED <<auth, page, panel, calls, tracks>>

Done(c) == [calls EXCEPT ![c] = Idle]

\* A 401 reaches its caller, who passes it on, except for a superseded search.
Reports(call) == call.kind \in Changes \cup {"load"} \/ (call.kind = "search" /\ call.latest)

\* apiFetch: the first 401 waits for the refresh, whoever began it.
Unauthorized(c) ==
    /\ calls[c].at = "sent"
    /\ IF calls[c].kind # "me" /\ ~calls[c].again
       THEN /\ calls' = [calls EXCEPT ![c].at = "waiting"]
            /\ refreshing' = TRUE
            /\ UNCHANGED <<auth, page, panel>>
       ELSE /\ IF calls[c].kind = "me" \/ Reports(calls[c]) THEN ForceLogout(Done(c))
               ELSE Stay(Done(c))
            /\ UNCHANGED refreshing
    /\ UNCHANGED <<timing, tracks>>

Waiting == {c \in Call : calls[c].at = "waiting"}

\* tryRefresh settles: all who wait are sent again, or all fail.
RefreshOk ==
    /\ refreshing
    /\ calls' = [c \in Call |->
           IF c \in Waiting THEN [calls[c] EXCEPT !.at = "sent", !.again = TRUE] ELSE calls[c]]
    /\ refreshing' = FALSE /\ timing' = FALSE
    /\ UNCHANGED <<auth, page, panel, tracks>>

RefreshFails ==
    /\ refreshing
    /\ LET cs == [c \in Call |-> IF c \in Waiting THEN Idle ELSE calls[c]]
       IN  IF timing \/ \E c \in Waiting : Reports(calls[c]) THEN ForceLogout(cs)
           ELSE Stay(cs)
    /\ refreshing' = FALSE /\ timing' = FALSE
    /\ UNCHANGED tracks

Failing(c, kinds) ==
    /\ calls[c].kind \in kinds /\ calls[c].at \in {"sent", "back"}
    /\ UNCHANGED <<session, tracks>>
Arriving(c, kind) ==
    /\ Failing(c, {kind})
    /\ OfTracked(calls[c]) \/ kind \in Changes => calls[c].at = "back"

\* App's /api/auth/me: the page, or the login form.
MeArrives(c) ==
    /\ Arriving(c, "me")
    /\ auth' = "user"
    /\ \E t \in Mount(Done(c)) : Become(t)

MeFails(c) == Failing(c, {"me"}) /\ ForceLogout(Done(c))

\* Leaderboard's load goes on: whichever answer is the last to arrive is shown.
LoadArrives(c) ==
    /\ Arriving(c, "load")
    /\ LET shown == IF OfTracked(calls[c])
                    THEN [page EXCEPT !.tracked = calls[c].answer, !.data = None, !.loading = FALSE]
                    ELSE [page EXCEPT !.data = calls[c].view, !.tracked = {}, !.loading = FALSE]
       IN  IF calls[c].gone THEN Stay(Done(c))
           ELSE (\E t \in Rendered(shown, panel, Done(c)) : Become(t)) /\ UNCHANGED auth

LoadFails(c) ==
    /\ Failing(c, {"load"}) /\ ~calls[c].gone
    /\ LET shown == [page EXCEPT !.error = TRUE, !.loading = FALSE]
       IN  \E t \in Rendered(shown, panel, Done(c)) : Become(t)
    /\ UNCHANGED auth

\* DiscoverPanel's load goes on.
SearchArrives(c) ==
    /\ Arriving(c, "search")
    /\ calls' = Done(c)
    /\ panel' = IF calls[c].gone \/ ~calls[c].latest THEN panel
                ELSE [panel EXCEPT !.items = calls[c].search, !.loading = FALSE]
    /\ UNCHANGED <<auth, page>>

\* Mutation of the next: a failed search leaves the rows of the last one.
SearchFailsKeepingRows(c, secs) ==
    /\ Failing(c, {"search"}) /\ calls[c].latest /\ ~calls[c].gone
    /\ calls' = Done(c)
    /\ panel' = [panel EXCEPT !.error = TRUE, !.loading = FALSE,
                              !.retry = IF secs > 0 THEN secs ELSE @]
    /\ UNCHANGED <<auth, page>>

\* A 429 with retry_after_secs, or (0) any other failure.
SearchFails(c, secs) ==
    /\ Failing(c, {"search"}) /\ calls[c].latest /\ ~calls[c].gone
    /\ calls' = Done(c)
    /\ panel' = [panel EXCEPT !.items = None, !.error = TRUE, !.loading = FALSE,
                              !.retry = IF secs > 0 THEN secs ELSE @]
    /\ UNCHANGED <<auth, page>>

\* onTracked: the modal turns to the tracked board, and loads with the closure of the
\* click if that was there too, even when the page is gone.
AddArrives(c) ==
    LET v == calls[c].view
        to == [page.view EXCEPT !.board = "tracked"]
        added == [page EXCEPT !.tracked = @ \cup {calls[c].repo}]
        first == IF v = None THEN {<<added, Done(c)>>} ELSE Loads(v, added, Done(c))
    IN  /\ Arriving(c, "add")
        /\ IF calls[c].gone
           THEN \/ Stay(Done(c))
                \/ Stay([calls EXCEPT ![c] = [New("load") EXCEPT !.gone = TRUE]])
           ELSE /\ \E l \in first :
                       IF to = page.view THEN page' = l[1] /\ calls' = l[2] /\ UNCHANGED panel
                       ELSE \E t \in Turn(to, l[1], panel, l[2]) : Become(t)
                /\ UNCHANGED auth

\* onTrack and onDiscoverTracked: the list of the page grows, on whatever board it is.
TrackArrives(c) ==
    /\ Arriving(c, "track")
    /\ IF calls[c].gone THEN Stay(Done(c))
       ELSE /\ \E t \in Rendered([page EXCEPT !.tracked = @ \cup {calls[c].repo}],
                                 panel, Done(c)) : Become(t)
            /\ UNCHANGED auth

\* onUntrack goes on; it was called on the tracked board, so its closure never reloads
\* a public one.
UntrackArrives(c) ==
    /\ Arriving(c, "untrack")
    /\ IF calls[c].gone THEN Stay(Done(c))
       ELSE /\ \E t \in Rendered([page EXCEPT !.tracked = @ \ {calls[c].repo}],
                                 panel, Done(c)) : Become(t)
            /\ UNCHANGED auth

\* The change may have been made, and the answer lost: the list is mixed until it is
\* loaded anew.
ChangeFails(c) ==
    /\ Failing(c, Changes)
    /\ LET mixed == [page EXCEPT !.mixed = TRUE]
       IN  IF calls[c].kind = "untrack" /\ ~calls[c].gone
           THEN (\E t \in Rendered(mixed, panel, Done(c)) : Become(t)) /\ UNCHANGED auth
           ELSE page' = mixed /\ calls' = Done(c) /\ UNCHANGED <<auth, panel>>

Init ==
    /\ auth = "loading"
    /\ page \in {FreshPage(v) : v \in View}
    /\ panel \in {FreshPanel(s) : s \in Search}
    /\ \E c \in Call : calls = [d \in Call |-> IF d = c THEN New("me") ELSE Idle]
    /\ refreshing = FALSE /\ timing = FALSE
    /\ tracks \in SUBSET Repo

User ==
    \/ Login \/ Logout \/ RetryLoad \/ RetrySearch \/ Rerender
    \/ \E v \in View : Choose(v)
    \/ \E f \in Field, t \in Text \cup {Empty} : Type(f, t)
    \/ \E n \in Repo : Add(n) \/ Track(n) \/ Untrack(n)

Timers == CountDown \/ TimerTick \/ \E f \in Field : Land(f)

Arrival ==
    \/ RefreshOk \/ RefreshFails
    \/ \E c \in Call :
          \/ Unauthorized(c) \/ MeArrives(c) \/ MeFails(c) \/ LoadArrives(c) \/ LoadFails(c)
          \/ SearchArrives(c) \/ \E secs \in 0 .. MaxRetry : SearchFails(c, secs)
          \/ AddArrives(c) \/ TrackArrives(c) \/ UntrackArrives(c) \/ ChangeFails(c)

Next == User \/ Timers \/ Arrival \/ \E c \in Call : Serve(c)

Spec == Init /\ [][Next]_vars

(***************************************************************************)
(* Properties.                                                             *)
(***************************************************************************)

\* Types; nobody waits for a refresh that is not under way; of the searches at most
\* one is the latest, and the countdown runs only over an empty panel.
TypeOK ==
    /\ auth \in {"loading", "anon", "user"}
    /\ page.view \in View /\ page.data \in View \cup {None} /\ page.tracked \subseteq Repo
    /\ panel.search \in Search /\ panel.draft \in Search /\ panel.items \in Search \cup {None}
    /\ \A c \in Call : calls[c].kind \in Kind
    /\ Waiting # {} \/ timing => refreshing
    /\ Cardinality({c \in Call : calls[c].latest /\ ~calls[c].gone}) <= 1
    /\ panel.retry \in 0 .. MaxRetry /\ (panel.retry > 0 => panel.items = None)
    /\ tracks \subseteq Repo

Settled == OnPage /\ ~page.loading /\ ~page.error /\ ~page.mixed

\* A board that is not loading shows the rows of what is chosen now, and the tracked
\* board what the user tracks, unless the load shared its time with another load or a
\* change of the list (there is no sequence number), or one of these failed.
PageHonest ==
    Settled =>
        /\ page.view.board \in Public => page.data = page.view
        /\ page.view.board = "tracked" /\ Pending(calls, Changes) = {} =>
               page.tracked = tracks \cap Match[page.view.filter]

\* A discover panel that is not loading shows the answer to the search it displays -
\* "no match" included - and an empty one nothing, except after a load that came
\* during the countdown, or the clearing of a search that was under way.
PanelHonest ==
    OnPanel /\ ~panel.loading /\ ~panel.error /\ ~panel.astray =>
        panel.items = IF panel.search = NoSearch THEN None ELSE panel.search

\* The panel does not send a search whose answer it shows or waits for: the design has
\* the frontend keep equal searches from the server, which has no cache.
SameSearchOnce ==
    [][(\E c \in Call : calls[c].kind # "search" /\ calls'[c].kind = "search")
         => ~(/\ OnPanel /\ panel'.search = panel.search /\ ~panel.error
              /\ panel.loading \/ panel.items = panel.search)]_vars
=============================================================================
