------------------------------ MODULE Discover ------------------------------
(***************************************************************************)
(* GET /api/discover/search (backend/crates/api/src/routes_discover.rs):   *)
(* after the parameters are validated a search picks a GitHub token (the   *)
(* user's own, else the site's), asks the limiter, and only then calls     *)
(* GitHub.  PUT and DELETE /api/me/github-token (routes_me_github.rs) may  *)
(* change the user's token at any await of it.                             *)
(***************************************************************************)
EXTENDS RateLimiter, FiniteSetsExt

CONSTANTS
    Search,       \* searches in flight
    NoUser,       \* the user of an idle slot
    SharedToken   \* whether the process has a GITHUB_TOKEN

ASSUME DiscoverAssumption == SharedToken \in BOOLEAN /\ NoUser \notin User

VARIABLES
    ownToken,  \* users with a stored github_token_ciphertext
    req,       \* the searches in flight
    passed     \* history: the searches let through during the last window

vars == <<limiterVars, ownToken, req, passed>>

PC == {"idle", "resolve", "limit", "refused", "call", "local"}
Mode == {"none", "user", "shared"}
Scope == {"none", "global", "user"}

\* mode: ResolvedToken.auth_mode; scope, retry: the body of the limiter's 429.  The
\* other answers end the search and are not told apart.
Req == [pc : PC, user : User \cup {NoUser}, mode : Mode, scope : Scope, retry : Nat]
NoReq == [pc |-> "idle", user |-> NoUser, mode |-> "none", scope |-> "none", retry |-> 0]
\* nth tells searches of one user, mode and instant apart.
Passed == [user : User, mode : Mode, age : Age, nth : Nat]

\* Types, and that each log of the limiter stays within its limit (LimiterTypeOK).
TypeOK ==
    /\ LimiterTypeOK
    /\ ownToken \in SUBSET User
    /\ req \in [Search -> Req]
    /\ passed \in SUBSET Passed

Init ==
    /\ LimiterInit
    /\ ownToken = {}
    /\ req = [s \in Search |-> NoReq]
    /\ passed = {}

At(s, pc) == req[s].pc = pc
Goto(s, pc) == req' = [req EXCEPT ![s].pc = pc]
Finish(s) == req' = [req EXCEPT ![s] = NoReq]

(***************************************************************************)
(* search.                                                                 *)
(***************************************************************************)

\* A search whose parameters parse; any other is answered 400 here.
StartSearch(s, u) ==
    /\ At(s, "idle")
    /\ req' = [req EXCEPT ![s] = [NoReq EXCEPT !.pc = "resolve", !.user = u]]
    /\ UNCHANGED <<limiterVars, ownToken, passed>>

ResolveOwn(s) ==
    /\ At(s, "resolve")
    /\ req[s].user \in ownToken
    /\ req' = [req EXCEPT ![s].pc = "limit", ![s].mode = "user"]
    /\ UNCHANGED <<limiterVars, ownToken, passed>>

ResolveShared(s) ==
    /\ At(s, "resolve")
    /\ req[s].user \notin ownToken
    /\ IF SharedToken THEN req' = [req EXCEPT ![s].pc = "limit", ![s].mode = "shared"]
       ELSE Finish(s)   \* 503 github_token_required
    /\ UNCHANGED <<limiterVars, ownToken, passed>>

\* The query fails, or the stored token cannot be decrypted: 500.
ResolveFails(s) ==
    /\ At(s, "resolve")
    /\ Finish(s)
    /\ UNCHANGED <<limiterVars, ownToken, passed>>

JustNow(u, mode) == {p \in passed : p.user = u /\ p.mode = mode /\ p.age = 0}

\* check_rate_limit and rate_limit_response.
CheckLimit(s) ==
    LET u == req[s].user
        mode == req[s].mode
        verdict == IF mode = "user" THEN TokenVerdict(u) ELSE SharedVerdict(u)
    IN  /\ At(s, "limit")
        /\ IF mode = "user" THEN CheckUserToken(u) ELSE CheckShared(u)
        /\ IF verdict.scope = "pass"
           THEN /\ Goto(s, "call")
                /\ passed' = passed \cup {[user |-> u, mode |-> mode, age |-> 0,
                                          nth |-> Cardinality(JustNow(u, mode))]}
           ELSE /\ req' = [req EXCEPT ![s].pc = "refused",
                                      ![s].scope = verdict.scope, ![s].retry = verdict.retry]
                /\ UNCHANGED passed
        /\ UNCHANGED ownToken

CallGithub(s) ==
    /\ At(s, "call")
    /\ Goto(s, "local") \/ Finish(s)   \* GhCallError: 502, or 429 github_rate_limited
    /\ UNCHANGED <<limiterVars, ownToken, passed>>

\* repos_exist_full_names and tracked_full_names decorate the result: 200, or 500;
\* or the refusal is answered.
Answer(s) ==
    /\ At(s, "local") \/ At(s, "refused")
    /\ Finish(s)
    /\ UNCHANGED <<limiterVars, ownToken, passed>>

\* The client is gone; what the limiter recorded stays.
Abandon(s) ==
    /\ ~At(s, "idle")
    /\ Finish(s)
    /\ UNCHANGED <<limiterVars, ownToken, passed>>

(***************************************************************************)
(* The user's own token: the one statement of each handler.                *)
(***************************************************************************)
PutToken(u) ==
    /\ ownToken' = ownToken \cup {u}
    /\ UNCHANGED <<limiterVars, req, passed>>

DeleteToken(u) ==
    /\ ownToken' = ownToken \ {u}
    /\ UNCHANGED <<limiterVars, req, passed>>

Tick ==
    /\ ClockTick
    /\ passed' = {[p EXCEPT !.age = @ + 1] : p \in {q \in passed : q.age + 1 < Window}}
    /\ UNCHANGED <<ownToken, req>>

Next ==
    \/ \E s \in Search, u \in User : StartSearch(s, u)
    \/ \E s \in Search :
          \/ ResolveOwn(s) \/ ResolveShared(s) \/ ResolveFails(s) \/ CheckLimit(s)
          \/ CallGithub(s) \/ Answer(s) \/ Abandon(s)
    \/ \E u \in User : PutToken(u) \/ DeleteToken(u)
    \/ Tick

Spec == Init /\ [][Next]_vars

(***************************************************************************)
(* Properties.                                                             *)
(***************************************************************************)

\* Searches of the last window on the site's token, and by one user in one mode.
OnSite == {p \in passed : p.mode = "shared"}
OfUser(u, mode) == {p \in passed : p.user = u /\ p.mode = mode}

\* In no interval of one window length do more searches get through than the
\* documented limits allow (README: 20 a minute on the site's token, 10 per user on
\* it, 25 per user on their own): a sliding window, not one that starts afresh
\* every minute.
Budget ==
    /\ Cardinality(OnSite) <= GlobalLimit
    /\ \A u \in User : /\ Cardinality(OfUser(u, "shared")) <= UserLimit
                       /\ Cardinality(OfUser(u, "user")) <= TokenLimit

Refused(s) == At(s, "limit") /\ req'[s].pc = "refused"

\* What the limiter refuses is over the limit it names at that very moment, and
\* nothing a user does on the site's token counts against their own.
Blamed(s) == IF req'[s].scope = "global" THEN OnSite ELSE OfUser(req[s].user, req[s].mode)
Allowed(s) ==
    IF req'[s].scope = "global" THEN GlobalLimit
    ELSE IF req[s].mode = "user" THEN TokenLimit ELSE UserLimit
FairRefusal == [][\A s \in Search : Refused(s) => Cardinality(Blamed(s)) >= Allowed(s)]_vars

\* The wait a refusal announces is the wait until the oldest search leaves the window,
\* short of it by less than a second and never longer, except for the minimum of one.
\* (A limit of 0 refuses for ever.)
Wait(s) == Window - Max({0} \cup {p.age : p \in Blamed(s)})
RetryHonest ==
    [][\A s \in Search : Refused(s) /\ Blamed(s) # {} =>
          /\ Wait(s) < (req'[s].retry + 1) * Second
          /\ req'[s].retry * Second <= Wait(s) \/ req'[s].retry = 1]_vars
=============================================================================
