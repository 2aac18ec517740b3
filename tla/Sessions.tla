------------------------------ MODULE Sessions ------------------------------
(***************************************************************************)
(* Refresh-token sessions: POST /api/auth/login, /refresh and /logout      *)
(* (backend/crates/api/src/auth/routes.rs) over the refresh_tokens table   *)
(* (backend/crates/core/src/refresh.rs), and the collector's cleanup of    *)
(* expired rows.  A refresh is one transaction - SELECT .. FOR UPDATE, a   *)
(* decision, one write, COMMIT - followed by the insertion of the new      *)
(* token outside it.  Requests overlap, are dropped at any await, and      *)
(* their Set-Cookie answers reach the browser in any order.                *)
(***************************************************************************)
EXTENDS Integers, FiniteSets

CONSTANTS
    User,      \* users.id
    Browser,   \* cookie jars; the tabs of one browser share its jar
    Handler,   \* requests in flight
    NoUser, NoBrowser, NoHandler,
    MaxToken   \* bound on the tokens issued

ASSUME SessionsAssumption ==
    /\ NoUser \notin User /\ NoBrowser \notin Browser /\ NoHandler \notin Handler
    /\ MaxToken \in Nat \ {0}
    /\ IsFiniteSet(Handler)

\* Tokens are numbered in the order they are issued; 0 is "no cookie".
Token == 1 .. MaxToken
NoToken == 0

VARIABLES
    row,      \* refresh_tokens: "fresh" (used_at NULL), "used" or "absent"
    owner,    \* the user_id of each token issued
    login,    \* the first token of the session each token continues (history)
    lock,     \* the transaction that holds the row's lock
    issued,   \* tokens issued so far
    expired,  \* tokens 1 .. expired have passed expires_at
    jar,      \* each browser's refresh_token cookie
    req,      \* the requests in flight
    alarmed,  \* history: sessions a used token of which was presented
    shaken,   \* history: sessions two requests of which overlapped, or one was lost
    purged    \* history: when a reuse of a user's token was last punished, the
              \* number of tokens issued at the moment it was noticed

tableVars == <<row, owner, login, lock, issued, expired>>
historyVars == <<alarmed, shaken, purged>>
vars == <<tableVars, jar, req, historyVars>>

\* cookie: what the answer does to the jar - a token to set, or NoToken to clear.
\* targets: the rows the running DELETE saw.  seen: tokens issued at the SELECT.
PC == {"idle", "select", "mark", "expire", "revoke", "delete", "create", "logout", "answer"}
Req == [pc : PC, browser : Browser \cup {NoBrowser}, user : User \cup {NoUser},
        presented : Token \cup {NoToken}, session : Token \cup {NoToken},
        cookie : Token \cup {NoToken}, targets : SUBSET Token, seen : 0 .. MaxToken]
NoReq == [pc |-> "idle", browser |-> NoBrowser, user |-> NoUser, presented |-> NoToken,
          session |-> NoToken, cookie |-> NoToken, targets |-> {}, seen |-> 0]

TypeOK ==
    /\ row \in [Token -> {"absent", "fresh", "used"}]
    /\ owner \in [Token -> User \cup {NoUser}]
    /\ login \in [Token -> Token]
    /\ lock \in [Token -> Handler \cup {NoHandler}]
    /\ issued \in 0 .. MaxToken
    /\ expired \in 0 .. issued
    /\ jar \in [Browser -> 0 .. issued]
    /\ req \in [Handler -> Req]
    /\ alarmed \in SUBSET Token
    /\ shaken \in SUBSET Token
    /\ purged \in [User -> 0 .. issued]

Init ==
    /\ row = [t \in Token |-> "absent"]
    /\ owner = [t \in Token |-> NoUser]
    /\ login = [t \in Token |-> t]
    /\ lock = [t \in Token |-> NoHandler]
    /\ issued = 0
    /\ expired = 0
    /\ jar = [b \in Browser |-> NoToken]
    /\ req = [h \in Handler |-> NoReq]
    /\ alarmed = {}
    /\ shaken = {}
    /\ purged = [u \in User |-> 0]

At(h, pc) == req[h].pc = pc
Goto(h, pc) == req' = [req EXCEPT ![h].pc = pc]
Finish(h) == req' = [req EXCEPT ![h] = NoReq]
Free(h, t) == lock[t] \in {h, NoHandler}
Unlocked(h) == [t \in Token |-> IF lock[t] = h THEN NoHandler ELSE lock[t]]
SessionOf(h) == {req[h].session} \ {NoToken}

\* Every rotate error becomes 401 with clear_cookies.
Refuse(h) == req' = [req EXCEPT ![h] = [NoReq EXCEPT !.pc = "answer", !.browser = req[h].browser]]

(***************************************************************************)
(* Browsers send requests and receive answers.                             *)
(***************************************************************************)

\* login after the password was verified (register ends the same way).
StartLogin(h, b, u) ==
    /\ At(h, "idle")
    /\ req' = [req EXCEPT ![h] = [NoReq EXCEPT !.pc = "create", !.browser = b, !.user = u]]
    /\ UNCHANGED <<tableVars, jar, historyVars>>

InFlight(s) == \E h \in Handler : ~At(h, "idle") /\ s = req[h].session

Start(h, b, pc) ==
    /\ At(h, "idle")
    /\ jar[b] # NoToken
    /\ req' = [req EXCEPT ![h] = [NoReq EXCEPT !.pc = pc, !.browser = b, !.presented = jar[b],
                                               !.session = login[jar[b]]]]
    /\ shaken' = IF InFlight(login[jar[b]]) THEN shaken \cup {login[jar[b]]} ELSE shaken
    /\ UNCHANGED <<tableVars, jar, alarmed, purged>>

StartRefresh(h, b) == Start(h, b, "select")
StartLogout(h, b) == Start(h, b, "logout")

\* Mutation of the next: a refresh renews only the access cookie.
AnswerAccessOnly(h) ==
    /\ At(h, "answer")
    /\ jar' = IF jar[req[h].browser] # NoToken /\ req[h].cookie # NoToken THEN jar
              ELSE [jar EXCEPT ![req[h].browser] = req[h].cookie]
    /\ Finish(h)
    /\ UNCHANGED <<tableVars, historyVars>>

Answer(h) ==
    /\ At(h, "answer")
    /\ jar' = [jar EXCEPT ![req[h].browser] = req[h].cookie]
    /\ Finish(h)
    /\ UNCHANGED <<tableVars, historyVars>>

\* The request is dropped - the client is gone, the server stops, the answer is
\* lost: its open transaction rolls back, what it committed stays.
Abandon(h) ==
    /\ ~At(h, "idle")
    /\ Finish(h)
    /\ lock' = Unlocked(h)
    /\ shaken' = shaken \cup SessionOf(h)
    /\ UNCHANGED <<row, owner, login, issued, expired, jar, alarmed, purged>>

(***************************************************************************)
(* rotate_refresh_token.                                                   *)
(***************************************************************************)

RowLocked(h) == lock[req[h].presented] # NoHandler

\* Mutation of the next: SELECT without FOR UPDATE.
SelectNoLock(h) ==
    LET t == req[h].presented
    IN  /\ At(h, "select")
        /\ row[t] # "absent"
        /\ req' = [req EXCEPT ![h].user = owner[t],
                              ![h].pc = IF row[t] = "used" THEN "revoke"
                                        ELSE IF t <= expired THEN "expire" ELSE "mark"]
        /\ UNCHANGED <<tableVars, jar, historyVars>>

\* Mutation of the next: used_at is not looked at.
SelectIgnoresUse(h) ==
    LET t == req[h].presented
    IN  /\ At(h, "select")
        /\ row[t] # "absent"
        /\ ~RowLocked(h)
        /\ lock' = [lock EXCEPT ![t] = h]
        /\ req' = [req EXCEPT ![h].user = owner[t],
                              ![h].pc = IF t <= expired THEN "expire" ELSE "mark"]
        /\ UNCHANGED <<row, owner, login, issued, expired, jar, historyVars>>

\* SELECT .. FOR UPDATE waits for the row's lock, then decides on the row it finds.
SelectForUpdate(h) ==
    LET t == req[h].presented
    IN  /\ At(h, "select")
        /\ row[t] # "absent"
        /\ ~RowLocked(h)
        /\ lock' = [lock EXCEPT ![t] = h]
        /\ req' = [req EXCEPT ![h].user = owner[t],
                              ![h].seen = IF row[t] = "used" THEN issued ELSE 0,
                              ![h].pc = IF row[t] = "used" THEN "revoke"
                                        ELSE IF t <= expired THEN "expire" ELSE "mark"]
        /\ alarmed' = IF row[t] = "used" THEN alarmed \cup {login[t]} ELSE alarmed
        /\ UNCHANGED <<row, owner, login, issued, expired, jar, shaken, purged>>

RowMissing(h) ==
    /\ At(h, "select")
    /\ row[req[h].presented] = "absent"
    /\ Refuse(h)
    /\ UNCHANGED <<tableVars, jar, historyVars>>

\* Mutation of the next: the transaction is left open.
MarkUsedKeepsLock(h) ==
    /\ At(h, "mark")
    /\ row' = [row EXCEPT ![req[h].presented] = "used"]
    /\ Goto(h, "create")
    /\ UNCHANGED <<owner, login, lock, issued, expired, jar, historyVars>>

\* UPDATE .. SET used_at = now(); COMMIT.
MarkUsed(h) ==
    /\ At(h, "mark")
    /\ row' = [row EXCEPT ![req[h].presented] = "used"]
    /\ lock' = Unlocked(h)
    /\ Goto(h, "create")
    /\ UNCHANGED <<owner, login, issued, expired, jar, historyVars>>

\* Mutations of the next: only the token presented; the tokens of everybody.
RevokeStartsOne(h) ==
    /\ At(h, "revoke")
    /\ req' = [req EXCEPT ![h].pc = "delete", ![h].targets = {req[h].presented}]
    /\ UNCHANGED <<tableVars, jar, historyVars>>

RevokeStartsEverybody(h) ==
    /\ At(h, "revoke")
    /\ req' = [req EXCEPT ![h].pc = "delete",
                          ![h].targets = {t \in Token : row[t] # "absent"}]
    /\ UNCHANGED <<tableVars, jar, historyVars>>

\* DELETE .. WHERE user_id = ..: the rows it will delete are those it sees when it
\* starts; it then waits for the locks of each of them.
RevokeStarts(h) ==
    /\ At(h, "revoke")
    /\ req' = [req EXCEPT ![h].pc = "delete",
                          ![h].targets = {t \in Token : row[t] # "absent" /\ owner[t] = req[h].user}]
    /\ UNCHANGED <<tableVars, jar, historyVars>>

RevokeDone(h) ==
    /\ At(h, "delete")
    /\ \A t \in req[h].targets : row[t] = "absent" \/ Free(h, t)
    /\ row' = [t \in Token |-> IF t \in req[h].targets THEN "absent" ELSE row[t]]
    /\ lock' = Unlocked(h)
    /\ purged' = [purged EXCEPT ![req[h].user] =
                     IF @ < req[h].seen THEN req[h].seen ELSE @]
    /\ Refuse(h)
    /\ UNCHANGED <<owner, login, issued, expired, jar, alarmed, shaken>>

ExpireRow(h) ==
    /\ At(h, "expire")
    /\ row' = [row EXCEPT ![req[h].presented] = "absent"]
    /\ lock' = Unlocked(h)
    /\ Refuse(h)
    /\ UNCHANGED <<owner, login, issued, expired, jar, historyVars>>

\* A statement or COMMIT of the transaction fails.  `let _ =` or map_err: the answer
\* is the same.
RotateFails(h) ==
    /\ \E pc \in {"select", "mark", "expire", "revoke", "delete"} : At(h, pc)
    /\ lock' = Unlocked(h)
    /\ Refuse(h)
    /\ UNCHANGED <<row, owner, login, issued, expired, jar, historyVars>>

(***************************************************************************)
(* create_refresh_token; its failure is a 500 that leaves the cookies.     *)
(***************************************************************************)
\* (At MaxToken only CreateFails is possible.)
CreateToken(h) ==
    LET t == issued + 1
    IN  /\ At(h, "create")
        /\ issued < MaxToken
        /\ issued' = t
        /\ row' = [row EXCEPT ![t] = "fresh"]
        /\ owner' = [owner EXCEPT ![t] = req[h].user]
        /\ login' = [login EXCEPT ![t] = IF req[h].session = NoToken THEN t ELSE req[h].session]
        /\ req' = [req EXCEPT ![h].pc = "answer", ![h].cookie = t, ![h].session = login'[t]]
        /\ UNCHANGED <<lock, expired, jar, historyVars>>

CreateFails(h) ==
    /\ At(h, "create")
    /\ Finish(h)
    /\ shaken' = shaken \cup SessionOf(h)
    /\ UNCHANGED <<tableVars, jar, alarmed, purged>>

(***************************************************************************)
(* logout, expiry, cleanup_expired_refresh_tokens.                         *)
(***************************************************************************)

\* DELETE .. WHERE token_hash = ..; a failure is ignored.
DeleteToken(h) ==
    LET t == req[h].presented
    IN  /\ At(h, "logout")
        /\ row[t] = "absent" \/ Free(h, t)
        /\ \E ok \in BOOLEAN : row' = IF ok THEN [row EXCEPT ![t] = "absent"] ELSE row
        /\ Refuse(h)
        /\ UNCHANGED <<owner, login, lock, issued, expired, jar, historyVars>>

\* Mutation of the next: tokens expire before they are issued.
ExpireAhead ==
    /\ expired < MaxToken
    /\ expired' = expired + 1
    /\ UNCHANGED <<row, owner, login, lock, issued, jar, req, historyVars>>

\* Every token lives REFRESH_TTL_SECS, so they expire in the order of issue.
Expire ==
    /\ expired < issued
    /\ expired' = expired + 1
    /\ UNCHANGED <<row, owner, login, lock, issued, jar, req, historyVars>>

Cleanup ==
    /\ \A t \in 1 .. expired : row[t] = "absent" \/ lock[t] = NoHandler
    /\ row' = [t \in Token |-> IF t <= expired THEN "absent" ELSE row[t]]
    /\ UNCHANGED <<owner, login, lock, issued, expired, jar, req, historyVars>>

HandlerStep(h) ==
    \/ SelectForUpdate(h) \/ RowMissing(h) \/ MarkUsed(h) \/ RevokeStarts(h)
    \/ RevokeDone(h) \/ ExpireRow(h) \/ CreateToken(h) \/ DeleteToken(h) \/ Answer(h)

Next ==
    \/ \E h \in Handler : HandlerStep(h) \/ RotateFails(h) \/ CreateFails(h) \/ Abandon(h)
    \/ \E h \in Handler, b \in Browser : StartRefresh(h, b) \/ StartLogout(h, b)
    \/ \E h \in Handler, b \in Browser, u \in User : StartLogin(h, b, u)
    \/ Expire \/ Cleanup

Spec == Init /\ [][Next]_vars

\* Two of the DELETEs that wait for each other's row; PostgreSQL then fails one.
Deadlocked(h) ==
    \E g \in Handler \ {h} :
        /\ At(h, "delete") /\ \E t \in req[h].targets : row[t] # "absent" /\ lock[t] = g
        /\ At(g, "delete") /\ \E t \in req[g].targets : row[t] # "absent" /\ lock[t] = h

\* The server's tasks are all scheduled, and a row's lock is handed out in the order
\* of the waiters (SF), so nobody waits for it for ever.  No failure is relied on,
\* but for the resolution of a deadlock and the bound on the tokens.
Fairness ==
    \A h \in Handler : /\ SF_vars(HandlerStep(h))
                       /\ WF_vars(Deadlocked(h) /\ RotateFails(h))
                       /\ WF_vars(issued = MaxToken /\ CreateFails(h))
FairSpec == Spec /\ Fairness

(***************************************************************************)
(* Properties.                                                             *)
(***************************************************************************)

Fresh(s) == {t \in Token : row[t] = "fresh" /\ login[t] = s}
Minting(s) == {h \in Handler : At(h, "create") /\ req[h].session = s}

\* However requests overlap, a session never splits in two: at most one usable
\* token continues it, counting the one a refresh is about to insert.
OneHeir == \A s \in Token : Cardinality(Fresh(s)) + Cardinality(Minting(s)) <= 1

\* Reuse of a token is only ever reported for a session two requests of which
\* overlapped, or one of whose answers was lost or failed: a browser that refreshes
\* one at a time over a working network is never logged out by it.
NoFalseAlarm == alarmed \subseteq shaken

\* Once a reuse has been punished, every token the user had when it was noticed
\* is gone.
ReuseRevokes ==
    \A t \in Token : owner[t] # NoUser /\ t <= purged[owner[t]] => row[t] = "absent"

\* A usable token disappears only by its own logout, by the punishment of a reuse
\* by its own user, or by age.
NoCollateralLoss ==
    [][\A t \in Token :
          row[t] = "fresh" /\ row'[t] = "absent" =>
              \/ t <= expired
              \/ \E h \in Handler : At(h, "logout") /\ req[h].presented = t
              \/ \E h \in Handler : At(h, "delete") /\ req[h].user = owner[t]]_vars

\* rotate_refresh_token exchanges a token once for one next token (refresh.rs:45): over
\* several statements and a separate insertion, beside other refreshes, logouts and the
\* cleanup, with requests dropped anywhere, sessions and their tokens change as in
\* Lineage - nobody splits a session, revives one that is over or ends another user's.
UserOf(s) == IF login[s] = s THEN owner[s] ELSE NoUser
Abstract == INSTANCE Lineage WITH
    user <- [s \in Token |-> UserOf(s)],
    usable <- [s \in Token |-> Fresh(s)],
    renewing <- {s \in Token : Minting(s) # {}}
ImplementsLineage == Abstract!Spec

\* A session that is over - logged out, expired, revoked, or its next token lost on the
\* way - is over: no late refresh, no replay and no answer still under way revives it.
OverForEver ==
    [][\A s \in Token : UserOf(s) # NoUser /\ Fresh(s) = {} /\ Minting(s) = {} =>
                          Fresh(s)' = {} /\ Minting(s)' = {}]_vars

\* Whom a statement waits for: who holds a row it wants.
WaitsFor(h, g) ==
    \/ At(h, "select") /\ lock[req[h].presented] = g
    \/ At(h, "logout") /\ lock[req[h].presented] = g /\ g # h
    \/ At(h, "delete") /\ g # h /\ \E t \in req[h].targets : row[t] # "absent" /\ lock[t] = g

\* The next statement need not wait.
Ready(h) ==
    \/ At(h, "select") /\ (row[req[h].presented] = "absent" \/ ~RowLocked(h))
    \/ At(h, "logout") /\ (row[req[h].presented] = "absent" \/ Free(h, req[h].presented))
    \/ At(h, "delete") /\ \A t \in req[h].targets : row[t] = "absent" \/ Free(h, t)
    \/ \E pc \in {"mark", "expire", "revoke", "create", "answer"} : At(h, pc)

\* Requests wait for nothing but each other, and wherever they wait in a circle, of
\* whatever length, two of the DELETEs in it wait for each other: the deadlocks are
\* those of Deadlocked, which PostgreSQL resolves.
CirclesAreOfTwo ==
    /\ \A h \in Handler : At(h, "idle") \/ Ready(h) \/ \E g \in Handler : WaitsFor(h, g)
    /\ \A C \in SUBSET Handler :
           C # {} /\ (\A h \in C : \E g \in C : WaitsFor(h, g)) => \E h \in C : Deadlocked(h)

\* No request hangs: locks are always handed back, also by two revocations that
\* wait for each other.
EveryRequestEnds == \A h \in Handler : ~At(h, "idle") ~> At(h, "idle")
=============================================================================
