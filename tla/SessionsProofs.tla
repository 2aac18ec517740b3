--------------------------- MODULE SessionsProofs ---------------------------
(***************************************************************************)
(* Theorems about Sessions, for any users, browsers, overlapping requests  *)
(* and tokens.                                                             *)
(***************************************************************************)
EXTENDS Sessions, FiniteSetTheorems, WellFoundedInduction, TLAPS

USE DEF At, Goto, Finish

(***************************************************************************)
(* Types.  What is numbered is issued: cookies, tokens presented and       *)
(* sessions of requests; and nothing is known of a token before its time.  *)
(***************************************************************************)
Tables ==
    /\ row \in [Token -> {"absent", "fresh", "used"}]
    /\ owner \in [Token -> User \cup {NoUser}]
    /\ login \in [Token -> Token]
    /\ lock \in [Token -> Handler \cup {NoHandler}]
    /\ issued \in 0 .. MaxToken
    /\ expired \in 0 .. issued
    /\ \A t \in Token : t > issued => row[t] = "absent" /\ owner[t] = NoUser /\ lock[t] = NoHandler
    /\ \A t \in Token : login[t] <= t

\* Where a request has a token in its hands.
Holding == {"select", "mark", "expire", "revoke", "delete", "logout"}
Fits(r, n) ==
    /\ r.presented <= n /\ r.cookie <= n /\ r.session <= n /\ r.seen <= n
    /\ r.pc \in Holding => r.presented # NoToken
Requests == req \in [Handler -> Req] /\ \A h \in Handler : Fits(req[h], issued)

History ==
    /\ jar \in [Browser -> 0 .. issued]
    /\ alarmed \in SUBSET Token
    /\ shaken \in SUBSET Token
    /\ purged \in [User -> 0 .. issued]

TInv == Tables /\ Requests /\ History

LEMMA TInvType == TInv => TypeOK
  BY DEF TInv, Tables, Requests, History, TypeOK

LEMMA TokenNumbers == \A t : t \in Token <=> t \in Nat /\ 1 <= t /\ t <= MaxToken
  BY SessionsAssumption DEF Token

LEMMA TypeInit == Init => TInv
  <1> SUFFICES ASSUME Init PROVE TInv
    OBVIOUS
  <1>1. Tables
    BY SessionsAssumption, TokenNumbers DEF Init, Tables
  <1>2. NoReq \in Req /\ Fits(NoReq, 0)
    BY SessionsAssumption, TokenNumbers DEF NoReq, Req, PC, NoToken, Fits, Holding
  <1>3. Requests
    BY <1>2 DEF Init, Requests
  <1>4. History
    BY SessionsAssumption DEF Init, History, NoToken
  <1> QED BY <1>1, <1>3, <1>4 DEF TInv

LEMMA TablesNext == TInv /\ [Next]_vars => Tables'
  <1> SUFFICES ASSUME Tables, Requests, [Next]_vars PROVE Tables'
    BY DEF TInv
  <1>t. MaxToken \in Nat /\ issued \in Nat /\ expired \in Nat /\ NoHandler \notin Handler
    BY SessionsAssumption DEF Tables
  <1> USE TokenNumbers, <1>t DEF Tables
  <1>1. ASSUME NEW h \in Handler, SelectForUpdate(h) PROVE Tables'
    BY <1>1 DEF SelectForUpdate, RowLocked
  <1>2. ASSUME NEW h \in Handler, MarkUsed(h) PROVE Tables'
    <2>1. /\ row' = [row EXCEPT ![req[h].presented] = "used"] /\ req[h].presented <= issued
          /\ req[h].presented \in Token
          /\ lock' = Unlocked(h) /\ UNCHANGED <<owner, login, issued, expired>>
      BY <1>2 DEF MarkUsed, Requests, Fits, Holding, Req
    <2> QED BY <2>1 DEF Unlocked
  <1>3. ASSUME NEW h \in Handler, RevokeDone(h) PROVE Tables'
    BY <1>3 DEF RevokeDone, Unlocked
  <1>4. ASSUME NEW h \in Handler, ExpireRow(h) PROVE Tables'
    BY <1>4 DEF ExpireRow, Unlocked
  <1>5. ASSUME NEW h \in Handler, CreateToken(h) PROVE Tables'
    <2>1. /\ issued < MaxToken /\ issued' = issued + 1 /\ UNCHANGED <<lock, expired>>
          /\ row' = [row EXCEPT ![issued + 1] = "fresh"]
          /\ owner' = [owner EXCEPT ![issued + 1] = req[h].user]
          /\ login' = [login EXCEPT ![issued + 1] =
                           IF req[h].session = NoToken THEN issued + 1 ELSE req[h].session]
          /\ req[h].user \in User \cup {NoUser}
          /\ req[h].session = NoToken \/ req[h].session \in Token
          /\ req[h].session <= issued
      BY <1>5 DEF CreateToken, Requests, Req, Fits, Holding
    <2> QED BY <2>1
  <1>6. ASSUME NEW h \in Handler, DeleteToken(h) PROVE Tables'
    BY <1>6 DEF DeleteToken
  <1>7. ASSUME NEW h \in Handler, RotateFails(h) \/ Abandon(h) PROVE Tables'
    BY <1>7 DEF RotateFails, Abandon, Unlocked
  <1>8. CASE Expire
    BY <1>8 DEF Expire
  <1>9. CASE Cleanup
    BY <1>9 DEF Cleanup
  <1>10. CASE UNCHANGED tableVars
    BY <1>10 DEF tableVars
  <1> QED BY <1>1, <1>2, <1>3, <1>4, <1>5, <1>6, <1>7, <1>8, <1>9, <1>10
          DEF Next, HandlerStep, RowMissing, RevokeStarts, Answer, CreateFails, StartRefresh, StartLogout,
              Start, StartLogin, vars

\* Counters only grow.
LEMMA IssuedGrows ==
    ASSUME Tables, [Next]_vars
    PROVE  issued \in Nat /\ issued' \in Nat /\ issued <= issued'
  <1>t. MaxToken \in Nat /\ issued \in Nat
    BY SessionsAssumption DEF Tables
  <1>1. issued' = issued \/ issued' = issued + 1
    BY DEF Next, HandlerStep, SelectForUpdate, RowMissing, MarkUsed, RevokeStarts, RevokeDone, ExpireRow,
           CreateToken, DeleteToken, Answer, RotateFails, CreateFails, Abandon, StartRefresh, StartLogout,
           Start, StartLogin, Expire, Cleanup, vars, tableVars
  <1> QED BY <1>t, <1>1

LEMMA RequestsNext == TInv /\ [Next]_vars => Requests'
  <1> SUFFICES ASSUME Tables, Requests, History, [Next]_vars PROVE Requests'
    BY DEF TInv
  <1>i. issued \in Nat /\ issued' \in Nat /\ issued <= issued'
    BY IssuedGrows
  <1>r. \A h \in Handler : req[h] \in Req
    BY DEF Requests
  <1>f. \A h \in Handler : Fits(req[h], issued')
    BY <1>i, <1>r, TokenNumbers DEF Requests, Fits, Req, NoToken
  <1>n. NoReq \in Req /\ Fits(NoReq, issued')
    BY <1>i, SessionsAssumption, TokenNumbers DEF NoReq, Req, PC, NoToken, Fits, Holding
  <1>u. ASSUME NEW h \in Handler, NEW r, req' = [req EXCEPT ![h] = r], r \in Req, Fits(r, issued')
        PROVE  Requests'
    BY <1>u, <1>f DEF Requests
  <1>e. ASSUME NEW h \in Handler, Refuse(h) PROVE Requests'
    <2> DEFINE r == [NoReq EXCEPT !.pc = "answer", !.browser = req[h].browser]
    <2>1. r \in Req /\ Fits(r, issued')
      BY <1>n, <1>r DEF NoReq, Req, PC, Fits, Holding
    <2>2. req' = [req EXCEPT ![h] = r]
      BY <1>e DEF Refuse
    <2> QED BY <1>u, <2>1, <2>2
  <1>1. ASSUME NEW h \in Handler, SelectForUpdate(h) PROVE Requests'
    <2> DEFINE t == req[h].presented
               seen == IF row[t] = "used" THEN issued ELSE 0
               pc == IF row[t] = "used" THEN "revoke" ELSE IF t <= expired THEN "expire" ELSE "mark"
               r == [req[h] EXCEPT !.user = owner[t], !.seen = seen, !.pc = pc]
    <2>1. req' = [req EXCEPT ![h] = r]
      BY <1>1, <1>r DEF SelectForUpdate, Req
    <2>2. t \in Token
      BY <1>r, <1>f, <1>1 DEF Req, Fits, Holding, SelectForUpdate
    <2>3. owner[t] \in User \cup {NoUser} /\ issued \in 0 .. MaxToken
      BY <2>2 DEF Tables
    <2>4. pc \in PC /\ seen \in 0 .. MaxToken /\ seen <= issued' /\ t # NoToken
      BY <1>i, <2>2, <2>3, SessionsAssumption, TokenNumbers DEF PC, NoToken
    <2> HIDE DEF pc, seen
    <2>5. r \in Req /\ Fits(r, issued')
      BY <1>f, <1>r, <2>3, <2>4 DEF Req, Fits
    <2> QED BY <1>u, <2>1, <2>5
  <1>2. ASSUME NEW h \in Handler, MarkUsed(h) PROVE Requests'
    <2> DEFINE r == [req[h] EXCEPT !.pc = "create"]
    <2>1. req' = [req EXCEPT ![h] = r] /\ r \in Req /\ Fits(r, issued')
      BY <1>2, <1>r, <1>f DEF MarkUsed, Req, PC, Fits, Holding
    <2> QED BY <1>u, <2>1
  <1>3. ASSUME NEW h \in Handler, RevokeStarts(h) PROVE Requests'
    <2> DEFINE r == [req[h] EXCEPT !.pc = "delete",
                        !.targets = {t \in Token : row[t] # "absent" /\ owner[t] = req[h].user}]
    <2>1. req' = [req EXCEPT ![h] = r] /\ r \in Req /\ Fits(r, issued')
      BY <1>3, <1>r, <1>f DEF RevokeStarts, Req, PC, Fits, Holding
    <2> QED BY <1>u, <2>1
  <1>4. ASSUME NEW h \in Handler, CreateToken(h) PROVE Requests'
    <2> DEFINE s == IF req[h].session = NoToken THEN issued + 1 ELSE req[h].session
               r == [req[h] EXCEPT !.pc = "answer", !.cookie = issued + 1, !.session = s]
    <2>1. /\ issued < MaxToken /\ issued' = issued + 1 /\ MaxToken \in Nat
          /\ login'[issued + 1] = s
      BY <1>i, <1>4, SessionsAssumption, TokenNumbers DEF CreateToken, Tables
    <2>2. req' = [req EXCEPT ![h] = r]
      BY <1>4, <1>r, <2>1 DEF CreateToken, Req
    <2>3. issued + 1 \in Token /\ s \in Token /\ s <= issued + 1
      BY <1>i, <1>f, <1>r, <2>1, TokenNumbers DEF Req, Fits, Holding
    <2>4. r \in Req
      BY <1>r, <2>3 DEF Req, PC
    <2>5. Fits(r, issued')
      BY <1>i, <1>f, <1>r, <2>1, <2>3 DEF Fits, Holding, Req
    <2> QED BY <1>u, <2>2, <2>4, <2>5
  <1>5. ASSUME NEW h \in Handler, Answer(h) \/ CreateFails(h) \/ Abandon(h) PROVE Requests'
    BY <1>5, <1>n, <1>u DEF Answer, CreateFails, Abandon
  <1>6. ASSUME NEW h \in Handler, NEW b \in Browser, NEW pc \in {"select", "logout"}, Start(h, b, pc)
        PROVE  Requests'
    <2> DEFINE r == [NoReq EXCEPT !.pc = pc, !.browser = b, !.presented = jar[b],
                                  !.session = login[jar[b]]]
    <2>1. req' = [req EXCEPT ![h] = r]
      BY <1>6 DEF Start
    <2>2. jar[b] \in Token /\ jar[b] <= issued
      BY <1>i, <1>6, TokenNumbers, SessionsAssumption DEF Start, History, Tables, NoToken
    <2>3. login[jar[b]] \in Token /\ login[jar[b]] <= issued
      BY <1>i, <2>2, TokenNumbers DEF Tables
    <2>4. r \in Req
      BY <1>n, <2>2, <2>3 DEF Req, PC, NoReq
    <2>5. Fits(r, issued')
      <3>1. jar[b] # NoToken /\ jar[b] <= issued' /\ login[jar[b]] <= issued'
        BY <1>i, <2>2, <2>3, TokenNumbers DEF NoToken
      <3> QED BY <1>n, <3>1 DEF Fits, NoReq
    <2> QED BY <1>u, <2>1, <2>4, <2>5
  <1>7. ASSUME NEW h \in Handler, NEW b \in Browser, NEW u \in User, StartLogin(h, b, u) PROVE Requests'
    <2> DEFINE r == [NoReq EXCEPT !.pc = "create", !.browser = b, !.user = u]
    <2>1. req' = [req EXCEPT ![h] = r] /\ r \in Req /\ Fits(r, issued')
      BY <1>7, <1>n DEF StartLogin, Req, PC, NoReq, Fits, Holding
    <2> QED BY <1>u, <2>1
  <1>8. CASE UNCHANGED req
    BY <1>8, <1>f DEF Requests
  <1> QED BY <1>e, <1>1, <1>2, <1>3, <1>4, <1>5, <1>6, <1>7, <1>8
          DEF Next, HandlerStep, RowMissing, RevokeDone, ExpireRow, DeleteToken, RotateFails,
              StartRefresh, StartLogout, Expire, Cleanup, vars

LEMMA HistoryNext == TInv /\ [Next]_vars => History'
  <1> SUFFICES ASSUME Tables, Requests, History, [Next]_vars PROVE History'
    BY DEF TInv
  <1>i. issued \in Nat /\ issued' \in Nat /\ issued <= issued'
    BY IssuedGrows
  <1>r. \A h \in Handler : req[h] \in Req /\ Fits(req[h], issued)
    BY DEF Requests
  <1>l. \A t \in Token : login[t] \in Token
    BY DEF Tables
  <1>j. jar' \in [Browser -> 0 .. issued']
    <2>1. ASSUME NEW h \in Handler, Answer(h) PROVE jar' \in [Browser -> 0 .. issued']
      <3>1. req[h].cookie \in 0 .. issued' /\ jar' = [jar EXCEPT ![req[h].browser] = req[h].cookie]
        BY <1>i, <1>r, <2>1, TokenNumbers DEF Answer, Req, Fits, Holding, NoToken
      <3>2. \A b \in Browser : jar[b] \in 0 .. issued'
        BY <1>i DEF History
      <3> QED BY <3>1, <3>2 DEF History
    <2>2. CASE jar' = jar
      BY <1>i, <2>2 DEF History
    <2> QED BY <2>1, <2>2
            DEF Next, HandlerStep, SelectForUpdate, RowMissing, MarkUsed, RevokeStarts, RevokeDone,
                ExpireRow, CreateToken, DeleteToken, RotateFails, CreateFails, Abandon, StartRefresh,
                StartLogout, Start, StartLogin, Expire, Cleanup, vars
  <1>p. purged' \in [User -> 0 .. issued']
    <2>1. ASSUME NEW h \in Handler, RevokeDone(h) PROVE purged' \in [User -> 0 .. issued']
      <3>1. req[h].seen \in 0 .. issued'
        BY <1>i, <1>r DEF Req, Fits, Holding
      <3> QED BY <1>i, <2>1, <3>1 DEF RevokeDone, History
    <2>2. CASE purged' = purged
      BY <1>i, <2>2 DEF History
    <2> QED BY <2>1, <2>2
            DEF Next, HandlerStep, SelectForUpdate, RowMissing, MarkUsed, RevokeStarts, ExpireRow, Answer,
                CreateToken, DeleteToken, RotateFails, CreateFails, Abandon, StartRefresh, StartLogout,
                Start, StartLogin, Expire, Cleanup, vars, historyVars
  <1>a. alarmed' \in SUBSET Token
    <2>1. ASSUME NEW h \in Handler, SelectForUpdate(h) PROVE alarmed' \in SUBSET Token
      <3>1. login[req[h].presented] \in Token
        BY <1>l, <1>r, <2>1 DEF Req, Fits, Holding, SelectForUpdate
      <3> QED BY <2>1, <3>1 DEF SelectForUpdate, History
    <2>2. CASE alarmed' = alarmed
      BY <2>2 DEF History
    <2> QED BY <2>1, <2>2
            DEF Next, HandlerStep, RevokeDone, RowMissing, MarkUsed, RevokeStarts, ExpireRow, Answer,
                CreateToken, DeleteToken, RotateFails, CreateFails, Abandon, StartRefresh, StartLogout,
                Start, StartLogin, Expire, Cleanup, vars, historyVars
  <1>s. shaken' \in SUBSET Token
    <2>1. ASSUME NEW h \in Handler, CreateFails(h) \/ Abandon(h) PROVE shaken' \in SUBSET Token
      <3>1. SessionOf(h) \subseteq Token
        BY <1>r DEF SessionOf, Req, NoToken
      <3> QED BY <2>1, <3>1 DEF CreateFails, Abandon, History
    <2>2. ASSUME NEW h \in Handler, NEW b \in Browser, NEW pc, Start(h, b, pc)
          PROVE  shaken' \in SUBSET Token
      <3>1. jar[b] \in Token
        BY <1>i, <2>2, TokenNumbers, SessionsAssumption DEF Start, History, Tables, NoToken
      <3> QED BY <1>l, <2>2, <3>1 DEF Start, History
    <2>3. CASE shaken' = shaken
      BY <2>3 DEF History
    <2> QED BY <2>1, <2>2, <2>3
            DEF Next, HandlerStep, SelectForUpdate, RowMissing, MarkUsed, RevokeStarts, RevokeDone,
                ExpireRow, Answer, CreateToken, DeleteToken, RotateFails, StartRefresh, StartLogout,
                StartLogin, Expire, Cleanup, vars, historyVars
  <1> QED BY <1>j, <1>p, <1>a, <1>s DEF History

LEMMA TInvAlways == Spec => []TInv
  <1>1. TInv /\ [Next]_vars => TInv'
    BY TablesNext, RequestsNext, HistoryNext DEF TInv
  <1> QED BY <1>1, TypeInit, PTL DEF Spec

\* Tables, cookies and requests keep their types.
THEOREM TypeCorrect == Spec => []TypeOK
  BY TInvAlways, TInvType, PTL
-----------------------------------------------------------------------------
(* What a request that waits at an await may rely on: the session is that  *)
(* of the token presented; a row that was locked is locked still, and as   *)
(* it was found; a DELETE has targeted all the rows of the user there were *)
(* when the reuse was noticed, and only theirs.                            *)

Locking == {"mark", "expire", "revoke", "delete"}

Local(h) ==
    /\ At(h, "idle") => req[h] = NoReq
    /\ req[h].presented # NoToken => req[h].session = login[req[h].presented]
    /\ req[h].pc \in Locking => lock[req[h].presented] = h
    /\ At(h, "mark") => row[req[h].presented] = "fresh"
    /\ At(h, "expire") => req[h].presented <= expired
    /\ At(h, "delete") =>
           /\ \A t \in req[h].targets : t <= issued /\ owner[t] = req[h].user
           /\ \A t \in Token : t <= req[h].seen /\ owner[t] = req[h].user /\ row[t] # "absent"
                                   => t \in req[h].targets
    /\ At(h, "answer") /\ req[h].presented # NoToken => req[h].cookie # NoToken

Locals == \A h \in Handler : Local(h)

\* What other requests' steps leave alone.
Frame(g) ==
    /\ \A t \in Token : t <= issued =>
           login'[t] = login[t] /\ owner'[t] = owner[t] /\ (row[t] = "absent" => row'[t] = "absent")
    /\ \A t \in Token : lock[t] = g => lock'[t] = g /\ row'[t] = row[t]
    /\ expired <= expired'

LEMMA ReqFields ==
    ASSUME TInv, NEW h \in Handler
    PROVE  /\ req[h] \in Req /\ Fits(req[h], issued) /\ DOMAIN req = Handler
           /\ req[h].presented \in Token \cup {NoToken}
           /\ req[h].pc \in Holding => req[h].presented \in Token
  BY DEF TInv, Requests, Req, Fits

LEMMA FrameKeeps ==
    ASSUME TInv, NEW g \in Handler, Local(g), req'[g] = req[g], Frame(g), issued <= issued',
           issued' \in Nat, expired' \in Nat
    PROVE  Local(g)'
  <1>1. /\ req[g] \in Req /\ Fits(req[g], issued) /\ req[g].presented \in Token \cup {NoToken}
        /\ req[g].pc \in Holding => req[g].presented \in Token
    BY ReqFields
  <1>2. issued \in Nat /\ expired \in Nat /\ expired' >= expired
    BY SessionsAssumption DEF TInv, Tables, Frame
  <1>3. req[g].presented # NoToken => req'[g].session = login'[req[g].presented]
    BY <1>1 DEF Local, Frame, Fits
  <1>4. req[g].pc \in Locking => lock'[req[g].presented] = g /\ row'[req[g].presented] = row[req[g].presented]
    BY <1>1 DEF Local, Frame, Locking, Holding
  <1>5. At(g, "expire") => req[g].presented <= expired' 
    BY <1>1, <1>2, TokenNumbers DEF Local, Frame, Holding
  <1>6. ASSUME At(g, "delete"), NEW t \in req[g].targets PROVE t <= issued' /\ owner'[t] = req[g].user
    BY <1>1, <1>2, <1>6, TokenNumbers DEF Local, Frame, Req
  <1>7. ASSUME At(g, "delete"), NEW t \in Token, t <= req[g].seen, owner'[t] = req[g].user, row'[t] # "absent"
        PROVE  t \in req[g].targets
    <2>1. t <= issued
      BY <1>1, <1>2, <1>7, TokenNumbers DEF Fits, Req
    <2> QED BY <1>7, <2>1 DEF Local, Frame
  <1>8. At(g, "mark") => row'[req[g].presented] = "fresh"
    BY <1>4 DEF Local, Locking
  <1> QED BY <1>3, <1>4, <1>5, <1>6, <1>7, <1>8 DEF Local

\* The step of one request leaves the others as they are.
LEMMA StepFrame ==
    ASSUME TInv, Locals, NEW h \in Handler, NEW g \in Handler, g # h,
           \/ HandlerStep(h) \/ RotateFails(h) \/ CreateFails(h) \/ Abandon(h)
           \/ \E b \in Browser, pc \in {"select", "logout"} : Start(h, b, pc)
           \/ \E b \in Browser, u \in User : StartLogin(h, b, u)
    PROVE  req'[g] = req[g] /\ Frame(g)
  <1>r. /\ DOMAIN req = Handler /\ issued \in Nat /\ expired \in Nat
        /\ DOMAIN row = Token /\ DOMAIN lock = Token /\ DOMAIN owner = Token /\ DOMAIN login = Token
        /\ \A t \in Token : t > issued => lock[t] = NoHandler
        /\ NoHandler # g
    BY SessionsAssumption DEF TInv, Tables, Requests
  <1>p. req[h].pc \in Holding => req[h].presented \in Token
    BY ReqFields
  <1>l. req[h].pc \in Locking => lock[req[h].presented] = h
    BY DEF Locals, Local
  <1> USE <1>r, TokenNumbers DEF Frame
  <1>1. CASE SelectForUpdate(h)
    BY <1>1 DEF SelectForUpdate, RowLocked
  <1>2. CASE RowMissing(h)
    BY <1>2 DEF RowMissing, Refuse, tableVars
  <1>3. CASE MarkUsed(h)
    <2>1. /\ row' = [row EXCEPT ![req[h].presented] = "used"] /\ lock' = Unlocked(h)
          /\ req' = [req EXCEPT ![h].pc = "create"] /\ UNCHANGED <<owner, login, expired>>
          /\ req[h].presented \in Token /\ lock[req[h].presented] = h /\ row[req[h].presented] = "fresh"
      BY <1>3, <1>p, <1>l DEF MarkUsed, Holding, Locking, Locals, Local
    <2> QED BY <2>1 DEF Unlocked
  <1>4. CASE RevokeStarts(h)
    BY <1>4 DEF RevokeStarts, tableVars
  <1>5. CASE RevokeDone(h)
    BY <1>5 DEF RevokeDone, Unlocked, Free, Refuse
  <1>6. CASE ExpireRow(h)
    <2>1. /\ row' = [row EXCEPT ![req[h].presented] = "absent"] /\ lock' = Unlocked(h)
          /\ Refuse(h) /\ UNCHANGED <<owner, login, expired>>
          /\ req[h].presented \in Token /\ lock[req[h].presented] = h
      BY <1>6, <1>p, <1>l DEF ExpireRow, Holding, Locking
    <2> QED BY <2>1 DEF Unlocked, Refuse
  <1>7. CASE CreateToken(h)
    <2>1. /\ row' = [row EXCEPT ![issued + 1] = "fresh"] /\ UNCHANGED <<lock, expired>>
          /\ owner' = [owner EXCEPT ![issued + 1] = req[h].user]
          /\ \A t \in Token : t # issued + 1 => login'[t] = login[t]
          /\ req'[g] = req[g]
      BY <1>7 DEF CreateToken
    <2>2. \A t \in Token : t = issued + 1 => lock[t] # g
      OBVIOUS
    <2> QED BY <2>1, <2>2
  <1>8. CASE DeleteToken(h)
    <2>1. /\ \E ok \in BOOLEAN : row' = IF ok THEN [row EXCEPT ![req[h].presented] = "absent"] ELSE row
          /\ row[req[h].presented] = "absent" \/ lock[req[h].presented] \in {h, NoHandler}
          /\ Refuse(h) /\ UNCHANGED <<owner, login, lock, expired>> /\ req[h].presented \in Token
      BY <1>8, <1>p DEF DeleteToken, Free, Holding
    <2> QED BY <2>1 DEF Refuse
  <1>9. CASE Answer(h)
    BY <1>9 DEF Answer, tableVars
  <1>10. CASE RotateFails(h) \/ Abandon(h)
    BY <1>10 DEF RotateFails, Abandon, Unlocked, Refuse
  <1>11. CASE CreateFails(h)
    BY <1>11 DEF CreateFails, tableVars
  <1>12. ASSUME NEW b \in Browser, NEW pc \in {"select", "logout"}, Start(h, b, pc)
         PROVE  req'[g] = req[g] /\ Frame(g)
    <2>1. UNCHANGED tableVars /\ req' = [req EXCEPT ![h] = req'[h]]
      BY <1>12 DEF Start, NoReq
    <2> QED BY <2>1 DEF tableVars
  <1>13. ASSUME NEW b \in Browser, NEW u \in User, StartLogin(h, b, u)
         PROVE  req'[g] = req[g] /\ Frame(g)
    <2>1. UNCHANGED tableVars /\ req' = [req EXCEPT ![h] = req'[h]]
      BY <1>13 DEF StartLogin, NoReq
    <2> QED BY <2>1 DEF tableVars
  <1> QED BY <1>1, <1>2, <1>3, <1>4, <1>5, <1>6, <1>7, <1>8, <1>9, <1>10, <1>11, <1>12, <1>13
          DEF HandlerStep

LEMMA RefuseLocal ==
    ASSUME TInv, NEW h \in Handler, Refuse(h)
    PROVE  Local(h)'
  <1>1. /\ req'[h].pc = "answer" /\ req'[h].presented = NoToken
    BY ReqFields DEF Refuse, NoReq
  <1> QED BY <1>1 DEF Local, Locking

LEMMA LocalsNext == TInv /\ Locals /\ [Next]_vars => Locals'
  <1> SUFFICES ASSUME TInv, Locals, [Next]_vars PROVE Locals'
    OBVIOUS
  <1>i. issued \in Nat /\ issued' \in Nat /\ issued <= issued' /\ expired \in Nat /\ expired' \in Nat
    BY IssuedGrows, TablesNext, SessionsAssumption DEF TInv, Tables
  <1>o. ASSUME NEW h \in Handler, \A g \in Handler \ {h} : req'[g] = req[g] /\ Frame(g), Local(h)'
        PROVE  Locals'
    BY <1>i, <1>o, FrameKeeps DEF Locals
  <1>d. /\ DOMAIN row = Token /\ DOMAIN lock = Token /\ DOMAIN login = Token
        /\ DOMAIN owner = Token
        /\ \A t \in Token : row[t] \in {"absent", "fresh", "used"} /\ login[t] \in Token
    BY DEF TInv, Tables
  <1>1. ASSUME NEW h \in Handler, SelectForUpdate(h) PROVE Local(h)'
    <2>0. req[h] \in Req /\ DOMAIN req = Handler /\ Local(h) /\ req[h].presented \in Token
      BY <1>1, ReqFields DEF Locals, Holding, SelectForUpdate
    <2>1. /\ lock' = [lock EXCEPT ![req[h].presented] = h]
          /\ UNCHANGED <<row, owner, login, issued, expired>> /\ row[req[h].presented] # "absent"
      BY <1>1 DEF SelectForUpdate
    <2>2. /\ req'[h].presented = req[h].presented /\ req'[h].session = req[h].session
          /\ req'[h].pc = IF row[req[h].presented] = "used" THEN "revoke"
                          ELSE IF req[h].presented <= expired THEN "expire" ELSE "mark"
      BY <1>1, <2>0 DEF SelectForUpdate, Req
    <2>3. req'[h].session = login'[req[h].presented]
      BY <2>0, <2>1, <2>2, TokenNumbers DEF Local, NoToken
    <2> QED BY <1>d, <2>0, <2>1, <2>2, <2>3 DEF Local, Locking
  <1>2. ASSUME NEW h \in Handler, MarkUsed(h) PROVE Local(h)'
    <2>0. req[h] \in Req /\ DOMAIN req = Handler /\ Local(h)
      BY ReqFields DEF Locals
    <2>1. /\ UNCHANGED <<login, issued>>
          /\ req'[h].presented = req[h].presented /\ req'[h].session = req[h].session
          /\ req'[h].pc = "create"
      BY <1>2, <2>0 DEF MarkUsed, Req
    <2> QED BY <2>0, <2>1 DEF Local, Locking
  <1>3. ASSUME NEW h \in Handler, RevokeStarts(h) PROVE Local(h)'
    <2>0. req[h] \in Req /\ DOMAIN req = Handler /\ Local(h)
      BY ReqFields DEF Locals
    <2>1. /\ req'[h].pc = "delete" /\ req'[h].presented = req[h].presented /\ req'[h].seen = req[h].seen
          /\ req'[h].session = req[h].session /\ req'[h].user = req[h].user
          /\ req'[h].targets = {t \in Token : row[t] # "absent" /\ owner[t] = req[h].user}
      BY <1>3, <2>0 DEF RevokeStarts, Req
    <2>2. UNCHANGED <<row, owner, login, lock, issued, expired>> /\ req[h].pc = "revoke"
      BY <1>3 DEF RevokeStarts, tableVars
    <2>3. \A t \in req'[h].targets : t <= issued
      BY <1>i, <2>1, TokenNumbers DEF TInv, Tables
    <2> QED BY <2>0, <2>1, <2>2, <2>3 DEF Local, Locking
  <1>4. ASSUME NEW h \in Handler,
               RowMissing(h) \/ RevokeDone(h) \/ ExpireRow(h) \/ DeleteToken(h) \/ RotateFails(h)
        PROVE  Local(h)'
    BY <1>4, RefuseLocal DEF RowMissing, RevokeDone, ExpireRow, DeleteToken, RotateFails
  <1>5. ASSUME NEW h \in Handler, CreateToken(h) PROVE Local(h)'
    <2>0. /\ req[h] \in Req /\ DOMAIN req = Handler /\ Local(h) /\ req[h].presented <= issued
          /\ req[h].presented \in Token \cup {NoToken}
      BY ReqFields DEF Locals, Fits
    <2>a. issued + 1 \in Token
      BY <1>5, <1>i, SessionsAssumption, TokenNumbers DEF CreateToken
    <2>1. /\ login'[issued + 1] = IF req[h].session = NoToken THEN issued + 1 ELSE req[h].session
          /\ \A t \in Token : t # issued + 1 => login'[t] = login[t]
      BY <1>5, <1>d, <2>a DEF CreateToken
    <2>2. /\ req'[h].pc = "answer" /\ req'[h].presented = req[h].presented
          /\ req'[h].cookie = issued + 1 /\ req'[h].session = login'[issued + 1]
      BY <1>5, <2>0 DEF CreateToken, Req
    <2>3. ASSUME req[h].presented # NoToken PROVE req'[h].session = login'[req[h].presented]
      <3>1. /\ req[h].presented \in Token /\ req[h].presented # issued + 1
            /\ req[h].session = login[req[h].presented]
        BY <1>i, <2>0, <2>3 DEF Local
      <3>2. login[req[h].presented] # NoToken
        BY <1>d, <3>1, TokenNumbers DEF NoToken
      <3> QED BY <2>1, <2>2, <3>1, <3>2
    <2>4. req'[h].cookie # NoToken
      BY <1>i, <2>2 DEF NoToken
    <2> QED BY <2>2, <2>3, <2>4 DEF Local, Locking
  <1>n. /\ NoReq.pc = "idle" /\ NoReq.presented = NoToken
    BY DEF NoReq
  <1>6. ASSUME NEW h \in Handler, Answer(h) \/ CreateFails(h) \/ Abandon(h) PROVE Local(h)'
    <2>1. req'[h] = NoReq
      BY <1>6, ReqFields DEF Answer, CreateFails, Abandon
    <2> QED BY <1>n, <2>1 DEF Local, Locking
  <1>7. ASSUME NEW h \in Handler, NEW b \in Browser, NEW pc \in {"select", "logout"}, Start(h, b, pc)
        PROVE  Local(h)'
    <2>1. req'[h].pc = pc /\ req'[h].presented = jar[b] /\ req'[h].session = login[jar[b]] /\ login' = login
      BY <1>7, ReqFields DEF Start, NoReq, tableVars
    <2> QED BY <2>1 DEF Local, Locking
  <1>8. ASSUME NEW h \in Handler, NEW b \in Browser, NEW u \in User, StartLogin(h, b, u) PROVE Local(h)'
    <2>1. req'[h].pc = "create" /\ req'[h].presented = NoToken
      BY <1>8, ReqFields DEF StartLogin, NoReq
    <2> QED BY <2>1 DEF Local, Locking
  <1>9. CASE Expire \/ Cleanup \/ UNCHANGED vars
    <2>1. ASSUME NEW g \in Handler PROVE req'[g] = req[g] /\ Frame(g)
      BY <1>9, <1>i, <1>d, SessionsAssumption, TokenNumbers
         DEF Expire, Cleanup, vars, tableVars, Frame
    <2> QED BY <1>i, <2>1, FrameKeeps DEF Locals
  <1> QED BY <1>o, <1>1, <1>2, <1>3, <1>4, <1>5, <1>6, <1>7, <1>8, <1>9, StepFrame
          DEF Next, HandlerStep, StartRefresh, StartLogout

LEMMA LocalsInit == Init => Locals
  BY SessionsAssumption DEF Init, Locals, Local, NoReq, Locking

LEMMA LocalsAlways == Spec => [](TInv /\ Locals)
  BY TInvAlways, LocalsInit, LocalsNext, PTL DEF Spec
-----------------------------------------------------------------------------
(* One heir.  A token marked used was the only one of its session, and its *)
(* refresh then the only one that may insert the next.                     *)

Heirs ==
    /\ \A t, v \in Token : row[t] = "fresh" /\ row[v] = "fresh" /\ login[t] = login[v] => t = v
    /\ \A g, h \in Handler :
           At(g, "create") /\ At(h, "create") /\ req[g].session = req[h].session
               => req[g].session = NoToken \/ g = h
    /\ \A t \in Token, h \in Handler : row[t] = "fresh" /\ At(h, "create") => req[h].session # login[t]

\* Nobody comes to hold a token, or to be about to insert one, but with a new session.
LEMMA HeirsShrink ==
    ASSUME TInv, Heirs,
           \A t \in Token : row'[t] = "fresh" => row[t] = "fresh" /\ login'[t] = login[t],
           \A h \in Handler : req'[h].pc = "create" =>
               \/ req'[h].session = NoToken
               \/ req[h].pc = "create" /\ req'[h].session = req[h].session
    PROVE  Heirs'
  <1>1. \A t \in Token : login[t] # NoToken
    BY TokenNumbers DEF TInv, Tables, NoToken
  <1>2. \A t, v \in Token : row'[t] = "fresh" /\ row'[v] = "fresh" /\ login'[t] = login'[v] => t = v
    BY DEF Heirs
  <1>3. ASSUME NEW g \in Handler, NEW h \in Handler, req'[g].pc = "create", req'[h].pc = "create",
               req'[g].session = req'[h].session, req'[g].session # NoToken
        PROVE  g = h
    BY <1>3 DEF Heirs
  <1>4. ASSUME NEW t \in Token, NEW h \in Handler, row'[t] = "fresh", req'[h].pc = "create"
        PROVE  req'[h].session # login'[t]
    BY <1>1, <1>4 DEF Heirs
  <1> QED BY <1>2, <1>3, <1>4 DEF Heirs

LEMMA HeirsMark ==
    ASSUME TInv, Locals, Heirs, NEW h \in Handler, MarkUsed(h)
    PROVE  Heirs'
  <1> DEFINE t == req[h].presented
  <1>1. t \in Token /\ row[t] = "fresh" /\ req[h].session = login[t]
    BY ReqFields, TokenNumbers DEF MarkUsed, Locals, Local, Holding, NoToken
  <1>2. /\ login' = login /\ row'[t] # "fresh"
        /\ \A v \in Token : row'[v] = "fresh" => row[v] = "fresh" /\ v # t
    BY <1>1 DEF MarkUsed, TInv, Tables
  <1>3. /\ \A g \in Handler : g # h => req'[g] = req[g]
        /\ req'[h].session = req[h].session
    BY ReqFields DEF MarkUsed, Req
  <1>4. \A v \in Token, g \in Handler : row'[v] = "fresh" /\ req'[g].pc = "create" => req'[g].session # login'[v]
    <2> SUFFICES ASSUME NEW v \in Token, NEW g \in Handler, row'[v] = "fresh", req'[g].pc = "create"
                 PROVE  req'[g].session # login[v]
      BY <1>2
    <2>1. CASE g = h
      BY <1>1, <1>2, <1>3, <2>1 DEF Heirs
    <2>2. CASE g # h
      BY <1>2, <1>3, <2>2 DEF Heirs
    <2> QED BY <2>1, <2>2
  <1>5. \A g, k \in Handler :
            req'[g].pc = "create" /\ req'[k].pc = "create" /\ req'[g].session = req'[k].session
                => req'[g].session = NoToken \/ g = k
    BY <1>1, <1>3 DEF Heirs
  <1> QED BY <1>2, <1>4, <1>5 DEF Heirs

LEMMA HeirsCreate ==
    ASSUME TInv, Heirs, NEW h \in Handler, CreateToken(h)
    PROVE  Heirs'
  <1>1. /\ issued + 1 \in Token /\ issued \in Nat
        /\ row' = [row EXCEPT ![issued + 1] = "fresh"]
        /\ \A v \in Token : v # issued + 1 => login'[v] = login[v]
        /\ login'[issued + 1] = IF req[h].session = NoToken THEN issued + 1 ELSE req[h].session
    BY SessionsAssumption, TokenNumbers DEF CreateToken, TInv, Tables
  <1>2. /\ \A g \in Handler : g # h => req'[g] = req[g]
        /\ req'[h].pc = "answer" /\ req[h].pc = "create"
    BY ReqFields DEF CreateToken
  <1>3. \A v \in Token : row[v] = "fresh" => v \in Nat /\ v <= issued /\ login[v] \in Nat /\ login[v] <= issued
    BY <1>1, TokenNumbers DEF TInv, Tables
  <1>4. \A g \in Handler : req[g].session \in Nat /\ req[g].session <= issued
    BY TokenNumbers, ReqFields DEF Req, Fits, NoToken
  <1>5. ASSUME NEW v \in Token, row[v] = "fresh" PROVE login'[v] # login'[issued + 1] /\ v # issued + 1
    BY <1>1, <1>2, <1>3, <1>5 DEF Heirs
  <1>6. ASSUME NEW g \in Handler, g # h, req[g].pc = "create" PROVE req[g].session # login'[issued + 1]
    BY <1>1, <1>2, <1>4, <1>6 DEF Heirs
  <1>7. \A t, v \in Token : row'[t] = "fresh" /\ row'[v] = "fresh" /\ login'[t] = login'[v] => t = v
    <2>1. \A t \in Token : t # issued + 1 => row'[t] = row[t]
      BY <1>1 DEF TInv, Tables
    <2> QED BY <1>1, <1>5, <2>1 DEF Heirs
  <1>8. \A t \in Token, g \in Handler : row'[t] = "fresh" /\ req'[g].pc = "create" => req'[g].session # login'[t]
    <2>1. \A t \in Token : t # issued + 1 => row'[t] = row[t]
      BY <1>1 DEF TInv, Tables
    <2> QED BY <1>1, <1>2, <1>6, <2>1 DEF Heirs
  <1>9. ASSUME NEW g \in Handler, NEW k \in Handler, req'[g].pc = "create", req'[k].pc = "create",
               req'[g].session = req'[k].session, req'[g].session # NoToken
        PROVE  g = k
    <2>1. g # h /\ k # h
      BY <1>2, <1>9
    <2>2. req'[g] = req[g] /\ req'[k] = req[k]
      BY <1>2, <2>1
    <2> QED BY <1>9, <2>2 DEF Heirs
  <1> QED BY <1>7, <1>8, <1>9 DEF Heirs

LEMMA HeirsNext == TInv /\ Locals /\ Heirs /\ [Next]_vars => Heirs'
  <1> SUFFICES ASSUME TInv, Locals, Heirs, [Next]_vars PROVE Heirs'
    OBVIOUS
  <1>d. DOMAIN req = Handler /\ DOMAIN row = Token /\ \A g \in Handler : req[g] \in Req
    BY DEF TInv, Tables, Requests
  <1>1. ASSUME NEW h \in Handler, SelectForUpdate(h) PROVE Heirs'
    <2>1. /\ UNCHANGED <<row, login>> /\ req'[h].pc # "create"
          /\ \A g \in Handler : g # h => req'[g] = req[g]
      BY <1>1, <1>d DEF SelectForUpdate, Req
    <2> QED BY <2>1, HeirsShrink
  <1>2. ASSUME NEW h \in Handler,
               \/ RowMissing(h) \/ RevokeDone(h) \/ ExpireRow(h) \/ DeleteToken(h) \/ RotateFails(h)
               \/ RevokeStarts(h) \/ Answer(h) \/ CreateFails(h) \/ Abandon(h)
        PROVE  Heirs'
    <2>1. \A t \in Token : row'[t] = "fresh" => row[t] = "fresh" /\ login'[t] = login[t]
      <3>1. CASE UNCHANGED <<row, login>>
        BY <3>1
      <3>2. CASE RevokeDone(h)
        BY <3>2 DEF RevokeDone
      <3>3. CASE ExpireRow(h)
        BY <1>d, <3>3 DEF ExpireRow
      <3>4. CASE DeleteToken(h)
        BY <1>d, <3>4 DEF DeleteToken
      <3> QED BY <1>2, <3>1, <3>2, <3>3, <3>4
              DEF RowMissing, RotateFails, RevokeStarts, Answer, CreateFails, Abandon, tableVars
    <2>2. req'[h].pc # "create" /\ \A g \in Handler : g # h => req'[g] = req[g]
      <3>1. CASE Refuse(h)
        BY <1>d, <3>1 DEF Refuse, NoReq
      <3>2. CASE RevokeStarts(h)
        BY <1>d, <3>2 DEF RevokeStarts, Req
      <3>3. CASE Answer(h) \/ CreateFails(h) \/ Abandon(h)
        BY <1>d, <3>3 DEF Answer, CreateFails, Abandon, NoReq
      <3> QED BY <1>2, <3>1, <3>2, <3>3 DEF RowMissing, RevokeDone, ExpireRow, DeleteToken, RotateFails
    <2> QED BY <2>1, <2>2, HeirsShrink
  <1>3. ASSUME NEW h \in Handler, NEW b \in Browser, NEW pc \in {"select", "logout"}, Start(h, b, pc)
        PROVE  Heirs'
    <2>1. /\ UNCHANGED <<row, login>> /\ req'[h].pc # "create"
          /\ \A g \in Handler : g # h => req'[g] = req[g]
      BY <1>3, <1>d DEF Start, NoReq, tableVars
    <2> QED BY <2>1, HeirsShrink
  <1>4. ASSUME NEW h \in Handler, NEW b \in Browser, NEW u \in User, StartLogin(h, b, u) PROVE Heirs'
    <2>1. /\ UNCHANGED <<row, login>> /\ req'[h].session = NoToken
          /\ \A g \in Handler : g # h => req'[g] = req[g]
      BY <1>4, <1>d DEF StartLogin, NoReq, tableVars
    <2> QED BY <2>1, HeirsShrink
  <1>5. CASE Expire \/ Cleanup \/ UNCHANGED vars
    <2>1. /\ UNCHANGED <<login, req>> /\ \A t \in Token : row'[t] = "fresh" => row[t] = "fresh"
      BY <1>5 DEF Expire, Cleanup, vars, tableVars
    <2> QED BY <2>1, HeirsShrink
  <1> QED BY <1>1, <1>2, <1>3, <1>4, <1>5, HeirsMark, HeirsCreate
          DEF Next, HandlerStep, StartRefresh, StartLogout

LEMMA HeirsInit == Init => Heirs
  <1> SUFFICES ASSUME Init PROVE Heirs
    OBVIOUS
  <1>1. /\ \A t \in Token : row[t] # "fresh"
        /\ \A h \in Handler : req[h].pc # "create"
    BY DEF Init, NoReq
  <1> QED BY <1>1 DEF Heirs

LEMMA AtMostOne ==
    ASSUME NEW S, \A x, y \in S : x = y
    PROVE  IsFiniteSet(S) /\ Cardinality(S) \in {0, 1} /\ (Cardinality(S) = 1 => S # {})
  <1>1. CASE S = {}
    BY <1>1, FS_EmptySet
  <1>2. CASE S # {}
    <2>1. PICK x : x \in S
      BY <1>2
    <2>2. S = {x}
      BY <2>1
    <2> QED BY <2>2, FS_Singleton
  <1> QED BY <1>1, <1>2

LEMMA HeirsBound == TInv /\ Heirs => OneHeir
  <1> SUFFICES ASSUME TInv, Heirs, NEW s \in Token
               PROVE  Cardinality(Fresh(s)) + Cardinality(Minting(s)) <= 1
    BY DEF OneHeir
  <1>0. s # NoToken
    BY TokenNumbers DEF NoToken
  <1>1. /\ IsFiniteSet(Fresh(s)) /\ Cardinality(Fresh(s)) \in {0, 1}
        /\ Cardinality(Fresh(s)) = 1 => Fresh(s) # {}
    <2>1. \A x, y \in Fresh(s) : x = y
      BY DEF Heirs, Fresh
    <2> QED BY <2>1, AtMostOne
  <1>2. /\ Cardinality(Minting(s)) \in {0, 1}
        /\ Cardinality(Minting(s)) = 1 => Minting(s) # {}
    <2>1. \A x, y \in Minting(s) : x = y
      BY <1>0 DEF Heirs, Minting
    <2> QED BY <2>1, AtMostOne
  <1>3. Fresh(s) = {} \/ Minting(s) = {}
    BY DEF Heirs, Fresh, Minting
  <1>4. Cardinality({}) = 0
    BY FS_EmptySet
  <1> QED BY <1>1, <1>2, <1>3, <1>4

\* A session never splits in two, however many requests overlap.
THEOREM OneHeirAlways == Spec => []OneHeir
  <1>1. TInv /\ Locals /\ Heirs /\ [Next]_vars => Heirs'
    BY HeirsNext
  <1> QED BY <1>1, LocalsAlways, HeirsInit, HeirsBound, PTL DEF Spec
-----------------------------------------------------------------------------
(* The punishment of a reuse, and what no punishment touches.               *)

LEMMA PurgedBounds == ASSUME TInv PROVE \A u \in User : purged[u] \in Nat /\ purged[u] <= issued
  BY SessionsAssumption DEF TInv, Tables, History

LEMMA RevokesNext == TInv /\ Locals /\ ReuseRevokes /\ [Next]_vars => ReuseRevokes'
  <1> SUFFICES ASSUME TInv, Locals, ReuseRevokes, [Next]_vars PROVE ReuseRevokes'
    OBVIOUS
  <1>d. /\ DOMAIN row = Token /\ DOMAIN owner = Token /\ DOMAIN purged = User /\ issued \in Nat
        /\ \A t \in Token : owner[t] \in User \cup {NoUser}
    BY SessionsAssumption DEF TInv, Tables, History
  <1>k. ASSUME UNCHANGED <<owner, purged>>, \A t \in Token : row[t] = "absent" => row'[t] = "absent"
        PROVE  ReuseRevokes'
    BY <1>k DEF ReuseRevokes
  <1>1. ASSUME NEW h \in Handler, RevokeDone(h) PROVE ReuseRevokes'
    <2>1. ASSUME NEW t \in Token, owner[t] # NoUser, t <= purged'[owner[t]] PROVE row'[t] = "absent"
      <3>1. CASE t <= purged[owner[t]]
        BY <1>1, <2>1, <3>1 DEF RevokeDone, ReuseRevokes
      <3>2. CASE ~(t <= purged[owner[t]])
        <4>1. owner[t] = req[h].user /\ t <= req[h].seen
          BY <1>d, <1>1, <2>1, <3>2 DEF RevokeDone
        <4>2. row[t] # "absent" => t \in req[h].targets
          BY <1>1, <4>1 DEF RevokeDone, Locals, Local
        <4> QED BY <1>1, <4>2 DEF RevokeDone
      <3> QED BY <3>1, <3>2
    <2> QED BY <1>1, <2>1 DEF RevokeDone, ReuseRevokes
  <1>2. ASSUME NEW h \in Handler, CreateToken(h) PROVE ReuseRevokes'
    <2>1. ASSUME NEW t \in Token, owner'[t] # NoUser, t <= purged[owner'[t]] PROVE row'[t] = "absent"
      <3>1. owner'[t] \in User
        BY <1>2, <1>d, <2>1, ReqFields DEF CreateToken, Req
      <3>2. t <= issued
        BY <1>d, <2>1, <3>1, PurgedBounds, TokenNumbers
      <3>3. t # issued + 1
        BY <1>d, <3>2, TokenNumbers
      <3> QED BY <1>2, <1>d, <2>1, <3>3 DEF CreateToken, ReuseRevokes
    <2> QED BY <1>2, <2>1 DEF CreateToken, ReuseRevokes, historyVars
  <1>3. ASSUME NEW h \in Handler, MarkUsed(h) PROVE ReuseRevokes'
    <2>1. row[req[h].presented] = "fresh"
      BY <1>3 DEF MarkUsed, Locals, Local
    <2> QED BY <1>k, <1>3, <1>d, <2>1 DEF MarkUsed, historyVars
  <1>4. ASSUME NEW h \in Handler, ExpireRow(h) \/ DeleteToken(h) PROVE ReuseRevokes'
    BY <1>k, <1>4, <1>d DEF ExpireRow, DeleteToken, historyVars
  <1>5. CASE Cleanup
    BY <1>k, <1>5 DEF Cleanup, historyVars
  <1>6. CASE UNCHANGED <<row, owner, purged>>
    BY <1>k, <1>6
  <1> QED BY <1>1, <1>2, <1>3, <1>4, <1>5, <1>6
          DEF Next, HandlerStep, SelectForUpdate, RowMissing, RevokeStarts, Answer, RotateFails,
              CreateFails, Abandon, StartRefresh, StartLogout, Start, StartLogin, Expire, vars,
              tableVars, historyVars

\* Once a reuse has been punished, every token the user had when it was noticed is gone,
\* whichever requests ran beside the punishment.
THEOREM ReuseRevokesAlways == Spec => []ReuseRevokes
  <1>1. Init => ReuseRevokes
    BY DEF Init, ReuseRevokes
  <1> QED BY <1>1, RevokesNext, LocalsAlways, PTL DEF Spec

\* A usable token goes only by its own logout, by its own user's punishment, or by age.
THEOREM NoCollateralLossAlways == Spec => NoCollateralLoss
  <1> DEFINE Allowed(t) ==
        \/ t <= expired
        \/ \E h \in Handler : At(h, "logout") /\ req[h].presented = t
        \/ \E h \in Handler : At(h, "delete") /\ req[h].user = owner[t]
  <1>1. ASSUME TInv, Locals, [Next]_vars, NEW t \in Token, row[t] = "fresh", row'[t] = "absent"
        PROVE  Allowed(t)
    <2>d. DOMAIN row = Token
      BY <1>1 DEF TInv, Tables
    <2>1. ASSUME NEW h \in Handler, RevokeDone(h) PROVE Allowed(t)
      <3>1. At(h, "delete") /\ t \in req[h].targets
        BY <1>1, <2>1 DEF RevokeDone
      <3>2. req[h].user = owner[t]
        BY <1>1, <3>1 DEF Locals, Local
      <3> QED BY <3>1, <3>2
    <2>2. ASSUME NEW h \in Handler, ExpireRow(h) PROVE Allowed(t)
      <3>1. t = req[h].presented
        BY <1>1, <2>d, <2>2 DEF ExpireRow
      <3> QED BY <1>1, <2>2, <3>1 DEF ExpireRow, Locals, Local
    <2>3. ASSUME NEW h \in Handler, DeleteToken(h) PROVE Allowed(t)
      BY <1>1, <2>d, <2>3 DEF DeleteToken
    <2>4. CASE Cleanup
      BY <1>1, <2>4 DEF Cleanup
    <2>5. ASSUME NEW h \in Handler, MarkUsed(h) \/ CreateToken(h) PROVE Allowed(t)
      BY <1>1, <2>d, <2>5 DEF MarkUsed, CreateToken
    <2>6. CASE UNCHANGED row
      BY <1>1, <2>6
    <2> QED BY <1>1, <2>1, <2>2, <2>3, <2>4, <2>5, <2>6
            DEF Next, HandlerStep, SelectForUpdate, RowMissing, RevokeStarts, Answer, RotateFails,
                CreateFails, Abandon, StartRefresh, StartLogout, Start, StartLogin, Expire, vars,
                tableVars
  <1>2. TInv /\ Locals /\ [Next]_vars =>
            \A t \in Token : row[t] = "fresh" /\ row'[t] = "absent" => Allowed(t)
    BY <1>1
  <1> QED BY <1>2, LocalsAlways, PTL DEF Spec, NoCollateralLoss
-----------------------------------------------------------------------------
(* No false alarm, first half: a cookie belongs to one browser.  A token   *)
(* on its way to a jar is in no other answer, in no jar, in no request.    *)

Cookies ==
    /\ \A h \in Handler : req[h].cookie # NoToken =>
           /\ At(h, "answer")
           /\ row[req[h].cookie] # "used"
           /\ \A b \in Browser : jar[b] # req[h].cookie
           /\ \A g \in Handler : req[g].presented # req[h].cookie
           /\ \A g \in Handler : req[g].cookie = req[h].cookie => g = h
    /\ \A b, c \in Browser : jar[b] = jar[c] => jar[b] = NoToken \/ b = c
    /\ \A b \in Browser, h \in Handler :
           jar[b] = req[h].presented => jar[b] = NoToken \/ req[h].browser = b

\* Requests present what they presented before or what is in their browser's jar, and
\* no answer carries a new token.
LEMMA CookiesKeep ==
    ASSUME TInv, Cookies, jar' = jar,
           \A h \in Handler : \/ req'[h].cookie = NoToken
                              \/ req'[h].cookie = req[h].cookie /\ req'[h].pc = "answer",
           \A h \in Handler : \/ req'[h].presented = NoToken
                              \/ req'[h].presented = req[h].presented /\ req'[h].browser = req[h].browser
                              \/ \E b \in Browser : req'[h].presented = jar[b] /\ req'[h].browser = b,
           \A t \in Token : row'[t] = "used" =>
               row[t] = "used" \/ \E h \in Handler : req[h].presented = t
    PROVE  Cookies'
  <1>1. ASSUME NEW h \in Handler, req'[h].cookie # NoToken
        PROVE  /\ req'[h].pc = "answer"
               /\ row'[req'[h].cookie] # "used"
               /\ \A b \in Browser : jar'[b] # req'[h].cookie
               /\ \A g \in Handler : req'[g].presented # req'[h].cookie
               /\ \A g \in Handler : req'[g].cookie = req'[h].cookie => g = h
    <2>1. req'[h].cookie = req[h].cookie /\ req'[h].pc = "answer" /\ req[h].cookie \in Token
      BY <1>1, ReqFields DEF Req
    <2>2. row'[req'[h].cookie] # "used"
      BY <1>1, <2>1 DEF Cookies
    <2>3. \A b \in Browser : jar'[b] # req'[h].cookie
      BY <1>1, <2>1 DEF Cookies
    <2>4. ASSUME NEW g \in Handler PROVE req'[g].presented # req'[h].cookie
      BY <1>1, <2>1 DEF Cookies
    <2>5. ASSUME NEW g \in Handler, req'[g].cookie = req'[h].cookie PROVE g = h
      BY <1>1, <2>1, <2>5 DEF Cookies
    <2> QED BY <2>1, <2>2, <2>3, <2>4, <2>5
  <1>2. ASSUME NEW b \in Browser, NEW h \in Handler, jar'[b] = req'[h].presented
        PROVE  jar'[b] = NoToken \/ req'[h].browser = b
    BY <1>2 DEF Cookies
  <1>3. \A b, c \in Browser : jar'[b] = jar'[c] => jar'[b] = NoToken \/ b = c
    BY DEF Cookies
  <1> QED BY <1>1, <1>2, <1>3 DEF Cookies

LEMMA CookiesCreate ==
    ASSUME TInv, Cookies, NEW h \in Handler, CreateToken(h)
    PROVE  Cookies'
  <1>1. /\ issued + 1 \in Token /\ issued \in Nat /\ jar' = jar
        /\ row' = [row EXCEPT ![issued + 1] = "fresh"] /\ DOMAIN row = Token
    BY SessionsAssumption, TokenNumbers DEF CreateToken, TInv, Tables
  <1>2. /\ \A g \in Handler : g # h => req'[g] = req[g]
        /\ req'[h].pc = "answer" /\ req[h].pc = "create" /\ req'[h].cookie = issued + 1
        /\ req'[h].presented = req[h].presented /\ req'[h].browser = req[h].browser
    BY ReqFields DEF CreateToken, Req
  <1>3. \A g \in Handler : /\ req[g].presented \in Nat /\ req[g].presented <= issued
                           /\ req[g].cookie \in Nat /\ req[g].cookie <= issued
    BY <1>1, TokenNumbers, ReqFields DEF Req, Fits, NoToken
  <1>4. \A b \in Browser : jar[b] \in Nat /\ jar[b] <= issued
    BY <1>1 DEF TInv, History
  <1>5. \A t \in Token : t # issued + 1 => row'[t] = row[t]
    BY <1>1
  <1>6. \A g \in Handler : req[g].cookie # NoToken => req[g].cookie \in Token
    BY ReqFields DEF Req
  <1>7. ASSUME NEW k \in Handler, req'[k].cookie # NoToken
        PROVE  /\ req'[k].pc = "answer"
               /\ row'[req'[k].cookie] # "used"
               /\ \A b \in Browser : jar'[b] # req'[k].cookie
               /\ \A g \in Handler : req'[g].presented # req'[k].cookie
               /\ \A g \in Handler : req'[g].cookie = req'[k].cookie => g = k
    <2>1. CASE k = h
      <3>1. \A g \in Handler : req'[g].presented # issued + 1 /\ (req'[g].cookie = issued + 1 => g = h)
        BY <1>1, <1>2, <1>3
      <3> QED BY <1>1, <1>2, <1>4, <2>1, <3>1
    <2>2. CASE k # h
      <3>1. req'[k] = req[k] /\ req[k].cookie \in Token /\ req[k].cookie # issued + 1
        BY <1>1, <1>2, <1>3, <1>6, <1>7, <2>2
      <3>2. row'[req[k].cookie] = row[req[k].cookie]
        BY <1>5, <3>1
      <3>3. \A g \in Handler : req'[g].presented = req[g].presented
        BY <1>2
      <3> QED BY <1>1, <1>2, <1>7, <3>1, <3>2, <3>3 DEF Cookies
    <2> QED BY <2>1, <2>2
  <1>8. ASSUME NEW b \in Browser, NEW g \in Handler, jar'[b] = req'[g].presented
        PROVE  jar'[b] = NoToken \/ req'[g].browser = b
    <2>1. req'[g].presented = req[g].presented /\ req'[g].browser = req[g].browser
      BY <1>2
    <2> QED BY <1>1, <1>8, <2>1 DEF Cookies
  <1>9. \A b, c \in Browser : jar'[b] = jar'[c] => jar'[b] = NoToken \/ b = c
    BY <1>1 DEF Cookies
  <1> QED BY <1>7, <1>8, <1>9 DEF Cookies

LEMMA CookiesAnswer ==
    ASSUME TInv, Cookies, NEW h \in Handler, Answer(h)
    PROVE  Cookies'
  <1> DEFINE c == req[h].cookie
             b == req[h].browser
  <1>1. /\ \A g \in Handler : g # h => req'[g] = req[g]
        /\ req'[h].presented = NoToken /\ req'[h].cookie = NoToken
        /\ row' = row
        /\ \A d \in Browser : jar'[d] = IF d = b THEN c ELSE jar[d]
    BY ReqFields DEF Answer, NoReq, tableVars, TInv, History
  <1>2. ASSUME NEW k \in Handler, req'[k].cookie # NoToken
        PROVE  /\ req'[k].pc = "answer"
               /\ row'[req'[k].cookie] # "used"
               /\ \A d \in Browser : jar'[d] # req'[k].cookie
               /\ \A g \in Handler : req'[g].presented # req'[k].cookie
               /\ \A g \in Handler : req'[g].cookie = req'[k].cookie => g = k
    <2>1. k # h /\ req'[k] = req[k] /\ req[k].cookie # NoToken
      BY <1>1, <1>2
    <2>2. c # req[k].cookie
      BY <2>1 DEF Cookies
    <2>3. \A g \in Handler : req'[g].presented # req[k].cookie /\ (req'[g].cookie = req[k].cookie => g = k)
      BY <1>1, <2>1 DEF Cookies
    <2> QED BY <1>1, <2>1, <2>2, <2>3 DEF Cookies
  <1>3. ASSUME NEW d \in Browser, NEW g \in Handler, jar'[d] = req'[g].presented
        PROVE  jar'[d] = NoToken \/ req'[g].browser = d
    <2>1. CASE g = h
      BY <1>1, <1>3, <2>1
    <2>2. CASE g # h
      BY <1>1, <1>3, <2>2 DEF Cookies
    <2> QED BY <2>1, <2>2
  <1>4. ASSUME NEW d \in Browser, NEW e \in Browser, jar'[d] = jar'[e] PROVE jar'[d] = NoToken \/ d = e
    BY <1>1, <1>4 DEF Cookies
  <1> QED BY <1>2, <1>3, <1>4 DEF Cookies

LEMMA CookiesNext == TInv /\ Locals /\ Cookies /\ [Next]_vars => Cookies'
  <1> SUFFICES ASSUME TInv, Locals, Cookies, [Next]_vars PROVE Cookies'
    OBVIOUS
  <1>d. DOMAIN req = Handler /\ DOMAIN row = Token /\ \A g \in Handler : req[g] \in Req
    BY DEF TInv, Tables, Requests
  <1>c. \A g \in Handler : req[g].cookie = NoToken \/ req[g].pc = "answer"
    BY DEF Cookies
  \* One request moves, to present nothing else than before.
  <1>o. ASSUME NEW h \in Handler, jar' = jar, \A g \in Handler : g # h => req'[g] = req[g],
               req'[h].cookie = NoToken,
               \/ req'[h].presented = NoToken
               \/ req'[h].presented = req[h].presented /\ req'[h].browser = req[h].browser
               \/ \E b \in Browser : req'[h].presented = jar[b] /\ req'[h].browser = b,
               \A t \in Token : row'[t] = "used" =>
                   row[t] = "used" \/ \E g \in Handler : req[g].presented = t
        PROVE  Cookies'
    <2>1. ASSUME NEW g \in Handler
          PROVE  req'[g].cookie = NoToken \/ (req'[g].cookie = req[g].cookie /\ req'[g].pc = "answer")
      <3>1. CASE g = h
        BY <1>o, <3>1
      <3>2. CASE g # h
        BY <1>c, <1>o, <3>2
      <3> QED BY <3>1, <3>2
    <2>2. ASSUME NEW g \in Handler
          PROVE  \/ req'[g].presented = NoToken
                 \/ req'[g].presented = req[g].presented /\ req'[g].browser = req[g].browser
                 \/ \E b \in Browser : req'[g].presented = jar[b] /\ req'[g].browser = b
      <3>1. CASE g = h
        BY <1>o, <3>1
      <3>2. CASE g # h
        BY <1>o, <3>2
      <3> QED BY <3>1, <3>2
    <2> QED BY <1>o, <2>1, <2>2, CookiesKeep
  <1>1. ASSUME NEW h \in Handler, SelectForUpdate(h) \/ RevokeStarts(h) PROVE Cookies'
    <2>1. /\ jar' = jar /\ row' = row /\ \A g \in Handler : g # h => req'[g] = req[g]
          /\ req'[h].cookie = req[h].cookie /\ req[h].pc # "answer"
          /\ req'[h].presented = req[h].presented /\ req'[h].browser = req[h].browser
      BY <1>1, <1>d DEF SelectForUpdate, RevokeStarts, Req, tableVars
    <2>2. req'[h].cookie = NoToken
      BY <1>c, <2>1
    <2> QED BY <1>o, <2>1, <2>2
  <1>2. ASSUME NEW h \in Handler, MarkUsed(h) PROVE Cookies'
    <2>1. /\ jar' = jar /\ \A g \in Handler : g # h => req'[g] = req[g]
          /\ req'[h].cookie = req[h].cookie /\ req[h].pc # "answer"
          /\ req'[h].presented = req[h].presented /\ req'[h].browser = req[h].browser
      BY <1>2, <1>d DEF MarkUsed, Req
    <2>2. \A t \in Token : row'[t] = "used" => row[t] = "used" \/ req[h].presented = t
      BY <1>2, <1>d DEF MarkUsed
    <2>3. req'[h].cookie = NoToken
      BY <1>c, <2>1
    <2> QED BY <1>o, <2>1, <2>2, <2>3
  <1>3. ASSUME NEW h \in Handler, Refuse(h), jar' = jar, \A t \in Token : row'[t] = "used" => row[t] = "used"
        PROVE  Cookies'
    <2>1. /\ req'[h].cookie = NoToken /\ req'[h].presented = NoToken
          /\ \A g \in Handler : g # h => req'[g] = req[g]
      BY <1>3, <1>d DEF Refuse, NoReq
    <2> QED BY <1>o, <1>3, <2>1
  <1>4. ASSUME NEW h \in Handler, RowMissing(h) \/ RevokeDone(h) \/ ExpireRow(h) \/ DeleteToken(h) \/ RotateFails(h)
        PROVE  Cookies'
    <2>1. Refuse(h) /\ jar' = jar
      BY <1>4 DEF RowMissing, RevokeDone, ExpireRow, DeleteToken, RotateFails
    <2>2. \A t \in Token : row'[t] = "used" => row[t] = "used"
      <3>1. CASE RevokeDone(h)
        BY <3>1 DEF RevokeDone
      <3>2. CASE ExpireRow(h)
        BY <1>d, <3>2 DEF ExpireRow
      <3>3. CASE DeleteToken(h)
        BY <1>d, <3>3 DEF DeleteToken
      <3> QED BY <1>4, <3>1, <3>2, <3>3 DEF RowMissing, RotateFails, tableVars
    <2> QED BY <1>3, <2>1, <2>2
  <1>5. ASSUME NEW h \in Handler, CreateFails(h) \/ Abandon(h) PROVE Cookies'
    <2>1. /\ jar' = jar /\ row' = row /\ req'[h].cookie = NoToken /\ req'[h].presented = NoToken
          /\ \A g \in Handler : g # h => req'[g] = req[g]
      BY <1>5, <1>d DEF CreateFails, Abandon, NoReq, tableVars
    <2> QED BY <1>o, <2>1
  <1>6. ASSUME NEW h \in Handler, NEW b \in Browser, NEW pc \in {"select", "logout"}, Start(h, b, pc)
        PROVE  Cookies'
    <2>1. /\ jar' = jar /\ row' = row /\ req'[h].cookie = NoToken
          /\ req'[h].presented = jar[b] /\ req'[h].browser = b
          /\ \A g \in Handler : g # h => req'[g] = req[g]
      BY <1>6, <1>d DEF Start, NoReq, tableVars
    <2> QED BY <1>o, <2>1
  <1>7. ASSUME NEW h \in Handler, NEW b \in Browser, NEW u \in User, StartLogin(h, b, u) PROVE Cookies'
    <2>1. /\ jar' = jar /\ row' = row /\ req'[h].cookie = NoToken /\ req'[h].presented = NoToken
          /\ \A g \in Handler : g # h => req'[g] = req[g]
      BY <1>7, <1>d DEF StartLogin, NoReq, tableVars
    <2> QED BY <1>o, <2>1
  <1>8. CASE Expire \/ Cleanup \/ UNCHANGED vars
    <2>1. UNCHANGED <<jar, req>> /\ \A t \in Token : row'[t] = "used" => row[t] = "used"
      BY <1>8 DEF Expire, Cleanup, vars, tableVars
    <2> QED BY <1>c, <2>1, CookiesKeep
  <1> QED BY <1>1, <1>2, <1>4, <1>5, <1>6, <1>7, <1>8, CookiesCreate, CookiesAnswer
          DEF Next, HandlerStep, StartRefresh, StartLogout
-----------------------------------------------------------------------------
(* Second half: a session is reported only if it is shaken.  While two     *)
(* requests share a session it is shaken; a used token is still in a jar   *)
(* only because its successor is on the way, or the session is shaken.     *)

Renewing(b) == \E h \in Handler : /\ req[h].browser = b /\ req[h].presented = jar[b]
                                  /\ req[h].pc \in {"create", "answer"}

Blame ==
    /\ alarmed \subseteq shaken
    /\ \A g, h \in Handler :
           req[g].session = req[h].session => \/ req[g].session = NoToken \/ g = h
                                              \/ req[g].session \in shaken
    /\ \A h \in Handler : At(h, "select") /\ row[req[h].presented] = "used" => req[h].session \in shaken
    /\ \A b \in Browser : jar[b] # NoToken /\ row[jar[b]] = "used" => login[jar[b]] \in shaken \/ Renewing(b)

LEMMA JarToken ==
    ASSUME TInv, NEW b \in Browser, jar[b] # NoToken
    PROVE  jar[b] \in Token /\ jar[b] <= issued /\ login[jar[b]] \in Token
  BY SessionsAssumption, TokenNumbers DEF TInv, Tables, History, NoToken

\* Requests come to an end, and renewals only with an answer or a shaken session.
LEMMA BlameKeeps ==
    ASSUME TInv, Locals, Blame, jar' = jar, login' = login, alarmed' \subseteq shaken', shaken \subseteq shaken',
           \A t \in Token : row'[t] = "used" => row[t] = "used",
           \A h \in Handler : req'[h].session = NoToken \/ req'[h].session = req[h].session,
           \A h \in Handler : req'[h].pc = "select" => req'[h] = req[h],
           \A h \in Handler : req[h].pc \in {"create", "answer"} /\ req[h].presented # NoToken =>
               req'[h] = req[h] \/ req[h].session \in shaken'
    PROVE  Blame'
  <1>1. ASSUME NEW g \in Handler, NEW h \in Handler, req'[g].session = req'[h].session
        PROVE  req'[g].session = NoToken \/ g = h \/ req'[g].session \in shaken'
    BY <1>1 DEF Blame
  <1>2. ASSUME NEW h \in Handler, req'[h].pc = "select", row'[req'[h].presented] = "used"
        PROVE  req'[h].session \in shaken'
    <2>1. req'[h] = req[h] /\ req[h].presented \in Token
      BY <1>2, ReqFields DEF Holding
    <2> QED BY <1>2, <2>1 DEF Blame
  <1>3. ASSUME NEW b \in Browser, jar'[b] # NoToken, row'[jar'[b]] = "used"
        PROVE  login'[jar'[b]] \in shaken' \/ Renewing(b)'
    <2>1. jar[b] # NoToken /\ row[jar[b]] = "used"
      BY <1>3, JarToken
    <2>2. CASE login[jar[b]] \in shaken
      BY <2>2
    <2>3. CASE Renewing(b)
      <3>1. PICK h \in Handler : /\ req[h].browser = b /\ req[h].presented = jar[b]
                                 /\ req[h].pc \in {"create", "answer"}
        BY <2>3 DEF Renewing
      <3>2. req[h].session = login[jar[b]]
        BY <2>1, <3>1 DEF Locals, Local
      <3>3. CASE req'[h] = req[h]
        BY <3>1, <3>3 DEF Renewing
      <3>4. CASE req[h].session \in shaken'
        BY <3>2, <3>4
      <3> QED BY <2>1, <3>1, <3>3, <3>4
    <2> QED BY <2>1, <2>2, <2>3 DEF Blame
  <1> QED BY <1>1, <1>2, <1>3 DEF Blame

LEMMA BlameMark ==
    ASSUME TInv, Locals, Cookies, Blame, NEW h \in Handler, MarkUsed(h)
    PROVE  Blame'
  <1> DEFINE t == req[h].presented
  <1>1. /\ t \in Token /\ t # NoToken /\ req[h].session = login[t] /\ login[t] \in Token
        /\ UNCHANGED <<jar, login, alarmed, shaken>>
        /\ \A v \in Token : row'[v] = "used" => row[v] = "used" \/ v = t
    BY ReqFields, TokenNumbers DEF MarkUsed, Locals, Local, Holding, NoToken, TInv, Tables, historyVars
  <1>2. /\ \A g \in Handler : g # h => req'[g] = req[g]
        /\ req'[h].session = req[h].session /\ req'[h].browser = req[h].browser
        /\ req'[h].presented = t /\ req'[h].pc = "create"
    BY ReqFields DEF MarkUsed, Req
  <1>3. \A g, k \in Handler :
            req'[g].session = req'[k].session => \/ req'[g].session = NoToken \/ g = k
                                                 \/ req'[g].session \in shaken'
    BY <1>1, <1>2 DEF Blame
  <1>4. ASSUME NEW g \in Handler, req'[g].pc = "select", row'[req'[g].presented] = "used"
        PROVE  req'[g].session \in shaken'
    <2>1. g # h /\ req'[g] = req[g] /\ req[g].presented \in Token
      BY <1>2, <1>4, ReqFields DEF Holding
    <2>2. CASE row[req[g].presented] = "used"
      BY <1>1, <1>4, <2>1, <2>2 DEF Blame
    <2>3. CASE req[g].presented = t
      <3>1. req[g].session = req[h].session /\ req[g].session # NoToken
        BY <1>1, <2>3, TokenNumbers DEF Locals, Local, NoToken
      <3> QED BY <1>1, <2>1, <3>1 DEF Blame
    <2> QED BY <1>1, <1>4, <2>1, <2>2, <2>3
  <1>5. ASSUME NEW b \in Browser, jar'[b] # NoToken, row'[jar'[b]] = "used"
        PROVE  login'[jar'[b]] \in shaken' \/ Renewing(b)'
    <2>1. jar'[b] = jar[b] /\ jar[b] # NoToken /\ jar[b] \in Token
      BY <1>1, <1>5, JarToken
    <2>2. CASE jar[b] = t
      <3>1. req[h].browser = b
        BY <2>1, <2>2 DEF Cookies
      <3> QED BY <1>2, <2>1, <2>2, <3>1 DEF Renewing
    <2>3. CASE row[jar[b]] = "used" /\ login[jar[b]] \in shaken
      BY <1>1, <2>3
    <2>4. CASE row[jar[b]] = "used" /\ Renewing(b)
      <3>1. PICK g \in Handler : /\ req[g].browser = b /\ req[g].presented = jar[b]
                                 /\ req[g].pc \in {"create", "answer"}
        BY <2>4 DEF Renewing
      <3>2. g # h
        BY <3>1 DEF MarkUsed
      <3> QED BY <1>2, <2>1, <3>1, <3>2 DEF Renewing
    <2> QED BY <1>1, <1>5, <2>1, <2>2, <2>3, <2>4 DEF Blame
  <1> QED BY <1>1, <1>3, <1>4, <1>5 DEF Blame

LEMMA BlameCreate ==
    ASSUME TInv, Locals, Blame, NEW h \in Handler, CreateToken(h)
    PROVE  Blame'
  <1>1. /\ issued + 1 \in Token /\ issued \in Nat /\ UNCHANGED <<jar, alarmed, shaken>>
        /\ \A v \in Token : v # issued + 1 => login'[v] = login[v] /\ row'[v] = row[v]
        /\ login'[issued + 1] = IF req[h].session = NoToken THEN issued + 1 ELSE req[h].session
    BY SessionsAssumption, TokenNumbers DEF CreateToken, TInv, Tables, historyVars
  <1>2. /\ \A g \in Handler : g # h => req'[g] = req[g]
        /\ req'[h].pc = "answer" /\ req[h].pc = "create" /\ req'[h].session = login'[issued + 1]
        /\ req'[h].presented = req[h].presented /\ req'[h].browser = req[h].browser
    BY ReqFields DEF CreateToken, Req
  <1>3. \A g \in Handler : req[g].session # issued + 1 /\ req[g].presented # issued + 1
    BY <1>1, TokenNumbers, ReqFields DEF Req, Fits, NoToken
  <1>4. ASSUME NEW g \in Handler, g # h PROVE req[g].session = req'[h].session => \/ req[g].session = NoToken
                                                                                  \/ req[g].session \in shaken
    BY <1>1, <1>2, <1>3, <1>4 DEF Blame
  <1>5. ASSUME NEW g \in Handler, NEW k \in Handler, req'[g].session = req'[k].session
        PROVE  req'[g].session = NoToken \/ g = k \/ req'[g].session \in shaken'
    <2>1. CASE g = h
      BY <1>1, <1>2, <1>4, <1>5, <2>1
    <2>2. CASE k = h
      BY <1>1, <1>2, <1>4, <1>5, <2>2
    <2>3. CASE g # h /\ k # h
      BY <1>1, <1>2, <1>5, <2>3 DEF Blame
    <2> QED BY <2>1, <2>2, <2>3
  <1>6. ASSUME NEW g \in Handler, req'[g].pc = "select", row'[req'[g].presented] = "used"
        PROVE  req'[g].session \in shaken'
    <2>1. g # h /\ req'[g] = req[g] /\ req[g].presented \in Token
      BY <1>2, <1>6, ReqFields DEF Holding
    <2> QED BY <1>1, <1>3, <1>6, <2>1 DEF Blame
  <1>7. ASSUME NEW b \in Browser, jar'[b] # NoToken, row'[jar'[b]] = "used"
        PROVE  login'[jar'[b]] \in shaken' \/ Renewing(b)'
    <2>1. jar'[b] = jar[b] /\ jar[b] \in Token /\ jar[b] # NoToken /\ jar[b] # issued + 1
      BY <1>1, <1>7, JarToken
    <2>2. row[jar[b]] = "used" /\ login'[jar[b]] = login[jar[b]]
      BY <1>1, <1>7, <2>1
    <2>3. CASE Renewing(b)
      <3>1. PICK g \in Handler : /\ req[g].browser = b /\ req[g].presented = jar[b]
                                 /\ req[g].pc \in {"create", "answer"}
        BY <2>3 DEF Renewing
      <3>2. /\ req'[g].browser = b /\ req'[g].presented = jar[b] /\ req'[g].pc \in {"create", "answer"}
        BY <1>2, <3>1
      <3> QED BY <2>1, <3>2 DEF Renewing
    <2> QED BY <1>1, <2>1, <2>2, <2>3 DEF Blame
  <1> QED BY <1>1, <1>5, <1>6, <1>7 DEF Blame

LEMMA BlameAnswer ==
    ASSUME TInv, Locals, Cookies, Blame, NEW h \in Handler, Answer(h)
    PROVE  Blame'
  <1> DEFINE c == req[h].cookie
             d == req[h].browser
  <1>1. /\ \A g \in Handler : g # h => req'[g] = req[g]
        /\ req'[h].session = NoToken /\ req'[h].pc = "idle" /\ req[h].pc = "answer"
        /\ UNCHANGED <<row, login, alarmed, shaken>>
        /\ \A b \in Browser : jar'[b] = IF b = d THEN c ELSE jar[b]
    BY ReqFields DEF Answer, NoReq, tableVars, historyVars, TInv, History
  <1>2. ASSUME NEW g \in Handler, NEW k \in Handler, req'[g].session = req'[k].session
        PROVE  req'[g].session = NoToken \/ g = k \/ req'[g].session \in shaken'
    BY <1>1, <1>2 DEF Blame
  <1>3. \A g \in Handler : req'[g].pc = "select" /\ row'[req'[g].presented] = "used" => req'[g].session \in shaken'
    BY <1>1 DEF Blame
  <1>4. ASSUME NEW b \in Browser, jar'[b] # NoToken, row'[jar'[b]] = "used"
        PROVE  login'[jar'[b]] \in shaken' \/ Renewing(b)'
    <2>1. b # d
      BY <1>1, <1>4 DEF Cookies
    <2>2. jar'[b] = jar[b] /\ jar[b] # NoToken /\ row[jar[b]] = "used"
      BY <1>1, <1>4, <2>1
    <2>3. CASE Renewing(b)
      <3>1. PICK g \in Handler : /\ req[g].browser = b /\ req[g].presented = jar[b]
                                 /\ req[g].pc \in {"create", "answer"}
        BY <2>3 DEF Renewing
      <3> QED BY <1>1, <2>1, <2>2, <3>1 DEF Renewing
    <2> QED BY <1>1, <2>2, <2>3 DEF Blame
  <1> QED BY <1>1, <1>2, <1>3, <1>4 DEF Blame

LEMMA BlameStart ==
    ASSUME TInv, Locals, Blame, NEW h \in Handler, NEW b \in Browser, NEW pc \in {"select", "logout"}, Start(h, b, pc)
    PROVE  Blame'
  <1> DEFINE s == login[jar[b]]
  <1>1. jar[b] # NoToken /\ jar[b] \in Token /\ s \in Token /\ s # NoToken
    BY JarToken, TokenNumbers DEF Start, NoToken
  <1>2. /\ UNCHANGED <<row, login, jar, alarmed>> /\ shaken \subseteq shaken'
        /\ InFlight(s) => s \in shaken'
        /\ \A g \in Handler : g # h => req'[g] = req[g]
        /\ req[h].pc = "idle" /\ req'[h].presented = jar[b] /\ req'[h].session = s
    BY ReqFields DEF Start, NoReq, tableVars
  <1>3. ASSUME NEW g \in Handler, req[g].session = s PROVE s \in shaken'
    <2>1. ~At(g, "idle")
      BY <1>1, <1>3 DEF Locals, Local, NoReq
    <2> QED BY <1>2, <1>3, <2>1 DEF InFlight
  <1>4. ASSUME NEW g \in Handler, NEW k \in Handler, req'[g].session = req'[k].session
        PROVE  req'[g].session = NoToken \/ g = k \/ req'[g].session \in shaken'
    <2>1. CASE g = h
      BY <1>2, <1>3, <1>4, <2>1
    <2>2. CASE k = h
      BY <1>2, <1>3, <1>4, <2>2
    <2>3. CASE g # h /\ k # h
      BY <1>2, <1>4, <2>3 DEF Blame
    <2> QED BY <2>1, <2>2, <2>3
  <1>5. ASSUME NEW g \in Handler, req'[g].pc = "select", row'[req'[g].presented] = "used"
        PROVE  req'[g].session \in shaken'
    <2>1. CASE g = h
      <3>1. row[jar[b]] = "used"
        BY <1>2, <1>5, <2>1
      <3>2. CASE Renewing(b)
        <4>1. PICK k \in Handler : req[k].presented = jar[b]
          BY <3>2 DEF Renewing
        <4>2. req[k].session = s
          BY <1>1, <4>1 DEF Locals, Local
        <4> QED BY <1>2, <1>3, <2>1, <4>2
      <3> QED BY <1>1, <1>2, <2>1, <3>1, <3>2 DEF Blame
    <2>2. CASE g # h
      BY <1>2, <1>5, <2>2 DEF Blame
    <2> QED BY <2>1, <2>2
  <1>6. ASSUME NEW d \in Browser, jar'[d] # NoToken, row'[jar'[d]] = "used"
        PROVE  login'[jar'[d]] \in shaken' \/ Renewing(d)'
    <2>1. CASE Renewing(d)
      <3>1. PICK k \in Handler : /\ req[k].browser = d /\ req[k].presented = jar[d]
                                 /\ req[k].pc \in {"create", "answer"}
        BY <2>1 DEF Renewing
      <3>2. req'[k] = req[k]
        BY <1>2, <3>1
      <3> QED BY <1>2, <3>1, <3>2 DEF Renewing
    <2> QED BY <1>2, <1>6, <2>1 DEF Blame
  <1> QED BY <1>2, <1>4, <1>5, <1>6 DEF Blame

LEMMA BlameNext == TInv /\ Locals /\ Cookies /\ Blame /\ [Next]_vars => Blame'
  <1> SUFFICES ASSUME TInv, Locals, Cookies, Blame, [Next]_vars PROVE Blame'
    OBVIOUS
  <1>d. DOMAIN req = Handler /\ DOMAIN row = Token /\ \A g \in Handler : req[g] \in Req
    BY DEF TInv, Tables, Requests
  <1>a. alarmed \subseteq shaken
    BY DEF Blame
  \* One request moves on, or ends.
  <1>o. ASSUME NEW h \in Handler, UNCHANGED <<jar, login>>, alarmed' \subseteq shaken', shaken \subseteq shaken',
               \A t \in Token : row'[t] = "used" => row[t] = "used",
               \A g \in Handler : g # h => req'[g] = req[g],
               req'[h].session = NoToken \/ req'[h].session = req[h].session,
               req'[h].pc # "select",
               req[h].pc \in {"create", "answer"} /\ req[h].presented # NoToken => req[h].session \in shaken'
        PROVE  Blame'
    <2>1. \A g \in Handler : req'[g].session = NoToken \/ req'[g].session = req[g].session
      BY <1>o
    <2>2. \A g \in Handler : req'[g].pc = "select" => req'[g] = req[g]
      BY <1>o
    <2>3. ASSUME NEW g \in Handler, req[g].pc \in {"create", "answer"} /\ req[g].presented # NoToken
          PROVE  req'[g] = req[g] \/ req[g].session \in shaken'
      BY <1>o, <2>3
    <2> QED BY <1>o, <2>1, <2>2, <2>3, BlameKeeps
  <1>1. ASSUME NEW h \in Handler, SelectForUpdate(h) PROVE Blame'
    <2>1. /\ UNCHANGED <<jar, login, row, shaken>> /\ req[h].pc = "select"
          /\ \A g \in Handler : g # h => req'[g] = req[g]
          /\ req'[h].session = req[h].session /\ req'[h].pc # "select"
      BY <1>1, <1>d DEF SelectForUpdate, Req
    <2>2. alarmed' \subseteq shaken
      <3>1. row[req[h].presented] = "used" => login[req[h].presented] \in shaken
        <4>1. req[h].presented \in Token /\ req[h].presented # NoToken
          BY <2>1, ReqFields, TokenNumbers DEF Holding, NoToken
        <4> QED BY <2>1, <4>1 DEF Blame, Locals, Local
      <3> QED BY <1>1, <1>a, <3>1 DEF SelectForUpdate
    <2> QED BY <1>o, <2>1, <2>2
  <1>2. ASSUME NEW h \in Handler, RevokeStarts(h) PROVE Blame'
    <2>1. /\ UNCHANGED <<jar, login, row, shaken, alarmed>> /\ req[h].pc = "revoke"
          /\ \A g \in Handler : g # h => req'[g] = req[g]
          /\ req'[h].session = req[h].session /\ req'[h].pc # "select"
      BY <1>2, <1>d DEF RevokeStarts, Req, tableVars, historyVars
    <2> QED BY <1>a, <1>o, <2>1
  <1>3. ASSUME NEW h \in Handler, RowMissing(h) \/ RevokeDone(h) \/ ExpireRow(h) \/ DeleteToken(h) \/ RotateFails(h)
        PROVE  Blame'
    <2>1. /\ UNCHANGED <<jar, login, alarmed, shaken>> /\ Refuse(h) /\ req[h].pc \notin {"create", "answer"}
      BY <1>3 DEF RowMissing, RevokeDone, ExpireRow, DeleteToken, RotateFails, tableVars, historyVars
    <2>2. /\ \A g \in Handler : g # h => req'[g] = req[g]
          /\ req'[h].session = NoToken /\ req'[h].pc = "answer"
      BY <1>d, <2>1 DEF Refuse, NoReq
    <2>3. \A t \in Token : row'[t] = "used" => row[t] = "used"
      <3>1. CASE RevokeDone(h)
        BY <3>1 DEF RevokeDone
      <3>2. CASE ExpireRow(h)
        BY <1>d, <3>2 DEF ExpireRow
      <3>3. CASE DeleteToken(h)
        BY <1>d, <3>3 DEF DeleteToken
      <3> QED BY <1>3, <3>1, <3>2, <3>3 DEF RowMissing, RotateFails, tableVars
    <2> QED BY <1>a, <1>o, <2>1, <2>2, <2>3
  <1>4. ASSUME NEW h \in Handler, CreateFails(h) \/ Abandon(h) PROVE Blame'
    <2>1. /\ UNCHANGED <<jar, login, row, alarmed>> /\ shaken' = shaken \cup SessionOf(h)
          /\ \A g \in Handler : g # h => req'[g] = req[g]
          /\ req'[h].session = NoToken /\ req'[h].pc = "idle"
      BY <1>4, <1>d DEF CreateFails, Abandon, NoReq, tableVars
    <2>2. req[h].presented # NoToken => req[h].session \in shaken'
      <3>1. req[h].presented # NoToken => req[h].session \in Token
        BY ReqFields DEF Locals, Local, TInv, Tables
      <3> QED BY <2>1, <3>1, TokenNumbers DEF SessionOf, NoToken
    <2> QED BY <1>a, <1>o, <2>1, <2>2
  <1>5. ASSUME NEW h \in Handler, NEW b \in Browser, NEW u \in User, StartLogin(h, b, u) PROVE Blame'
    <2>1. /\ UNCHANGED <<jar, login, row, alarmed, shaken>> /\ req[h].pc = "idle"
          /\ \A g \in Handler : g # h => req'[g] = req[g]
          /\ req'[h].session = NoToken /\ req'[h].pc = "create"
      BY <1>5, <1>d DEF StartLogin, NoReq, tableVars, historyVars
    <2> QED BY <1>a, <1>o, <2>1
  <1>6. CASE Expire \/ Cleanup \/ UNCHANGED vars
    <2>1. UNCHANGED <<jar, req, login, alarmed, shaken>> /\ \A t \in Token : row'[t] = "used" => row[t] = "used"
      BY <1>6 DEF Expire, Cleanup, vars, tableVars, historyVars
    <2> QED BY <1>a, <2>1, BlameKeeps
  <1> QED BY <1>1, <1>2, <1>3, <1>4, <1>5, <1>6, BlameMark, BlameCreate, BlameAnswer, BlameStart
          DEF Next, HandlerStep, StartRefresh, StartLogout

\* A browser that refreshes one at a time over a working network is never logged out as
\* a thief, whatever the other browsers and users do.
THEOREM NoFalseAlarmAlways == Spec => []NoFalseAlarm
  <1>1. Init => Cookies /\ Blame
    <2>1. ASSUME Init PROVE Cookies /\ Blame
      <3>1. /\ \A h \in Handler : req[h].cookie = NoToken /\ req[h].session = NoToken /\ req[h].pc = "idle"
            /\ \A b \in Browser : jar[b] = NoToken
            /\ alarmed = {}
        BY <2>1 DEF Init, NoReq
      <3> QED BY <3>1 DEF Cookies, Blame
    <2> QED BY <2>1
  <1>2. TInv /\ Locals /\ Cookies /\ Blame /\ [Next]_vars => Cookies' /\ Blame'
    BY CookiesNext, BlameNext
  <1>3. Blame => NoFalseAlarm
    BY DEF Blame, NoFalseAlarm
  <1> QED BY <1>1, <1>2, <1>3, LocalsAlways, PTL DEF Spec

-----------------------------------------------------------------------------
(* Waiting.  A lock is that of the rotation which presented the row; the    *)
(* row is there, and a DELETE of its own targets it; and of two DELETEs for *)
(* one user the later to start targets what is left of the earlier's rows.  *)

Present(h) == {t \in req[h].targets : row[t] # "absent"}

Holds(h) ==
    /\ req[h].pc \in Locking => /\ owner[req[h].presented] = req[h].user
                                /\ row[req[h].presented] # "absent"
    /\ At(h, "delete") => req[h].presented \in req[h].targets
Held == \A t \in Token : lock[t] # NoHandler => req[lock[t]].pc \in Locking /\ req[lock[t]].presented = t
Nested(g, h) ==
    At(g, "delete") /\ At(h, "delete") /\ req[g].user = req[h].user
        => Present(g) \subseteq req[h].targets \/ Present(h) \subseteq req[g].targets

HInv == \A h \in Handler : Holds(h)
NInv == \A g, h \in Handler : Nested(g, h)

\* The steps of a request that leave its transaction, or never had one.
Leaves(h) ==
    \/ RowMissing(h) \/ MarkUsed(h) \/ RevokeDone(h) \/ ExpireRow(h) \/ CreateToken(h) \/ DeleteToken(h)
    \/ Answer(h) \/ RotateFails(h) \/ CreateFails(h) \/ Abandon(h)
    \/ (\E b \in Browser, pc \in {"select", "logout"} : Start(h, b, pc))
    \/ (\E b \in Browser, u \in User : StartLogin(h, b, u))

LEMMA LeavesUnlocked ==
    ASSUME TInv, NEW h \in Handler, Leaves(h)
    PROVE  req'[h].pc \notin Locking
  <1>d. DOMAIN req = Handler /\ req[h] \in Req
    BY ReqFields
  <1> USE DEF Locking
  <1>1. CASE RowMissing(h) \/ RevokeDone(h) \/ ExpireRow(h) \/ DeleteToken(h) \/ RotateFails(h)
    <2>1. Refuse(h)
      BY <1>1 DEF RowMissing, RevokeDone, ExpireRow, DeleteToken, RotateFails
    <2> QED BY <1>d, <2>1 DEF Refuse, NoReq
  <1>2. CASE MarkUsed(h)
    BY <1>d, <1>2 DEF MarkUsed, Req
  <1>3. CASE CreateToken(h)
    BY <1>d, <1>3 DEF CreateToken, Req
  <1>4. CASE Answer(h) \/ CreateFails(h) \/ Abandon(h)
    BY <1>d, <1>4 DEF Answer, CreateFails, Abandon, NoReq
  <1>5. ASSUME NEW b \in Browser, NEW pc \in {"select", "logout"}, Start(h, b, pc) PROVE req'[h].pc \notin Locking
    BY <1>d, <1>5 DEF Start, NoReq
  <1>6. ASSUME NEW b \in Browser, NEW u \in User, StartLogin(h, b, u) PROVE req'[h].pc \notin Locking
    BY <1>d, <1>6 DEF StartLogin, NoReq
  <1> QED BY <1>1, <1>2, <1>3, <1>4, <1>5, <1>6 DEF Leaves

LEMMA HoldsFrame ==
    ASSUME TInv, Locals, NEW g \in Handler, Holds(g), req'[g] = req[g], Frame(g)
    PROVE  Holds(g)'
  <1>1. req[g].pc \in Locking =>
            req[g].presented \in Token /\ req[g].presented <= issued /\ lock[req[g].presented] = g
    BY ReqFields DEF Locking, Holding, Locals, Local, Fits
  <1> QED BY <1>1 DEF Holds, Frame

LEMMA HoldsNext == TInv /\ Locals /\ HInv /\ [Next]_vars => HInv'
  <1> SUFFICES ASSUME TInv, Locals, HInv, [Next]_vars, NEW g \in Handler PROVE Holds(g)'
    BY DEF HInv
  <1>g. Holds(g)
    BY DEF HInv
  <1>d. /\ DOMAIN req = Handler /\ DOMAIN row = Token /\ req[g] \in Req
        /\ req[g].pc \in Holding => req[g].presented \in Token
    BY ReqFields DEF TInv, Tables, Requests
  <1>s. ASSUME NEW h \in Handler, g # h,
               \/ HandlerStep(h) \/ RotateFails(h) \/ CreateFails(h) \/ Abandon(h)
               \/ \E b \in Browser, pc \in {"select", "logout"} : Start(h, b, pc)
               \/ \E b \in Browser, u \in User : StartLogin(h, b, u)
        PROVE  Holds(g)'
    BY <1>s, <1>g, StepFrame, HoldsFrame
  <1>f. ASSUME Expire \/ Cleanup \/ UNCHANGED vars PROVE Holds(g)'
    <2>1. req' = req /\ UNCHANGED <<owner, lock>>
      BY <1>f DEF Expire, Cleanup, vars, tableVars
    <2>2. req[g].pc \in Locking => req[g].presented \in Token /\ lock[req[g].presented] = g
      BY <1>d DEF Locals, Local, Locking, Holding
    <2>3. req[g].pc \in Locking => row'[req[g].presented] # "absent"
      BY <1>f, <1>g, <2>2, SessionsAssumption, TokenNumbers DEF Expire, Cleanup, vars, tableVars, Holds
    <2> QED BY <1>g, <2>1, <2>3 DEF Holds
  <1>1. ASSUME SelectForUpdate(g) PROVE Holds(g)'
    <2>1. /\ req'[g].user = owner[req[g].presented] /\ row[req[g].presented] # "absent"
          /\ req'[g].presented = req[g].presented /\ UNCHANGED <<row, owner>>
          /\ req'[g].pc # "delete"
      BY <1>1, <1>d DEF SelectForUpdate, Req
    <2> QED BY <2>1 DEF Holds
  <1>2. ASSUME RevokeStarts(g) PROVE Holds(g)'
    <2>1. /\ req'[g].user = req[g].user /\ req'[g].presented = req[g].presented /\ UNCHANGED <<row, owner>>
          /\ req'[g].targets = {t \in Token : row[t] # "absent" /\ owner[t] = req[g].user}
          /\ req[g].pc \in Locking /\ req[g].presented \in Token
      BY <1>2, <1>d DEF RevokeStarts, Req, tableVars, Locking, Holding
    <2> QED BY <1>g, <2>1 DEF Holds
  <1>3. ASSUME req'[g].pc \notin Locking PROVE Holds(g)'
    BY <1>3 DEF Holds, Locking
  <1>4. ASSUME Leaves(g) PROVE req'[g].pc \notin Locking
    BY <1>4, LeavesUnlocked
  <1> QED BY <1>s, <1>f, <1>1, <1>2, <1>3, <1>4 DEF Next, HandlerStep, StartRefresh, StartLogout, Leaves

LEMMA HeldNext == TInv /\ Held /\ [Next]_vars => Held'
  <1> SUFFICES ASSUME TInv, Held, [Next]_vars, NEW t \in Token, lock'[t] # NoHandler
               PROVE  req'[lock'[t]].pc \in Locking /\ req'[lock'[t]].presented = t
    BY DEF Held
  <1> DEFINE g == lock[t]
             Good == req'[lock'[t]].pc \in Locking /\ req'[lock'[t]].presented = t
  <1>d. /\ DOMAIN req = Handler /\ (\A h \in Handler : req[h] \in Req)
        /\ lock \in [Token -> Handler \cup {NoHandler}] /\ NoHandler \notin Handler
    BY SessionsAssumption DEF TInv, Tables, Requests
  <1>g. g # NoHandler => g \in Handler /\ req[g].pc \in Locking /\ req[g].presented = t
    BY <1>d DEF Held
  <1>1. ASSUME NEW h \in Handler, SelectForUpdate(h) PROVE Good
    <2>1. CASE t = req[h].presented
      <3>1. lock'[t] = h /\ req'[h].pc \in Locking /\ req'[h].presented = req[h].presented
        BY <1>1, <1>d, <2>1 DEF SelectForUpdate, Req, Locking
      <3> QED BY <2>1, <3>1
    <2>2. CASE t # req[h].presented
      <3>1. lock'[t] = g /\ g # h /\ g \in Handler
        BY <1>1, <1>d, <1>g, <2>2 DEF SelectForUpdate
      <3>2. req'[g] = req[g]
        BY <1>1, <1>d, <3>1 DEF SelectForUpdate
      <3> QED BY <1>g, <1>d, <3>1, <3>2
    <2> QED BY <2>1, <2>2
  <1>2. ASSUME NEW h \in Handler, RevokeStarts(h) PROVE Good
    <2>1. lock'[t] = g /\ g \in Handler
      BY <1>2, <1>d, <1>g DEF RevokeStarts, tableVars
    <2>2. req'[g].presented = req[g].presented /\ (req'[g].pc = req[g].pc \/ req'[g].pc = "delete")
      BY <1>2, <1>d, <2>1 DEF RevokeStarts, Req
    <2> QED BY <1>d, <1>g, <2>1, <2>2 DEF Locking
  <1>3. ASSUME NEW h \in Handler, \A k \in Handler : k # h => req'[k] = req[k],
               lock' = Unlocked(h) \/ (lock' = lock /\ req[h].pc \notin Locking)
        PROVE  Good
    <2>1. lock'[t] = g /\ g \in Handler /\ g # h
      BY <1>3, <1>d, <1>g DEF Unlocked
    <2> QED BY <1>3, <1>g, <2>1
  <1>4. ASSUME NEW h \in Handler, Leaves(h)
        PROVE  Good
    <2>1. \A k \in Handler : k # h => req'[k] = req[k]
      BY <1>4, <1>d DEF RowMissing, MarkUsed, RevokeDone, ExpireRow, CreateToken, DeleteToken, Answer, RotateFails,
            CreateFails, Abandon, Start, StartLogin, Refuse, Leaves
    <2>2. lock' = Unlocked(h) \/ (lock' = lock /\ req[h].pc \notin Locking)
      BY <1>4 DEF RowMissing, MarkUsed, RevokeDone, ExpireRow, CreateToken, DeleteToken, Answer, RotateFails,
            CreateFails, Abandon, Start, StartLogin, tableVars, Locking, Leaves
    <2> QED BY <1>3, <2>1, <2>2
  <1>5. ASSUME UNCHANGED <<lock, req>> PROVE Good
    BY <1>5, <1>g
  <1> QED BY <1>1, <1>2, <1>4, <1>5
          DEF Next, HandlerStep, StartRefresh, StartLogout, Expire, Cleanup, vars, tableVars, Leaves

\* A row that is gone stays away, and who is at its DELETE has just started it or waits.
LEMMA Waiting ==
    ASSUME TInv, Locals, [Next]_vars
    PROVE  /\ \A t \in Token : t <= issued /\ row[t] = "absent" => row'[t] = "absent"
           /\ \A g \in Handler : req'[g].pc = "delete" => RevokeStarts(g) \/ req'[g] = req[g]
  <1>d. /\ DOMAIN req = Handler /\ DOMAIN row = Token /\ issued \in Nat
        /\ \A h \in Handler : /\ req[h] \in Req
                              /\ req[h].pc \in Holding => req[h].presented \in Token
                              /\ req[h].pc = "mark" => row[req[h].presented] = "fresh"
    BY ReqFields DEF TInv, Tables, Requests, Locals, Local
  <1>1. ASSUME NEW t \in Token, t <= issued, row[t] = "absent" PROVE row'[t] = "absent"
    <2>1. ASSUME NEW h \in Handler, CreateToken(h) PROVE row'[t] = "absent"
      <3>1. t # issued + 1
        BY <1>d, <1>1, TokenNumbers
      <3> QED BY <1>1, <2>1, <3>1, <1>d DEF CreateToken
    <2>2. ASSUME NEW h \in Handler, MarkUsed(h) PROVE row'[t] = "absent"
      BY <1>d, <1>1, <2>2 DEF MarkUsed
    <2>3. ASSUME NEW h \in Handler, RevokeDone(h) \/ ExpireRow(h) \/ DeleteToken(h) PROVE row'[t] = "absent"
      BY <1>d, <1>1, <2>3 DEF RevokeDone, ExpireRow, DeleteToken
    <2>4. CASE Cleanup
      BY <1>1, <2>4 DEF Cleanup
    <2>5. CASE UNCHANGED row
      BY <1>1, <2>5
    <2> QED BY <2>1, <2>2, <2>3, <2>4, <2>5
            DEF Next, HandlerStep, SelectForUpdate, RowMissing, RevokeStarts, Answer, RotateFails, CreateFails,
                Abandon, StartRefresh, StartLogout, Start, StartLogin, Expire, vars, tableVars
  <1>2. ASSUME NEW g \in Handler, req'[g].pc = "delete" PROVE RevokeStarts(g) \/ req'[g] = req[g]
    <2>1. ASSUME NEW h \in Handler, g # h,
                 \/ HandlerStep(h) \/ RotateFails(h) \/ CreateFails(h) \/ Abandon(h)
                 \/ \E b \in Browser, pc \in {"select", "logout"} : Start(h, b, pc)
                 \/ \E b \in Browser, u \in User : StartLogin(h, b, u)
          PROVE  req'[g] = req[g]
      BY <2>1, StepFrame
    <2>2. CASE SelectForUpdate(g)
      BY <1>2, <1>d, <2>2 DEF SelectForUpdate, Req
    <2>4. CASE Leaves(g)
      BY <1>2, <2>4, LeavesUnlocked DEF Locking
    <2>3. CASE Expire \/ Cleanup \/ UNCHANGED vars
      BY <2>3 DEF Expire, Cleanup, vars
    <2> QED BY <2>1, <2>2, <2>3, <2>4 DEF Next, HandlerStep, StartRefresh, StartLogout, Leaves
  <1> QED BY <1>1, <1>2

LEMMA NestedNext == TInv /\ Locals /\ NInv /\ [Next]_vars => NInv'
  <1> SUFFICES ASSUME TInv, Locals, NInv, [Next]_vars, NEW g \in Handler, NEW h \in Handler,
                      req'[g].pc = "delete", req'[h].pc = "delete", req'[g].user = req'[h].user
               PROVE  Present(g)' \subseteq req'[h].targets \/ Present(h)' \subseteq req'[g].targets
    BY DEF NInv, Nested
  \* What a request that was at its DELETE still waits for.
  <1>k. ASSUME NEW k \in Handler, req'[k] = req[k], req'[k].pc = "delete"
        PROVE  /\ Present(k)' \subseteq Present(k)
               /\ \A t \in Present(k) : t \in Token /\ row[t] # "absent" /\ owner[t] = req[k].user
    <2>1. \A t \in req[k].targets : t \in Token /\ t <= issued /\ owner[t] = req[k].user
      BY <1>k, ReqFields DEF Locals, Local, Req
    <2> QED BY <1>k, <2>1, Waiting DEF Present
  \* A request that has just started its DELETE sees every row of the user.
  <1>n. ASSUME NEW k \in Handler, NEW j \in Handler, RevokeStarts(k), req'[k].user = req'[j].user,
               req'[j] = req[j] \/ j = k, req'[j].pc = "delete"
        PROVE  Present(j)' \subseteq req'[k].targets
    <2>1. CASE j = k
      BY <2>1 DEF Present
    <2>2. CASE j # k
      <3>1. req'[k].user = req[k].user /\ row' = row
            /\ req'[k].targets = {t \in Token : row[t] # "absent" /\ owner[t] = req[k].user}
        BY <1>n, ReqFields DEF RevokeStarts, tableVars, Req
      <3>2. Present(j)' \subseteq Present(j)
            /\ \A t \in Present(j) : t \in Token /\ row[t] # "absent" /\ owner[t] = req[j].user
        BY <1>n, <1>k, <2>2
      <3> QED BY <1>n, <2>2, <3>1, <3>2
    <2> QED BY <2>1, <2>2
  <1>o. ASSUME NEW k \in Handler, NEW j \in Handler, j # k, RevokeStarts(k) PROVE req'[j] = req[j]
    BY <1>o, ReqFields DEF RevokeStarts
  <1>1. CASE RevokeStarts(g)
    BY <1>1, <1>n, <1>o
  <1>2. CASE RevokeStarts(h)
    BY <1>2, <1>n, <1>o
  <1>3. CASE req'[g] = req[g] /\ req'[h] = req[h]
    <2>1. Present(g) \subseteq req[h].targets \/ Present(h) \subseteq req[g].targets
      BY <1>3 DEF NInv, Nested
    <2> QED BY <1>3, <1>k, <2>1
  <1> QED BY <1>1, <1>2, <1>3, Waiting

\* Of the DELETEs in a circle one has the fewest rows left: whoever it waits for waits
\* for it.
LEMMA CircleHasPair ==
    ASSUME TInv, Locals, HInv, Held, NInv, NEW C \in SUBSET Handler, C # {},
           \A h \in C : \E g \in C : WaitsFor(h, g)
    PROVE  \E h \in C : Deadlocked(h)
  <1> DEFINE D == {h \in C : At(h, "delete")}
             P == {Present(h) : h \in D}
  <1>d. /\ \A h \in Handler : req[h] \in Req /\ (req[h].pc \in Holding => req[h].presented \in Token)
        /\ NoHandler \notin Handler
    BY SessionsAssumption DEF TInv, Requests, Req, Fits
  \* Whoever is waited for holds a row, and whoever holds a row and waits is at its DELETE.
  <1>1. ASSUME NEW h \in C, NEW g \in C, WaitsFor(h, g) PROVE At(g, "delete")
    <2>1. \E t \in Token : lock[t] = g
      BY <1>1, <1>d DEF WaitsFor, Holding, Req
    <2>2. g # NoHandler /\ req[g].pc \in Locking
      BY <1>d, <2>1 DEF Held
    <2>3. \E k \in C : WaitsFor(g, k)
      OBVIOUS
    <2> QED BY <2>2, <2>3 DEF WaitsFor, Locking
  <1>2. D # {}
    BY <1>1
  <1>3. IsWellFoundedOn(StrictSubsetOrdering(Token), SUBSET Token)
    <2>1. IsFiniteSet(Token)
      BY SessionsAssumption, FS_Interval DEF Token
    <2> QED BY <2>1, FS_FiniteSubsetsOfFinite, FS_StrictSubsetOrderingWellFounded
  <1>4. P \subseteq SUBSET Token /\ P # {}
    <2>1. \A h \in D : Present(h) \in SUBSET Token
      BY <1>d DEF Present, Req
    <2> QED BY <1>2, <2>1
  <1> HIDE DEF P
  <1>5. PICK p \in P : \A q \in P : <<q, p>> \notin StrictSubsetOrdering(Token)
    BY <1>3, <1>4, WFMin
  <1>6. PICK h \in D : p = Present(h)
    BY <1>5 DEF P
  <1>7. PICK g \in C : WaitsFor(h, g)
    OBVIOUS
  <1>8. At(g, "delete") /\ g # h /\ \E t \in req[h].targets : row[t] # "absent" /\ lock[t] = g
    BY <1>1, <1>6, <1>7 DEF WaitsFor
  <1>9. PICK t \in req[h].targets : row[t] # "absent" /\ lock[t] = g
    BY <1>8
  <1>10. req[g].user = req[h].user
    <2>1. t \in Token /\ owner[t] = req[h].user
      BY <1>6, <1>9, <1>d DEF Locals, Local, Req
    <2>2. req[g].presented = t
      BY <1>9, <1>d, <2>1 DEF Held
    <2> QED BY <1>8, <2>1, <2>2 DEF HInv, Holds, Locking
  <1>11. Present(h) \subseteq req[g].targets
    <2>1. ASSUME Present(g) \subseteq req[h].targets PROVE Present(g) = Present(h)
      <3>1. Present(g) \subseteq Present(h)
        BY <2>1 DEF Present
      <3>2. Present(g) \in P
        BY <1>8 DEF P
      <3>3. <<Present(g), Present(h)>> \notin StrictSubsetOrdering(Token)
        BY <1>5, <1>6, <3>2
      <3>4. Present(g) \in SUBSET Token /\ Present(h) \in SUBSET Token
        BY <1>4, <1>5, <1>6, <3>2
      <3> QED BY <3>1, <3>3, <3>4 DEF StrictSubsetOrdering
    <2>2. Present(h) \subseteq req[g].targets \/ Present(g) \subseteq req[h].targets
      BY <1>6, <1>8, <1>10 DEF NInv, Nested
    <2> QED BY <2>1, <2>2 DEF Present
  <1>12. /\ req[h].presented \in req[g].targets /\ row[req[h].presented] # "absent"
         /\ lock[req[h].presented] = h
    BY <1>6, <1>11 DEF HInv, Holds, Locking, Present, Locals, Local
  <1> QED BY <1>6, <1>8, <1>12 DEF Deadlocked

\* A request that need not wait can go on; one that cannot waits for a request.
LEMMA WaitsForSomebody ==
    ASSUME TInv, Held, NEW h \in Handler, ~At(h, "idle"), ~Ready(h)
    PROVE  \E g \in Handler : WaitsFor(h, g)
  <1>1. /\ req[h].pc \in PC /\ req[h].targets \subseteq Token
        /\ req[h].pc \in Holding => req[h].presented \in Token
    BY ReqFields DEF Req
  <1>2. \A t \in Token : lock[t] \in Handler \cup {NoHandler}
    BY DEF TInv, Tables
  <1>3. CASE At(h, "select")
    BY <1>1, <1>2, <1>3 DEF Ready, RowLocked, WaitsFor, Holding
  <1>4. CASE At(h, "logout")
    BY <1>1, <1>2, <1>4 DEF Ready, Free, WaitsFor, Holding
  <1>5. CASE At(h, "delete")
    BY <1>1, <1>2, <1>5 DEF Ready, Free, WaitsFor
  <1> QED BY <1>1, <1>3, <1>4, <1>5 DEF Ready, PC

\* Requests wait for each other in a circle only where two DELETEs do, which PostgreSQL
\* detects and resolves: nothing else makes a request wait for ever.
THEOREM DeadlocksOfTwo == Spec => []CirclesAreOfTwo
  <1>1. Init => HInv /\ Held /\ NInv
    <2>1. ASSUME Init PROVE HInv /\ Held /\ NInv
      <3>1. (\A h \in Handler : req[h].pc = "idle") /\ (\A t \in Token : lock[t] = NoHandler)
        BY <2>1 DEF Init, NoReq
      <3> QED BY <3>1 DEF HInv, Holds, Held, NInv, Nested, Locking
    <2> QED BY <2>1
  <1>2. TInv /\ Locals /\ HInv /\ Held /\ NInv /\ [Next]_vars => HInv' /\ Held' /\ NInv'
    BY HoldsNext, HeldNext, NestedNext
  <1>3. TInv /\ Locals /\ HInv /\ Held /\ NInv => CirclesAreOfTwo
    BY CircleHasPair, WaitsForSomebody DEF CirclesAreOfTwo
  <1> QED BY <1>1, <1>2, <1>3, LocalsAlways, PTL DEF Spec

-----------------------------------------------------------------------------
(* Sessions implements Lineage.  Every token was issued to the user of its  *)
(* session, and so will be the one a refresh is about to insert.            *)

Families ==
    /\ \A t \in Token : t <= issued =>
           owner[t] \in User /\ login[login[t]] = login[t] /\ owner[login[t]] = owner[t]
    /\ \A h \in Handler : At(h, "create") =>
           /\ req[h].user \in User
           /\ req[h].session # NoToken =>
                  login[req[h].session] = req[h].session /\ owner[req[h].session] = req[h].user

\* No token is issued, and whoever is about to insert one was so before, or serves a login.
LEMMA FamiliesKeep ==
    ASSUME Families, UNCHANGED <<owner, login, issued>>,
           \A h \in Handler : req'[h].pc = "create" =>
               \/ req'[h].session = NoToken /\ req'[h].user \in User
               \/ req[h].pc = "create" /\ req'[h].session = req[h].session /\ req'[h].user = req[h].user
    PROVE  Families'
  BY DEF Families

LEMMA FamiliesMark ==
    ASSUME TInv, Locals, HInv, Families, NEW h \in Handler, MarkUsed(h)
    PROVE  Families'
  <1> DEFINE t == req[h].presented
  <1>1. /\ t \in Token /\ t # NoToken /\ t <= issued /\ req[h].session = login[t] /\ owner[t] = req[h].user
    BY ReqFields, TokenNumbers DEF MarkUsed, Locals, Local, HInv, Holds, Locking, Holding, NoToken, Fits
  <1>2. /\ UNCHANGED <<owner, login, issued>>
        /\ \A g \in Handler : g # h => req'[g] = req[g]
        /\ req'[h].session = req[h].session /\ req'[h].user = req[h].user
    BY ReqFields DEF MarkUsed, Req
  <1>3. /\ req[h].user \in User
        /\ login[req[h].session] = req[h].session /\ owner[req[h].session] = req[h].user
    BY <1>1 DEF Families
  <1> QED BY <1>2, <1>3 DEF Families

LEMMA FamiliesCreate ==
    ASSUME TInv, Families, NEW h \in Handler, CreateToken(h)
    PROVE  Families'
  <1> DEFINE n == issued + 1
             s == req[h].session
  <1>1. /\ n \in Token /\ issued \in Nat /\ issued' = n
        /\ \A t \in Token : t # n => login'[t] = login[t] /\ owner'[t] = owner[t]
        /\ login'[n] = IF s = NoToken THEN n ELSE s
        /\ owner'[n] = req[h].user
    BY SessionsAssumption, TokenNumbers DEF CreateToken, TInv, Tables
  <1>2. /\ \A g \in Handler : g # h => req'[g] = req[g]
        /\ req'[h].pc = "answer" /\ req[h].pc = "create"
    BY ReqFields DEF CreateToken
  <1>3. s \in Token \cup {NoToken} /\ s # n /\ \A g \in Handler : req[g].session # n
    BY <1>1, ReqFields, TokenNumbers DEF Req, Fits, NoToken
  <1>4. ASSUME NEW t \in Token, t <= issued'
        PROVE  owner'[t] \in User /\ login'[login'[t]] = login'[t] /\ owner'[login'[t]] = owner'[t]
    <2>1. CASE t = n
      <3>1. owner'[t] = req[h].user /\ req[h].user \in User
        BY <1>1, <1>2, <2>1 DEF Families
      <3>2. CASE s = NoToken
        BY <1>1, <2>1, <3>1, <3>2
      <3>3. CASE s # NoToken
        <4>1. login[s] = s /\ owner[s] = req[h].user
          BY <1>2, <3>3 DEF Families
        <4>2. s \in Token /\ s # n /\ login'[t] = s
          BY <1>1, <1>3, <2>1, <3>3
        <4>3. login'[s] = s /\ owner'[s] = req[h].user
          BY <1>1, <4>1, <4>2
        <4> QED BY <3>1, <4>2, <4>3
      <3> QED BY <3>2, <3>3
    <2>2. CASE t # n
      <3>1. t <= issued /\ login[t] \in Token /\ login[t] # n
        BY <1>1, <1>4, <2>2, TokenNumbers DEF TInv, Tables
      <3> QED BY <1>1, <2>2, <3>1 DEF Families
    <2> QED BY <2>1, <2>2
  <1>5. ASSUME NEW g \in Handler, req'[g].pc = "create"
        PROVE  /\ req'[g].user \in User
               /\ req'[g].session # NoToken =>
                      login'[req'[g].session] = req'[g].session /\ owner'[req'[g].session] = req'[g].user
    <2>1. g # h /\ req'[g] = req[g] /\ req[g].session \in Token \cup {NoToken} /\ req[g].session # n
      BY <1>2, <1>3, <1>5, ReqFields DEF Req
    <2> QED BY <1>1, <1>5, <2>1 DEF Families
  <1> QED BY <1>4, <1>5 DEF Families

LEMMA FamiliesNext == TInv /\ Locals /\ HInv /\ Families /\ [Next]_vars => Families'
  <1> SUFFICES ASSUME TInv, Locals, HInv, Families, [Next]_vars PROVE Families'
    OBVIOUS
  <1>d. DOMAIN req = Handler /\ \A g \in Handler : req[g] \in Req
    BY DEF TInv, Requests
  <1>1. ASSUME NEW h \in Handler, UNCHANGED <<owner, login, issued>>, req'[h].pc # "create",
               \A g \in Handler : g # h => req'[g] = req[g]
        PROVE  Families'
    BY <1>1, FamiliesKeep
  <1>2. ASSUME NEW h \in Handler, SelectForUpdate(h) \/ RevokeStarts(h) PROVE Families'
    <2>2. CASE SelectForUpdate(h)
      <3>1. UNCHANGED <<owner, login, issued>> /\ \A g \in Handler : g # h => req'[g] = req[g]
        BY <1>d, <2>2 DEF SelectForUpdate
      <3> QED BY <1>1, <1>d, <2>2, <3>1 DEF SelectForUpdate, Req
    <2>3. CASE RevokeStarts(h)
      <3>1. UNCHANGED <<owner, login, issued>> /\ \A g \in Handler : g # h => req'[g] = req[g]
        BY <1>d, <2>3 DEF RevokeStarts, tableVars
      <3> QED BY <1>1, <1>d, <2>3, <3>1 DEF RevokeStarts, Req
    <2> QED BY <1>2, <2>2, <2>3
  <1>3. ASSUME NEW h \in Handler,
               RowMissing(h) \/ RevokeDone(h) \/ ExpireRow(h) \/ DeleteToken(h) \/ RotateFails(h)
        PROVE  Families'
    <2>1. Refuse(h) /\ UNCHANGED <<owner, login, issued>>
      BY <1>3 DEF RowMissing, RevokeDone, ExpireRow, DeleteToken, RotateFails, tableVars
    <2>2. req'[h].pc = "answer" /\ \A g \in Handler : g # h => req'[g] = req[g]
      BY <1>d, <2>1 DEF Refuse, NoReq
    <2> QED BY <1>1, <2>1, <2>2
  <1>4. ASSUME NEW h \in Handler, Answer(h) \/ CreateFails(h) \/ Abandon(h) PROVE Families'
    <2>1. /\ UNCHANGED <<owner, login, issued>> /\ req'[h].pc = "idle"
          /\ \A g \in Handler : g # h => req'[g] = req[g]
      BY <1>4, <1>d DEF Answer, CreateFails, Abandon, NoReq, tableVars
    <2> QED BY <1>1, <2>1
  <1>5. ASSUME NEW h \in Handler, NEW b \in Browser, NEW pc \in {"select", "logout"}, Start(h, b, pc)
        PROVE  Families'
    <2>1. /\ UNCHANGED <<owner, login, issued>> /\ req'[h].pc = pc
          /\ \A g \in Handler : g # h => req'[g] = req[g]
      BY <1>5, <1>d DEF Start, NoReq, tableVars
    <2> QED BY <1>1, <2>1
  <1>6. ASSUME NEW h \in Handler, NEW b \in Browser, NEW u \in User, StartLogin(h, b, u) PROVE Families'
    <2>1. /\ UNCHANGED <<owner, login, issued>> /\ req'[h].session = NoToken /\ req'[h].user = u
          /\ \A g \in Handler : g # h => req'[g] = req[g]
      BY <1>6, <1>d DEF StartLogin, NoReq, tableVars
    <2> QED BY <2>1, FamiliesKeep
  <1>7. CASE Expire \/ Cleanup \/ UNCHANGED vars
    <2>1. UNCHANGED <<owner, login, issued, req>>
      BY <1>7 DEF Expire, Cleanup, vars, tableVars
    <2> QED BY <2>1, FamiliesKeep
  <1> QED BY <1>2, <1>3, <1>4, <1>5, <1>6, <1>7, FamiliesMark, FamiliesCreate
          DEF Next, HandlerStep, StartRefresh, StartLogout

LInv == TInv /\ Locals /\ HInv /\ Heirs /\ Families

LEMMA LInvAlways == Spec => []LInv
  <1>1. Init => HInv /\ Families
    <2>1. ASSUME Init PROVE HInv /\ Families
      <3>1. (\A h \in Handler : req[h].pc = "idle") /\ issued = 0
        BY <2>1 DEF Init, NoReq
      <3> QED BY <3>1, TokenNumbers DEF HInv, Holds, Families, Locking
    <2> QED BY <2>1
  <1>2. TInv /\ Locals /\ HInv /\ Heirs /\ Families /\ [Next]_vars => HInv' /\ Heirs' /\ Families'
    BY HoldsNext, HeirsNext, FamiliesNext
  <1> QED BY <1>1, <1>2, LocalsAlways, HeirsInit, PTL DEF Spec, LInv

\* Sessions whose next token is not there yet.
Renewed == {s \in Token : Minting(s) # {}}

LEMMA AbstractToken == Abstract!Token = Token
  BY DEF Token, Abstract!Token

LEMMA AbstractInit == Init => Abstract!Init
  <1> SUFFICES ASSUME Init PROVE Abstract!Init
    OBVIOUS
  <1>1. (\A t \in Token : row[t] = "absent" /\ owner[t] = NoUser /\ login[t] = t) /\ \A h \in Handler : req[h].pc = "idle"
    BY DEF Init, NoReq
  <1>2. \A s \in Token : UserOf(s) = NoUser /\ Fresh(s) = {} /\ Minting(s) = {}
    BY <1>1 DEF UserOf, Fresh, Minting
  <1>3. issued = 0 /\ expired = 0
    BY DEF Init
  <1> QED BY <1>2, <1>3, AbstractToken DEF Abstract!Init

\* A request that neither was nor is about to renew a session changes no renewal.
LEMMA RenewedStays ==
    ASSUME NEW h \in Handler, \A g \in Handler : g # h => req'[g] = req[g],
           req[h].pc = "create" => req[h].session = NoToken,
           req'[h].pc = "create" => req'[h].session = NoToken
    PROVE  Renewed' = Renewed
  <1>1. \A s \in Token : s # NoToken
    BY TokenNumbers DEF NoToken
  <1>2. \A s \in Token : Minting(s)' = Minting(s)
    BY <1>1 DEF Minting
  <1> QED BY <1>2 DEF Renewed

LEMMA AbstractStutter ==
    ASSUME UNCHANGED <<owner, login, issued, expired, row>>, Renewed' = Renewed
    PROVE  UNCHANGED Abstract!vars
  <1>1. \A s \in Token : UserOf(s)' = UserOf(s) /\ Fresh(s)' = Fresh(s)
    BY DEF UserOf, Fresh
  <1> QED BY <1>1 DEF Abstract!vars, Renewed

LEMMA AbstractClose ==
    ASSUME LInv, UNCHANGED <<owner, login, issued, expired>>, Renewed' = Renewed, NEW u,
           \A t \in Token : row'[t] = "fresh" => row[t] = "fresh",
           \A t \in Token : row[t] = "fresh" /\ row'[t] # "fresh" => owner[t] = u
    PROVE  \E S \in SUBSET Token : Abstract!Close(u, S)
  <1> DEFINE S == {s \in Token : \E t \in Fresh(s) : row'[t] # "fresh"}
  <1>1. ASSUME NEW s \in S PROVE UserOf(s) = u
    <2>1. PICK t \in Token : row[t] = "fresh" /\ login[t] = s /\ row'[t] # "fresh"
      BY DEF Fresh
    <2>2. t <= issued /\ owner[t] = u
      BY <2>1, TokenNumbers, SessionsAssumption DEF LInv, TInv, Tables
    <2> QED BY <2>1, <2>2 DEF LInv, Families, UserOf
  <1>2. ASSUME NEW s \in Token PROVE Fresh(s)' = IF s \in S THEN {} ELSE Fresh(s)
    <2>1. Fresh(s)' = {t \in Fresh(s) : row'[t] = "fresh"}
      BY DEF Fresh
    <2>2. CASE s \in S
      <3>1. PICK t \in Fresh(s) : row'[t] # "fresh"
        BY <2>2
      <3>2. \A v \in Fresh(s) : v = t
        BY DEF Fresh, LInv, Heirs
      <3> QED BY <2>1, <2>2, <3>1, <3>2
    <2>3. CASE s \notin S
      BY <2>1, <2>3
    <2> QED BY <2>2, <2>3
  <1>3. \A s \in Token : UserOf(s)' = UserOf(s)
    BY DEF UserOf
  <1>4. S \in SUBSET Token
    OBVIOUS
  <1> HIDE DEF S
  <1>5. Abstract!Close(u, S)
    BY <1>1, <1>2, <1>3, <1>4, AbstractToken DEF Abstract!Close, Renewed
  <1> QED BY <1>4, <1>5

\* Logout, the refusal of an old token, the punishment of a reuse.
LEMMA AbstractEnd ==
    ASSUME LInv, NEW h \in Handler, RevokeDone(h) \/ ExpireRow(h) \/ DeleteToken(h)
    PROVE  Abstract!Next
  <1> DEFINE t == req[h].presented
  <1>d. DOMAIN req = Handler /\ DOMAIN row = Token
    BY DEF LInv, TInv, Tables, Requests
  <1>1. t \in Token /\ t <= issued /\ req[h].pc \in {"delete", "expire", "logout"}
    BY ReqFields DEF RevokeDone, ExpireRow, DeleteToken, LInv, Holding, Fits
  <1>2. owner[t] \in User
    BY <1>1 DEF LInv, Families
  <1>3. UNCHANGED <<owner, login, issued, expired>> /\ Refuse(h)
    BY DEF RevokeDone, ExpireRow, DeleteToken
  <1>4. Renewed' = Renewed
    <2>1. req'[h].pc = "answer" /\ \A g \in Handler : g # h => req'[g] = req[g]
      BY <1>3, <1>d DEF Refuse, NoReq
    <2> QED BY <1>1, <2>1, RenewedStays
  <1>5. /\ \A v \in Token : row'[v] = "fresh" => row[v] = "fresh"
        /\ \A v \in Token : row[v] = "fresh" /\ row'[v] # "fresh" => owner[v] = owner[t]
    <2>1. CASE RevokeDone(h)
      <3>1. \A v \in req[h].targets : owner[v] = req[h].user
        BY <2>1 DEF RevokeDone, LInv, Locals, Local
      <3>2. owner[t] = req[h].user
        BY <2>1 DEF RevokeDone, LInv, HInv, Holds, Locking
      <3> QED BY <2>1, <3>1, <3>2 DEF RevokeDone
    <2>2. CASE ExpireRow(h)
      BY <1>d, <2>2 DEF ExpireRow
    <2>3. CASE DeleteToken(h)
      BY <1>d, <2>3 DEF DeleteToken
    <2> QED BY <2>1, <2>2, <2>3
  <1>6. \E S \in SUBSET Token : Abstract!Close(owner[t], S)
    BY <1>3, <1>4, <1>5, AbstractClose
  <1> QED BY <1>2, <1>6, AbstractToken DEF Abstract!Next

LEMMA AbstractExchange ==
    ASSUME LInv, NEW h \in Handler, MarkUsed(h)
    PROVE  Abstract!Next
  <1>0. PICK t, s : t = req[h].presented /\ s = req[h].session
    OBVIOUS
  <1>1. t \in Token /\ row[t] = "fresh" /\ s = login[t] /\ s \in Token
    BY <1>0, ReqFields, TokenNumbers DEF MarkUsed, LInv, TInv, Tables, Locals, Local, Holding, NoToken
  <1>2. /\ UNCHANGED <<owner, login, issued, expired>>
        /\ \A v \in Token : row'[v] = IF v = t THEN "used" ELSE row[v]
    <2>1. row' = [row EXCEPT ![t] = "used"] /\ DOMAIN row = Token
      BY <1>0 DEF MarkUsed, LInv, TInv, Tables
    <2>2. UNCHANGED <<owner, login, issued, expired>>
      BY DEF MarkUsed
    <2> QED BY <2>1, <2>2
  <1>3. /\ \A g \in Handler : g # h => req'[g] = req[g]
        /\ req'[h].session = s /\ req'[h].pc = "create" /\ req[h].pc = "mark"
    BY <1>0, ReqFields DEF MarkUsed, Req, LInv
  <1>4. \A v \in Token : row[v] = "fresh" /\ login[v] = s => v = t
    BY <1>1 DEF LInv, Heirs
  <1>5. t \in Fresh(s) /\ Fresh(s)' = {} /\ \A v \in Token : v # s => Fresh(v)' = Fresh(v)
    BY <1>1, <1>2, <1>4 DEF Fresh
  <1>6. Minting(s) = {} /\ Minting(s)' # {} /\ \A v \in Token : v # s => Minting(v)' = Minting(v)
    BY <1>1, <1>3 DEF Minting, LInv, Heirs
  <1>7. \A v \in Token : UserOf(v)' = UserOf(v)
    BY <1>2 DEF UserOf
  <1>8. Abstract!Exchange(s)
    <2>1. s \notin Renewed /\ Renewed' = Renewed \cup {s}
      BY <1>1, <1>6 DEF Renewed
    <2>2. [v \in Token |-> Fresh(v)]' = [[v \in Token |-> Fresh(v)] EXCEPT ![s] = {}]
      BY <1>5
    <2> QED BY <1>1, <1>2, <1>5, <1>7, <2>1, <2>2 DEF Abstract!Exchange, Renewed
  <1> QED BY <1>1, <1>8, AbstractToken DEF Abstract!Next

LEMMA AbstractIssue ==
    ASSUME LInv, NEW h \in Handler, CreateToken(h)
    PROVE  Abstract!Next
  <1>0. PICK n, s, u : n = issued + 1 /\ s = req[h].session /\ u = req[h].user
    OBVIOUS
  <1> DEFINE U == [v \in Token |-> UserOf(v)]
             F == [v \in Token |-> Fresh(v)]
  <1>1. /\ n \in Token /\ issued \in Nat /\ issued < MaxToken /\ issued' = n /\ expired' = expired
        /\ \A t \in Token : t # n => login'[t] = login[t] /\ owner'[t] = owner[t] /\ row'[t] = row[t]
        /\ login'[n] = IF s = NoToken THEN n ELSE s
        /\ owner'[n] = u /\ row'[n] = "fresh"
    BY <1>0, SessionsAssumption, TokenNumbers DEF CreateToken, LInv, TInv, Tables
  <1>2. /\ \A g \in Handler : g # h => req'[g] = req[g]
        /\ req'[h].pc = "answer" /\ req[h].pc = "create"
    BY ReqFields DEF CreateToken, LInv
  <1>3. /\ row[n] = "absent" /\ owner[n] = NoUser
        /\ \A t \in Token : row[t] = "fresh" => t # n /\ login[t] # n
    <2>1. n > issued /\ \A t \in Token : t > issued => row[t] = "absent" /\ owner[t] = NoUser
      BY <1>0, <1>1 DEF LInv, TInv, Tables
    <2>2. \A t \in Token : login[t] \in Token /\ login[t] <= t
      BY DEF LInv, TInv, Tables
    <2> QED BY <1>1, <2>1, <2>2, TokenNumbers
  <1>4. s \in Token \cup {NoToken} /\ s # n
    BY <1>0, <1>1, ReqFields, TokenNumbers DEF Req, Fits, NoToken, LInv
  <1>5. u \in User
    BY <1>0, <1>2 DEF LInv, Families
  <1>6. \A v \in Token : v # NoToken
    BY TokenNumbers DEF NoToken
  <1>7. CASE s = NoToken
    <2>1. Renewed' = Renewed
      BY <1>0, <1>2, <1>7, RenewedStays
    <2>2. UserOf(n)' = u /\ \A v \in Token : v # n => UserOf(v)' = UserOf(v)
      BY <1>1, <1>7 DEF UserOf
    <2>3. Fresh(n)' = {n} /\ \A v \in Token : v # n => Fresh(v)' = Fresh(v)
      BY <1>1, <1>3, <1>7 DEF Fresh
    <2>4. U' = [U EXCEPT ![n] = u] /\ F' = [F EXCEPT ![n] = {n}]
      BY <1>1, <2>2, <2>3
    <2>5. Abstract!Begin(u)
      BY <1>0, <1>1, <2>1, <2>4 DEF Abstract!Begin, Renewed
    <2> QED BY <1>5, <2>5 DEF Abstract!Next
  <1>8. CASE s # NoToken
    <2>0. s \in Token
      BY <1>4, <1>8
    <2>1. \A v \in Token : UserOf(v)' = UserOf(v)
      BY <1>1, <1>3, <1>4, <1>8 DEF UserOf
    <2>2. Fresh(s) = {} /\ Fresh(s)' = {n} /\ \A v \in Token : v # s => Fresh(v)' = Fresh(v)
      <3>1. \A t \in Token : row[t] = "fresh" => login[t] # s
        BY <1>0, <1>2 DEF LInv, Heirs
      <3> QED BY <1>1, <1>3, <1>8, <2>0, <3>1 DEF Fresh
    <2>3. Minting(s) # {} /\ Minting(s)' = {} /\ \A v \in Token : v # s => Minting(v)' = Minting(v)
      <3>1. \A g \in Handler : req[g].pc = "create" /\ req[g].session = s => g = h
        BY <1>0, <1>2, <1>8 DEF LInv, Heirs
      <3> QED BY <1>0, <1>2, <3>1 DEF Minting
    <2>4. U' = U /\ F' = [F EXCEPT ![s] = {n}]
      BY <2>0, <2>1, <2>2
    <2>5. s \in Renewed /\ Renewed' = Renewed \ {s}
      BY <2>0, <2>3 DEF Renewed
    <2>6. Abstract!Renew(s)
      BY <1>0, <1>1, <2>0, <2>2, <2>4, <2>5 DEF Abstract!Renew, Renewed
    <2> QED BY <2>0, <2>6, AbstractToken DEF Abstract!Next
  <1> QED BY <1>7, <1>8

LEMMA AbstractLose ==
    ASSUME LInv, NEW h \in Handler, CreateFails(h) \/ Abandon(h)
    PROVE  Abstract!Next \/ UNCHANGED Abstract!vars
  <1>0. PICK s : s = req[h].session
    OBVIOUS
  <1>1. /\ UNCHANGED <<owner, login, issued, expired, row>> /\ req'[h].pc = "idle"
        /\ \A g \in Handler : g # h => req'[g] = req[g]
    BY DEF CreateFails, Abandon, NoReq, tableVars, LInv, TInv, Requests
  <1>2. CASE req[h].pc = "create" /\ s # NoToken
    <2>0. s \in Token
      BY <1>0, <1>2, ReqFields DEF Req, LInv
    <2>1. Minting(s) # {} /\ Minting(s)' = {} /\ \A v \in Token : v # s => Minting(v)' = Minting(v)
      <3>1. \A g \in Handler : req[g].pc = "create" /\ req[g].session = s => g = h
        BY <1>0, <1>2 DEF LInv, Heirs
      <3> QED BY <1>0, <1>1, <1>2, <3>1 DEF Minting
    <2>2. s \in Renewed /\ Renewed' = Renewed \ {s}
      BY <2>0, <2>1 DEF Renewed
    <2>3. \A v \in Token : UserOf(v)' = UserOf(v) /\ Fresh(v)' = Fresh(v)
      BY <1>1 DEF UserOf, Fresh
    <2>4. Abstract!Lose(s)
      BY <1>1, <2>2, <2>3 DEF Abstract!Lose, Renewed
    <2> QED BY <2>0, <2>4, AbstractToken DEF Abstract!Next
  <1>3. CASE ~(req[h].pc = "create" /\ s # NoToken)
    <2>1. Renewed' = Renewed
      BY <1>0, <1>1, <1>3, RenewedStays
    <2> QED BY <1>1, <2>1, AbstractStutter
  <1> QED BY <1>2, <1>3

LEMMA AbstractAges ==
    ASSUME LInv, Expire \/ Cleanup
    PROVE  Abstract!Next
  <1>1. Renewed' = Renewed /\ \A s \in Token : UserOf(s)' = UserOf(s)
    BY DEF Expire, Cleanup, Renewed, Minting, UserOf
  <1>2. CASE Expire
    <2>1. \A s \in Token : Fresh(s)' = Fresh(s)
      BY <1>2 DEF Expire, Fresh
    <2>2. Abstract!Age
      BY <1>1, <1>2, <2>1 DEF Expire, Abstract!Age, Renewed
    <2> QED BY <2>2 DEF Abstract!Next
  <1>3. CASE Cleanup
    <2>1. expired \in Nat
      BY SessionsAssumption DEF LInv, TInv, Tables
    <2>2. \A s \in Token : Fresh(s)' = {t \in Fresh(s) : t > expired}
      BY <1>3, <2>1, TokenNumbers DEF Cleanup, Fresh
    <2>3. UNCHANGED <<issued, expired>>
      BY <1>3 DEF Cleanup
    <2>4. Abstract!Sweep
      BY <1>1, <2>2, <2>3, AbstractToken DEF Abstract!Sweep, Renewed
    <2> QED BY <2>4 DEF Abstract!Next
  <1> QED BY <1>2, <1>3

\* The other steps are not seen in Lineage.
LEMMA AbstractUnseen ==
    ASSUME LInv, NEW h \in Handler,
           \/ SelectForUpdate(h) \/ RowMissing(h) \/ RevokeStarts(h) \/ RotateFails(h) \/ Answer(h)
           \/ \E b \in Browser, pc \in {"select", "logout"} : Start(h, b, pc)
           \/ \E b \in Browser, u \in User : StartLogin(h, b, u)
    PROVE  UNCHANGED Abstract!vars
  <1>d. DOMAIN req = Handler /\ req[h] \in Req
    BY DEF LInv, TInv, Requests
  <1>1. UNCHANGED <<owner, login, issued, expired, row>> /\ \A g \in Handler : g # h => req'[g] = req[g]
    <2>1. CASE SelectForUpdate(h) \/ RevokeStarts(h)
      BY <1>d, <2>1 DEF SelectForUpdate, RevokeStarts, tableVars
    <2>2. CASE RowMissing(h) \/ RotateFails(h) \/ Answer(h)
      BY <1>d, <2>2 DEF RowMissing, RotateFails, Answer, Refuse, tableVars
    <2>3. ASSUME NEW b \in Browser, NEW pc, Start(h, b, pc)
          PROVE  UNCHANGED <<owner, login, issued, expired, row>> /\ \A g \in Handler : g # h => req'[g] = req[g]
      BY <1>d, <2>3 DEF Start, tableVars
    <2>4. ASSUME NEW b \in Browser, NEW u \in User, StartLogin(h, b, u)
          PROVE  UNCHANGED <<owner, login, issued, expired, row>> /\ \A g \in Handler : g # h => req'[g] = req[g]
      BY <1>d, <2>4 DEF StartLogin, tableVars
    <2> QED BY <2>1, <2>2, <2>3, <2>4
  <1>2. req[h].pc # "create" /\ (req'[h].pc = "create" => req'[h].session = NoToken)
    <2>1. CASE SelectForUpdate(h)
      BY <1>d, <2>1 DEF SelectForUpdate, Req
    <2>2. CASE RevokeStarts(h)
      BY <1>d, <2>2 DEF RevokeStarts, Req
    <2>3. CASE RowMissing(h) \/ RotateFails(h)
      BY <1>d, <2>3 DEF RowMissing, RotateFails, Refuse, NoReq
    <2>4. CASE Answer(h)
      BY <1>d, <2>4 DEF Answer, NoReq
    <2>5. ASSUME NEW b \in Browser, NEW pc \in {"select", "logout"}, Start(h, b, pc)
          PROVE  req[h].pc # "create" /\ req'[h].pc # "create"
      BY <1>d, <2>5 DEF Start, NoReq
    <2>6. ASSUME NEW b \in Browser, NEW u \in User, StartLogin(h, b, u)
          PROVE  req[h].pc # "create" /\ req'[h].session = NoToken
      BY <1>d, <2>6 DEF StartLogin, NoReq
    <2> QED BY <2>1, <2>2, <2>3, <2>4, <2>5, <2>6
  <1>3. Renewed' = Renewed
    BY <1>1, <1>2, RenewedStays
  <1> QED BY <1>1, <1>3, AbstractStutter

LEMMA AbstractNext == LInv /\ [Next]_vars => [Abstract!Next]_(Abstract!vars)
  <1> SUFFICES ASSUME LInv, [Next]_vars PROVE Abstract!Next \/ UNCHANGED Abstract!vars
    OBVIOUS
  <1>1. CASE UNCHANGED vars
    <2>1. UNCHANGED <<owner, login, issued, expired, row, req>>
      BY <1>1 DEF vars, tableVars
    <2>2. Renewed' = Renewed
      BY <2>1 DEF Renewed, Minting
    <2> QED BY <2>1, <2>2, AbstractStutter
  <1> QED BY <1>1, AbstractEnd, AbstractExchange, AbstractIssue, AbstractLose, AbstractAges, AbstractUnseen
          DEF Next, HandlerStep, StartRefresh, StartLogout

\* However requests overlap and wherever they are dropped, sessions do as Lineage says:
\* a token is exchanged once for one next token, a session that is over stays over, and
\* nobody ends another user's.
THEOREM LineageImplemented == Spec => ImplementsLineage
  BY LInvAlways, AbstractInit, AbstractNext, PTL DEF Spec, ImplementsLineage, Abstract!Spec

\* Lineage revives nothing, so Sessions does not either.
THEOREM OverIsOver == Spec => OverForEver
  <1>1. LInv /\ [Next]_vars =>
            \A s \in Token : UserOf(s) # NoUser /\ Fresh(s) = {} /\ Minting(s) = {} =>
                                 Fresh(s)' = {} /\ Minting(s)' = {}
    <2> SUFFICES ASSUME LInv, [Next]_vars, NEW s \in Token, UserOf(s) # NoUser, Fresh(s) = {}, Minting(s) = {}
                 PROVE  Fresh(s)' = {} /\ Minting(s)' = {}
      OBVIOUS
    <2> DEFINE F == [v \in Token |-> Fresh(v)]
    <2>1. F[s] = {} /\ s \notin Renewed /\ F \in [Token -> SUBSET Token] /\ s <= issued
      <3>1. F[s] = {} /\ s \notin Renewed /\ F \in [Token -> SUBSET Token]
        BY DEF Fresh, Renewed
      <3>2. s > issued => owner[s] = NoUser
        BY DEF LInv, TInv, Tables
      <3> QED BY <3>1, <3>2, TokenNumbers, SessionsAssumption DEF UserOf, LInv, TInv, Tables
    <2>2. F'[s] = {} /\ s \notin Renewed'
      <3>i. issued \in Nat /\ s \in Nat
        BY TokenNumbers, SessionsAssumption DEF LInv, TInv, Tables
      <3>1. ASSUME NEW u \in User, Abstract!Begin(u) PROVE F'[s] = {} /\ s \notin Renewed'
        <4>1. F' = [F EXCEPT ![issued + 1] = {issued + 1}] /\ Renewed' = Renewed
          BY <3>1 DEF Abstract!Begin, Renewed
        <4>2. s # issued + 1
          BY <2>1, <3>i
        <4> HIDE DEF F
        <4> QED BY <2>1, <4>1, <4>2
      <3>2. ASSUME NEW v \in Token, Abstract!Exchange(v) PROVE F'[s] = {} /\ s \notin Renewed'
        <4>1. /\ F[v] # {}
              /\ F' = [F EXCEPT ![v] = {}] /\ Renewed' = Renewed \cup {v}
          BY <3>2 DEF Abstract!Exchange, Renewed
        <4> QED BY <2>1, <4>1
      <3>3. ASSUME NEW v \in Token, Abstract!Renew(v) PROVE F'[s] = {} /\ s \notin Renewed'
        <4>1. /\ v \in Renewed
              /\ F' = [F EXCEPT ![v] = {issued + 1}] /\ Renewed' = Renewed \ {v}
          BY <3>3 DEF Abstract!Renew, Renewed
        <4> QED BY <2>1, <4>1
      <3>4. ASSUME NEW v \in Token, Abstract!Lose(v) PROVE F'[s] = {} /\ s \notin Renewed'
        <4>1. F' = F /\ Renewed' = Renewed \ {v}
          BY <3>4 DEF Abstract!Lose, Renewed
        <4> QED BY <2>1, <4>1
      <3>5. ASSUME NEW u \in User, NEW S \in SUBSET Token, Abstract!Close(u, S)
            PROVE  F'[s] = {} /\ s \notin Renewed'
        <4>1. F' = [v \in Token |-> IF v \in S THEN {} ELSE F[v]] /\ Renewed' = Renewed
          BY <3>5, AbstractToken DEF Abstract!Close, Renewed
        <4> QED BY <2>1, <4>1
      <3>6. CASE Abstract!Age \/ UNCHANGED Abstract!vars
        <4>1. F' = F /\ Renewed' = Renewed
          BY <3>6 DEF Abstract!Age, Abstract!vars, Renewed
        <4> QED BY <2>1, <4>1
      <3>7. CASE Abstract!Sweep
        <4>1. F' = [v \in Token |-> {t \in F[v] : t > expired}] /\ Renewed' = Renewed
          BY <3>7, AbstractToken DEF Abstract!Sweep, Renewed
        <4> QED BY <2>1, <4>1
      <3>8. Abstract!Next \/ UNCHANGED Abstract!vars
        BY AbstractNext
      <3> QED BY <3>1, <3>2, <3>3, <3>4, <3>5, <3>6, <3>7, <3>8, AbstractToken DEF Abstract!Next
    <2> QED BY <2>2 DEF Renewed
  <1> QED BY <1>1, LInvAlways, PTL DEF Spec, OverForEver
=============================================================================
