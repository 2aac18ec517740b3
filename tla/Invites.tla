------------------------------- MODULE Invites -------------------------------
(***************************************************************************)
(* Accounts: POST /api/auth/register (backend/crates/api/src/auth/routes.rs *)
(* over core/src/users.rs::register_with_invite), invite creation and      *)
(* revocation (routes_admin.rs and the ght-admin CLI) and the CLI's        *)
(* create-user.  A registration is one transaction: it locks the invite,   *)
(* validates it, inserts the user and counts the use; the first session    *)
(* token is created after COMMIT.  Transactions of different requests wait *)
(* for each other on two kinds of thing: the invite's row and the UNIQUE   *)
(* username another transaction has inserted and not committed.            *)
(***************************************************************************)
EXTENDS Integers, FiniteSets

CONSTANTS
    Name,     \* usernames
    Invite,   \* invite codes
    MaxUses,  \* bound on max_uses
    Handler,  \* registrations in flight
    NoHandler, NoName, NoInvite,
    Bootstrap \* created_by_invite IS NULL: made by the CLI, an admin

ASSUME InvitesAssumption ==
    /\ MaxUses \in Nat \ {0}
    /\ IsFiniteSet(Name)
    /\ NoHandler \notin Handler /\ NoName \notin Name /\ NoInvite \notin Invite
    /\ Bootstrap \notin Invite \cup {NoInvite}

VARIABLES
    users,     \* committed users: created_by_invite of each name, NoInvite if no row
    maxUses,   \* max_uses of each code, 0 while the code does not exist
    usedCount,
    revoked,   \* codes with revoked = true
    lock,      \* the transaction that holds the invite's row lock
    req,       \* the registrations in flight
    welcomed   \* history: how many registrations of each name were answered 200

vars == <<users, maxUses, usedCount, revoked, lock, req, welcomed>>

PC == {"idle", "lock", "insert", "commit", "session"}
Req == [pc : PC, name : Name \cup {NoName}, code : Invite \cup {NoInvite}]
NoReq == [pc |-> "idle", name |-> NoName, code |-> NoInvite]

TypeOK ==
    /\ users \in [Name -> Invite \cup {Bootstrap, NoInvite}]
    /\ maxUses \in [Invite -> 0 .. MaxUses]
    /\ usedCount \in [Invite -> Nat]
    /\ revoked \in SUBSET Invite
    /\ lock \in [Invite -> Handler \cup {NoHandler}]
    /\ req \in [Handler -> Req]
    /\ welcomed \in [Name -> Nat]

Init ==
    /\ users = [n \in Name |-> NoInvite]
    /\ maxUses = [c \in Invite |-> 0]
    /\ usedCount = [c \in Invite |-> 0]
    /\ revoked = {}
    /\ lock = [c \in Invite |-> NoHandler]
    /\ req = [h \in Handler |-> NoReq]
    /\ welcomed = [n \in Name |-> 0]

At(h, pc) == req[h].pc = pc
Goto(h, pc) == req' = [req EXCEPT ![h].pc = pc]
Finish(h) == req' = [req EXCEPT ![h] = NoReq]
Unlocked(h) == [c \in Invite |-> IF lock[c] = h THEN NoHandler ELSE lock[c]]

\* A row with this username inserted by a transaction that is still open.
Pending(n) == \E h \in Handler : At(h, "commit") /\ req[h].name = n
Taken(n) == users[n] # NoInvite

(***************************************************************************)
(* register.                                                               *)
(***************************************************************************)

\* After validate_credentials; a retry may send what was sent before.
StartRegister(h, n, c) ==
    /\ At(h, "idle")
    /\ req' = [req EXCEPT ![h] = [pc |-> "lock", name |-> n, code |-> c]]
    /\ UNCHANGED <<users, maxUses, usedCount, revoked, lock, welcomed>>

Usable(c) == c \notin revoked /\ usedCount[c] < maxUses[c]

\* Mutation of the next: SELECT without FOR UPDATE.
LockInviteNoWait(h) ==
    /\ At(h, "lock")
    /\ Usable(req[h].code)
    /\ Goto(h, "insert")
    /\ UNCHANGED <<users, maxUses, usedCount, revoked, lock, welcomed>>

\* SELECT .. FOR UPDATE and the two checks on the row it returns.
LockInvite(h) ==
    LET c == req[h].code
    IN  /\ At(h, "lock")
        /\ lock[c] = NoHandler
        /\ Usable(c)
        /\ lock' = [lock EXCEPT ![c] = h]
        /\ Goto(h, "insert")
        /\ UNCHANGED <<users, maxUses, usedCount, revoked, welcomed>>

\* NotFound, Revoked or Exhausted: rolled back, 401.
InviteRefused(h) ==
    LET c == req[h].code
    IN  /\ At(h, "lock")
        /\ lock[c] = NoHandler
        /\ ~Usable(c)
        /\ Finish(h)
        /\ UNCHANGED <<users, maxUses, usedCount, revoked, lock, welcomed>>

\* Mutation of the next: the name is looked up among the committed rows only.
InsertUserNoWait(h) ==
    /\ At(h, "insert")
    /\ ~Taken(req[h].name)
    /\ Goto(h, "commit")
    /\ UNCHANGED <<users, maxUses, usedCount, revoked, lock, welcomed>>

\* INSERT .. ON CONFLICT DO NOTHING waits for an open insertion of the same name.
InsertUser(h) ==
    /\ At(h, "insert")
    /\ ~Pending(req[h].name)
    /\ ~Taken(req[h].name)
    /\ Goto(h, "commit")
    /\ UNCHANGED <<users, maxUses, usedCount, revoked, lock, welcomed>>

\* Mutation of the next: the transaction is left open.
NameTakenKeepsLock(h) ==
    /\ At(h, "insert")
    /\ ~Pending(req[h].name)
    /\ Taken(req[h].name)
    /\ Finish(h)
    /\ UNCHANGED <<users, maxUses, usedCount, revoked, lock, welcomed>>

\* DuplicateUsername: rolled back, 401.
NameTaken(h) ==
    /\ At(h, "insert")
    /\ ~Pending(req[h].name)
    /\ Taken(req[h].name)
    /\ lock' = Unlocked(h)
    /\ Finish(h)
    /\ UNCHANGED <<users, maxUses, usedCount, revoked, welcomed>>

\* UPDATE .. SET used_count = used_count + 1; COMMIT.
CommitRegister(h) ==
    LET c == req[h].code
    IN  /\ At(h, "commit")
        /\ users' = [users EXCEPT ![req[h].name] = c]
        /\ usedCount' = [usedCount EXCEPT ![c] = @ + 1]
        /\ lock' = Unlocked(h)
        /\ Goto(h, "session")
        /\ UNCHANGED <<maxUses, revoked, welcomed>>

\* create_refresh_token and the 200 answer.
Welcome(h) ==
    /\ At(h, "session")
    /\ welcomed' = [welcomed EXCEPT ![req[h].name] = @ + 1]
    /\ Finish(h)
    /\ UNCHANGED <<users, maxUses, usedCount, revoked, lock>>

\* Any statement fails, the client is gone, the server stops: an open transaction
\* rolls back; once committed, user and use stay although no 200 was sent.
RegisterDropped(h) ==
    /\ ~At(h, "idle")
    /\ lock' = Unlocked(h)
    /\ Finish(h)
    /\ UNCHANGED <<users, maxUses, usedCount, revoked, welcomed>>

(***************************************************************************)
(* Invites, and users made by the CLI.                                     *)
(***************************************************************************)

\* Mutation of the next: one use more than asked for.
CreateInviteOneMore(c, m) ==
    /\ maxUses[c] = 0
    /\ maxUses' = [maxUses EXCEPT ![c] = m + 1]
    /\ UNCHANGED <<users, usedCount, revoked, lock, req, welcomed>>

\* Both callers refuse max_uses < 1.  Codes are random: never issued twice.
CreateInvite(c, m) ==
    /\ maxUses[c] = 0
    /\ maxUses' = [maxUses EXCEPT ![c] = m]
    /\ UNCHANGED <<users, usedCount, revoked, lock, req, welcomed>>

\* Mutation of the next: registrations that hold the row are not waited for.
RevokeInviteNoWait(c) ==
    /\ maxUses[c] > 0
    /\ revoked' = revoked \cup {c}
    /\ UNCHANGED <<users, maxUses, usedCount, lock, req, welcomed>>

\* UPDATE .. SET revoked = true waits for the row's lock.
RevokeInvite(c) ==
    /\ maxUses[c] > 0
    /\ lock[c] = NoHandler
    /\ revoked' = revoked \cup {c}
    /\ UNCHANGED <<users, maxUses, usedCount, lock, req, welcomed>>

\* create_user: the same INSERT, in a statement of its own.
CreateUser(n) ==
    /\ ~Pending(n)
    /\ ~Taken(n)
    /\ users' = [users EXCEPT ![n] = Bootstrap]
    /\ UNCHANGED <<maxUses, usedCount, revoked, lock, req, welcomed>>

RegisterStep(h) ==
    \/ LockInvite(h) \/ InviteRefused(h) \/ InsertUser(h) \/ NameTaken(h)
    \/ CommitRegister(h) \/ Welcome(h)

Next ==
    \/ \E h \in Handler, n \in Name, c \in Invite : StartRegister(h, n, c)
    \/ \E h \in Handler : RegisterStep(h) \/ RegisterDropped(h)
    \/ \E c \in Invite, m \in 1 .. MaxUses : CreateInvite(c, m)
    \/ \E c \in Invite : RevokeInvite(c)
    \/ \E n \in Name : CreateUser(n)

Spec == Init /\ [][Next]_vars

\* Every task is scheduled; locks are handed to waiters in order (SF).  No fairness
\* is asked of failures: nothing may depend on them to make progress.
Fairness == \A h \in Handler : SF_vars(RegisterStep(h))
FairSpec == Spec /\ Fairness

(***************************************************************************)
(* Properties.                                                             *)
(***************************************************************************)

CreatedBy(c) == {n \in Name : users[n] = c}

\* "Atomically: lock invite code, validate, increment used_count, create user;
\* rolls back on any failure": at every moment the count is the number of users the
\* code let in, whatever failed on the way, and never more than the code was made for,
\* however many registrations use it at once.
InviteHonest ==
    \A c \in Invite : usedCount[c] = Cardinality(CreatedBy(c)) /\ usedCount[c] <= maxUses[c]

\* What makes InviteHonest inductive: a transaction past the check holds the lock
\* of a code that is still usable.
LockHeld ==
    /\ \A h \in Handler : At(h, "insert") \/ At(h, "commit") =>
           lock[req[h].code] = h /\ Usable(req[h].code)
    /\ \A h \in Handler : ~At(h, "idle") => req[h].name \in Name /\ req[h].code \in Invite

\* Once revoked - the revocation has answered - a code lets nobody in, not even a
\* registration that had validated it before.
RevokedIsClosed ==
    [][\A c \in Invite : c \in revoked => CreatedBy(c)' = CreatedBy(c)]_vars

\* An account never changes hands: nothing a later registration, retry or the CLI
\* does touches a user that exists, so its admin status cannot change either.
AccountsKept == [][\A n \in Name : Taken(n) => users'[n] = users[n]]_vars

\* No two registrations are both told that a name is theirs, and whoever is told so
\* has the account, made with a code.
OneWinner ==
    \A n \in Name : /\ welcomed[n] <= 1
                    /\ welcomed[n] = 1 => users[n] \in Invite

\* "Atomically: lock invite code, validate, increment used_count, create user"
\* (users.rs:141): over several statements, beside other registrations, revocations and
\* the CLI, with failures anywhere, accounts and places change as in Admission.
Left(c) == IF c \in revoked THEN 0 ELSE maxUses[c] - usedCount[c]
Abstract == INSTANCE Admission WITH
    account <- users,
    places <- [c \in Invite |-> Left(c)],
    issued <- {c \in Invite : maxUses[c] > 0},
    promised <- {n \in Name : welcomed[n] > 0}
ImplementsAdmission == Abstract!Spec

\* Whom a statement waits for: who holds the invite's row, who has inserted the name.
WaitsFor(h, g) ==
    \/ At(h, "lock") /\ lock[req[h].code] = g
    \/ At(h, "insert") /\ At(g, "commit") /\ req[g].name = req[h].name

\* The next statement need not wait.
Ready(h) ==
    \/ At(h, "lock") /\ lock[req[h].code] = NoHandler
    \/ At(h, "insert") /\ ~Pending(req[h].name)
    \/ At(h, "commit") \/ At(h, "session")

\* A registration that cannot go on waits for another, which can go on, or waits itself
\* for one that can: the lock on the invite is always taken before the name, and
\* nothing is waited for after it, so there is no circle and no third link.
NoCircle ==
    /\ \A h \in Handler : At(h, "idle") \/ Ready(h) \/ \E g \in Handler : WaitsFor(h, g)
    /\ \A g, h, k \in Handler : WaitsFor(g, h) /\ WaitsFor(h, k) => Ready(k)

\* Registrations wait for invites and for names, and never in a circle.
EveryRegistrationEnds == \A h \in Handler : ~At(h, "idle") ~> At(h, "idle")
=============================================================================
