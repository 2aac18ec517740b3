------------------------------- MODULE Lineage -------------------------------
(***************************************************************************)
(* What refresh tokens promise, with no request, lock or cookie in sight.  *)
(* A session has at most one usable token.  Exchanging it leaves none      *)
(* until the next is issued, or the session is over; once it is over       *)
(* nothing brings it back, and it never changes users.  Sessions           *)
(* implements this.                                                        *)
(***************************************************************************)
EXTENDS Integers

CONSTANTS User, NoUser, MaxToken

\* Tokens are numbered in the order they are issued; a session is its first token.
Token == 1 .. MaxToken

VARIABLES
    user,      \* whose each session is; NoUser before it begins
    usable,    \* the tokens each session can be continued with
    renewing,  \* sessions whose token was exchanged and whose next is not issued yet
    issued,    \* tokens issued so far
    expired    \* tokens 1 .. expired are too old

vars == <<user, usable, renewing, issued, expired>>

Init ==
    /\ user = [s \in Token |-> NoUser]
    /\ usable = [s \in Token |-> {}]
    /\ renewing = {}
    /\ issued = 0
    /\ expired = 0

Begin(u) ==
    /\ issued < MaxToken
    /\ issued' = issued + 1
    /\ user' = [user EXCEPT ![issued + 1] = u]
    /\ usable' = [usable EXCEPT ![issued + 1] = {issued + 1}]
    /\ UNCHANGED <<renewing, expired>>

\* A token is exchanged once: with it goes every other way to continue the session.
Exchange(s) ==
    /\ usable[s] # {}
    /\ s \notin renewing
    /\ usable' = [usable EXCEPT ![s] = {}]
    /\ renewing' = renewing \cup {s}
    /\ UNCHANGED <<user, issued, expired>>

\* The next token is the newest of all.
Renew(s) ==
    /\ s \in renewing
    /\ usable[s] = {}
    /\ issued < MaxToken
    /\ issued' = issued + 1
    /\ usable' = [usable EXCEPT ![s] = {issued + 1}]
    /\ renewing' = renewing \ {s}
    /\ UNCHANGED <<user, expired>>

\* The next token never comes.
Lose(s) ==
    /\ s \in renewing
    /\ renewing' = renewing \ {s}
    /\ UNCHANGED <<user, usable, issued, expired>>

\* Logout, a punished reuse, the refusal of an old token: sessions of one user end.
Close(u, S) ==
    /\ \A s \in S : user[s] = u
    /\ usable' = [s \in Token |-> IF s \in S THEN {} ELSE usable[s]]
    /\ UNCHANGED <<user, renewing, issued, expired>>

Age ==
    /\ expired < issued
    /\ expired' = expired + 1
    /\ UNCHANGED <<user, usable, renewing, issued>>

Sweep ==
    /\ usable' = [s \in Token |-> {t \in usable[s] : t > expired}]
    /\ UNCHANGED <<user, renewing, issued, expired>>

Next ==
    \/ \E u \in User : Begin(u)
    \/ \E s \in Token : Exchange(s) \/ Renew(s) \/ Lose(s)
    \/ \E u \in User, S \in SUBSET Token : Close(u, S)
    \/ Age \/ Sweep

Spec == Init /\ [][Next]_vars
=============================================================================
