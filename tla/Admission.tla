------------------------------ MODULE Admission ------------------------------
(***************************************************************************)
(* What accounts and invites promise their users, with no request, lock or *)
(* transaction in sight: a code is a number of places, somebody joins in   *)
(* one step or not at all, closing a code ends it, and a name is promised  *)
(* once.  Invites implements this.                                         *)
(***************************************************************************)
EXTENDS Integers

CONSTANTS
    Name, Invite, MaxUses,
    NoInvite,  \* how nobody was admitted: the name is free
    Bootstrap  \* how the CLI's users were

VARIABLES
    account,  \* how each name was admitted: a code, Bootstrap, or NoInvite
    places,   \* the places each code has left
    issued,   \* codes that have been issued
    promised  \* names whose owner has been told

vars == <<account, places, issued, promised>>

Init ==
    /\ account = [n \in Name |-> NoInvite]
    /\ places = [c \in Invite |-> 0]
    /\ issued = {}
    /\ promised = {}

Issue(c, m) ==
    /\ c \notin issued
    /\ issued' = issued \cup {c}
    /\ places' = [places EXCEPT ![c] = m]
    /\ UNCHANGED <<account, promised>>

Close(c) ==
    /\ places' = [places EXCEPT ![c] = 0]
    /\ UNCHANGED <<account, issued, promised>>

\* One place for one account.
Join(n, c) ==
    /\ account[n] = NoInvite
    /\ places[c] > 0
    /\ account' = [account EXCEPT ![n] = c]
    /\ places' = [places EXCEPT ![c] = @ - 1]
    /\ UNCHANGED <<issued, promised>>

\* Told once, and only of an account a code let in.
Promise(n) ==
    /\ account[n] \in Invite
    /\ n \notin promised
    /\ promised' = promised \cup {n}
    /\ UNCHANGED <<account, places, issued>>

Appoint(n) ==
    /\ account[n] = NoInvite
    /\ account' = [account EXCEPT ![n] = Bootstrap]
    /\ UNCHANGED <<places, issued, promised>>

Next ==
    \/ \E c \in Invite, m \in 1 .. MaxUses : Issue(c, m)
    \/ \E c \in Invite : Close(c)
    \/ \E n \in Name : Promise(n) \/ Appoint(n) \/ \E c \in Invite : Join(n, c)

Spec == Init /\ [][Next]_vars
=============================================================================
