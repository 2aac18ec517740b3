---------------------------- MODULE InvitesProofs ----------------------------
(***************************************************************************)
(* Theorems about Invites, for any usernames, codes and number of          *)
(* registrations.  The inductive invariant adds to the types what an open  *)
(* transaction owns: the lock of a code that is still usable (LockHeld), a *)
(* username nobody has (NameClaims), and the count of the code.            *)
(* Its last section proves that Invites implements Admission.              *)
(***************************************************************************)
EXTENDS Invites, FiniteSetTheorems, TLAPS

USE DEF At, Goto, Finish

LEMMA CountingTyped ==
    ASSUME NEW S, NEW f \in [S -> Nat], NEW x
    PROVE  [f EXCEPT ![x] = @ + 1] \in [S -> Nat]
  <1> DEFINE g == [f EXCEPT ![x] = @ + 1]
  <1>1. ASSUME NEW y \in S PROVE g[y] \in Nat
    <2>1. f[y] \in Nat /\ f[y] + 1 \in Nat
      OBVIOUS
    <2> QED BY <2>1
  <1>2. g = [y \in S |-> g[y]]
    OBVIOUS
  <1> HIDE DEF g
  <1>3. g \in [S -> Nat]
    BY <1>1, <1>2
  <1> QED BY <1>3 DEF g

LEMMA TypeInit == Init => TypeOK
  BY InvitesAssumption DEF Init, TypeOK, NoReq, Req, PC

LEMMA TypeNext == TypeOK /\ [Next]_vars => TypeOK'
  <1> SUFFICES ASSUME TypeOK, [Next]_vars PROVE TypeOK'
    OBVIOUS
  <1> USE DEF TypeOK, Req, PC
  <1>n. NoReq \in Req
    BY DEF NoReq
  <1>1. ASSUME NEW h \in Handler, NEW n \in Name, NEW c \in Invite, StartRegister(h, n, c) PROVE TypeOK'
    BY <1>1 DEF StartRegister
  <1>2. ASSUME NEW h \in Handler, LockInvite(h) PROVE TypeOK'
    BY <1>2 DEF LockInvite
  <1>3. ASSUME NEW h \in Handler, InviteRefused(h) PROVE TypeOK'
    BY <1>3, <1>n DEF InviteRefused
  <1>4. ASSUME NEW h \in Handler, InsertUser(h) PROVE TypeOK'
    BY <1>4 DEF InsertUser
  <1>5. ASSUME NEW h \in Handler, NameTaken(h) PROVE TypeOK'
    BY <1>5, <1>n DEF NameTaken, Unlocked
  <1>6. ASSUME NEW h \in Handler, CommitRegister(h) PROVE TypeOK'
    <2>r. req[h].code \in Invite \cup {Bootstrap, NoInvite} /\ req[h] \in Req
      OBVIOUS
    <2>1. users' \in [Name -> Invite \cup {Bootstrap, NoInvite}]
      BY <1>6, <2>r DEF CommitRegister
    <2>2. usedCount' \in [Invite -> Nat]
      BY <1>6, CountingTyped DEF CommitRegister
    <2>3. lock' \in [Invite -> Handler \cup {NoHandler}]
      BY <1>6 DEF CommitRegister, Unlocked
    <2>4. req' \in [Handler -> Req]
      BY <1>6, <2>r DEF CommitRegister
    <2>5. UNCHANGED <<maxUses, revoked, welcomed>>
      BY <1>6 DEF CommitRegister
    <2> QED BY <2>1, <2>2, <2>3, <2>4, <2>5
  <1>7. ASSUME NEW h \in Handler, Welcome(h) PROVE TypeOK'
    <2>1. welcomed' \in [Name -> Nat]
      BY <1>7, CountingTyped DEF Welcome
    <2> QED BY <1>7, <1>n, <2>1 DEF Welcome
  <1>8. ASSUME NEW h \in Handler, RegisterDropped(h) PROVE TypeOK'
    BY <1>8, <1>n DEF RegisterDropped, Unlocked
  <1>9. ASSUME NEW c \in Invite, NEW m \in 1 .. MaxUses, CreateInvite(c, m) PROVE TypeOK'
    BY <1>9, InvitesAssumption DEF CreateInvite
  <1>10. ASSUME NEW c \in Invite, RevokeInvite(c) PROVE TypeOK'
    BY <1>10 DEF RevokeInvite
  <1>11. ASSUME NEW n \in Name, CreateUser(n) PROVE TypeOK'
    BY <1>11 DEF CreateUser
  <1>12. CASE UNCHANGED vars
    BY <1>12 DEF vars
  <1> QED BY <1>1, <1>2, <1>3, <1>4, <1>5, <1>6, <1>7, <1>8, <1>9, <1>10, <1>11, <1>12
          DEF Next, RegisterStep

\* Accounts, codes and locks keep their types.
THEOREM TypeCorrect == Spec => []TypeOK
  BY TypeInit, TypeNext, PTL DEF Spec

-----------------------------------------------------------------------------
(* The lock an open transaction holds. *)

LEMMA LockNext == TypeOK /\ LockHeld /\ [Next]_vars => LockHeld'
  <1> SUFFICES ASSUME TypeOK, LockHeld, [Next]_vars PROVE LockHeld'
    OBVIOUS
  <1> USE DEF TypeOK, Req, PC, LockHeld, Usable
  <1>n. NoReq.pc = "idle"
    BY DEF NoReq
  <1>1. ASSUME NEW h \in Handler, NEW n \in Name, NEW c \in Invite, StartRegister(h, n, c) PROVE LockHeld'
    BY <1>1 DEF StartRegister
  <1>2. ASSUME NEW h \in Handler, LockInvite(h) PROVE LockHeld'
    BY <1>2, InvitesAssumption DEF LockInvite
  <1>3. ASSUME NEW h \in Handler, InviteRefused(h) PROVE LockHeld'
    BY <1>3, <1>n DEF InviteRefused
  <1>4. ASSUME NEW h \in Handler, InsertUser(h) PROVE LockHeld'
    BY <1>4 DEF InsertUser
  <1>5. ASSUME NEW h \in Handler, NameTaken(h) PROVE LockHeld'
    BY <1>5, <1>n DEF NameTaken, Unlocked
  <1>6. ASSUME NEW h \in Handler, CommitRegister(h) PROVE LockHeld'
    BY <1>6 DEF CommitRegister, Unlocked
  <1>7. ASSUME NEW h \in Handler, Welcome(h) PROVE LockHeld'
    BY <1>7, <1>n DEF Welcome
  <1>8. ASSUME NEW h \in Handler, RegisterDropped(h) PROVE LockHeld'
    BY <1>8, <1>n DEF RegisterDropped, Unlocked
  <1>9. ASSUME NEW c \in Invite, NEW m \in 1 .. MaxUses, CreateInvite(c, m) PROVE LockHeld'
    BY <1>9, InvitesAssumption DEF CreateInvite
  <1>10. ASSUME NEW c \in Invite, RevokeInvite(c) PROVE LockHeld'
    BY <1>10, InvitesAssumption DEF RevokeInvite
  <1>11. ASSUME NEW n \in Name, CreateUser(n) PROVE LockHeld'
    BY <1>11 DEF CreateUser
  <1>12. CASE UNCHANGED vars
    BY <1>12 DEF vars
  <1> QED BY <1>1, <1>2, <1>3, <1>4, <1>5, <1>6, <1>7, <1>8, <1>9, <1>10, <1>11, <1>12
          DEF Next, RegisterStep

LEMMA LockInit == Init => LockHeld
  BY DEF Init, NoReq, LockHeld

\* A transaction past the invite's check holds the lock of a code that is usable still.
THEOREM LocksHeld == Spec => []LockHeld
  BY TypeCorrect, LockInit, LockNext, PTL DEF Spec

-----------------------------------------------------------------------------
(* Who owns a username. *)

\* An open transaction's row is for a name nobody has; a registration that committed
\* has its account and has told nobody yet; and no two claim one name.
NameClaims ==
    /\ \A h \in Handler : At(h, "commit") => ~Taken(req[h].name)
    /\ \A h \in Handler : At(h, "session") =>
           users[req[h].name] \in Invite /\ welcomed[req[h].name] = 0
    /\ \A g, h \in Handler :
           g # h /\ req[g].pc \in {"commit", "session"} /\ req[h].pc \in {"commit", "session"}
               => req[g].name # req[h].name
    /\ OneWinner

LEMMA NamesNext == TypeOK /\ LockHeld /\ NameClaims /\ [Next]_vars => NameClaims'
  <1> SUFFICES ASSUME TypeOK, LockHeld, NameClaims, [Next]_vars PROVE NameClaims'
    OBVIOUS
  <1> USE DEF NameClaims, OneWinner, Taken
  <1>n. NoReq.pc = "idle"
    BY DEF NoReq
  <1>r. /\ DOMAIN req = Handler /\ DOMAIN users = Name /\ DOMAIN welcomed = Name
        /\ \A n \in Name : welcomed[n] \in Nat
        /\ \A h \in Handler : req[h] \in Req
        /\ \A h \in Handler : req[h].pc # "idle" => req[h].name \in Name /\ req[h].code \in Invite
    BY DEF TypeOK, LockHeld
  <1>1. ASSUME NEW h \in Handler, NEW n \in Name, NEW c \in Invite, StartRegister(h, n, c) PROVE NameClaims'
    BY <1>1, <1>r DEF StartRegister
  <1>2. ASSUME NEW h \in Handler, LockInvite(h) PROVE NameClaims'
    BY <1>2, <1>r DEF LockInvite, Req
  <1>3. ASSUME NEW h \in Handler, InviteRefused(h) \/ NameTaken(h) \/ RegisterDropped(h)
        PROVE  NameClaims'
    BY <1>3, <1>n, <1>r DEF InviteRefused, NameTaken, RegisterDropped
  <1>4. ASSUME NEW h \in Handler, InsertUser(h) PROVE NameClaims'
    <2>1. /\ ~Taken(req[h].name) /\ UNCHANGED <<users, welcomed>>
          /\ \A g \in Handler : req[g].pc = "commit" => req[g].name # req[h].name
          /\ req' = [req EXCEPT ![h].pc = "commit"]
      BY <1>4 DEF InsertUser, Pending
    <2>2. \A g \in Handler : req[g].pc = "session" => req[g].name # req[h].name
      BY <2>1, InvitesAssumption
    <2>3. \A g \in Handler : /\ req'[g].name = req[g].name
                              /\ req'[g].pc = IF g = h THEN "commit" ELSE req[g].pc
      BY <1>r, <2>1 DEF Req
    <2> QED BY <2>1, <2>2, <2>3
  <1>5. ASSUME NEW h \in Handler, CommitRegister(h) PROVE NameClaims'
    <2>1. /\ req[h].pc = "commit" /\ req[h].name \in Name /\ req[h].code \in Invite
          /\ users' = [users EXCEPT ![req[h].name] = req[h].code] /\ welcomed' = welcomed
          /\ req' = [req EXCEPT ![h].pc = "session"]
      BY <1>5, <1>r DEF CommitRegister
    <2>2. \A g \in Handler : /\ req'[g].name = req[g].name
                              /\ req'[g].pc = IF g = h THEN "session" ELSE req[g].pc
      BY <1>r, <2>1 DEF Req
    <2>3. /\ users'[req[h].name] \in Invite
          /\ \A n \in Name : n # req[h].name => users'[n] = users[n]
      BY <1>r, <2>1
    <2>4. welcomed[req[h].name] = 0
      BY <1>r, <2>1, InvitesAssumption
    <2>5. \A g \in Handler : g # h /\ req[g].pc \in {"commit", "session"} => req[g].name # req[h].name
      BY <2>1
    <2>6. \A g \in Handler : req[g].pc \in {"commit", "session"} => req[g].name \in Name
      BY <1>r
    <2>7. OneWinner'
      BY <2>1, <2>3
    <2>8. \A g \in Handler : req'[g].pc = "commit" => users'[req'[g].name] = NoInvite
      BY <2>1, <2>2, <2>3, <2>5, <2>6
    <2>9. \A g \in Handler : req'[g].pc = "session" =>
              users'[req'[g].name] \in Invite /\ welcomed'[req'[g].name] = 0
      BY <2>1, <2>2, <2>3, <2>4, <2>5, <2>6
    <2>10. \A f, g \in Handler :
               f # g /\ req'[f].pc \in {"commit", "session"} /\ req'[g].pc \in {"commit", "session"}
                   => req'[f].name # req'[g].name
      BY <2>1, <2>2, <2>5
    <2> QED BY <2>7, <2>8, <2>9, <2>10
  <1>6. ASSUME NEW h \in Handler, Welcome(h) PROVE NameClaims'
    <2>1. /\ req[h].pc = "session" /\ req[h].name \in Name /\ users' = users
          /\ welcomed' = [welcomed EXCEPT ![req[h].name] = @ + 1]
          /\ req' = [req EXCEPT ![h] = NoReq]
      BY <1>6, <1>r DEF Welcome
    <2>2. /\ welcomed'[req[h].name] = 1 /\ users[req[h].name] \in Invite
          /\ \A n \in Name : n # req[h].name => welcomed'[n] = welcomed[n]
      BY <1>r, <2>1
    <2>3. /\ req'[h].pc = "idle"
          /\ \A g \in Handler : g # h => req'[g] = req[g]
      BY <1>n, <1>r, <2>1
    <2>4. \A g \in Handler : g # h /\ req[g].pc = "session" =>
              req[g].name \in Name /\ req[g].name # req[h].name
      BY <1>r, <2>1
    <2> QED BY <2>1, <2>2, <2>3, <2>4
  <1>7. ASSUME NEW n \in Name, CreateUser(n) PROVE NameClaims'
    <2>1. /\ users[n] = NoInvite /\ users' = [users EXCEPT ![n] = Bootstrap]
          /\ UNCHANGED <<req, welcomed>>
          /\ \A g \in Handler : req[g].pc = "commit" => req[g].name # n
      BY <1>7 DEF CreateUser, Pending
    <2>2. \A g \in Handler : req[g].pc = "session" => req[g].name # n
      BY <2>1, InvitesAssumption
    <2>3. \A m \in Name : m # n => users'[m] = users[m]
      BY <1>r, <2>1
    <2>4. welcomed[n] = 0
      BY <1>r, <2>1, InvitesAssumption
    <2> QED BY <1>r, <2>1, <2>2, <2>3, <2>4
  <1>8. CASE UNCHANGED <<users, req, welcomed>>
    BY <1>8
  <1> QED BY <1>1, <1>2, <1>3, <1>4, <1>5, <1>6, <1>7, <1>8
          DEF Next, RegisterStep, CreateInvite, RevokeInvite, vars

LEMMA NamesInit == Init => NameClaims
  BY DEF Init, NoReq, NameClaims, OneWinner

LEMMA NamesClaimed == Spec => []NameClaims
  BY TypeCorrect, LocksHeld, NamesInit, NamesNext, PTL DEF Spec

\* No two registrations are told that one name is theirs, and whoever was told so has
\* the account.
THEOREM WinnersUnique == Spec => []OneWinner
  <1>1. NameClaims => OneWinner
    BY DEF NameClaims
  <1> QED BY <1>1, NamesClaimed, PTL

\* No step touches the row of a user that exists.
THEOREM AccountsNeverChange == Spec => AccountsKept
  <1>1. TypeOK /\ LockHeld /\ NameClaims /\ [Next]_vars
            => [\A n \in Name : Taken(n) => users'[n] = users[n]]_vars
    <2> SUFFICES ASSUME TypeOK, LockHeld, NameClaims, Next, NEW n \in Name, Taken(n)
                 PROVE  users'[n] = users[n]
      OBVIOUS
    <2>1. ASSUME NEW h \in Handler, CommitRegister(h) PROVE users'[n] = users[n]
      <3>1. ~Taken(req[h].name)
        BY <2>1 DEF CommitRegister, NameClaims
      <3> QED BY <2>1, <3>1 DEF CommitRegister, TypeOK
    <2>2. ASSUME NEW m \in Name, CreateUser(m) PROVE users'[n] = users[n]
      BY <2>2 DEF CreateUser, TypeOK
    <2> QED BY <2>1, <2>2 DEF Next, RegisterStep, StartRegister, LockInvite, InviteRefused, InsertUser,
                              NameTaken, Welcome, RegisterDropped, CreateInvite, RevokeInvite
  <1> QED BY <1>1, TypeCorrect, LocksHeld, NamesClaimed, PTL DEF Spec, AccountsKept

-----------------------------------------------------------------------------
(* The count of an invite. *)

LEMMA CreatedFinite ==
    ASSUME NEW c
    PROVE  IsFiniteSet(CreatedBy(c)) /\ Cardinality(CreatedBy(c)) \in Nat
  BY InvitesAssumption, FS_Subset, FS_CardinalityType DEF CreatedBy

\* A registration's commit adds one user to its own code's users and to no other's.
LEMMA CommitAdds ==
    ASSUME TypeOK, LockHeld, NameClaims, NEW h \in Handler, CommitRegister(h), NEW c \in Invite
    PROVE  /\ c = req[h].code => /\ CreatedBy(c)' = CreatedBy(c) \cup {req[h].name}
                                 /\ req[h].name \notin CreatedBy(c)
           /\ c # req[h].code => CreatedBy(c)' = CreatedBy(c)
  <1>1. /\ req[h].name \in Name /\ req[h].code \in Invite /\ users[req[h].name] = NoInvite
        /\ users' = [users EXCEPT ![req[h].name] = req[h].code] /\ DOMAIN users = Name
    BY DEF CommitRegister, LockHeld, NameClaims, Taken, TypeOK
  <1>2. \A n \in Name : users'[n] = IF n = req[h].name THEN req[h].code ELSE users[n]
    BY <1>1
  <1> QED BY <1>1, <1>2, InvitesAssumption DEF CreatedBy

\* What leaves the users alone, or adds one made without a code, leaves every code's users.
LEMMA CreatedStays ==
    ASSUME TypeOK, users' = users \/ \E n \in Name : CreateUser(n), NEW c \in Invite
    PROVE  CreatedBy(c)' = CreatedBy(c)
  <1>1. CASE users' = users
    BY <1>1 DEF CreatedBy
  <1>2. ASSUME NEW n \in Name, CreateUser(n) PROVE CreatedBy(c)' = CreatedBy(c)
    <2>1. users[n] = NoInvite /\ \A m \in Name : users'[m] = IF m = n THEN Bootstrap ELSE users[m]
      BY <1>2 DEF CreateUser, Taken, TypeOK
    <2> QED BY <2>1, InvitesAssumption DEF CreatedBy
  <1> QED BY <1>1, <1>2

\* Every step either commits a registration or is as CreatedStays wants it.
LEMMA CommitsOnly ==
    ASSUME [Next]_vars, \A h \in Handler : ~CommitRegister(h)
    PROVE  users' = users \/ \E n \in Name : CreateUser(n)
  BY DEF Next, RegisterStep, StartRegister, LockInvite, InviteRefused, InsertUser, NameTaken, Welcome,
         RegisterDropped, CreateInvite, RevokeInvite, vars

LEMMA CountsNext == TypeOK /\ LockHeld /\ NameClaims /\ InviteHonest /\ [Next]_vars => InviteHonest'
  <1> SUFFICES ASSUME TypeOK, LockHeld, NameClaims, InviteHonest, [Next]_vars, NEW c \in Invite
               PROVE  usedCount'[c] = Cardinality(CreatedBy(c)') /\ usedCount'[c] <= maxUses'[c]
    BY DEF InviteHonest
  <1>c. /\ usedCount[c] = Cardinality(CreatedBy(c)) /\ usedCount[c] <= maxUses[c]
        /\ usedCount[c] \in Nat /\ maxUses[c] \in Nat
        /\ DOMAIN usedCount = Invite /\ DOMAIN maxUses = Invite
    BY InvitesAssumption DEF InviteHonest, TypeOK
  <1>1. ASSUME NEW h \in Handler, CommitRegister(h)
        PROVE  usedCount'[c] = Cardinality(CreatedBy(c)') /\ usedCount'[c] <= maxUses'[c]
    <2>1. CASE c = req[h].code
      <3>1. usedCount'[c] = usedCount[c] + 1 /\ maxUses'[c] = maxUses[c] /\ Usable(c)
        BY <1>1, <1>c, <2>1 DEF CommitRegister, LockHeld
      <3>2. Cardinality(CreatedBy(c)') = Cardinality(CreatedBy(c)) + 1
        <4>1. CreatedBy(c)' = CreatedBy(c) \cup {req[h].name} /\ req[h].name \notin CreatedBy(c)
          BY <1>1, <2>1, CommitAdds
        <4>2. IsFiniteSet(CreatedBy(c))
          BY CreatedFinite
        <4> QED BY <4>1, <4>2, FS_AddElement
      <3> QED BY <1>c, <3>1, <3>2 DEF Usable
    <2>2. CASE c # req[h].code
      <3>1. usedCount'[c] = usedCount[c] /\ maxUses'[c] = maxUses[c]
        BY <1>1, <1>c, <2>2 DEF CommitRegister
      <3> QED BY <1>1, <1>c, <2>2, <3>1, CommitAdds
    <2> QED BY <2>1, <2>2
  <1>2. ASSUME \A h \in Handler : ~CommitRegister(h)
        PROVE  usedCount'[c] = Cardinality(CreatedBy(c)') /\ usedCount'[c] <= maxUses'[c]
    <2>1. CreatedBy(c)' = CreatedBy(c)
      BY <1>2, CommitsOnly, CreatedStays
    <2>2. usedCount' = usedCount
      BY <1>2 DEF Next, RegisterStep, StartRegister, LockInvite, InviteRefused, InsertUser, NameTaken,
                  Welcome, RegisterDropped, CreateInvite, RevokeInvite, CreateUser, vars
    <2>3. CASE \E d \in Invite, m \in 1 .. MaxUses : CreateInvite(d, m)
      <3>1. PICK d \in Invite, m \in 1 .. MaxUses : CreateInvite(d, m)
        BY <2>3
      <3>2. maxUses[d] = 0 /\ maxUses' = [maxUses EXCEPT ![d] = m] /\ m \in Nat
        BY <3>1, InvitesAssumption DEF CreateInvite
      <3>3. maxUses'[c] >= maxUses[c] /\ maxUses'[c] \in Nat
        BY <1>c, <3>2
      <3> QED BY <1>c, <2>1, <2>2, <3>3
    <2>4. CASE maxUses' = maxUses
      BY <1>c, <2>1, <2>2, <2>4
    <2> QED BY <1>2, <2>3, <2>4
            DEF Next, RegisterStep, StartRegister, LockInvite, InviteRefused, InsertUser, NameTaken,
                Welcome, RegisterDropped, RevokeInvite, CreateUser, vars
  <1> QED BY <1>1, <1>2

LEMMA CountsInit == Init => InviteHonest
  <1> SUFFICES ASSUME Init, NEW c \in Invite
               PROVE  usedCount[c] = Cardinality(CreatedBy(c)) /\ usedCount[c] <= maxUses[c]
    BY DEF InviteHonest
  <1>1. CreatedBy(c) = {}
    BY InvitesAssumption DEF Init, CreatedBy
  <1> QED BY <1>1, FS_EmptySet DEF Init

\* used_count is the number of users the code let in, whatever fails and whenever, and
\* never more than max_uses.
THEOREM UsesCounted == Spec => []InviteHonest
  BY TypeCorrect, LocksHeld, NamesClaimed, CountsInit, CountsNext, PTL DEF Spec

\* A revoked code lets nobody in any more.
THEOREM RevocationFinal == Spec => RevokedIsClosed
  <1>1. TypeOK /\ LockHeld /\ NameClaims /\ [Next]_vars
            => [\A c \in Invite : c \in revoked => CreatedBy(c)' = CreatedBy(c)]_vars
    <2> SUFFICES ASSUME TypeOK, LockHeld, NameClaims, Next, NEW c \in Invite, c \in revoked
                 PROVE  CreatedBy(c)' = CreatedBy(c)
      OBVIOUS
    <2>1. ASSUME NEW h \in Handler, CommitRegister(h) PROVE CreatedBy(c)' = CreatedBy(c)
      <3>1. c # req[h].code
        BY <2>1 DEF CommitRegister, LockHeld, Usable
      <3> QED BY <2>1, <3>1, CommitAdds
    <2>2. ASSUME \A h \in Handler : ~CommitRegister(h) PROVE CreatedBy(c)' = CreatedBy(c)
      BY <2>2, CommitsOnly, CreatedStays
    <2> QED BY <2>1, <2>2
  <1> QED BY <1>1, TypeCorrect, LocksHeld, NamesClaimed, PTL DEF Spec, RevokedIsClosed

-----------------------------------------------------------------------------
(* Who waits. *)

\* A lock is held by the open transaction of a registration with this code.
HeldByOpen ==
    \A c \in Invite : lock[c] # NoHandler =>
        req[lock[c]].code = c /\ (At(lock[c], "insert") \/ At(lock[c], "commit"))

LEMMA HeldNext == TypeOK /\ LockHeld /\ HeldByOpen /\ [Next]_vars => HeldByOpen'
  <1> SUFFICES ASSUME TypeOK, LockHeld, HeldByOpen, [Next]_vars, NEW c \in Invite, lock'[c] # NoHandler
               PROVE  req'[lock'[c]].code = c /\ req'[lock'[c]].pc \in {"insert", "commit"}
    BY DEF HeldByOpen
  <1> DEFINE g == lock[c]
             Kept == lock'[c] = g /\ g \in Handler /\ req'[g].code = req[g].code
                     /\ req'[g].pc \in {"insert", "commit"}
  <1>t. req \in [Handler -> Req] /\ lock \in [Invite -> Handler \cup {NoHandler}]
    BY DEF TypeOK
  <1>h. g # NoHandler => g \in Handler /\ req[g].code = c /\ req[g].pc \in {"insert", "commit"}
    BY <1>t DEF HeldByOpen
  <1>k. Kept => req'[lock'[c]].code = c /\ req'[lock'[c]].pc \in {"insert", "commit"}
    BY <1>h, InvitesAssumption
  <1>1. ASSUME NEW h \in Handler, LockInvite(h)
        PROVE  req'[lock'[c]].code = c /\ req'[lock'[c]].pc \in {"insert", "commit"}
    <2>1. CASE c = req[h].code
      <3>1. lock'[c] = h /\ req'[h].pc = "insert" /\ req'[h].code = req[h].code
        BY <1>1, <1>t, <2>1 DEF LockInvite, Req
      <3> QED BY <2>1, <3>1
    <2>2. CASE c # req[h].code
      <3>1. lock'[c] = g /\ g # h /\ req' = [req EXCEPT ![h].pc = "insert"]
        BY <1>1, <1>t, <1>h, <2>2 DEF LockInvite
      <3> QED BY <1>h, <1>t, <1>k, <3>1
    <2> QED BY <2>1, <2>2
  <1>2. ASSUME NEW h \in Handler, InsertUser(h) PROVE Kept
    BY <1>2, <1>h, <1>t DEF InsertUser, Req
  <1>3. ASSUME NEW h \in Handler, NEW r, req' = [req EXCEPT ![h] = r],
               req[h].pc \notin {"insert", "commit"} \/ lock' = Unlocked(h),
               lock' = lock \/ lock' = Unlocked(h)
        PROVE  Kept
    <2>1. lock'[c] = g /\ g # NoHandler
      BY <1>3, <1>t DEF Unlocked
    <2>2. g # h
      BY <1>3, <1>h, <1>t, <2>1, InvitesAssumption DEF Unlocked
    <2> QED BY <1>3, <1>h, <1>t, <2>1, <2>2
  <1>4. ASSUME NEW h \in Handler, InviteRefused(h) \/ NameTaken(h) \/ Welcome(h) \/ RegisterDropped(h)
        PROVE  Kept
    BY <1>3, <1>4 DEF InviteRefused, NameTaken, Welcome, RegisterDropped
  <1>5. ASSUME NEW h \in Handler, CommitRegister(h) PROVE Kept
    <2>1. req' = [req EXCEPT ![h] = [req[h] EXCEPT !.pc = "session"]]
      BY <1>5 DEF CommitRegister
    <2> QED BY <1>3, <1>5, <2>1 DEF CommitRegister
  <1>6. ASSUME NEW h \in Handler, NEW n \in Name, NEW d \in Invite, StartRegister(h, n, d) PROVE Kept
    BY <1>3, <1>6 DEF StartRegister
  <1>7. CASE UNCHANGED <<req, lock>>
    BY <1>7, <1>h
  <1> QED BY <1>k, <1>1, <1>2, <1>4, <1>5, <1>6, <1>7
          DEF Next, RegisterStep, CreateInvite, RevokeInvite, CreateUser, vars

\* Registrations never wait in a circle, whatever codes and names they share.
THEOREM NeverInCircle == Spec => []NoCircle
  <1>1. Init => HeldByOpen
    BY DEF Init, HeldByOpen
  <1>2. TypeOK /\ LockHeld /\ HeldByOpen => NoCircle
    <2> SUFFICES ASSUME TypeOK, LockHeld, HeldByOpen PROVE NoCircle
      OBVIOUS
    <2>t. req \in [Handler -> Req] /\ lock \in [Invite -> Handler \cup {NoHandler}]
      BY DEF TypeOK
    <2>1. ASSUME NEW h \in Handler
          PROVE  At(h, "idle") \/ Ready(h) \/ \E g \in Handler : WaitsFor(h, g)
      <3>1. req[h].pc \in PC
        BY <2>t DEF Req
      <3>2. CASE At(h, "lock")
        <4>1. req[h].code \in Invite
          BY <3>2 DEF LockHeld
        <4> QED BY <2>t, <3>2, <4>1 DEF Ready, WaitsFor
      <3>3. CASE At(h, "insert")
        BY <3>3 DEF Ready, WaitsFor, Pending
      <3> QED BY <3>1, <3>2, <3>3 DEF PC, Ready
    <2>2. ASSUME NEW g \in Handler, NEW h \in Handler, NEW k \in Handler, WaitsFor(g, h), WaitsFor(h, k)
          PROVE  Ready(k)
      <3>1. ~At(h, "lock")
        <4>1. CASE At(g, "lock") /\ lock[req[g].code] = h
          <5>1. req[g].code \in Invite
            BY <4>1 DEF LockHeld
          <5> QED BY <4>1, <5>1, InvitesAssumption DEF HeldByOpen
        <4> QED BY <2>2, <4>1 DEF WaitsFor
      <3> QED BY <2>2, <3>1 DEF WaitsFor, Ready
    <2> QED BY <2>1, <2>2 DEF NoCircle
  <1> QED BY <1>1, <1>2, HeldNext, TypeCorrect, LocksHeld, PTL DEF Spec

-----------------------------------------------------------------------------
(* Invites implements Admission.                                            *)

RevokedIssued == \A c \in revoked : c \in Invite /\ maxUses[c] > 0

LEMMA RevokedIssuedAlways == Spec => []RevokedIssued
  <1>1. Init => RevokedIssued
    BY DEF Init, RevokedIssued
  <1>2. TypeOK /\ RevokedIssued /\ [Next]_vars => RevokedIssued'
    <2> SUFFICES ASSUME TypeOK, RevokedIssued, [Next]_vars PROVE RevokedIssued'
      OBVIOUS
    <2> USE DEF RevokedIssued
    <2>1. ASSUME NEW c \in Invite, NEW m \in 1 .. MaxUses, CreateInvite(c, m) PROVE RevokedIssued'
      BY <2>1, InvitesAssumption DEF CreateInvite, TypeOK
    <2>2. ASSUME NEW c \in Invite, RevokeInvite(c) PROVE RevokedIssued'
      BY <2>2 DEF RevokeInvite
    <2>3. CASE UNCHANGED <<maxUses, revoked>>
      BY <2>3
    <2> QED BY <2>1, <2>2, <2>3 DEF Next, RegisterStep, StartRegister, LockInvite, InviteRefused,
            InsertUser, NameTaken, CommitRegister, Welcome, RegisterDropped, CreateUser, vars
  <1> QED BY <1>1, <1>2, TypeCorrect, PTL DEF Spec

IInv == TypeOK /\ LockHeld /\ NameClaims /\ InviteHonest /\ RevokedIssued

LEMMA AbstractInit == Init => Abstract!Init
  <1> SUFFICES ASSUME Init PROVE Abstract!Init
    OBVIOUS
  <1>1. \A c \in Invite : Left(c) = 0 /\ ~(maxUses[c] > 0)
    BY DEF Init, Left
  <1>2. \A n \in Name : ~(welcomed[n] > 0)
    BY DEF Init
  <1> QED BY <1>1, <1>2 DEF Init, Abstract!Init

\* What leaves users, codes and promises alone is invisible.
LEMMA AbstractStutter ==
    ASSUME UNCHANGED <<users, maxUses, usedCount, revoked, welcomed>>
    PROVE  UNCHANGED Abstract!vars
  BY DEF Abstract!vars, Left

LEMMA AbstractCommit ==
    ASSUME IInv, NEW h \in Handler, CommitRegister(h)
    PROVE  \E n \in Name, c \in Invite : Abstract!Join(n, c)
  <1>0. PICK n \in Name, c \in Invite : n = req[h].name /\ c = req[h].code
    BY DEF IInv, CommitRegister, LockHeld
  <1>1. /\ users[n] = NoInvite /\ Usable(c)
        /\ users' = [users EXCEPT ![n] = c] /\ usedCount' = [usedCount EXCEPT ![c] = @ + 1]
        /\ UNCHANGED <<maxUses, revoked, welcomed>>
    BY <1>0 DEF IInv, CommitRegister, LockHeld, NameClaims, Taken
  <1>2. \A d \in Invite : usedCount[d] \in Nat /\ maxUses[d] \in Nat
    BY InvitesAssumption DEF IInv, TypeOK
  <1>3. DOMAIN usedCount = Invite
    BY DEF IInv, TypeOK
  <1>4. Left(c) > 0 /\ Left(c)' = Left(c) - 1
    BY <1>1, <1>2, <1>3 DEF Left, Usable
  <1>5. \A d \in Invite : d # c => Left(d)' = Left(d)
    BY <1>1, <1>2, <1>3 DEF Left
  <1>6. [d \in Invite |-> Left(d)]' = [[d \in Invite |-> Left(d)] EXCEPT ![c] = @ - 1]
    BY <1>1, <1>4, <1>5
  <1>7. Abstract!Join(n, c)
    BY <1>1, <1>4, <1>6 DEF Abstract!Join
  <1> QED BY <1>1, <1>7

LEMMA AbstractWelcome ==
    ASSUME IInv, NEW h \in Handler, Welcome(h)
    PROVE  \E n \in Name : Abstract!Promise(n)
  <1>0. PICK n \in Name : n = req[h].name
    BY DEF IInv, Welcome, LockHeld
  <1>1. /\ users[n] \in Invite /\ welcomed[n] = 0
        /\ welcomed' = [welcomed EXCEPT ![n] = @ + 1]
        /\ UNCHANGED <<users, maxUses, usedCount, revoked>>
    BY <1>0 DEF IInv, Welcome, LockHeld, NameClaims
  <1>2. DOMAIN welcomed = Name /\ \A m \in Name : welcomed[m] \in Nat
    BY DEF IInv, TypeOK
  <1>3. {m \in Name : welcomed'[m] > 0} = {m \in Name : welcomed[m] > 0} \cup {n}
    BY <1>1, <1>2
  <1>4. [d \in Invite |-> Left(d)]' = [d \in Invite |-> Left(d)]
    BY <1>1 DEF Left
  <1>5. ~(welcomed[n] > 0)
    BY <1>1
  <1>6. Abstract!Promise(n)
    BY <1>1, <1>3, <1>4, <1>5 DEF Abstract!Promise
  <1> QED BY <1>1, <1>6

LEMMA AbstractIssue ==
    ASSUME IInv, NEW c \in Invite, NEW m \in 1 .. MaxUses, CreateInvite(c, m)
    PROVE  Abstract!Issue(c, m)
  <1>1. /\ maxUses[c] = 0 /\ maxUses' = [maxUses EXCEPT ![c] = m] /\ m \in Nat /\ m > 0
        /\ UNCHANGED <<users, usedCount, revoked, welcomed>> /\ DOMAIN maxUses = Invite
    BY InvitesAssumption DEF IInv, TypeOK, CreateInvite
  <1>2. usedCount[c] = 0 /\ c \notin revoked
    BY <1>1 DEF IInv, InviteHonest, TypeOK, RevokedIssued
  <1>3. Left(c)' = m /\ \A d \in Invite : d # c => Left(d)' = Left(d)
    BY <1>1, <1>2 DEF Left
  <1>4. [d \in Invite |-> Left(d)]' = [[d \in Invite |-> Left(d)] EXCEPT ![c] = m]
    BY <1>3
  <1>5. {d \in Invite : maxUses'[d] > 0} = {d \in Invite : maxUses[d] > 0} \cup {c}
    BY <1>1
  <1> QED BY <1>1, <1>4, <1>5 DEF Abstract!Issue

LEMMA AbstractClose ==
    ASSUME NEW c \in Invite, RevokeInvite(c)
    PROVE  Abstract!Close(c)
  <1>1. revoked' = revoked \cup {c} /\ UNCHANGED <<users, maxUses, usedCount, welcomed>>
    BY DEF RevokeInvite
  <1>2. Left(c)' = 0 /\ \A d \in Invite : d # c => Left(d)' = Left(d)
    BY <1>1 DEF Left
  <1>3. [d \in Invite |-> Left(d)]' = [[d \in Invite |-> Left(d)] EXCEPT ![c] = 0]
    BY <1>2
  <1> QED BY <1>1, <1>3 DEF Abstract!Close

LEMMA AbstractAppoint ==
    ASSUME NEW n \in Name, CreateUser(n)
    PROVE  Abstract!Appoint(n)
  <1>1. /\ users[n] = NoInvite /\ users' = [users EXCEPT ![n] = Bootstrap]
        /\ UNCHANGED <<maxUses, usedCount, revoked, welcomed>>
    BY DEF CreateUser, Taken
  <1>2. [d \in Invite |-> Left(d)]' = [d \in Invite |-> Left(d)]
    BY <1>1 DEF Left
  <1> QED BY <1>1, <1>2 DEF Abstract!Appoint

LEMMA AbstractNext == IInv /\ [Next]_vars => [Abstract!Next]_(Abstract!vars)
  <1> SUFFICES ASSUME IInv, [Next]_vars PROVE Abstract!Next \/ UNCHANGED Abstract!vars
    OBVIOUS
  <1>1. ASSUME NEW h \in Handler, CommitRegister(h) PROVE Abstract!Next
    BY <1>1, AbstractCommit DEF Abstract!Next
  <1>2. ASSUME NEW h \in Handler, Welcome(h) PROVE Abstract!Next
    BY <1>2, AbstractWelcome DEF Abstract!Next
  <1>3. ASSUME NEW c \in Invite, NEW m \in 1 .. MaxUses, CreateInvite(c, m) PROVE Abstract!Next
    BY <1>3, AbstractIssue DEF Abstract!Next
  <1>4. ASSUME NEW c \in Invite, RevokeInvite(c) PROVE Abstract!Next
    BY <1>4, AbstractClose DEF Abstract!Next
  <1>5. ASSUME NEW n \in Name, CreateUser(n) PROVE Abstract!Next
    BY <1>5, AbstractAppoint DEF Abstract!Next
  <1>6. CASE UNCHANGED <<users, maxUses, usedCount, revoked, welcomed>>
    BY <1>6, AbstractStutter
  <1> QED BY <1>1, <1>2, <1>3, <1>4, <1>5, <1>6
          DEF Next, RegisterStep, StartRegister, LockInvite, InviteRefused, InsertUser, NameTaken,
              RegisterDropped, vars

\* Seen from outside, registrations are atomic: the transactions, their waits and their
\* failures implement the accounts and places of Admission.
THEOREM AdmissionImplemented == Spec => ImplementsAdmission
  <1>1. Spec => []IInv
    BY TypeCorrect, LocksHeld, NamesClaimed, UsesCounted, RevokedIssuedAlways, PTL DEF IInv
  <1> QED BY <1>1, AbstractInit, AbstractNext, PTL DEF Spec, ImplementsAdmission, Abstract!Spec
=============================================================================
