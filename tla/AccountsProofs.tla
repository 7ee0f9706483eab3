--------------------------- MODULE AccountsProofs ---------------------------
(***************************************************************************)
(* Proofs about Accounts: its types, and the bound on how long the rights  *)
(* of an administrator outlive the role.                                   *)
(***************************************************************************)
EXTENDS Accounts, TLAPS

(* A user that is an administrator, or is logging in as one, has not lapsed:
   what Login will put into a token is that recent. *)
AdminsAreRecent == \A u \in Users : StillAdmin(u) => lapsed[u] = 0

IInv == TypeOK /\ AdminsAreRecent /\ RightsLapse

USE DEF Roles, Token, NotIn, Allowed

LEMMA InitIInv == Init => IInv
  BY ConstantsAssumption
  DEF Init, IInv, TypeOK, AdminsAreRecent, StillAdmin, RightsLapse

(* The steps that leave roles, tokens, logins and the clock alone. *)
LEMMA BootStepIInv ==
  ASSUME IInv, CountAdmins \/ CountFails \/ Restart \/ (\E c \in Changes : Authorize(c))
  PROVE  IInv'
  <1>1. TypeOK'
    BY DEF IInv, TypeOK, CountAdmins, CountFails, Restart, Authorize, StartUp
  <1>2. UNCHANGED <<role, tokens, login, lapsed>>
    BY DEF CountAdmins, CountFails, Restart, Authorize, StartUp
  <1> QED BY <1>1, <1>2 DEF IInv, AdminsAreRecent, StillAdmin, RightsLapse

(* A user that is made an administrator has not lapsed; nobody else's rights
   become younger, or tokens older, by it. *)
LEMMA RoleGivenIInv ==
  ASSUME IInv, NEW u \in Users, NEW new \in Roles,
         role' = [role EXCEPT ![u] = new],
         lapsed' = IF new = "admin" THEN [lapsed EXCEPT ![u] = 0] ELSE lapsed,
         UNCHANGED <<tokens, login>>,
         change' \in [Changes -> {NotIn, Allowed}],
         process' \in {"down", "seeding", "up", "dead"},
         stops' \in 0 .. MaxStops
  PROVE  IInv'
  <1>1. TypeOK'
    BY ConstantsAssumption DEF IInv, TypeOK
  <1>2. AdminsAreRecent'
    BY DEF IInv, TypeOK, AdminsAreRecent, StillAdmin
  <1>3. RightsLapse'
    BY ConstantsAssumption DEF IInv, TypeOK, RightsLapse
  <1> QED BY <1>1, <1>2, <1>3 DEF IInv

LEMMA SeedAdminIInv ==
  ASSUME IInv, SeedAdmin
  PROVE  IInv'
  <1>1. CASE role[Seed] = "none" /\ StartUp("up")
             /\ role' = [role EXCEPT ![Seed] = "admin"]
             /\ lapsed' = [lapsed EXCEPT ![Seed] = 0]
    BY <1>1, RoleGivenIInv, ConstantsAssumption DEF IInv, TypeOK, StartUp
  <1>2. CASE StartUp("dead") /\ UNCHANGED <<role, lapsed>>
    <2>1. TypeOK'
      BY <1>2 DEF IInv, TypeOK, StartUp
    <2> QED BY <1>2, <2>1 DEF IInv, AdminsAreRecent, StillAdmin, RightsLapse, StartUp
  <1> QED BY <1>1, <1>2 DEF SeedAdmin

LEMMA GoDownIInv ==
  ASSUME IInv, GoDown
  PROVE  IInv'
  <1>1. TypeOK'
    BY ConstantsAssumption DEF IInv, TypeOK, GoDown
  <1>2. AdminsAreRecent'
    BY DEF IInv, TypeOK, AdminsAreRecent, StillAdmin, GoDown
  <1> QED BY <1>1, <1>2 DEF IInv, RightsLapse, GoDown

LEMMA RegisterIInv ==
  ASSUME IInv, NEW u \in Users, Register(u)
  PROVE  IInv'
  BY RoleGivenIInv DEF Register, IInv, TypeOK

LEMMA ReadUserIInv ==
  ASSUME IInv, NEW l \in Logins, NEW u \in Users, ReadUser(l, u)
  PROVE  IInv'
  <1>1. TypeOK'
    BY DEF IInv, TypeOK, ReadUser
  <1>2. AdminsAreRecent'
    BY DEF IInv, TypeOK, AdminsAreRecent, StillAdmin, ReadUser
  <1> QED BY <1>1, <1>2 DEF IInv, RightsLapse, ReadUser

(* The token that a login may give out is for a role that was read while it
   was true, and AdminsAreRecent has kept count of it since. *)
LEMMA EndLoginIInv ==
  ASSUME IInv, NEW l \in Logins, EndLogin(l)
  PROVE  IInv'
  <1> DEFINE new == [user |-> login[l].user, role |-> login[l].role, left |-> TTL]
  <1>1. /\ login[l] \in [pc : {"read"}, user : Users, role : Roles]
        /\ new \in Token /\ tokens' \subseteq tokens \cup {new}
    BY ConstantsAssumption DEF IInv, TypeOK, EndLogin
  <1>2. TypeOK'
    BY <1>1 DEF IInv, TypeOK, EndLogin
  <1>3. AdminsAreRecent'
    BY DEF IInv, TypeOK, AdminsAreRecent, StillAdmin, EndLogin
  <1>4. new.role = "admin" => lapsed[new.user] = 0
    BY <1>1 DEF IInv, AdminsAreRecent, StillAdmin, EndLogin
  <1>5. RightsLapse'
    <2> SUFFICES ASSUME NEW t \in tokens', t.role = "admin"
                 PROVE  lapsed[t.user] + t.left <= TTL
      BY DEF RightsLapse, EndLogin
    <2>1. CASE t \in tokens
      BY <2>1 DEF IInv, RightsLapse
    <2>2. CASE t = new
      BY <2>2, <1>4, ConstantsAssumption
    <2> QED BY <2>1, <2>2, <1>1
  <1> QED BY <1>2, <1>3, <1>5 DEF IInv

LEMMA ChangeRoleIInv ==
  ASSUME IInv, NEW c \in Changes, ChangeRole(c)
  PROVE  IInv'
  <1>1. change' \in [Changes -> {NotIn, Allowed}]
    BY DEF IInv, TypeOK, ChangeRole
  <1>2. CASE UNCHANGED <<role, lapsed>>
    <2>1. TypeOK'
      BY <1>1, <1>2 DEF IInv, TypeOK, ChangeRole
    <2> QED BY <1>2, <2>1 DEF IInv, AdminsAreRecent, StillAdmin, RightsLapse, ChangeRole
  <1>3. ASSUME NEW u \in Users, NEW new \in Roles,
               role' = [role EXCEPT ![u] = new],
               lapsed' = IF new = "admin" THEN [lapsed EXCEPT ![u] = 0] ELSE lapsed
        PROVE  IInv'
    BY <1>1, <1>3, RoleGivenIInv DEF ChangeRole, IInv, TypeOK
  <1> QED BY <1>2, <1>3 DEF ChangeRole

(* A tick takes one off every token, and adds one to the user's lapse at most:
   the sum that RightsLapse bounds does not grow. *)
LEMMA TickIInv ==
  ASSUME IInv, Tick
  PROVE  IInv'
  <1>1. TypeOK'
    <2>1. tokens' \subseteq Token
      <3> SUFFICES ASSUME NEW t \in {x \in tokens : x.left > 1}
                   PROVE  [t EXCEPT !.left = @ - 1] \in Token
        BY DEF Tick
      <3> QED BY ConstantsAssumption DEF IInv, TypeOK
    <2>2. lapsed' \in [Users -> 0 .. TTL + 1]
      BY ConstantsAssumption DEF IInv, TypeOK, Tick, AgeRights
    <2> QED BY <2>1, <2>2 DEF IInv, TypeOK, Tick
  <1>2. AdminsAreRecent'
    BY DEF AdminsAreRecent, StillAdmin, Tick, AgeRights
  <1>3. RightsLapse'
    <2> SUFFICES ASSUME NEW t \in tokens', t.role = "admin"
                 PROVE  lapsed'[t.user] + t.left <= TTL
      BY DEF RightsLapse
    <2>1. PICK x \in tokens : t = [x EXCEPT !.left = @ - 1]
      BY DEF Tick
    <2>2. /\ x \in Token /\ t.user = x.user /\ x.role = "admin" /\ t.left = x.left - 1
          /\ lapsed[x.user] \in 0 .. TTL + 1
      BY <2>1 DEF IInv, TypeOK
    <2>3. lapsed[x.user] + x.left <= TTL
      BY <2>2 DEF IInv, RightsLapse
    <2>4. lapsed'[x.user] <= lapsed[x.user] + 1
      BY <2>2, <2>3, ConstantsAssumption DEF Tick, AgeRights
    <2>5. lapsed'[x.user] \in Int
      BY <1>1, <2>2, ConstantsAssumption DEF TypeOK
    <2> QED BY <2>2, <2>3, <2>4, <2>5, ConstantsAssumption
  <1> QED BY <1>1, <1>2, <1>3 DEF IInv

LEMMA StepIInv == IInv /\ [Next]_vars => IInv'
  <1> SUFFICES ASSUME IInv, [Next]_vars
               PROVE  IInv'
    OBVIOUS
  <1>1. CASE UNCHANGED vars
    BY <1>1 DEF vars, IInv, TypeOK, AdminsAreRecent, StillAdmin, RightsLapse
  <1>2. CASE BootStep
    BY <1>2, BootStepIInv, SeedAdminIInv DEF BootStep
  <1>3. CASE GoDown
    BY <1>3, GoDownIInv
  <1>4. CASE RequestStep
    BY <1>4, EndLoginIInv, ChangeRoleIInv DEF RequestStep
  <1>5. CASE Tick
    BY <1>5, TickIInv
  <1>6. CASE \E u \in Users : Register(u) \/ \E l \in Logins : ReadUser(l, u)
    BY <1>6, RegisterIInv, ReadUserIInv
  <1>7. CASE \E c \in Changes : Authorize(c)
    BY <1>7, BootStepIInv
  <1> QED BY <1>1, <1>2, <1>3, <1>4, <1>5, <1>6, <1>7 DEF Next

LEMMA Invariance == Spec => []IInv
  BY InitIInv, StepIInv, PTL DEF Spec

(* Every variable stays within its type: roles, tokens that have not expired,
   logins and changes of roles under way, and the state of the process. *)
THEOREM TypeCorrect == Spec => []TypeOK
  <1>1. IInv => TypeOK
    BY DEF IInv
  <1> QED BY Invariance, <1>1, PTL

(* Whoever holds an admin token was an administrator, or was logging in as
   one, less than the life of a token ago: for any number of users, of logins
   and changes of roles under way, and of restarts. *)
THEOREM RightsAreBounded == Spec => []RightsLapse
  <1>1. IInv => RightsLapse
    BY DEF IInv
  <1> QED BY Invariance, <1>1, PTL
=============================================================================
