------------------------------ MODULE Accounts ------------------------------
(***************************************************************************)
(* Users, roles and tokens: Register, Login and UpdateUserRole             *)
(* (internal/service/user_service.go), the tokens of internal/pkg/Token    *)
(* that carry the role, the middleware that believes them, and the start   *)
(* of the process, which makes an administrator if there is none.          *)
(***************************************************************************)
EXTENDS Integers

CONSTANTS
  Users,       \* by email address, which is unique
  Seed,        \* admin@swiftseat.com
  Logins, Changes,   \* concurrent requests: logins, changes of a role
  TTL,         \* 7 * 24 * time.Hour, in ticks
  MaxStops     \* bound: how often the process goes down once it was up

ASSUME ConstantsAssumption ==
  Seed \in Users /\ TTL \in Nat \ {0} /\ MaxStops \in Nat

VARIABLES
  role,        \* committed rows of users; "none" is no row
  tokens,      \* those given out that have not expired; left is the time left
  login,       \* progress and local variables of Login
  change,      \* progress of ChangeUserRole behind its two middlewares
  process,     \* "seeding" is SeedAdmin with count = 0, "dead" is log.Fatal
  stops,
  lapsed       \* history: ticks since u, or a login of u under way, was admin

vars == <<role, tokens, login, change, process, stops, lapsed>>

Roles == {"user", "admin"}
Token == [user : Users, role : Roles, left : 1 .. TTL]
NotIn == [pc |-> "idle"]
Allowed == [pc |-> "allowed"]

TypeOK ==
  /\ role \in [Users -> Roles \cup {"none"}]
  /\ tokens \subseteq Token
  /\ login \in [Logins -> [pc : {"read"}, user : Users, role : Roles] \cup {NotIn}]
  /\ change \in [Changes -> {NotIn, Allowed}]
  /\ process \in {"down", "seeding", "up", "dead"}
  /\ stops \in 0 .. MaxStops
  /\ lapsed \in [Users -> 0 .. TTL + 1]

Init ==
  /\ role = [u \in Users |-> "none"] /\ tokens = {}
  /\ login = [l \in Logins |-> NotIn] /\ change = [c \in Changes |-> NotIn]
  /\ process = "down" /\ stops = 0
  /\ lapsed = [u \in Users |-> TTL + 1]

-----------------------------------------------------------------------------
(* SeedAdmin                                                               *)

AdminLeft == \E u \in Users : role[u] = "admin"
StartUp(p) == process' = p /\ UNCHANGED <<tokens, login, change, stops>>

(* Mutant: it is an error that there is no administrator. *)
CountAdminsOrDie ==
  /\ process = "down"
  /\ StartUp(IF AdminLeft THEN "up" ELSE "dead")
  /\ UNCHANGED <<role, lapsed>>

CountAdmins ==
  /\ process = "down"
  /\ StartUp(IF AdminLeft THEN "up" ELSE "seeding")
  /\ UNCHANGED <<role, lapsed>>

(* An error of Count is dropped, and count is still 0. *)
CountFails ==
  process = "down" /\ StartUp("seeding") /\ UNCHANGED <<role, lapsed>>

(* The address may be taken: log.Fatal. *)
SeedAdmin ==
  /\ process = "seeding"
  /\ \/ /\ role[Seed] = "none" /\ StartUp("up")
        /\ role' = [role EXCEPT ![Seed] = "admin"]
        /\ lapsed' = [lapsed EXCEPT ![Seed] = 0]
     \/ /\ role[Seed] # "none" /\ StartUp("dead")
        /\ UNCHANGED <<role, lapsed>>

(* Docker starts a process that has ended again (restart: always). *)
Restart == process = "dead" /\ StartUp("down") /\ UNCHANGED <<role, lapsed>>

GoDown ==
  /\ process = "up" /\ stops < MaxStops /\ stops' = stops + 1
  /\ process' = "down"
  /\ login' = [l \in Logins |-> NotIn] /\ change' = [c \in Changes |-> NotIn]
  /\ UNCHANGED <<role, tokens, lapsed>>

-----------------------------------------------------------------------------
(* The requests                                                            *)

(* A second account with an address violates its index: 409. *)
Register(u) ==
  /\ process = "up" /\ role[u] = "none"
  /\ role' = [role EXCEPT ![u] = "user"]
  /\ UNCHANGED <<tokens, login, change, process, stops, lapsed>>

(* Login: the row is read, and the password compared, which takes a while. *)
ReadUser(l, u) ==
  /\ process = "up" /\ login[l] = NotIn /\ role[u] # "none"
  /\ login' = [login EXCEPT ![l] = [pc |-> "read", user |-> u, role |-> role[u]]]
  /\ UNCHANGED <<role, tokens, change, process, stops, lapsed>>

(* GenerateToken, or a wrong password. *)
EndLogin(l) ==
  /\ login[l].pc = "read"
  /\ tokens' \in
       {tokens, tokens \cup {[user |-> login[l].user, role |-> login[l].role, left |-> TTL]}}
  /\ login' = [login EXCEPT ![l] = NotIn]
  /\ UNCHANGED <<role, change, process, stops, lapsed>>

(* Mutant: a token that is used is renewed. *)
AuthorizeAndRenew(c) ==
  /\ process = "up" /\ change[c] = NotIn
  /\ \E t \in tokens : t.role = "admin" /\ tokens' = tokens \cup {[t EXCEPT !.left = TTL]}
  /\ change' = [change EXCEPT ![c] = Allowed]
  /\ UNCHANGED <<role, login, process, stops, lapsed>>

(* AuthRequired and AdminOnly believe the role in the token. *)
Authorize(c) ==
  /\ process = "up" /\ change[c] = NotIn
  /\ \E t \in tokens : t.role = "admin"
  /\ change' = [change EXCEPT ![c] = Allowed]
  /\ UNCHANGED <<role, tokens, login, process, stops, lapsed>>

(* UPDATE users SET role; a user that is not there is a 404. *)
ChangeRole(c) ==
  /\ change[c] = Allowed
  /\ change' = [change EXCEPT ![c] = NotIn]
  /\ \/ \E u \in Users, new \in Roles :
          /\ role[u] # "none"
          /\ role' = [role EXCEPT ![u] = new]
          /\ lapsed' = IF new = "admin" THEN [lapsed EXCEPT ![u] = 0] ELSE lapsed
     \/ UNCHANGED <<role, lapsed>>
  /\ UNCHANGED <<tokens, login, process, stops>>

-----------------------------------------------------------------------------
StillAdmin(u) ==
  \/ role[u] = "admin"
  \/ \E l \in Logins : login[l].pc = "read" /\ login[l].user = u /\ login[l].role = "admin"

AgeRights ==
  lapsed' = [u \in Users |->
    IF StillAdmin(u) THEN 0 ELSE IF lapsed[u] > TTL THEN TTL + 1 ELSE lapsed[u] + 1]

(* Mutant: a token that has expired is still there. *)
TickKeepsExpired ==
  /\ tokens' = {[t EXCEPT !.left = @ - 1] : t \in {x \in tokens : x.left > 0}}
  /\ AgeRights
  /\ UNCHANGED <<role, login, change, process, stops>>

(* ParseWithClaims refuses a token once its ExpiresAt has passed. *)
Tick ==
  /\ tokens' = {[t EXCEPT !.left = @ - 1] : t \in {x \in tokens : x.left > 1}}
  /\ AgeRights
  /\ UNCHANGED <<role, login, change, process, stops>>

RequestStep ==
  \/ \E l \in Logins : EndLogin(l)
  \/ \E c \in Changes : ChangeRole(c)
BootStep == CountAdmins \/ CountFails \/ SeedAdmin \/ Restart

Next ==
  \/ BootStep \/ GoDown \/ RequestStep \/ Tick
  \/ \E u \in Users : Register(u) \/ \E l \in Logins : ReadUser(l, u)
  \/ \E c \in Changes : Authorize(c)

Spec == Init /\ [][Next]_vars

(* Time passes; a request and a start-up go on; the database does not refuse
   to count for ever. *)
Fairness ==
  /\ WF_vars(Tick) /\ WF_vars(BootStep)
  /\ \A l \in Logins : WF_vars(EndLogin(l))
  /\ \A c \in Changes : WF_vars(ChangeRole(c))
  /\ <>[][~CountFails]_vars

FairSpec == Spec /\ Fairness

-----------------------------------------------------------------------------
(* The rights of an administrator outlive the role, since no request looks at
   the row again, but by no more than the life of a token: whoever holds an
   admin token was an administrator, or was logging in as one, less than TTL
   ago, however logins and changes of roles overlap. *)
RightsLapse ==
  \A t \in tokens : t.role = "admin" => lapsed[t.user] + t.left <= TTL

(* A process that is down comes up again, unless the administrators have made
   one another plain users: then SeedAdmin wants to insert an address that is
   taken, on every start. *)
Orphaned == ~AdminLeft /\ role[Seed] # "none"
ServerComesBack == process # "up" ~> process = "up" \/ Orphaned
=============================================================================
