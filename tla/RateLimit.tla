----------------------------- MODULE RateLimit -----------------------------
(***************************************************************************)
(* The limiter in front of POST /api/seats/reserve (internal/router/       *)
(* router.go) behind AuthRequired.  The window is that of fiber's limiter, *)
(* as the program configures it: fixed, opened by the first request of a   *)
(* key, in the memory of the process.                                      *)
(***************************************************************************)
EXTENDS Integers, FiniteSets

CONSTANTS
  Users, Ips,
  Limit,       \* Max: 5 in the code
  Window,      \* Expiration: 1 * time.Minute, in ticks
  MaxStops     \* bound: how often the process is started anew

ASSUME ConstantsAssumption ==
  /\ Limit \in Nat \ {0} /\ Window \in Nat \ {0} /\ MaxStops \in Nat
  /\ IsFiniteSet(Users) /\ IsFiniteSet(Ips)

VARIABLES
  window,      \* per key: time left and requests so far
  accepted,    \* history: requests of each key let through n ticks ago
  served,      \* history: requests of each user let through n ticks ago
  stops

vars == <<window, accepted, served, stops>>

(* What AuthRequired leaves in the context of a request of user u. *)
Locals(u) == [user_id |-> u, role |-> "user"]

(* KeyGenerator looks for "userID". *)
Key(u, ip) == IF "userID" \in DOMAIN Locals(u) THEN Locals(u).userID ELSE ip

Keys == Users \cup Ips
Ago == 0 .. Window - 1

(* A window with more than Limit requests refuses, however many there are. *)
TypeOK ==
  /\ window \in [Keys -> [left : 0 .. Window, hits : 0 .. Limit + 1]]
  /\ accepted \in [Ago -> [Keys -> 0 .. (stops + 1) * Limit]]
  /\ served \in [Ago -> [Users -> Nat]]
  /\ stops \in 0 .. MaxStops

None(S) == [x \in S |-> 0]
Closed == [left |-> 0, hits |-> 0]

Init ==
  /\ window = [k \in Keys |-> Closed]
  /\ accepted = [n \in Ago |-> None(Keys)]
  /\ served = [n \in Ago |-> None(Users)]
  /\ stops = 0

(* The window once the request is counted; refused requests count too. *)
Counted(w) ==
  IF w.left = 0 THEN [left |-> Window, hits |-> 1]
  ELSE [w EXCEPT !.hits = IF @ > Limit THEN @ ELSE @ + 1]

LetThrough(u, k) ==
  /\ accepted' = [accepted EXCEPT ![0][k] = @ + 1]
  /\ served' = [served EXCEPT ![0][u] = @ + 1]

(* Mutant: one request more is let through. *)
RequestOneMore(u, ip) ==
  LET k == Key(u, ip) IN
  /\ window' = [window EXCEPT ![k] = Counted(window[k])]
  /\ IF window'[k].hits <= Limit + 1 /\ accepted[0][k] <= Limit
     THEN LetThrough(u, k) ELSE UNCHANGED <<accepted, served>>
  /\ UNCHANGED stops

Request(u, ip) ==
  LET k == Key(u, ip) IN
  /\ window' = [window EXCEPT ![k] = Counted(window[k])]
  /\ IF window'[k].hits <= Limit THEN LetThrough(u, k) ELSE UNCHANGED <<accepted, served>>
  /\ UNCHANGED stops

Tick ==
  /\ window' = [k \in Keys |->
       IF window[k].left <= 1 THEN Closed ELSE [window[k] EXCEPT !.left = @ - 1]]
  /\ accepted' = [n \in Ago |-> IF n = 0 THEN None(Keys) ELSE accepted[n - 1]]
  /\ served' = [n \in Ago |-> IF n = 0 THEN None(Users) ELSE served[n - 1]]
  /\ UNCHANGED stops

(* The counters are lost with the process. *)
Restart ==
  /\ stops < MaxStops /\ stops' = stops + 1
  /\ window' = [k \in Keys |-> Closed]
  /\ UNCHANGED <<accepted, served>>

Next == (\E u \in Users, ip \in Ips : Request(u, ip)) \/ Tick \/ Restart

Spec == Init /\ [][Next]_vars

-----------------------------------------------------------------------------
(* Requests of a key, and of a user, that were let through n ticks ago. *)
Accepted(k) == [n \in Ago |-> accepted[n][k]]
Served(u) == [n \in Ago |-> served[n][u]]

(* The sums of the first n values of a function on 0, 1, ... *)
Sums(f) == LET sum[n \in Nat] == IF n = 0 THEN 0 ELSE sum[n - 1] + f[n - 1] IN sum

(* What the limiter does with the keys it is given, whatever they stand for: in
   no stretch of time as long as the window does one key get more than two full
   windows through, or one more for each restart.  The burst at the end of one
   window and at the beginning of the next is the worst case. *)
BurstIsBounded == \A k \in Keys : Sums(Accepted(k))[Window] <= (2 + stops) * Limit

(* What router.go:35-36 says of it: "Restrict based on the logged-in user ID
   ... even if a user comes with multiple devices, they will still be limited."
   The same bound for a user, from however many addresses the requests come.
   It does not hold: the user's id is left as "user_id" and sought as "userID",
   so that each address of a user has a window of its own. *)
UsersAreLimited == \A u \in Users : Sums(Served(u))[Window] <= (2 + stops) * Limit
=============================================================================
