----------------------------- MODULE SeatLedger -----------------------------
(***************************************************************************)
(* What seet_repo.go promises the rest of the program: seats, reservations *)
(* and tickets change only by whole reservations, whole payments and the   *)
(* return of expired seats, each at one instant, whatever the transactions *)
(* lock, wait for or lose on the way.  SeatTransactions implements it.     *)
(*                                                                         *)
(* A payment is the weak point of that promise, and is stated here as what *)
(* the code does: it looks at the reservation and never at its seats.      *)
(***************************************************************************)
EXTENDS Integers

CONSTANTS Seats, Events, EventOf, Users, NoUser, Refs, Payments,
          LockDuration, MaxReservations, MaxClock

VARIABLES clock, status, resv, tickets
vars == <<clock, status, resv, tickets>>

Rids == 1 .. MaxReservations
Times == 0 .. MaxClock
NoTime == -1

AvailableRow == [st |-> "available", by |-> NoUser, exp |-> NoTime]
SoldRow == [st |-> "sold", by |-> NoUser, exp |-> NoTime]
NoReservation == [st |-> "none"]

Held(s) == status[s].st = "reserved" /\ status[s].exp > clock
RanOut(s) == status[s].st = "reserved" /\ status[s].exp < clock

Init ==
  /\ clock = 0
  /\ status = [s \in Seats |-> AvailableRow]
  /\ resv = [r \in Rids |-> NoReservation]
  /\ tickets = {}

(* All the seats asked for, all of one event, or none: none of them sold, and
   none held by anybody.  The time until which they are held was fixed when
   the request came in. *)
Reserve(r, u, e, S, ref, exp) ==
  /\ resv[r] = NoReservation
  /\ S # {} /\ \A s \in S : EventOf[s] = e
  /\ \A s \in S : status[s].st # "sold" /\ ~Held(s)
  /\ exp <= clock + LockDuration
  /\ resv' = [resv EXCEPT ![r] = [st |-> "reserved", user |-> u, event |-> e,
                                  seats |-> S, ref |-> ref, exp |-> exp]]
  /\ status' = [s \in Seats |-> IF s \in S
                                THEN [st |-> "reserved", by |-> u, exp |-> exp]
                                ELSE status[s]]
  /\ UNCHANGED <<clock, tickets>>

(* A reservation is paid once; all its seats are sold and ticketed with it. *)
Pay(r, p, at) ==
  /\ resv[r].st = "reserved"
  /\ at <= clock
  /\ resv' = [resv EXCEPT ![r].st = "paid"]
  /\ status' = [s \in Seats |-> IF s \in resv[r].seats THEN SoldRow ELSE status[s]]
  /\ tickets' = tickets \cup
       {[seat |-> s, rid |-> r, by |-> p, at |-> at] : s \in resv[r].seats}
  /\ UNCHANGED clock

(* Seats whose hold has run out are returned, and only those. *)
Return(S) ==
  /\ \A s \in S : RanOut(s)
  /\ status' = [s \in Seats |-> IF s \in S THEN AvailableRow ELSE status[s]]
  /\ UNCHANGED <<clock, resv, tickets>>

Tick == clock' = clock + 1 /\ UNCHANGED <<status, resv, tickets>>

Next ==
  \/ \E r \in Rids, u \in Users, e \in Events, S \in SUBSET Seats, ref \in Refs, exp \in Times :
       Reserve(r, u, e, S, ref, exp)
  \/ \E r \in Rids, p \in Payments, at \in Times : Pay(r, p, at)
  \/ \E S \in SUBSET Seats : Return(S)
  \/ Tick

Spec == Init /\ [][Next]_vars
=============================================================================
