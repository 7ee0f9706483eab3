-------------------------- MODULE SeatTransactions --------------------------
(***************************************************************************)
(* The three transactions of internal/repository/seet_repo.go that write   *)
(* the seat inventory, at the granularity of their SQL statements:         *)
(*                                                                         *)
(*   CreateReservation          one run per reservation id r               *)
(*   ExecutePaymentTransaction  one run per payment request p              *)
(*   CleanupExpiredSeats        the ticker loop of worker/clean_up.go      *)
(*                                                                         *)
(* They run concurrently under READ COMMITTED.  A transaction sees only    *)
(* what others have committed, so its own writes are kept back until its   *)
(* Commit action; what it does own before that are row locks, taken one    *)
(* row at a time in no fixed order (no query has an ORDER BY).             *)
(***************************************************************************)
EXTENDS Integers, FiniteSets

CONSTANTS
  Seats,            \* rows of the table seats; each has one row in seat_statuses
  Events,           \* events of the inventory
  EventOf,          \* EventOf[s]: the event_id column of seat s
  Users,            \* authenticated user ids
  NoUser,           \* NULL in the column reserved_by
  Refs,             \* what ticket.GenerateTicketRef can draw; draws may collide
  Payments,         \* payment requests that may be made
  Cleaner,          \* the goroutine of the cleanup worker
  Free,             \* the owner of a row nobody has locked
  LockDuration,     \* seetlock.time, in ticks
  MaxReservations,  \* bound: how many reservation requests are made
  MaxClock          \* bound: the last instant of the model

Rids == 1 .. MaxReservations     \* primary keys of reservations, from a sequence
Times == 0 .. MaxClock
NoTime == -1                     \* NULL in the column expires_at
Transactions == Rids \cup Payments \cup {Cleaner}

ASSUME ConstantsAssumption ==
  /\ EventOf \in [Seats -> Events]
  /\ NoUser \notin Users
  /\ LockDuration \in Nat \ {0} /\ MaxReservations \in Nat /\ MaxClock \in Nat
  /\ Free \notin Transactions /\ Cleaner \notin Rids \cup Payments
  /\ Rids \cap Payments = {}

VARIABLES
  clock,       \* time.Now(); one clock, the application and its database share it
  status,      \* committed rows of seat_statuses
  resv,        \* rows of reservations joined with their reservation_seats
  tickets,     \* committed rows of tickets
  seatLock,    \* seatLock[s]: the reservation that holds seats row s FOR UPDATE
  keyLock,     \* keyLock[s]: the payments that hold seats row s FOR KEY SHARE
  statusLock,  \* statusLock[s]: the transaction that owns the seat_statuses row
  resvLock,    \* resvLock[r]: the payment that holds the reservation FOR UPDATE
  rpc,         \* progress of each CreateReservation
  pay,         \* progress and local variables of each payment transaction
  sweep        \* progress and local variables of the running cleanup

locks == <<seatLock, keyLock, statusLock, resvLock>>
vars == <<clock, status, resv, tickets, locks, rpc, pay, sweep>>

StatusRow == [st : {"available", "reserved", "sold"},
              by : Users \cup {NoUser}, exp : Times \cup {NoTime}]
Row(st, by, exp) == [st |-> st, by |-> by, exp |-> exp]
AvailableRow == Row("available", NoUser, NoTime)
SoldRow == Row("sold", NoUser, NoTime)

(* "open" is a row its own transaction has inserted and not committed. *)
Committed(r) == resv[r].st \in {"reserved", "paid"}
NoReservation == [st |-> "none"]
Reservation == [st : {"open", "reserved", "paid"}, user : Users, event : Events,
                seats : (SUBSET Seats) \ {{}}, ref : Refs, exp : Times]
Ticket == [seat : Seats, rid : Rids, by : Payments, at : Times]

NoPayment(pc) == [pc |-> pc]
Payment == [pc : {"locking", "selling", "inserting"}, user : Users, rid : Rids,
            now : Times, at : Times]

TypeOK ==
  /\ clock \in Times
  /\ status \in [Seats -> StatusRow]
  /\ resv \in [Rids -> Reservation \cup {NoReservation}]
  /\ tickets \subseteq Ticket
  /\ seatLock \in [Seats -> Rids \cup {Free}]
  /\ keyLock \in [Seats -> SUBSET Payments]
  /\ statusLock \in [Seats -> Transactions \cup {Free}]
  /\ resvLock \in [Rids -> Payments \cup {Free}]
  /\ rpc \in [Rids -> {"idle", "open", "valid", "done", "failed"}]
  /\ pay \in [Payments -> Payment \cup {NoPayment(pc) : pc \in {"idle", "done", "failed"}}]
  /\ sweep \in [on : BOOLEAN, now : Times, todo : SUBSET Seats]

Init ==
  /\ clock = 0
  /\ status = [s \in Seats |-> AvailableRow]
  /\ resv = [r \in Rids |-> NoReservation]
  /\ tickets = {}
  /\ seatLock = [s \in Seats |-> Free]
  /\ keyLock = [s \in Seats |-> {}]
  /\ statusLock = [s \in Seats |-> Free]
  /\ resvLock = [r \in Rids |-> Free]
  /\ rpc = [r \in Rids |-> "idle"]
  /\ pay = [p \in Payments |-> NoPayment("idle")]
  /\ sweep = [on |-> FALSE, now |-> 0, todo |-> {}]

(* Mutant: the end of a transaction forgets the rows of seat_statuses. *)
ReleaseForgetsStatuses(t) ==
  /\ seatLock' = [s \in Seats |-> IF seatLock[s] = t THEN Free ELSE seatLock[s]]
  /\ keyLock' = [s \in Seats |-> keyLock[s] \ {t}]
  /\ resvLock' = [r \in Rids |-> IF resvLock[r] = t THEN Free ELSE resvLock[r]]
  /\ UNCHANGED statusLock

(* COMMIT and ROLLBACK both give back every row lock of transaction t. *)
Release(t) ==
  /\ seatLock' = [s \in Seats |-> IF seatLock[s] = t THEN Free ELSE seatLock[s]]
  /\ keyLock' = [s \in Seats |-> keyLock[s] \ {t}]
  /\ statusLock' = [s \in Seats |-> IF statusLock[s] = t THEN Free ELSE statusLock[s]]
  /\ resvLock' = [r \in Rids |-> IF resvLock[r] = t THEN Free ELSE resvLock[r]]

LockStatusRow(t, s) ==
  /\ statusLock[s] = Free
  /\ statusLock' = [statusLock EXCEPT ![s] = t]

-----------------------------------------------------------------------------
(* CreateReservation.                                                      *)

(* WHERE event_id = ? AND seat_number IN ?: a number asked for that the
   event does not have is, here, a seat of another event. *)
Found(r) == {s \in resv[r].seats : EventOf[s] = resv[r].event}
SeatsLocked(r) == \A s \in Found(r) : seatLock[s] = r
(* Mutant: the statuses are read without FOR UPDATE. *)
StatusesReadUnlocked(r) == SeatsLocked(r) /\ Found(r) = resv[r].seats
StatusesLocked(r) == \A s \in resv[r].seats : statusLock[s] = r

(* Mutants: one of the two refusals is missing. *)
ReservableThoughHeld(row, now) == row.st # "sold"
ReservableThoughSold(row, now) ==
  ~(row.st = "reserved" /\ row.exp # NoTime /\ row.exp > now)

(* Neither sold nor held: expires_at strictly after time.Now() is a hold. *)
Reservable(row, now) ==
  /\ row.st # "sold"
  /\ ~(row.st = "reserved" /\ row.exp # NoTime /\ row.exp > now)

(* BEGIN; INSERT INTO reservations.  Ids come from a sequence, in order. *)
BeginReservation(r) ==
  /\ rpc[r] = "idle"
  /\ \A q \in Rids : q < r => rpc[q] # "idle"
  /\ clock + LockDuration < MaxClock
  /\ \E u \in Users, e \in Events, asked \in (SUBSET Seats) \ {{}}, ref \in Refs :
       resv' = [resv EXCEPT ![r] =
                 [st |-> "open", user |-> u, event |-> e, seats |-> asked,
                  ref |-> ref, exp |-> clock + LockDuration]]
  /\ rpc' = [rpc EXCEPT ![r] = "open"]
  /\ UNCHANGED <<clock, status, tickets, locks, pay, sweep>>

(* SELECT ... FROM seats ... FOR UPDATE locks one more row. *)
LockSeat(r, s) ==
  /\ rpc[r] = "open"
  /\ s \in Found(r)
  /\ seatLock[s] = Free /\ keyLock[s] = {}
  /\ seatLock' = [seatLock EXCEPT ![s] = r]
  /\ UNCHANGED <<clock, status, resv, tickets, keyLock, statusLock, resvLock, rpc, pay, sweep>>

(* Mutant: an early return that does not roll back. *)
FailReservationKeepsLocks(r) ==
  /\ rpc' = [rpc EXCEPT ![r] = "failed"]
  /\ resv' = [resv EXCEPT ![r] = NoReservation]
  /\ UNCHANGED <<clock, status, tickets, locks, pay, sweep>>

FailReservation(r) ==
  /\ rpc' = [rpc EXCEPT ![r] = "failed"]
  /\ resv' = [resv EXCEPT ![r] = NoReservation]
  /\ Release(r)
  /\ UNCHANGED <<clock, status, tickets, pay, sweep>>

(* len(seats) != len(seatNumbers): 404 *)
SeatsNotFound(r) ==
  /\ rpc[r] = "open"
  /\ SeatsLocked(r) /\ Found(r) # resv[r].seats
  /\ FailReservation(r)

(* Mutant: the statuses are locked before the seats. *)
LockStatusFirst(r, s) ==
  /\ rpc[r] = "open"
  /\ s \in resv[r].seats
  /\ LockStatusRow(r, s)
  /\ UNCHANGED <<clock, status, resv, tickets, seatLock, keyLock, resvLock, rpc, pay, sweep>>

(* INSERT INTO reservation_seats, then SELECT ... FROM seat_statuses ...
   FOR UPDATE locks one more row. *)
LockStatus(r, s) ==
  /\ rpc[r] = "open"
  /\ SeatsLocked(r) /\ Found(r) = resv[r].seats
  /\ s \in resv[r].seats
  /\ LockStatusRow(r, s)
  /\ UNCHANGED <<clock, status, resv, tickets, seatLock, keyLock, resvLock, rpc, pay, sweep>>

(* The loop over the statuses finds a sold or a held seat: 409 *)
SeatConflict(r) ==
  /\ rpc[r] = "open"
  /\ StatusesLocked(r)
  /\ \E s \in resv[r].seats : ~Reservable(status[s], clock)
  /\ FailReservation(r)

Validate(r) ==
  /\ rpc[r] = "open"
  /\ StatusesLocked(r)
  /\ \A s \in resv[r].seats : Reservable(status[s], clock)
  /\ rpc' = [rpc EXCEPT ![r] = "valid"]
  /\ UNCHANGED <<clock, status, resv, tickets, locks, pay, sweep>>

(* UPDATE seat_statuses, row by row, and COMMIT *)
CommitReservation(r) ==
  /\ rpc[r] = "valid"
  /\ status' = [s \in Seats |-> IF s \in resv[r].seats
                                THEN Row("reserved", resv[r].user, resv[r].exp)
                                ELSE status[s]]
  /\ resv' = [resv EXCEPT ![r].st = "reserved"]
  /\ rpc' = [rpc EXCEPT ![r] = "done"]
  /\ Release(r)
  /\ UNCHANGED <<clock, tickets, pay, sweep>>

-----------------------------------------------------------------------------
(* ExecutePaymentTransaction.                                              *)

(* WHERE event_id = ? AND seat_id IN (SELECT seat_id FROM reservation_seats) *)
SeatsOf(r) == {s \in resv[r].seats : EventOf[s] = resv[r].event}

EndPayment(p, pc) == pay' = [pay EXCEPT ![p] = NoPayment(pc)]

(* now := time.Now(), then the row that First finds: the lowest id among the
   committed reservations with that ref.  None is a 404. *)
BeginPayment(p) ==
  /\ pay[p].pc = "idle"
  /\ \E u \in Users, ref \in Refs :
       LET matches == {r \in Rids : Committed(r) /\ resv[r].ref = ref}
       IN  \/ /\ matches = {}
              /\ EndPayment(p, "failed")
           \/ \E r \in matches :
                /\ \A q \in matches : r <= q
                /\ pay' = [pay EXCEPT ![p] = [pc |-> "locking", user |-> u, rid |-> r,
                                              now |-> clock, at |-> 0]]
  /\ UNCHANGED <<clock, status, resv, tickets, locks, rpc, sweep>>

(* Mutant: a second payment is not refused. *)
PayableAgain(r, user, now) == resv[r].user = user /\ resv[r].exp >= now

Payable(r, user, now) ==
  /\ resv[r].user = user
  /\ resv[r].exp >= now
  /\ resv[r].st # "paid"

(* The FOR UPDATE of that SELECT gets its row: 403, 410 and 409 ... *)
RejectPayment(p) ==
  /\ pay[p].pc = "locking"
  /\ resvLock[pay[p].rid] = Free
  /\ ~Payable(pay[p].rid, pay[p].user, pay[p].now)
  /\ EndPayment(p, "failed")
  /\ UNCHANGED <<clock, status, resv, tickets, locks, rpc, sweep>>

(* ... or the reservation is marked paid, in this transaction only. *)
LockReservation(p) ==
  /\ pay[p].pc = "locking"
  /\ resvLock[pay[p].rid] = Free
  /\ Payable(pay[p].rid, pay[p].user, pay[p].now)
  /\ resvLock' = [resvLock EXCEPT ![pay[p].rid] = p]
  /\ pay' = [pay EXCEPT ![p].pc = "selling"]
  /\ UNCHANGED <<clock, status, resv, tickets, seatLock, keyLock, statusLock, rpc, sweep>>

(* UPDATE seat_statuses SET status = 'sold' reaches one more row. *)
SellSeat(p, s) ==
  /\ pay[p].pc = "selling"
  /\ s \in SeatsOf(pay[p].rid)
  /\ LockStatusRow(p, s)
  /\ UNCHANGED <<clock, status, resv, tickets, seatLock, keyLock, resvLock, rpc, pay, sweep>>

(* The rows of INSERT INTO tickets get their created_at. *)
StampTickets(p) ==
  /\ pay[p].pc = "selling"
  /\ \A s \in SeatsOf(pay[p].rid) : statusLock[s] = p
  /\ pay' = [pay EXCEPT ![p].pc = "inserting", ![p].at = clock]
  /\ UNCHANGED <<clock, status, resv, tickets, locks, rpc, sweep>>

(* The foreign key tickets.seat_id share-locks the key of one more seat. *)
ShareSeatKey(p, s) ==
  /\ pay[p].pc = "inserting"
  /\ s \in SeatsOf(pay[p].rid) /\ p \notin keyLock[s]
  /\ seatLock[s] = Free
  /\ keyLock' = [keyLock EXCEPT ![s] = @ \cup {p}]
  /\ UNCHANGED <<clock, status, resv, tickets, seatLock, statusLock, resvLock, rpc, pay, sweep>>

CommitPayment(p) ==
  LET r == pay[p].rid IN
  /\ pay[p].pc = "inserting"
  /\ \A s \in SeatsOf(r) : p \in keyLock[s]
  /\ resv' = [resv EXCEPT ![r].st = "paid"]
  /\ status' = [s \in Seats |-> IF s \in SeatsOf(r) THEN SoldRow ELSE status[s]]
  /\ tickets' = tickets \cup
       {[seat |-> s, rid |-> r, by |-> p, at |-> pay[p].at] : s \in SeatsOf(r)}
  /\ EndPayment(p, "done")
  /\ Release(p)
  /\ UNCHANGED <<clock, rpc, sweep>>

-----------------------------------------------------------------------------
(* CleanupExpiredSeats: one UPDATE.  The rows it goes through are those its
   snapshot selects; PostgreSQL re-checks WHERE on each once it is locked.  *)

(* Mutant: every hold is swept. *)
ExpiredAtOnce(row, now) == row.st = "reserved" /\ row.exp # NoTime

Expired(row, now) == row.st = "reserved" /\ row.exp # NoTime /\ row.exp < now

(* A sweep that selects no row changes nothing and is left out. *)
BeginCleanup ==
  /\ ~sweep.on
  /\ \E s \in Seats : Expired(status[s], clock)
  /\ sweep' = [on |-> TRUE, now |-> clock,
               todo |-> {s \in Seats : Expired(status[s], clock)}]
  /\ UNCHANGED <<clock, status, resv, tickets, locks, rpc, pay>>

CleanRow(s) ==
  /\ sweep.on /\ s \in sweep.todo
  /\ statusLock[s] = Free
  /\ \/ /\ Expired(status[s], sweep.now)
        /\ LockStatusRow(Cleaner, s)
     \/ /\ ~Expired(status[s], sweep.now)
        /\ UNCHANGED statusLock
  /\ sweep' = [sweep EXCEPT !.todo = @ \ {s}]
  /\ UNCHANGED <<clock, status, resv, tickets, seatLock, keyLock, resvLock, rpc, pay>>

EndCleanup ==
  /\ sweep' = [on |-> FALSE, now |-> 0, todo |-> {}]
  /\ Release(Cleaner)
  /\ UNCHANGED <<clock, resv, tickets, rpc, pay>>

(* Mutants: the UPDATE writes a status of another table, or no status. *)
CommitCleanupMarksExpired ==
  /\ sweep.on /\ sweep.todo = {}
  /\ status' = [s \in Seats |-> IF statusLock[s] = Cleaner
                                THEN Row("expired", NoUser, NoTime) ELSE status[s]]
  /\ EndCleanup

CommitCleanupKeepsStatus ==
  /\ sweep.on /\ sweep.todo = {}
  /\ status' = [s \in Seats |-> IF statusLock[s] = Cleaner
                                THEN Row("reserved", NoUser, NoTime) ELSE status[s]]
  /\ EndCleanup

CommitCleanup ==
  /\ sweep.on /\ sweep.todo = {}
  /\ status' = [s \in Seats |-> IF statusLock[s] = Cleaner THEN AvailableRow ELSE status[s]]
  /\ EndCleanup

-----------------------------------------------------------------------------
(* Failures.  A statement that fails, a lost connection or a crash of the
   process all roll the transaction back; a client may retry later, with
   another request.  *)

Running(t) ==
  \/ t \in Rids /\ rpc[t] \in {"open", "valid"}
  \/ t \in Payments /\ pay[t].pc \in {"locking", "selling", "inserting"}
  \/ t = Cleaner /\ sweep.on

Rollback(t) ==
  \/ t \in Rids /\ FailReservation(t)
  \/ /\ t \in Payments
     /\ EndPayment(t, "failed")
     /\ Release(t)
     /\ UNCHANGED <<clock, status, resv, tickets, rpc, sweep>>
  \/ t = Cleaner /\ EndCleanup /\ UNCHANGED status

Fail(t) == Running(t) /\ Rollback(t)

(* What t still has to lock, as the sets of transactions that keep it from
   each row; t is blocked when it has no free row to go on with. *)
BlockersOf(t) ==
  IF t \in Rids
  THEN IF rpc[t] # "open" THEN {}
       ELSE IF ~SeatsLocked(t)
       THEN {({seatLock[s]} \cup keyLock[s]) \ {Free} : s \in {x \in Found(t) : seatLock[x] # t}}
       ELSE IF Found(t) # resv[t].seats THEN {}
       ELSE {{statusLock[s]} \ {Free} : s \in {x \in resv[t].seats : statusLock[x] # t}}
  ELSE IF t = Cleaner
  THEN {{statusLock[s]} \ {Free} : s \in sweep.todo}
  ELSE CASE pay[t].pc = "locking" -> {{resvLock[pay[t].rid]} \ {Free}}
         [] pay[t].pc = "selling" ->
              {{statusLock[s]} \ {Free} : s \in {x \in SeatsOf(pay[t].rid) : statusLock[x] # t}}
         [] pay[t].pc = "inserting" ->
              {{seatLock[s]} \ {Free} : s \in {x \in SeatsOf(pay[t].rid) : t \notin keyLock[x]}}
         [] OTHER -> {}

(* Transactions each of which waits for some other of them ... *)
Stuck(D) ==
  /\ D # {}
  /\ \A t \in D : /\ Running(t) /\ BlockersOf(t) # {}
                  /\ \A B \in BlockersOf(t) : B \cap D # {}

(* ... and among them none that merely waits for a cycle of others. *)
Deadlocked(D) == Stuck(D) /\ \A C \in SUBSET D : Stuck(C) => C = D

(* PostgreSQL's deadlock detector picks a victim: its statement fails. *)
DeadlockVictim(t) ==
  /\ \E D \in SUBSET Transactions : t \in D /\ Deadlocked(D)
  /\ Rollback(t)

Tick ==
  /\ clock < MaxClock
  /\ clock' = clock + 1
  /\ UNCHANGED <<status, resv, tickets, locks, rpc, pay, sweep>>

-----------------------------------------------------------------------------
ReservationStep(r) ==
  \/ \E s \in Seats : LockSeat(r, s) \/ LockStatus(r, s)
  \/ SeatsNotFound(r) \/ SeatConflict(r) \/ Validate(r) \/ CommitReservation(r)

PaymentStep(p) ==
  \/ \E s \in Seats : SellSeat(p, s) \/ ShareSeatKey(p, s)
  \/ RejectPayment(p) \/ LockReservation(p) \/ StampTickets(p) \/ CommitPayment(p)

CleanupStep == BeginCleanup \/ (\E s \in Seats : CleanRow(s)) \/ CommitCleanup

Next ==
  \/ \E r \in Rids : BeginReservation(r) \/ ReservationStep(r)
  \/ \E p \in Payments : BeginPayment(p) \/ PaymentStep(p)
  \/ CleanupStep
  \/ \E t \in Transactions : Fail(t) \/ DeadlockVictim(t)
  \/ Tick

Spec == Init /\ [][Next]_vars

-----------------------------------------------------------------------------
(* Fairness.  Time passes, every statement of a running transaction is
   executed once the rows it needs are free, the ticker goes on firing, the
   deadlock detector runs, and the cleanup, which is retried on every tick,
   does not fail for ever.  Requests are under no obligation: a client may
   never ask, and any transaction may fail at any time. *)
Fairness ==
  /\ WF_vars(Tick)
  /\ \A r \in Rids : WF_vars(ReservationStep(r))
  /\ \A p \in Payments : WF_vars(PaymentStep(p))
  /\ WF_vars(CleanupStep)
  /\ WF_vars(\E t \in Transactions : DeadlockVictim(t))
  /\ <>[][~Fail(Cleaner)]_vars

FairSpec == Spec /\ Fairness

-----------------------------------------------------------------------------
(* What must hold.                                                         *)

(* Two reservations that have both been committed and not yet run out never
   cover the same seat, whatever has been paid meanwhile: the re-check under
   FOR UPDATE in CreateReservation is what keeps a held seat from being held
   twice. *)
LiveHoldsDisjoint ==
  \A q, r \in Rids :
    /\ q # r /\ Committed(q) /\ Committed(r)
    /\ resv[q].exp > clock /\ resv[r].exp > clock
    => resv[q].seats \cap resv[r].seats = {}

(* As long as a reservation has time left, each of its seats is either still
   held by it, for its user and until its expiry, or sold: neither another
   reservation nor the cleanup takes a seat away early. *)
LiveHoldIsHonoured ==
  \A r \in Rids : Committed(r) /\ resv[r].exp > clock =>
    \A s \in resv[r].seats :
      status[s] \in {Row("reserved", resv[r].user, resv[r].exp), SoldRow}

(* Payment is all or nothing and happens once: a paid reservation has exactly
   one ticket for each of its seats, all of them written by one payment
   request however many raced or were retried, and those seats are sold; a
   reservation that is not paid has no ticket. *)
PaidExactlyOnce ==
  \A r \in Rids :
    LET own == {t \in tickets : t.rid = r} IN
    IF resv[r].st = "paid"
    THEN \E p \in Payments :
           /\ \A s \in resv[r].seats :
                status[s].st = "sold" /\ \E t \in own : t.seat = s
           /\ \A t \in own : t.by = p /\ t.seat \in resv[r].seats
           /\ \A t, u \in own : t.seat = u.seat => t = u
    ELSE own = {}

(* A seat is issued twice only to a late payment: of two tickets for one seat
   at least one was written when its own reservation had already run out. *)
TimelyTicketsDisjoint ==
  \A t, u \in tickets :
    /\ t.seat = u.seat /\ t.at < resv[t.rid].exp /\ u.at < resv[u.rid].exp
    => t = u

(* The k6 scenario of the README, many users after one seat: reservations of
   a single seat never deadlock with one another or with the cleanup; only a
   payment, which locks seat_statuses before seats, can close the cycle. *)
SingleSeatContentionIsDeadlockFree ==
  \A D \in SUBSET (Rids \cup {Cleaner}) :
    (\A r \in D \ {Cleaner} : Running(r) /\ \E s \in Seats : resv[r].seats = {s})
    => ~Deadlocked(D)

(* The parts of LocksAreOwned: rows of seats and seat_statuses, the rows of
   reservations with the payments that have them, and how far a request has
   got with the row it has inserted. *)
SeatRowsOwned ==
  \A s \in Seats :
    /\ seatLock[s] # Free => Running(seatLock[s])
    /\ statusLock[s] # Free => Running(statusLock[s])
    /\ \A p \in keyLock[s] : pay[p].pc = "inserting"
    /\ \A r \in Rids : statusLock[s] = r => Found(r) = resv[r].seats
    /\ \A p \in Payments : statusLock[s] = p =>
         pay[p].pc \in {"selling", "inserting"} /\ s \in SeatsOf(pay[p].rid)

PaidRowsOwned ==
  /\ \A r \in Rids : resvLock[r] # Free =>
       pay[resvLock[r]].pc \in {"selling", "inserting"} /\ pay[resvLock[r]].rid = r
  /\ \A p \in Payments :
       /\ Running(p) => Committed(pay[p].rid)
       /\ pay[p].pc \in {"selling", "inserting"} => resvLock[pay[p].rid] = p

RequestsOwnTheirRow ==
  \A r \in Rids :
    /\ Running(r) <=> resv[r].st = "open"
    /\ Committed(r) <=> rpc[r] = "done"
    /\ Committed(r) => SeatsOf(r) = resv[r].seats

(* A row lock belongs to a running transaction that works on that row, and a
   payment works on a reservation that is committed and that nobody else pays
   at the same time. *)
LocksAreOwned == SeatRowsOwned /\ PaidRowsOwned /\ RequestsOwnTheirRow

(* The parts of ChecksAreStable: of CreateReservation, of
   ExecutePaymentTransaction and of CleanupExpiredSeats. *)
ValidatedSeatsStayFree ==
  \A r \in Rids : rpc[r] = "valid" =>
    \A s \in resv[r].seats : statusLock[s] = r /\ Reservable(status[s], clock)

SoldRowsAreOwned ==
  \A p \in Payments : pay[p].pc = "inserting" =>
    \A s \in SeatsOf(pay[p].rid) : statusLock[s] = p

SweptRowsAreExpired ==
  /\ \A s \in Seats : statusLock[s] = Cleaner => Expired(status[s], clock)
  /\ sweep.now <= clock

(* What a transaction has checked stays true until its commit, because it has
   the row: a validated reservation finds its seats still free to hold, a
   payment owns every seat it is about to sell, and the cleanup still has an
   expired row in its hands. *)
ChecksAreStable == ValidatedSeatsStayFree /\ SoldRowsAreOwned /\ SweptRowsAreExpired

(* A sold seat stays sold. *)
SoldIsFinal ==
  [][\A s \in Seats : status[s].st = "sold" => status'[s].st = "sold"]_vars

(* While a hold has time left, the only thing that can happen to its seat is
   that it is sold. *)
UnexpiredHoldOnlySold ==
  [][\A s \in Seats :
       status[s].st = "reserved" /\ status[s].exp > clock /\ status'[s] # status[s]
       => status'[s].st = "sold"]_vars

(* The transactions implement the ledger: each takes effect at its commit and
   not at all otherwise.  A row that is not committed is not there. *)
Ledger == INSTANCE SeatLedger WITH
  resv <- [r \in Rids |-> IF Committed(r) THEN resv[r] ELSE NoReservation]
ImplementsLedger == Ledger!Spec

(* README, "Concurrency Guarantee": no seat is ever booked more than once. *)
NoDoubleBooking ==
  \A t, u \in tickets : t.seat = u.seat => t = u

(* Every transaction that has begun ends, whatever it waits for. *)
EveryRequestEnds ==
  /\ \A r \in Rids : rpc[r] = "open" ~> rpc[r] \in {"done", "failed"}
  /\ \A p \in Payments : pay[p].pc = "locking" ~> pay[p].pc \in {"done", "failed"}

(* The hold is over and the seat still counts as reserved. *)
StaleHold(s) == status[s].st = "reserved" /\ status[s].exp < clock

(* A hold that has run out does not stay: the seat is returned by the cleanup,
   unless it has been reserved anew or sold in the meantime. *)
ExpiredHoldIsReturned == \A s \in Seats : StaleHold(s) ~> ~StaleHold(s)
=============================================================================
