---------------------------- MODULE SeatBooking ----------------------------
(***************************************************************************)
(* HoldSeat, ConfirmPayment and GetEventSeatMap of internal/service/       *)
(* seet_service.go with their handlers: what a client is told, and what is *)
(* broadcast, about transactions that have committed.  The transactions    *)
(* are those of SeatLedger, at the instants that it allows; a broadcast is *)
(* a step of its own after the commit.  A process that crashes in between  *)
(* is one in which the requests under way take no further step.            *)
(***************************************************************************)
EXTENDS Integers, FiniteSets

CONSTANTS
  Seats, Events, EventOf, Users, NoUser, Refs, Payments,   \* as in SeatLedger
  NumberOf,         \* seats.seat_number; each event numbers its seats anew
  ConfigKeys,       \* the sections of config.yml
  Configured,       \* the time in its section on seat locks, in ticks
  MaxReservations, MaxClock   \* bounds

(* viper.GetDuration("seetlock.time"): 0 if there is no such key. *)
LockDuration == IF "seetlock" \in ConfigKeys THEN Configured ELSE 0

ASSUME ConstantsAssumption ==
  /\ EventOf \in [Seats -> Events] /\ NoUser \notin Users
  /\ \A s, t \in Seats :
       /\ NumberOf[s] # t
       /\ EventOf[s] = EventOf[t] /\ NumberOf[s] = NumberOf[t] => s = t
  /\ Configured \in Nat /\ MaxReservations \in Nat /\ MaxClock \in Nat

VARIABLES
  clock, status, resv, tickets,   \* the ledger
  hold,        \* progress of the requests that reserve
  pay,         \* progress and local variables of the requests that pay
  sent         \* history: the messages given to the hub

vars == <<clock, status, resv, tickets, hold, pay, sent>>

Ledger == INSTANCE SeatLedger
Rids == Ledger!Rids
Times == Ledger!Times

(* A sale names a seat by a number, or by its id. *)
Message == [kind : {"hold"}, rid : Rids]
    \cup [kind : {"sold"}, by : Payments, event : Events,
          number : {NumberOf[s] : s \in Seats} \cup Seats]
Holding == [pc : {"idle", "begun", "committed", "answered", "failed"}, at : Times]
Paying == [pc : {"begun", "paid", "answered", "refused", "failed"}, user : Users,
           ref : Refs, event : Events, rid : Rids \cup {0}, now : Times,
           told : SUBSET Rids]

TypeOK ==
  /\ clock \in Times
  /\ \A s \in Seats : status[s].st \in {"available", "reserved", "sold"}
  /\ \A t \in tickets : resv[t.rid].st = "paid"
  /\ hold \in [Rids -> Holding]
  /\ pay \in [Payments -> Paying \cup {[pc |-> "idle"]}]
  /\ sent \subseteq Message

Init ==
  /\ Ledger!Init
  /\ hold = [r \in Rids |-> [pc |-> "idle", at |-> 0]]
  /\ pay = [p \in Payments |-> [pc |-> "idle"]]
  /\ sent = {}

-----------------------------------------------------------------------------
(* HoldSeat: the request fixes the end of the hold, and its row takes an id. *)
BeginHold(r) ==
  /\ hold[r].pc = "idle" /\ \A q \in Rids : q < r => hold[q].pc # "idle"
  /\ clock + LockDuration <= MaxClock
  /\ hold' = [hold EXCEPT ![r] = [pc |-> "begun", at |-> clock]]
  /\ UNCHANGED <<clock, status, resv, tickets, pay, sent>>

(* Its transaction commits, however long it has waited for the rows. *)
CommitHold(r) ==
  /\ hold[r].pc = "begun"
  /\ \E u \in Users, e \in Events, S \in SUBSET Seats, ref \in Refs :
       Ledger!Reserve(r, u, e, S, ref, hold[r].at + LockDuration)
  /\ hold' = [hold EXCEPT ![r].pc = "committed"]
  /\ UNCHANGED <<pay, sent>>

(* 404, 409 or 500: the transaction is rolled back. *)
FailHold(r) ==
  /\ hold[r].pc = "begun"
  /\ hold' = [hold EXCEPT ![r].pc = "failed"]
  /\ UNCHANGED <<clock, status, resv, tickets, pay, sent>>

(* The message is the row of reservations: it does not name the seats. *)
AnnounceHold(r) ==
  /\ hold[r].pc = "committed"
  /\ sent' = sent \cup {[kind |-> "hold", rid |-> r]}
  /\ hold' = [hold EXCEPT ![r].pc = "answered"]
  /\ UNCHANGED <<clock, status, resv, tickets, pay>>

-----------------------------------------------------------------------------
Committed(r) == resv[r].st # "none"

(* ConfirmPayment: the transaction takes the time and the reservation that
   has the lowest id among those with the ref.  The event is whatever the
   client sends.  told: the reservations with that ref that this user has been
   told of by then, for the properties. *)
BeginPay(p) ==
  /\ pay[p].pc = "idle"
  /\ \E u \in Users, ref \in Refs, e \in Events :
       LET matches == {r \in Rids : Committed(r) /\ resv[r].ref = ref} IN
       \E r \in matches \cup {0} :
         /\ r = 0 <=> matches = {}
         /\ \A q \in matches : r <= q
         /\ pay' = [pay EXCEPT ![p] =
              [pc |-> IF r = 0 THEN "refused" ELSE "begun", user |-> u, ref |-> ref,
               event |-> e, rid |-> r, now |-> clock,
               told |-> {q \in matches : resv[q].user = u /\ hold[q].pc = "answered"}]]
  /\ UNCHANGED <<clock, status, resv, tickets, hold, sent>>

(* Mutant: a hold is over at its last instant. *)
PayableBefore(r, u, now) == resv[r].user = u /\ resv[r].exp > now /\ resv[r].st # "paid"

Payable(r, u, now) == resv[r].user = u /\ resv[r].exp >= now /\ resv[r].st # "paid"

(* Mutant: the tickets are made, and the reservation is not marked. *)
SettlePayUnmarked(p) ==
  /\ pay[p].pc = "begun"
  /\ resv[pay[p].rid].user = pay[p].user
  /\ tickets' = tickets \cup
       {[seat |-> s, rid |-> pay[p].rid, by |-> p, at |-> clock] : s \in resv[pay[p].rid].seats}
  /\ pay' = [pay EXCEPT ![p].pc = "paid"]
  /\ UNCHANGED <<clock, status, resv, hold, sent>>

SettlePay(p) ==
  /\ pay[p].pc = "begun"
  /\ \/ /\ Payable(pay[p].rid, pay[p].user, pay[p].now)
        /\ Ledger!Pay(pay[p].rid, p, clock)
        /\ pay' = [pay EXCEPT ![p].pc = "paid"]
     \/ /\ ~Payable(pay[p].rid, pay[p].user, pay[p].now)
        /\ UNCHANGED <<clock, status, resv, tickets>>
        /\ pay' = [pay EXCEPT ![p].pc = "refused"]
  /\ UNCHANGED <<hold, sent>>

(* The transaction is rolled back: 500. *)
FailPay(p) ==
  /\ pay[p].pc = "begun"
  /\ pay' = [pay EXCEPT ![p].pc = "failed"]
  /\ UNCHANGED <<clock, status, resv, tickets, hold, sent>>

(* What GetTicketByRef may find: First goes by an id that says nothing of the
   order of one reservation's seats. *)
WithRef(ref) == {t \in tickets : resv[t.rid].ref = ref}

(* The number of the seat of that ticket; or, when it cannot be reloaded, the
   id of the seat of the last ticket made. *)
NamedAfter(p) ==
  {NumberOf[t.seat] : t \in WithRef(pay[p].ref)}
    \cup {t.seat : t \in {x \in tickets : x.by = p}}

(* Mutant: the broadcast is made before the transaction. *)
AnnouncePayFirst(p) ==
  /\ pay[p].pc = "begun"
  /\ \E s \in resv[pay[p].rid].seats :
       sent' = sent \cup {[kind |-> "sold", by |-> p, event |-> pay[p].event,
                           number |-> NumberOf[s]]}
  /\ UNCHANGED <<clock, status, resv, tickets, hold, pay>>

AnnouncePay(p) ==
  /\ pay[p].pc = "paid"
  /\ \E n \in NamedAfter(p) :
       sent' = sent \cup {[kind |-> "sold", by |-> p, event |-> pay[p].event, number |-> n]}
  /\ pay' = [pay EXCEPT ![p].pc = "answered"]
  /\ UNCHANGED <<clock, status, resv, tickets, hold>>

-----------------------------------------------------------------------------
(* CleanupExpiredSeats announces nothing. *)
Cleanup ==
  LET over == {s \in Seats : Ledger!RanOut(s)} IN
  /\ over # {} /\ Ledger!Return(over)
  /\ UNCHANGED <<hold, pay, sent>>

Tick == clock < MaxClock /\ Ledger!Tick /\ UNCHANGED <<hold, pay, sent>>

Next ==
  \/ \E r \in Rids : BeginHold(r) \/ CommitHold(r) \/ FailHold(r) \/ AnnounceHold(r)
  \/ \E p \in Payments : BeginPay(p) \/ SettlePay(p) \/ FailPay(p) \/ AnnouncePay(p)
  \/ Cleanup \/ Tick

Spec == Init /\ [][Next]_vars

-----------------------------------------------------------------------------
(* Mutant: the seat map lets a hold go at its last instant. *)
ShownEarly(s) ==
  IF status[s].st = "reserved" /\ status[s].exp <= clock THEN "available" ELSE status[s].st

(* GetEventSeatMap, at time.Now(). *)
Shown(s) ==
  IF status[s].st = "reserved" /\ status[s].exp < clock THEN "available" ELSE status[s].st

(* A reservation of the seat was over before now. *)
OverBefore(s) == \E q \in Rids : Committed(q) /\ s \in resv[q].seats /\ resv[q].exp < clock

(* What GetEventSeatMap shows, against what CreateReservation and
   ExecutePaymentTransaction would do at that instant.  An available seat would
   be reserved, and nobody who comes now could still pay for it: unless it is
   the last instant of a hold and the seat was taken in that very instant by a
   reservation that had been under way until its own time was over.  A
   reserved seat could be paid for by whoever the row names.  A sold seat has
   a ticket.  (A payment under way may yet sell a seat that was shown as
   available: TimelyTicketsDisjoint and NoDoubleBooking of SeatTransactions
   say what that leads to.) *)
SeatMapIsTrue ==
  \A s \in Seats :
    /\ Shown(s) = "available" =>
         /\ status[s].st # "sold" /\ ~Ledger!Held(s)
         /\ \A r \in Rids :
              Committed(r) /\ s \in resv[r].seats /\ Payable(r, resv[r].user, clock) =>
                resv[r].exp = clock /\ OverBefore(s)
    /\ Shown(s) = "reserved" =>
         \E r \in Rids : Committed(r) /\ s \in resv[r].seats /\ Payable(r, status[s].by, clock)
    /\ Shown(s) = "sold" => \E t \in tickets : t.seat = s

(* Whoever has been told of a reservation can pay for it until the duration
   has passed since the request to reserve, and not since its answer: a
   payment with that ref is refused only if the reservation has been paid, if
   the payment came later, or if an older reservation drew the same ref. *)
TimelyPaymentIsAccepted ==
  \A p \in Payments : pay[p].pc = "refused" =>
    \A r \in pay[p].told :
      \/ resv[r].st = "paid"
      \/ pay[p].now > hold[r].at + LockDuration
      \/ \E q \in Rids : q < r /\ Committed(q) /\ resv[q].ref = resv[r].ref

(* The seats that a client makes out from a message. *)
Means(m) == {s \in Seats : s = m.number \/ (EventOf[s] = m.event /\ NumberOf[s] = m.number)}

(* What is announced as sold is sold, provided the client sent the event of
   its reservation and the ref was drawn only once. *)
SalesAnnouncedAreTrue ==
  \A m \in sent : m.kind = "sold" =>
    LET r == pay[m.by].rid IN
    \/ m.event # resv[r].event
    \/ \E q \in Rids : q # r /\ Committed(q) /\ resv[q].ref = resv[r].ref
    \/ \A s \in Means(m) : status[s].st = "sold"
=============================================================================
