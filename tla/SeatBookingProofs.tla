------------------------- MODULE SeatBookingProofs --------------------------
(***************************************************************************)
(* Proofs about SeatBooking: the seat map, the acceptance of payments and  *)
(* the truth of announced sales, for any number of seats, events, users,   *)
(* reservations and payments.                                              *)
(***************************************************************************)
EXTENDS SeatBooking, TLAPS

StatusRow == [st : {"available", "reserved", "sold"}, by : Users \cup {NoUser},
              exp : Times \cup {-1}]
Reservation == [st : {"reserved", "paid"}, user : Users, event : Events,
                seats : SUBSET Seats, ref : Refs, exp : Times]
Ticket == [seat : Seats, rid : Rids, by : Payments, at : Times]

LedgerTyped ==
  /\ status \in [Seats -> StatusRow]
  /\ resv \in [Rids -> Reservation \cup {Ledger!NoReservation}]
  /\ tickets \subseteq Ticket

(* A reservation is one that HoldSeat has committed, and its seats are all of
   its event.  Its expiry was fixed when the request began. *)
HoldsAreReservations ==
  \A r \in Rids :
    /\ Committed(r) <=> hold[r].pc \in {"committed", "answered"}
    /\ hold[r].pc # "idle" => hold[r].at + LockDuration \in Times
    /\ Committed(r) => /\ resv[r].exp = hold[r].at + LockDuration
                       /\ \A s \in resv[r].seats : EventOf[s] = resv[r].event

(* Until a hold has run out its seats are sold, or reserved for as long at
   least, be it by somebody who came at its last instant; or somebody came at
   that instant whose own time was over already. *)
Keeps(r, s) ==
  \/ status[s].st = "sold"
  \/ status[s].st = "reserved" /\ status[s].exp >= resv[r].exp
  \/ resv[r].exp = clock /\ OverBefore(s)
HeldOrTakenOver ==
  \A r \in Rids : Committed(r) /\ resv[r].exp >= clock =>
    \A s \in resv[r].seats : Keeps(r, s)

(* A reserved row is that of a reservation that can still be paid, a sold one
   that of a ticket. *)
RowOf(s, r) ==
  /\ Committed(r) /\ resv[r].st # "paid" /\ s \in resv[r].seats
  /\ resv[r].user = status[s].by /\ resv[r].exp = status[s].exp
RowsAreAccounted ==
  \A s \in Seats :
    /\ status[s].st = "reserved" => \E r \in Rids : RowOf(s, r)
    /\ status[s].st = "sold" => \E t \in tickets : t.seat = s

(* Whoever was told of a reservation before paying made the payment find it,
   or an older one with its ref. *)
ToldAreFound ==
  \A p \in Payments : pay[p].pc # "idle" =>
    \A r \in pay[p].told :
      /\ Committed(r) /\ resv[r].user = pay[p].user /\ resv[r].ref = pay[p].ref
      /\ pay[p].rid # 0 /\ pay[p].rid <= r

(* What a payment has found stays committed under the ref that it asked for;
   what it has paid stays paid. *)
Found(p) == pay[p].pc # "idle" /\ pay[p].rid # 0
PaymentsFound ==
  \A p \in Payments :
    /\ Found(p) => Committed(pay[p].rid) /\ resv[pay[p].rid].ref = pay[p].ref
    /\ pay[p].pc \in {"begun", "paid", "answered"} => Found(p)
    /\ pay[p].pc \in {"paid", "answered"} => resv[pay[p].rid].st = "paid"

(* Tickets are for sold seats of the reservation that was paid. *)
TicketsAreSales ==
  \A t \in tickets :
    /\ status[t.seat].st = "sold" /\ t.seat \in resv[t.rid].seats
    /\ resv[t.rid].st = "paid"
    /\ pay[t.by].pc \in {"paid", "answered"} /\ pay[t.by].rid = t.rid

SendersHaveAnswered ==
  \A m \in sent : m.kind = "sold" => pay[m.by].pc = "answered"

IInv ==
  /\ TypeOK /\ LedgerTyped
  /\ HoldsAreReservations /\ HeldOrTakenOver /\ RowsAreAccounted
  /\ PaymentsFound /\ ToldAreFound /\ TicketsAreSales /\ SendersHaveAnswered
  /\ SalesAnnouncedAreTrue
  /\ TimelyPaymentIsAccepted
-----------------------------------------------------------------------------
LEMMA LockDurationTyped == LockDuration \in Nat
  BY ConstantsAssumption DEF LockDuration

LEMMA NoReservationIsNone == Ledger!NoReservation \notin Reservation /\ 0 \notin Rids
  BY ConstantsAssumption DEF Ledger!NoReservation, Reservation, Rids, Ledger!Rids

LEMMA TimesAreNat == Times \subseteq Nat
  BY ConstantsAssumption DEF Times, Ledger!Times

LEMMA ReservationTyped ==
  ASSUME LedgerTyped, NEW r \in Rids
  PROVE  /\ Committed(r) <=> resv[r] # Ledger!NoReservation
         /\ Committed(r) => resv[r] \in Reservation
  BY DEF LedgerTyped, Committed, Reservation, Ledger!NoReservation

LEMMA PayTyped ==
  ASSUME TypeOK, NEW p \in Payments, pay[p].pc # "idle"
  PROVE  pay[p] \in Paying
  BY DEF TypeOK

LEMMA ExpiryIsInt ==
  ASSUME LedgerTyped, NEW s \in Seats
  PROVE  status[s].exp \in Int
  <1>1. status[s] \in StatusRow
    BY DEF LedgerTyped
  <1>2. status[s].exp \in Times \/ status[s].exp = -1
    BY <1>1 DEF StatusRow
  <1>3. Times \subseteq Int /\ -1 \in Int
    BY TimesAreNat
  <1> QED BY <1>2, <1>3

(* What each step of the ledger writes. *)
LEMMA ReserveWrites ==
  ASSUME LedgerTyped, NEW r \in Rids, NEW u \in Users, NEW e \in Events,
         NEW S \in SUBSET Seats, NEW ref \in Refs, NEW exp \in Times,
         Ledger!Reserve(r, u, e, S, ref, exp)
  PROVE  /\ LedgerTyped'
         /\ ~Committed(r) /\ Committed(r)' /\ \A q \in Rids \ {r} : resv'[q] = resv[q]
         /\ resv'[r].exp = exp /\ resv'[r].seats = S
         /\ \A s \in S : EventOf[s] = resv'[r].event
         /\ resv'[r].user = u /\ resv'[r].st # "paid"
         /\ \A s \in S : /\ status'[s].st = "reserved" /\ status'[s].exp = exp
                         /\ status'[s].by = u
         /\ \A s \in Seats \ S : status'[s] = status[s]
         /\ UNCHANGED <<clock, tickets>>
  <1> DEFINE new == [st |-> "reserved", user |-> u, event |-> e, seats |-> S, ref |-> ref,
                     exp |-> exp]
             row == [st |-> "reserved", by |-> u, exp |-> exp]
  <1>1. new \in Reservation /\ row \in StatusRow
    BY DEF Reservation, StatusRow
  <1>2. /\ resv' = [resv EXCEPT ![r] = new] /\ UNCHANGED <<clock, tickets>>
        /\ status' = [s \in Seats |-> IF s \in S THEN row ELSE status[s]]
        /\ resv[r] = Ledger!NoReservation /\ \A s \in S : EventOf[s] = e
    BY DEF Ledger!Reserve
  <1>3. LedgerTyped'
    BY <1>1, <1>2 DEF LedgerTyped
  <1>4. resv'[r] = new /\ \A q \in Rids \ {r} : resv'[q] = resv[q]
    BY <1>2 DEF LedgerTyped
  <1>5. ~Committed(r) /\ Committed(r)'
    BY <1>2, <1>4 DEF Committed, Ledger!NoReservation
  <1> QED BY <1>2, <1>3, <1>4, <1>5

LEMMA PayWrites ==
  ASSUME LedgerTyped, NEW r \in Rids, NEW p \in Payments, clock \in Times,
         Ledger!Pay(r, p, clock)
  PROVE  /\ LedgerTyped' /\ Committed(r) /\ resv'[r].st = "paid"
         /\ resv'[r] = [resv[r] EXCEPT !.st = "paid"]
         /\ \A q \in Rids \ {r} : resv'[q] = resv[q]
         /\ \A s \in resv[r].seats : status'[s].st = "sold"
         /\ \A s \in Seats \ resv[r].seats : status'[s] = status[s]
         /\ tickets \subseteq tickets'
         /\ \A t \in tickets' \ tickets : t.seat \in resv[r].seats /\ t.rid = r /\ t.by = p
         /\ \A s \in resv[r].seats : \E t \in tickets' : t.seat = s
         /\ UNCHANGED clock
  <1> DEFINE new == {[seat |-> s, rid |-> r, by |-> p, at |-> clock] : s \in resv[r].seats}
  <1>1. Committed(r) /\ resv[r] \in Reservation
    BY ReservationTyped DEF Ledger!Pay, Committed
  <1>2. /\ resv' = [resv EXCEPT ![r] = [resv[r] EXCEPT !.st = "paid"]]
        /\ status' = [s \in Seats |-> IF s \in resv[r].seats THEN Ledger!SoldRow
                                      ELSE status[s]]
        /\ tickets' = tickets \cup new /\ UNCHANGED clock
    BY DEF Ledger!Pay
  <1>3. /\ [resv[r] EXCEPT !.st = "paid"] \in Reservation
        /\ [resv[r] EXCEPT !.st = "paid"].st = "paid"
    BY <1>1 DEF Reservation
  <1>4. Ledger!SoldRow \in StatusRow /\ Ledger!SoldRow.st = "sold"
    BY DEF Ledger!SoldRow, StatusRow, Ledger!NoTime
  <1>5. resv[r].seats \subseteq Seats
    BY <1>1 DEF Reservation
  <1>6. new \subseteq Ticket
    BY <1>5 DEF Ticket
  <1>7. LedgerTyped'
    BY <1>2, <1>3, <1>4, <1>6 DEF LedgerTyped
  <1>8. resv'[r] = [resv[r] EXCEPT !.st = "paid"] /\ \A q \in Rids \ {r} : resv'[q] = resv[q]
    BY <1>2 DEF LedgerTyped
  <1>9. \A t \in tickets' \ tickets : t.seat \in resv[r].seats /\ t.rid = r /\ t.by = p
    BY <1>2
  <1>10. /\ \A s \in resv[r].seats : status'[s].st = "sold"
         /\ \A s \in Seats \ resv[r].seats : status'[s] = status[s]
    BY <1>2, <1>4, <1>5
  <1>11. \A s \in resv[r].seats : \E t \in tickets' : t.seat = s
    <2> TAKE s \in resv[r].seats
    <2> DEFINE t == [seat |-> s, rid |-> r, by |-> p, at |-> clock]
    <2>1. t \in tickets' /\ t.seat = s
      BY <1>2
    <2> QED BY <2>1
  <1> QED BY <1>1, <1>2, <1>3, <1>7, <1>8, <1>9, <1>10, <1>11

LEMMA ReturnWrites ==
  ASSUME LedgerTyped, NEW S, Ledger!Return(S)
  PROVE  /\ LedgerTyped' /\ UNCHANGED <<clock, resv, tickets>>
         /\ \A s \in Seats : \/ status'[s] = status[s]
                             \/ Ledger!RanOut(s) /\ status'[s].st = "available"
  <1>1. Ledger!AvailableRow \in StatusRow
    BY DEF Ledger!AvailableRow, StatusRow, Ledger!NoTime
  <1>2. Ledger!AvailableRow.st = "available"
    BY DEF Ledger!AvailableRow
  <1>3. LedgerTyped' /\ UNCHANGED <<clock, resv, tickets>>
    BY <1>1 DEF Ledger!Return, LedgerTyped
  <1> QED BY <1>2, <1>3 DEF Ledger!Return
-----------------------------------------------------------------------------
LEMMA InitIInv == Init => IInv
  <1> SUFFICES ASSUME Init PROVE IInv
    OBVIOUS
  <1>1. /\ clock = 0 /\ tickets = {} /\ sent = {}
        /\ status = [s \in Seats |-> Ledger!AvailableRow]
        /\ resv = [r \in Rids |-> Ledger!NoReservation]
        /\ hold = [r \in Rids |-> [pc |-> "idle", at |-> 0]]
        /\ pay = [p \in Payments |-> [pc |-> "idle"]]
    BY DEF Init, Ledger!Init, Rids
  <1>2. 0 \in Times
    BY ConstantsAssumption DEF Times, Ledger!Times
  <1>3. LedgerTyped
    BY <1>1 DEF LedgerTyped, StatusRow, Ledger!AvailableRow, Ledger!NoTime
  <1>4. \A r \in Rids : ~Committed(r)
    BY <1>1 DEF Committed, Ledger!NoReservation
  <1>5. TypeOK
    BY <1>1, <1>2 DEF TypeOK, Ledger!AvailableRow, Holding
  <1>6. HoldsAreReservations /\ HeldOrTakenOver /\ RowsAreAccounted
    BY <1>1, <1>4
    DEF HoldsAreReservations, HeldOrTakenOver, RowsAreAccounted, Ledger!AvailableRow
  <1>7. PaymentsFound /\ ToldAreFound /\ TicketsAreSales /\ SendersHaveAnswered
    BY <1>1 DEF PaymentsFound, Found, ToldAreFound, TicketsAreSales, SendersHaveAnswered
  <1>8. SalesAnnouncedAreTrue /\ TimelyPaymentIsAccepted
    BY <1>1 DEF SalesAnnouncedAreTrue, TimelyPaymentIsAccepted
  <1> QED BY <1>3, <1>5, <1>6, <1>7, <1>8 DEF IInv

(* What is true of sold seats, of committed reservations and of the messages
   about them stays true, whatever the ledger does. *)
Kept ==
  /\ \A s \in Seats : status[s].st = "sold" => status'[s].st = "sold"
  /\ \A r \in Rids : Committed(r) =>
       /\ Committed(r)'
       /\ resv[r].st = "paid" => resv'[r].st = "paid"
       /\ resv'[r].user = resv[r].user /\ resv'[r].event = resv[r].event
       /\ resv'[r].seats = resv[r].seats /\ resv'[r].ref = resv[r].ref
       /\ resv'[r].exp = resv[r].exp

LEMMA MessagesStayTrue ==
  ASSUME IInv, Kept, UNCHANGED sent,
         \A p \in Payments : pay[p].pc = "answered" => pay'[p] = pay[p]
  PROVE  SendersHaveAnswered' /\ SalesAnnouncedAreTrue'
  <1>1. SendersHaveAnswered'
    BY DEF IInv, SendersHaveAnswered, TypeOK, Message
  <1>2. SUFFICES ASSUME NEW m \in sent, m.kind = "sold"
                 PROVE  LET r == pay'[m.by].rid IN
                        \/ m.event # resv'[r].event
                        \/ \E q \in Rids :
                             q # r /\ Committed(q)' /\ resv'[q].ref = resv'[r].ref
                        \/ \A s \in Means(m) : status'[s].st = "sold"
    BY <1>1 DEF SalesAnnouncedAreTrue, Means
  <1>3. m.by \in Payments /\ pay[m.by].pc = "answered" /\ pay'[m.by] = pay[m.by]
    BY <1>2 DEF IInv, SendersHaveAnswered, TypeOK, Message
  <1>4. pay[m.by].rid \in Rids /\ Committed(pay[m.by].rid)
    BY <1>3, PayTyped DEF IInv, PaymentsFound, Found, Paying
  <1>5. Means(m) \subseteq Seats
    BY DEF Means
  <1> QED BY <1>2, <1>3, <1>4, <1>5 DEF IInv, SalesAnnouncedAreTrue, Kept

(* What a client was told of a reservation stays true of a payment that has
   begun, and so does the reason for which it was refused. *)
Promised(p, r) ==
  /\ Committed(r) /\ resv[r].user = pay[p].user /\ resv[r].ref = pay[p].ref
  /\ pay[p].rid # 0 /\ pay[p].rid <= r
Excused(p, r) ==
  \/ resv[r].st = "paid"
  \/ pay[p].now > hold[r].at + LockDuration
  \/ \E q \in Rids : q < r /\ Committed(q) /\ resv[q].ref = resv[r].ref

LEMMA PromiseStays ==
  ASSUME IInv, Kept, \A r \in Rids : Committed(r) => hold'[r].at = hold[r].at,
         NEW p \in Payments, pay[p].pc # "idle",
         pay'[p].pc = "refused" => pay[p].pc = "refused",
         pay'[p].user = pay[p].user, pay'[p].ref = pay[p].ref,
         pay'[p].rid = pay[p].rid, pay'[p].now = pay[p].now,
         NEW r \in pay[p].told
  PROVE  Promised(p, r)' /\ (pay'[p].pc = "refused" => Excused(p, r)')
  <1>1. r \in Rids
    BY PayTyped DEF IInv, Paying
  <1>2. Promised(p, r) /\ (pay[p].pc = "refused" => Excused(p, r))
    BY DEF IInv, ToldAreFound, TimelyPaymentIsAccepted, Promised, Excused
  <1>3. Promised(p, r)'
    BY <1>1, <1>2 DEF Promised, Kept
  <1>4. Excused(p, r) => Excused(p, r)'
    BY <1>1, <1>2 DEF Promised, Excused, Kept
  <1> QED BY <1>2, <1>3, <1>4

LEMMA PromisesStay ==
  ASSUME IInv, Kept, \A r \in Rids : Committed(r) => hold'[r].at = hold[r].at,
         UNCHANGED pay
  PROVE  ToldAreFound' /\ TimelyPaymentIsAccepted'
  <1>1. ASSUME NEW p \in Payments, pay[p].pc # "idle", NEW r \in pay[p].told
        PROVE  Promised(p, r)' /\ (pay'[p].pc = "refused" => Excused(p, r)')
    BY <1>1, PromiseStays
  <1> QED BY <1>1 DEF ToldAreFound, TimelyPaymentIsAccepted, Promised, Excused

(* The three ways in which a seat of a hold stands, as time passes and as
   other rows are written. *)
LEMMA OverStays ==
  ASSUME IInv, Kept, clock' \in Nat, clock' >= clock, NEW s, OverBefore(s)
  PROVE  OverBefore(s)'
  <1>1. PICK q \in Rids : Committed(q) /\ s \in resv[q].seats /\ resv[q].exp < clock
    BY DEF OverBefore
  <1>2. resv[q].exp \in Nat /\ clock \in Nat
    BY <1>1, ReservationTyped, TimesAreNat DEF IInv, Reservation, TypeOK
  <1> QED BY <1>1, <1>2 DEF OverBefore, Kept

LEMMA KeepsStays ==
  ASSUME IInv, Kept, UNCHANGED clock, NEW r \in Rids, Committed(r), NEW s, Keeps(r, s),
         status'[s] = status[s] \/ status'[s].st = "sold"
  PROVE  Keeps(r, s)'
  <1>1. clock \in Nat
    BY TimesAreNat DEF IInv, TypeOK
  <1>2. OverBefore(s) => OverBefore(s)'
    BY <1>1, OverStays
  <1> QED BY <1>2 DEF Keeps, Kept

LEMMA RowStays ==
  ASSUME NEW s \in Seats, NEW r \in Rids, RowOf(s, r), status'[s] = status[s],
         resv'[r] = resv[r]
  PROVE  RowOf(s, r)'
  BY DEF RowOf, Committed
-----------------------------------------------------------------------------
LEMMA HoldMovesIInv ==
  ASSUME IInv, NEW r \in Rids, NEW new \in Holding, hold' = [hold EXCEPT ![r] = new],
         UNCHANGED <<clock, status, resv, tickets, pay, sent>>,
         ~Committed(r), new.pc \in {"begun", "failed"}, new.at + LockDuration \in Times
  PROVE  IInv'
  <1>1. hold'[r] = new /\ \A q \in Rids \ {r} : hold'[q] = hold[q]
    BY DEF IInv, TypeOK
  <1>2. Kept
    BY DEF Kept, Committed
  <1>3. TypeOK'
    BY DEF IInv, TypeOK
  <1>4. HoldsAreReservations'
    BY <1>1 DEF IInv, HoldsAreReservations, Committed
  <1>5. LedgerTyped' /\ HeldOrTakenOver' /\ RowsAreAccounted'
    BY DEF IInv, LedgerTyped, HeldOrTakenOver, Keeps, OverBefore, RowsAreAccounted, RowOf,
           Committed
  <1>6. PaymentsFound' /\ TicketsAreSales'
    BY DEF IInv, PaymentsFound, Found, TicketsAreSales, Committed
  <1>7. SendersHaveAnswered' /\ SalesAnnouncedAreTrue'
    BY <1>2, MessagesStayTrue
  <1>8. ToldAreFound' /\ TimelyPaymentIsAccepted'
    BY <1>1, <1>2, PromisesStay
  <1> QED BY <1>3, <1>4, <1>5, <1>6, <1>7, <1>8 DEF IInv

LEMMA BeginHoldIInv ==
  ASSUME IInv, NEW r \in Rids, BeginHold(r)
  PROVE  IInv'
  <1> DEFINE new == [pc |-> "begun", at |-> clock]
  <1>1. clock \in Times /\ clock \in Nat /\ clock + LockDuration \in Times
    BY LockDurationTyped, ConstantsAssumption
    DEF IInv, TypeOK, BeginHold, Times, Ledger!Times
  <1>2. new \in Holding /\ new.pc = "begun" /\ new.at = clock
    BY <1>1 DEF Holding
  <1>3. ~Committed(r)
    BY DEF BeginHold, IInv, HoldsAreReservations
  <1> QED BY <1>1, <1>2, <1>3, HoldMovesIInv DEF BeginHold

LEMMA FailHoldIInv ==
  ASSUME IInv, NEW r \in Rids, FailHold(r)
  PROVE  IInv'
  <1> DEFINE new == [hold[r] EXCEPT !.pc = "failed"]
  <1>1. hold[r] \in Holding /\ hold[r].pc = "begun"
    BY DEF IInv, TypeOK, FailHold
  <1>2. new \in Holding /\ new.pc = "failed" /\ new.at = hold[r].at
    BY <1>1 DEF Holding
  <1>3. ~Committed(r) /\ new.at + LockDuration \in Times
    BY <1>1, <1>2 DEF IInv, HoldsAreReservations
  <1>4. hold' = [hold EXCEPT ![r] = new]
    BY DEF FailHold
  <1> QED BY <1>2, <1>3, <1>4, HoldMovesIInv DEF FailHold

LEMMA CommitHoldIInv ==
  ASSUME IInv, NEW r \in Rids, CommitHold(r)
  PROVE  IInv'
  <1> DEFINE exp == hold[r].at + LockDuration
  <1>1. clock \in Nat /\ clock \in Times /\ exp \in Times /\ exp \in Nat
    BY TimesAreNat DEF IInv, TypeOK, CommitHold, HoldsAreReservations
  <1>2. PICK u \in Users, e \in Events, S \in SUBSET Seats, ref \in Refs :
          Ledger!Reserve(r, u, e, S, ref, exp)
    BY DEF CommitHold
  <1>3. /\ LedgerTyped'
        /\ ~Committed(r) /\ Committed(r)' /\ \A q \in Rids \ {r} : resv'[q] = resv[q]
        /\ resv'[r].exp = exp /\ resv'[r].seats = S
        /\ \A s \in S : EventOf[s] = resv'[r].event
        /\ resv'[r].user = u /\ resv'[r].st # "paid"
        /\ \A s \in S : /\ status'[s].st = "reserved" /\ status'[s].exp = exp
                        /\ status'[s].by = u
        /\ \A s \in Seats \ S : status'[s] = status[s]
        /\ UNCHANGED <<clock, tickets>>
    BY <1>1, <1>2, ReserveWrites DEF IInv
  <1>4. \A s \in S : status[s].st # "sold" /\ ~Ledger!Held(s)
    BY <1>2 DEF Ledger!Reserve
  <1>5. /\ hold' = [hold EXCEPT ![r].pc = "committed"] /\ hold[r].pc = "begun"
        /\ UNCHANGED <<pay, sent>>
    BY DEF CommitHold
  <1>6. /\ hold'[r] \in Holding /\ hold'[r].pc = "committed" /\ hold'[r].at = hold[r].at
        /\ \A q \in Rids \ {r} : hold'[q] = hold[q]
    BY <1>5 DEF IInv, TypeOK, Holding
  <1>7. Kept
    BY <1>3, <1>4 DEF Kept, Committed
  <1>8. HoldsAreReservations'
    BY <1>1, <1>3, <1>6 DEF IInv, HoldsAreReservations, Committed
  <1>9. HeldOrTakenOver'
    <2> SUFFICES ASSUME NEW q \in Rids, Committed(q)', resv'[q].exp >= clock,
                        NEW s \in resv'[q].seats
                 PROVE  Keeps(q, s)'
      BY <1>3 DEF HeldOrTakenOver
    <2>1. CASE q = r
      BY <1>1, <1>3, <2>1 DEF Keeps
    <2>2. CASE q # r
      <3>1. /\ Committed(q) /\ resv'[q] = resv[q] /\ s \in Seats /\ resv[q].exp \in Nat
        BY <1>3, <2>2, ReservationTyped, TimesAreNat DEF IInv, Committed, Reservation
      <3>2. Keeps(q, s)
        BY <1>3, <3>1 DEF IInv, HeldOrTakenOver
      <3>3. CASE s \in S
        <4>1. status[s].exp \in Int
          BY <3>1, ExpiryIsInt DEF IInv
        <4>2. resv[q].exp = clock
          BY <1>1, <1>3, <1>4, <3>1, <3>2, <3>3, <4>1 DEF Ledger!Held, Keeps
        <4>3. CASE exp >= clock
          BY <1>3, <3>1, <3>3, <4>2, <4>3 DEF Keeps
        <4>4. CASE exp < clock
          BY <1>3, <3>1, <3>3, <4>2, <4>4 DEF Keeps, OverBefore
        <4> QED BY <1>1, <4>3, <4>4
      <3>4. CASE s \notin S
        BY <1>3, <1>7, <3>1, <3>2, <3>4, KeepsStays
      <3> QED BY <3>3, <3>4
    <2> QED BY <2>1, <2>2
  <1>10. TypeOK'
    BY <1>1, <1>3, <1>5, <1>6, <1>7
    DEF IInv, TypeOK, LedgerTyped, StatusRow, Ticket, TicketsAreSales, Kept, Committed,
        Ledger!NoReservation
  <1>11. PaymentsFound'
    BY <1>5, <1>7, PayTyped DEF IInv, PaymentsFound, Found, Kept, Paying
  <1>12. TicketsAreSales'
    BY <1>3, <1>5, <1>7 DEF IInv, TicketsAreSales, LedgerTyped, Ticket, Kept, Committed
  <1>13. SendersHaveAnswered' /\ SalesAnnouncedAreTrue'
    BY <1>5, <1>7, MessagesStayTrue
  <1>14. ToldAreFound' /\ TimelyPaymentIsAccepted'
    BY <1>5, <1>6, <1>7, PromisesStay
  <1>15. RowsAreAccounted'
    <2> SUFFICES ASSUME NEW s \in Seats
                 PROVE  /\ status'[s].st = "reserved" => \E q \in Rids : RowOf(s, q)'
                        /\ status'[s].st = "sold" => \E t \in tickets : t.seat = s
      BY <1>3 DEF RowsAreAccounted
    <2>1. CASE s \in S
      BY <1>3, <2>1 DEF RowOf
    <2>2. CASE s \notin S
      <3>1. ASSUME status[s].st = "reserved"
            PROVE  \E q \in Rids : RowOf(s, q)'
        <4>1. PICK q \in Rids : RowOf(s, q)
          BY <3>1 DEF IInv, RowsAreAccounted
        <4>2. q # r
          BY <1>3, <4>1 DEF RowOf
        <4> QED BY <1>3, <2>2, <4>1, <4>2, RowStays
      <3> QED BY <1>3, <2>2, <3>1 DEF IInv, RowsAreAccounted
    <2> QED BY <2>1, <2>2
  <1> QED BY <1>3, <1>8, <1>9, <1>10, <1>11, <1>12, <1>13, <1>14, <1>15 DEF IInv

LEMMA AnnounceHoldIInv ==
  ASSUME IInv, NEW r \in Rids, AnnounceHold(r)
  PROVE  IInv'
  <1> DEFINE m == [kind |-> "hold", rid |-> r]
  <1>1. /\ hold' = [hold EXCEPT ![r].pc = "answered"] /\ sent' = sent \cup {m}
        /\ UNCHANGED <<clock, status, resv, tickets, pay>> /\ hold[r].pc = "committed"
    BY DEF AnnounceHold
  <1>2. hold' \in [Rids -> Holding]
    BY <1>1 DEF IInv, TypeOK, Holding
  <1>3. \A q \in Rids : /\ hold'[q].at = hold[q].at
                        /\ hold'[q].pc = "idle" <=> hold[q].pc = "idle"
                        /\ hold'[q].pc \in {"committed", "answered"}
                             <=> hold[q].pc \in {"committed", "answered"}
    BY <1>1 DEF IInv, TypeOK, Holding
  <1>4. TypeOK'
    BY <1>1, <1>2 DEF IInv, TypeOK, Message
  <1>5. HoldsAreReservations'
    BY <1>1, <1>3 DEF IInv, HoldsAreReservations, Committed
  <1>6. /\ HeldOrTakenOver' /\ RowsAreAccounted' /\ LedgerTyped' /\ PaymentsFound'
        /\ TicketsAreSales'
    BY <1>1
    DEF IInv, HeldOrTakenOver, Keeps, OverBefore, RowsAreAccounted, RowOf, LedgerTyped,
        PaymentsFound, Found, TicketsAreSales, Committed
  <1>7. SendersHaveAnswered' /\ SalesAnnouncedAreTrue'
    BY <1>1 DEF IInv, SendersHaveAnswered, SalesAnnouncedAreTrue, Committed, Means
  <1>8. Kept
    BY <1>1 DEF Kept, Committed
  <1>9. ToldAreFound' /\ TimelyPaymentIsAccepted'
    BY <1>1, <1>3, <1>8, PromisesStay
  <1> QED BY <1>4, <1>5, <1>6, <1>7, <1>9 DEF IInv

(* Steps of a payment that leave the ledger and the messages alone. *)
LEMMA PayMovesIInv ==
  ASSUME IInv, NEW p \in Payments, NEW new \in Paying, pay' = [pay EXCEPT ![p] = new],
         UNCHANGED <<clock, status, resv, tickets, hold, sent>>,
         pay[p].pc \in {"idle", "begun"}, new.pc \in {"begun", "refused", "failed"},
         new.rid # 0 => Committed(new.rid) /\ resv[new.rid].ref = new.ref,
         new.pc = "begun" => new.rid # 0,
         \A r \in new.told :
           /\ Committed(r) /\ resv[r].user = new.user /\ resv[r].ref = new.ref
           /\ new.rid # 0 /\ new.rid <= r,
         new.pc = "refused" /\ new.rid # 0 => ~Payable(new.rid, new.user, new.now)
  PROVE  IInv'
  <1>1. pay'[p] = new /\ \A q \in Payments \ {p} : pay'[q] = pay[q]
    BY DEF IInv, TypeOK
  <1>2. TypeOK'
    BY DEF IInv, TypeOK
  <1>3. HoldsAreReservations' /\ HeldOrTakenOver' /\ RowsAreAccounted' /\ LedgerTyped'
    BY DEF IInv, HoldsAreReservations, HeldOrTakenOver, Keeps, OverBefore,
           RowsAreAccounted, RowOf, LedgerTyped, Committed
  <1>4. PaymentsFound'
    BY <1>1 DEF IInv, PaymentsFound, Found, Committed
  <1>5. TicketsAreSales'
    BY <1>1 DEF IInv, TicketsAreSales, LedgerTyped, Ticket
  <1>6. Kept
    BY DEF Kept, Committed
  <1>7. SendersHaveAnswered' /\ SalesAnnouncedAreTrue'
    BY <1>1, <1>6, MessagesStayTrue
  <1>8. ASSUME NEW q \in Payments, pay'[q].pc # "idle", NEW r \in pay'[q].told
        PROVE  Promised(q, r)' /\ (pay'[q].pc = "refused" => Excused(q, r)')
    <2>1. CASE q # p
      BY <1>1, <1>6, <1>8, <2>1, PromiseStays
    <2>2. CASE q = p
      <3>1. /\ r \in Rids /\ Committed(r) /\ resv[r].user = new.user
            /\ resv[r].ref = new.ref /\ new.rid # 0 /\ new.rid <= r
        BY <1>1, <1>8, <2>2 DEF Paying
      <3>2. Promised(p, r)'
        BY <1>1, <3>1 DEF Promised, Committed
      <3>3. CASE new.pc = "refused" /\ new.rid = r
        <4>1. new.now \in Nat /\ resv[r].exp \in Nat /\ resv[r].exp = hold[r].at + LockDuration
          BY <3>1, ReservationTyped, TimesAreNat
          DEF IInv, HoldsAreReservations, Reservation, Paying
        <4>2. ~Payable(r, new.user, new.now)
          BY <3>1, <3>3
        <4> QED BY <1>1, <2>2, <3>1, <3>2, <4>1, <4>2 DEF Payable, Excused
      <3>4. CASE new.pc = "refused" /\ new.rid # r
        <4>1. new.rid \in Rids /\ new.rid < r /\ Committed(new.rid)
              /\ resv[new.rid].ref = resv[r].ref
          BY <3>1, <3>4 DEF Paying, Rids, Ledger!Rids
        <4> QED BY <1>1, <2>2, <3>2, <4>1 DEF Excused, Committed
      <3> QED BY <1>1, <2>2, <3>2, <3>3, <3>4
    <2> QED BY <2>1, <2>2
  <1>9. ToldAreFound' /\ TimelyPaymentIsAccepted'
    BY <1>8 DEF ToldAreFound, TimelyPaymentIsAccepted, Promised, Excused
  <1> QED BY <1>2, <1>3, <1>4, <1>5, <1>7, <1>9 DEF IInv

LEMMA BeginPayIInv ==
  ASSUME IInv, NEW p \in Payments, BeginPay(p)
  PROVE  IInv'
  <1>0. PICK u \in Users, ref \in Refs, e \in Events :
          LET matches == {q \in Rids : Committed(q) /\ resv[q].ref = ref} IN
          \E r \in matches \cup {0} :
            /\ r = 0 <=> matches = {}
            /\ \A q \in matches : r <= q
            /\ pay' = [pay EXCEPT ![p] =
                 [pc |-> IF r = 0 THEN "refused" ELSE "begun", user |-> u, ref |-> ref,
                  event |-> e, rid |-> r, now |-> clock,
                  told |-> {q \in matches : resv[q].user = u /\ hold[q].pc = "answered"}]]
    BY DEF BeginPay
  <1> DEFINE matches == {q \in Rids : Committed(q) /\ resv[q].ref = ref}
             told == {q \in matches : resv[q].user = u /\ hold[q].pc = "answered"}
  <1>1. PICK r \in matches \cup {0} :
          /\ r = 0 <=> matches = {}
          /\ \A q \in matches : r <= q
          /\ pay' = [pay EXCEPT ![p] =
               [pc |-> IF r = 0 THEN "refused" ELSE "begun", user |-> u, ref |-> ref,
                event |-> e, rid |-> r, now |-> clock, told |-> told]]
    BY <1>0
  <1> DEFINE new == [pc |-> IF r = 0 THEN "refused" ELSE "begun", user |-> u, ref |-> ref,
                     event |-> e, rid |-> r, now |-> clock, told |-> told]
  <1>2. new \in Paying
    BY DEF IInv, TypeOK, Paying
  <1>3. r # 0 => Committed(r) /\ resv[r].ref = ref
    OBVIOUS
  <1>4. UNCHANGED <<clock, status, resv, tickets, hold, sent>> /\ pay[p].pc = "idle"
    BY DEF BeginPay
  <1>5. \A q \in told : /\ Committed(q) /\ resv[q].user = u /\ resv[q].ref = ref
                        /\ r # 0 /\ r <= q
    BY <1>1
  <1> QED BY <1>1, <1>2, <1>3, <1>4, <1>5, PayMovesIInv

LEMMA FailPayIInv ==
  ASSUME IInv, NEW p \in Payments, FailPay(p)
  PROVE  IInv'
  <1> DEFINE new == [pay[p] EXCEPT !.pc = "failed"]
  <1>1. pay[p] \in Paying
    BY PayTyped DEF IInv, FailPay
  <1>2. /\ new \in Paying /\ new.pc = "failed" /\ new.rid = pay[p].rid
        /\ new.ref = pay[p].ref /\ new.user = pay[p].user /\ new.told = pay[p].told
    BY <1>1 DEF Paying
  <1>3. /\ pay' = [pay EXCEPT ![p] = new]
        /\ UNCHANGED <<clock, status, resv, tickets, hold, sent>>
    BY DEF FailPay
  <1>4. new.rid # 0 => Committed(new.rid) /\ resv[new.rid].ref = new.ref
    BY <1>2 DEF IInv, PaymentsFound, Found, FailPay
  <1>5. \A r \in new.told :
          /\ Committed(r) /\ resv[r].user = new.user /\ resv[r].ref = new.ref
          /\ new.rid # 0 /\ new.rid <= r
    BY <1>2 DEF IInv, ToldAreFound, FailPay
  <1> QED BY <1>2, <1>3, <1>4, <1>5, PayMovesIInv DEF FailPay

LEMMA PayRefusedIInv ==
  ASSUME IInv, NEW p \in Payments, pay[p].pc = "begun",
         ~Payable(pay[p].rid, pay[p].user, pay[p].now),
         pay' = [pay EXCEPT ![p].pc = "refused"],
         UNCHANGED <<clock, status, resv, tickets, hold, sent>>
  PROVE  IInv'
  <1> DEFINE new == [pay[p] EXCEPT !.pc = "refused"]
  <1>1. pay[p] \in Paying
    BY PayTyped DEF IInv
  <1>2. /\ new \in Paying /\ new.pc = "refused" /\ new.rid = pay[p].rid
        /\ new.ref = pay[p].ref /\ new.user = pay[p].user /\ new.now = pay[p].now
        /\ new.told = pay[p].told
    BY <1>1 DEF Paying
  <1>3. pay' = [pay EXCEPT ![p] = new]
    OBVIOUS
  <1>4. new.rid # 0 => Committed(new.rid) /\ resv[new.rid].ref = new.ref
    BY <1>2 DEF IInv, PaymentsFound, Found
  <1>5. \A r \in new.told :
          /\ Committed(r) /\ resv[r].user = new.user /\ resv[r].ref = new.ref
          /\ new.rid # 0 /\ new.rid <= r
    BY <1>2 DEF IInv, ToldAreFound
  <1> QED BY <1>2, <1>3, <1>4, <1>5, PayMovesIInv

LEMMA PayAcceptedIInv ==
  ASSUME IInv, NEW p \in Payments, pay[p].pc = "begun",
         Ledger!Pay(pay[p].rid, p, clock),
         pay' = [pay EXCEPT ![p].pc = "paid"],
         UNCHANGED <<hold, sent>>
  PROVE  IInv'
  <1> DEFINE r == pay[p].rid
  <1>1. pay[p] \in Paying /\ r \in Rids /\ Committed(r) /\ clock \in Times
    BY PayTyped, NoReservationIsNone DEF IInv, PaymentsFound, Found, Paying, TypeOK
  <1>2. /\ LedgerTyped' /\ resv'[r].st = "paid"
        /\ resv'[r] = [resv[r] EXCEPT !.st = "paid"]
        /\ \A q \in Rids \ {r} : resv'[q] = resv[q]
        /\ \A s \in resv[r].seats : status'[s].st = "sold"
        /\ \A s \in Seats \ resv[r].seats : status'[s] = status[s]
        /\ tickets \subseteq tickets'
        /\ \A t \in tickets' \ tickets : t.seat \in resv[r].seats /\ t.rid = r /\ t.by = p
        /\ \A s \in resv[r].seats : \E t \in tickets' : t.seat = s
        /\ UNCHANGED clock
    BY <1>1, PayWrites DEF IInv
  <1>3. /\ pay'[p] \in Paying /\ pay'[p].pc = "paid" /\ pay'[p].rid = r
        /\ pay'[p].ref = pay[p].ref /\ pay'[p].user = pay[p].user
        /\ pay'[p].now = pay[p].now /\ pay'[p].told = pay[p].told
        /\ \A q \in Payments \ {p} : pay'[q] = pay[q]
    BY <1>1 DEF IInv, TypeOK, Paying
  <1>4. /\ resv[r] \in Reservation /\ resv'[r].st = "paid"
        /\ resv'[r].user = resv[r].user /\ resv'[r].event = resv[r].event
        /\ resv'[r].seats = resv[r].seats /\ resv'[r].ref = resv[r].ref
        /\ resv'[r].exp = resv[r].exp
    BY <1>1, <1>2, ReservationTyped DEF IInv, Reservation
  <1>5. \A q \in Rids : Committed(q)' <=> Committed(q)
    BY <1>1, <1>2 DEF Committed
  <1>6. Kept
    BY <1>2, <1>4, <1>5 DEF Kept
  <1>7. \A q \in Rids : Committed(q) =>
          resv'[q].seats = resv[q].seats /\ resv[q].seats \subseteq Seats
    BY <1>6, ReservationTyped DEF Kept, IInv, Reservation
  <1>8. TicketsAreSales'
    <2> SUFFICES ASSUME NEW t \in tickets'
                 PROVE  /\ status'[t.seat].st = "sold" /\ t.seat \in resv'[t.rid].seats
                        /\ resv'[t.rid].st = "paid"
                        /\ pay'[t.by].pc \in {"paid", "answered"} /\ pay'[t.by].rid = t.rid
      BY DEF TicketsAreSales
    <2>1. CASE t \in tickets
      <3>1. t.seat \in Seats /\ t.rid \in Rids /\ t.by \in Payments
        BY <2>1 DEF IInv, LedgerTyped, Ticket
      <3>2. /\ status[t.seat].st = "sold" /\ t.seat \in resv[t.rid].seats
            /\ resv[t.rid].st = "paid"
            /\ pay[t.by].pc \in {"paid", "answered"} /\ pay[t.by].rid = t.rid
        BY <2>1 DEF IInv, TicketsAreSales
      <3>3. t.by # p /\ Committed(t.rid)
        BY <3>2 DEF Committed
      <3> QED BY <1>3, <1>6, <3>1, <3>2, <3>3 DEF Kept
    <2>2. CASE t \notin tickets
      <3>1. t.seat \in resv[r].seats /\ t.rid = r /\ t.by = p
        BY <1>2, <2>2
      <3>2. status'[t.seat].st = "sold"
        BY <1>2, <3>1
      <3> QED BY <1>3, <1>4, <3>1, <3>2
    <2> QED BY <2>1, <2>2
  <1>9. TypeOK'
    <2>1. \A s \in Seats : status'[s].st \in {"available", "reserved", "sold"}
      BY <1>2 DEF LedgerTyped, StatusRow
    <2>2. \A t \in tickets' : resv'[t.rid].st = "paid"
      BY <1>8 DEF TicketsAreSales
    <2> QED BY <1>2, <1>3, <2>1, <2>2 DEF IInv, TypeOK
  <1>10. HoldsAreReservations'
    BY <1>5, <1>6 DEF IInv, HoldsAreReservations, Kept
  <1>11. HeldOrTakenOver'
    <2> SUFFICES ASSUME NEW q \in Rids, Committed(q)', resv'[q].exp >= clock,
                        NEW s \in resv'[q].seats
                 PROVE  Keeps(q, s)'
      BY <1>2 DEF HeldOrTakenOver
    <2>1. /\ Committed(q) /\ resv'[q].exp = resv[q].exp /\ s \in resv[q].seats /\ s \in Seats
      BY <1>5, <1>6, <1>7 DEF Kept
    <2>2. Keeps(q, s)
      BY <2>1 DEF IInv, HeldOrTakenOver
    <2>3. status'[s] = status[s] \/ status'[s].st = "sold"
      BY <1>2, <2>1
    <2> QED BY <1>2, <1>6, <2>1, <2>2, <2>3, KeepsStays
  <1>12. PaymentsFound'
    <2> SUFFICES ASSUME NEW q \in Payments
                 PROVE  /\ Found(q)' => Committed(pay[q].rid)'
                        /\ Found(q)' => resv'[pay'[q].rid].ref = pay'[q].ref
                        /\ pay'[q].pc \in {"begun", "paid", "answered"} => Found(q)'
                        /\ pay'[q].pc \in {"paid", "answered"} => resv'[pay'[q].rid].st = "paid"
      BY DEF PaymentsFound, Committed
    <2>1. CASE q = p
      BY <1>1, <1>3, <1>4, <1>5, <2>1, NoReservationIsNone DEF IInv, PaymentsFound, Found
    <2>2. CASE q # p
      <3>1. pay'[q] = pay[q] /\ (Found(q)' <=> Found(q))
        BY <1>3, <2>2 DEF Found
      <3>2. Found(q) => pay[q].rid \in Rids /\ Committed(pay[q].rid)
        BY PayTyped DEF IInv, PaymentsFound, Found, Paying
      <3>3. /\ Found(q) => resv[pay[q].rid].ref = pay[q].ref
            /\ pay[q].pc \in {"begun", "paid", "answered"} => Found(q)
            /\ pay[q].pc \in {"paid", "answered"} => resv[pay[q].rid].st = "paid"
        BY DEF IInv, PaymentsFound
      <3>4. Found(q) => /\ Committed(pay[q].rid)'
                        /\ resv'[pay[q].rid].ref = resv[pay[q].rid].ref
                        /\ resv[pay[q].rid].st = "paid" => resv'[pay[q].rid].st = "paid"
        BY <1>6, <3>1, <3>2 DEF Kept, Committed
      <3> QED BY <3>1, <3>3, <3>4
    <2> QED BY <2>1, <2>2
  <1>13. SendersHaveAnswered' /\ SalesAnnouncedAreTrue'
    BY <1>3, <1>6, MessagesStayTrue
  <1>14. ToldAreFound' /\ TimelyPaymentIsAccepted'
    <2>1. ASSUME NEW q \in Payments, pay'[q].pc # "idle", NEW x \in pay'[q].told
          PROVE  Promised(q, x)' /\ (pay'[q].pc = "refused" => Excused(q, x)')
      <3>1. /\ pay[q].pc # "idle" /\ pay'[q].pc = "refused" => pay[q].pc = "refused"
            /\ pay'[q].user = pay[q].user /\ pay'[q].ref = pay[q].ref
            /\ pay'[q].rid = pay[q].rid /\ pay'[q].now = pay[q].now /\ x \in pay[q].told
        BY <1>3, <2>1
      <3> QED BY <1>6, <2>1, <3>1, PromiseStays
    <2> QED BY <2>1 DEF ToldAreFound, TimelyPaymentIsAccepted, Promised, Excused
  <1>15. RowsAreAccounted'
    <2> SUFFICES ASSUME NEW s \in Seats
                 PROVE  /\ status'[s].st = "reserved" => \E q \in Rids : RowOf(s, q)'
                        /\ status'[s].st = "sold" => \E t \in tickets' : t.seat = s
      BY DEF RowsAreAccounted
    <2>1. CASE s \in resv[r].seats
      BY <1>2, <2>1
    <2>2. CASE s \notin resv[r].seats
      <3>1. status'[s] = status[s]
        BY <1>2, <2>2
      <3>2. ASSUME status[s].st = "reserved"
            PROVE  \E q \in Rids : RowOf(s, q)'
        <4>1. PICK q \in Rids : RowOf(s, q)
          BY <3>2 DEF IInv, RowsAreAccounted
        <4>2. q # r
          BY <2>2, <4>1 DEF RowOf
        <4> QED BY <1>2, <3>1, <4>1, <4>2, RowStays
      <3> QED BY <1>2, <3>1, <3>2 DEF IInv, RowsAreAccounted
    <2> QED BY <2>1, <2>2
  <1> QED BY <1>2, <1>8, <1>9, <1>10, <1>11, <1>12, <1>13, <1>14, <1>15 DEF IInv

LEMMA SettlePayIInv ==
  ASSUME IInv, NEW p \in Payments, SettlePay(p)
  PROVE  IInv'
  BY PayAcceptedIInv, PayRefusedIInv DEF SettlePay
(* The number, or the id, that a sale is announced by leads to sold seats
   only, unless it leads to a ticket of another reservation with that ref. *)
LEMMA AnnouncementIsTrue ==
  ASSUME IInv, NEW p \in Payments, AnnouncePay(p), NEW n \in NamedAfter(p),
         pay[p].event = resv[pay[p].rid].event,
         \A q \in Rids : q # pay[p].rid /\ Committed(q) => resv[q].ref # resv[pay[p].rid].ref,
         NEW s \in Seats, s = n \/ (EventOf[s] = pay[p].event /\ NumberOf[s] = n)
  PROVE  status[s].st = "sold"
  <1> DEFINE r == pay[p].rid
  <1>1. resv[r].ref = pay[p].ref
    BY DEF IInv, AnnouncePay, PaymentsFound, Found
  <1>2. ASSUME NEW t \in tickets
        PROVE  /\ t.seat \in Seats /\ t.rid \in Rids /\ Committed(t.rid)
               /\ status[t.seat].st = "sold" /\ EventOf[t.seat] = resv[t.rid].event
               /\ pay[t.by].rid = t.rid
    <2>1. t.seat \in Seats /\ t.rid \in Rids
      BY <1>2 DEF IInv, LedgerTyped, Ticket
    <2>2. /\ status[t.seat].st = "sold" /\ t.seat \in resv[t.rid].seats
          /\ resv[t.rid].st = "paid" /\ pay[t.by].rid = t.rid
      BY <1>2 DEF IInv, TicketsAreSales
    <2>3. Committed(t.rid)
      BY <2>2 DEF Committed
    <2> QED BY <2>1, <2>2, <2>3 DEF IInv, HoldsAreReservations
  <1>3. CASE \E t \in tickets : resv[t.rid].ref = pay[p].ref /\ n = NumberOf[t.seat]
    <2>1. PICK t \in tickets : resv[t.rid].ref = pay[p].ref /\ n = NumberOf[t.seat]
      BY <1>3
    <2>2. t.rid = r
      BY <1>1, <1>2, <2>1
    <2>3. s # n
      BY <1>2, <2>1, ConstantsAssumption
    <2>4. s = t.seat
      BY <1>2, <2>1, <2>2, <2>3, ConstantsAssumption
    <2> QED BY <1>2, <2>4
  <1>4. CASE \E t \in tickets : t.by = p /\ n = t.seat
    <2>1. PICK t \in tickets : t.by = p /\ n = t.seat
      BY <1>4
    <2>2. s = n
      BY <1>2, <2>1, ConstantsAssumption
    <2> QED BY <1>2, <2>1, <2>2
  <1> QED BY <1>3, <1>4 DEF NamedAfter, WithRef

LEMMA AnnouncePayIInv ==
  ASSUME IInv, NEW p \in Payments, AnnouncePay(p)
  PROVE  IInv'
  <1>1. PICK n \in NamedAfter(p) :
          sent' = sent \cup {[kind |-> "sold", by |-> p, event |-> pay[p].event, number |-> n]}
    BY DEF AnnouncePay
  <1> DEFINE m == [kind |-> "sold", by |-> p, event |-> pay[p].event, number |-> n]
  <1>2. /\ pay[p].pc = "paid" /\ pay' = [pay EXCEPT ![p].pc = "answered"]
        /\ UNCHANGED <<clock, status, resv, tickets, hold>>
    BY DEF AnnouncePay
  <1>3. /\ pay[p] \in Paying /\ pay'[p] \in Paying /\ pay'[p].pc = "answered"
        /\ pay'[p].rid = pay[p].rid /\ pay'[p].ref = pay[p].ref
        /\ pay'[p].user = pay[p].user /\ pay'[p].now = pay[p].now
        /\ pay'[p].told = pay[p].told
        /\ \A q \in Payments \ {p} : pay'[q] = pay[q]
    BY <1>2, PayTyped DEF IInv, TypeOK, Paying
  <1>4. m \in Message
    <2>1. n \in {NumberOf[s] : s \in Seats} \cup Seats
      BY DEF NamedAfter, WithRef, IInv, LedgerTyped, Ticket
    <2> QED BY <1>3, <2>1 DEF Message, Paying
  <1>5. TypeOK'
    BY <1>1, <1>2, <1>3, <1>4 DEF IInv, TypeOK
  <1>6. HoldsAreReservations' /\ HeldOrTakenOver' /\ RowsAreAccounted' /\ LedgerTyped'
    BY <1>2 DEF IInv, HoldsAreReservations, HeldOrTakenOver, Keeps, OverBefore,
                RowsAreAccounted, RowOf, LedgerTyped, Committed
  <1>7. PaymentsFound'
    BY <1>2, <1>3 DEF IInv, PaymentsFound, Found, Committed
  <1>8. TicketsAreSales'
    BY <1>2, <1>3 DEF IInv, TicketsAreSales, LedgerTyped, Ticket
  <1>9. SendersHaveAnswered'
    BY <1>1, <1>3 DEF IInv, SendersHaveAnswered, TypeOK, Message
  <1>10. SalesAnnouncedAreTrue'
    <2> SUFFICES ASSUME NEW x \in sent', x.kind = "sold"
                 PROVE  LET r == pay'[x.by].rid IN
                        \/ x.event # resv[r].event
                        \/ \E q \in Rids : q # r /\ Committed(q) /\ resv[q].ref = resv[r].ref
                        \/ \A s \in Means(x) : status[s].st = "sold"
      BY <1>2 DEF SalesAnnouncedAreTrue, Committed, Means
    <2>1. CASE x = m
      BY <1>3, <2>1, AnnouncementIsTrue DEF Means
    <2>2. CASE x \in sent
      <3>1. x.by \in Payments /\ x.by # p
        BY <1>2, <2>2 DEF IInv, SendersHaveAnswered, TypeOK, Message
      <3> QED BY <1>3, <2>2, <3>1 DEF IInv, SalesAnnouncedAreTrue
    <2> QED BY <1>1, <2>1, <2>2
  <1>11. ToldAreFound' /\ TimelyPaymentIsAccepted'
    <2>1. Kept
      BY <1>2 DEF Kept, Committed
    <2>2. ASSUME NEW q \in Payments, pay'[q].pc # "idle", NEW x \in pay'[q].told
          PROVE  Promised(q, x)' /\ (pay'[q].pc = "refused" => Excused(q, x)')
      <3>1. /\ pay[q].pc # "idle" /\ pay'[q].pc = "refused" => pay[q].pc = "refused"
            /\ pay'[q].user = pay[q].user /\ pay'[q].ref = pay[q].ref
            /\ pay'[q].rid = pay[q].rid /\ pay'[q].now = pay[q].now /\ x \in pay[q].told
        BY <1>2, <1>3, <2>2
      <3> QED BY <1>2, <2>1, <2>2, <3>1, PromiseStays
    <2> QED BY <2>2 DEF ToldAreFound, TimelyPaymentIsAccepted, Promised, Excused
  <1> QED BY <1>5, <1>6, <1>7, <1>8, <1>9, <1>10, <1>11 DEF IInv

-----------------------------------------------------------------------------
(* Steps of the ledger that no request takes. *)
LEMMA LedgerAloneIInv ==
  ASSUME IInv, UNCHANGED <<resv, tickets, hold, pay, sent>>, clock' \in Times,
         LedgerTyped', HeldOrTakenOver',
         \A s \in Seats :
           \/ status'[s] = status[s]
           \/ status[s].st # "sold" /\ status'[s].st = "available"
  PROVE  IInv'
  <1>1. Kept
    BY DEF Kept, Committed
  <1>2. TypeOK'
    BY DEF IInv, TypeOK, LedgerTyped, StatusRow
  <1>3. HoldsAreReservations' /\ PaymentsFound'
    BY DEF IInv, HoldsAreReservations, PaymentsFound, Found, Committed
  <1>4. TicketsAreSales'
    BY DEF IInv, TicketsAreSales, LedgerTyped, Ticket
  <1>5. SendersHaveAnswered' /\ SalesAnnouncedAreTrue'
    BY <1>1, MessagesStayTrue
  <1>6. ToldAreFound' /\ TimelyPaymentIsAccepted'
    BY <1>1, PromisesStay
  <1>7. RowsAreAccounted'
    BY DEF IInv, RowsAreAccounted, RowOf, Committed
  <1> QED BY <1>2, <1>3, <1>4, <1>5, <1>6, <1>7 DEF IInv

LEMMA CleanupIInv ==
  ASSUME IInv, Cleanup
  PROVE  IInv'
  <1>1. PICK S : Ledger!Return(S)
    BY DEF Cleanup
  <1>2. /\ LedgerTyped' /\ UNCHANGED <<clock, resv, tickets, hold, pay, sent>>
        /\ \A s \in Seats : \/ status'[s] = status[s]
                            \/ Ledger!RanOut(s) /\ status'[s].st = "available"
    BY <1>1, ReturnWrites DEF IInv, Cleanup
  <1>3. \A s \in Seats :
           \/ status'[s] = status[s]
           \/ status[s].st # "sold" /\ status'[s].st = "available"
    BY <1>2 DEF Ledger!RanOut
  <1>4. Kept
    BY <1>2, <1>3 DEF Kept, Committed
  <1>5. HeldOrTakenOver'
    <2> SUFFICES ASSUME NEW r \in Rids, Committed(r), resv[r].exp >= clock,
                        NEW s \in resv[r].seats
                 PROVE  Keeps(r, s)'
      BY <1>2 DEF HeldOrTakenOver, Committed
    <2>1. /\ s \in Seats /\ resv[r].exp \in Nat /\ clock \in Nat
      BY ReservationTyped, TimesAreNat DEF IInv, Reservation, TypeOK
    <2>2. Keeps(r, s)
      BY DEF IInv, HeldOrTakenOver
    <2>3. status[s].exp \in Int
      BY <2>1, ExpiryIsInt DEF IInv
    <2>4. CASE status'[s] = status[s]
      BY <1>2, <1>4, <2>2, <2>4, KeepsStays
    <2>5. CASE Ledger!RanOut(s)
      <3>1. resv[r].exp = clock /\ OverBefore(s)
        BY <2>1, <2>2, <2>3, <2>5 DEF Keeps, Ledger!RanOut
      <3> QED BY <1>2, <1>4, <2>1, <3>1, OverStays DEF Keeps
    <2> QED BY <1>2, <2>1, <2>4, <2>5
  <1> QED BY <1>2, <1>3, <1>5, LedgerAloneIInv DEF IInv, TypeOK

LEMMA TickIInv ==
  ASSUME IInv, Tick
  PROVE  IInv'
  <1>1. /\ clock \in Nat /\ clock' = clock + 1 /\ clock' \in Times
        /\ UNCHANGED <<status, resv, tickets, hold, pay, sent>>
    BY ConstantsAssumption DEF IInv, TypeOK, Tick, Ledger!Tick, Times, Ledger!Times
  <1>2. HeldOrTakenOver'
    <2> SUFFICES ASSUME NEW r \in Rids, Committed(r), resv[r].exp >= clock + 1,
                        NEW s \in resv[r].seats
                 PROVE  \/ status[s].st = "sold"
                        \/ status[s].st = "reserved" /\ status[s].exp >= resv[r].exp
      BY <1>1 DEF HeldOrTakenOver, Keeps, Committed
    <2>1. resv[r].exp \in Nat
      BY ReservationTyped, TimesAreNat DEF IInv, Reservation
    <2> QED BY <1>1, <2>1 DEF IInv, HeldOrTakenOver, Keeps
  <1> QED BY <1>1, <1>2, LedgerAloneIInv DEF IInv, LedgerTyped

LEMMA StepIInv == IInv /\ [Next]_vars => IInv'
  <1> SUFFICES ASSUME IInv, [Next]_vars PROVE IInv'
    OBVIOUS
  <1>0. ASSUME NEW r \in Rids, BeginHold(r) \/ FailHold(r) PROVE IInv'
    BY <1>0, BeginHoldIInv, FailHoldIInv
  <1>1. ASSUME NEW r \in Rids, CommitHold(r) PROVE IInv'
    BY <1>1, CommitHoldIInv
  <1>2. ASSUME NEW r \in Rids, AnnounceHold(r) PROVE IInv'
    BY <1>2, AnnounceHoldIInv
  <1>3. ASSUME NEW p \in Payments, BeginPay(p) PROVE IInv'
    BY <1>3, BeginPayIInv
  <1>4. ASSUME NEW p \in Payments, SettlePay(p) PROVE IInv'
    BY <1>4, SettlePayIInv
  <1>5. ASSUME NEW p \in Payments, FailPay(p) PROVE IInv'
    BY <1>5, FailPayIInv
  <1>6. ASSUME NEW p \in Payments, AnnouncePay(p) PROVE IInv'
    BY <1>6, AnnouncePayIInv
  <1>7. CASE UNCHANGED vars
    <2>1. UNCHANGED <<clock, status, resv, tickets, hold, pay, sent>>
      BY <1>7 DEF vars
    <2>2. LedgerTyped' /\ HeldOrTakenOver'
      BY <2>1 DEF IInv, LedgerTyped, HeldOrTakenOver, Keeps, OverBefore, Committed
    <2> QED BY <2>1, <2>2, LedgerAloneIInv DEF IInv, TypeOK
  <1> QED BY <1>0, <1>1, <1>2, <1>3, <1>4, <1>5, <1>6, <1>7, CleanupIInv, TickIInv DEF Next

LEMMA Invariance == Spec => []IInv
  BY InitIInv, StepIInv, PTL DEF Spec

-----------------------------------------------------------------------------
(* The rows of the ledger, the progress of requests and the messages have
   their types. *)
THEOREM TypeCorrect == Spec => []TypeOK
  <1>1. IInv => TypeOK
    BY DEF IInv
  <1> QED BY <1>1, Invariance, PTL

(* A seat that GetEventSeatMap shows as available can be reserved, and nobody
   who comes now can pay for it, but in the last instant of a hold that a slow
   reservation has taken over; a reserved one can be paid for by whoever has
   it; a sold one has a ticket. *)
THEOREM MapIsTrue == Spec => []SeatMapIsTrue
  <1>1. IInv => SeatMapIsTrue
    <2> SUFFICES ASSUME IInv, NEW s \in Seats
                 PROVE
                   /\ Shown(s) = "available" =>
                        /\ status[s].st # "sold" /\ ~Ledger!Held(s)
                        /\ \A r \in Rids :
                             /\ Committed(r) /\ s \in resv[r].seats
                             /\ Payable(r, resv[r].user, clock)
                             => resv[r].exp = clock /\ OverBefore(s)
                   /\ Shown(s) = "reserved" =>
                        \E r \in Rids : /\ Committed(r) /\ s \in resv[r].seats
                                        /\ Payable(r, status[s].by, clock)
                   /\ Shown(s) = "sold" => \E t \in tickets : t.seat = s
      BY DEF SeatMapIsTrue
    <2>1. status[s].exp \in Int
      BY ExpiryIsInt DEF IInv
    <2>2. clock \in Nat
      BY TimesAreNat DEF IInv, TypeOK
    <2>3. ASSUME Shown(s) = "available", NEW r \in Rids, Committed(r), s \in resv[r].seats,
                 Payable(r, resv[r].user, clock)
          PROVE  resv[r].exp = clock /\ OverBefore(s)
      <3>1. resv[r].exp \in Nat /\ resv[r].exp >= clock
        BY <2>3, ReservationTyped, TimesAreNat DEF IInv, Reservation, Payable
      <3>2. Keeps(r, s)
        BY <2>3, <3>1 DEF IInv, HeldOrTakenOver
      <3> QED BY <2>1, <2>2, <2>3, <3>1, <3>2 DEF Keeps, Shown
    <2>4. Shown(s) = "available" => status[s].st # "sold" /\ ~Ledger!Held(s)
      BY <2>1, <2>2 DEF Shown, Ledger!Held
    <2>5. ASSUME Shown(s) = "reserved"
          PROVE  \E r \in Rids : /\ Committed(r) /\ s \in resv[r].seats
                                 /\ Payable(r, status[s].by, clock)
      <3>1. status[s].st = "reserved" /\ status[s].exp >= clock
        BY <2>1, <2>2, <2>5 DEF Shown
      <3>2. PICK r \in Rids : RowOf(s, r)
        BY <3>1 DEF IInv, RowsAreAccounted
      <3> QED BY <3>1, <3>2 DEF RowOf, Payable
    <2>6. Shown(s) = "sold" => \E t \in tickets : t.seat = s
      BY DEF Shown, IInv, RowsAreAccounted
    <2> QED BY <2>3, <2>4, <2>5, <2>6
  <1> QED BY <1>1, Invariance, PTL

(* Whoever was told of a reservation can pay for it until the duration has
   passed since the request to reserve, however long the request took: unless
   it has been paid, or an older reservation has the same ref. *)
THEOREM TimelyIsAccepted == Spec => []TimelyPaymentIsAccepted
  <1>1. IInv => TimelyPaymentIsAccepted
    BY DEF IInv
  <1> QED BY <1>1, Invariance, PTL

(* What ConfirmPayment broadcasts as sold is sold, if the client sent the
   event of its reservation and no other reservation drew its ref. *)
THEOREM SalesAreTrue == Spec => []SalesAnnouncedAreTrue
  <1>1. IInv => SalesAnnouncedAreTrue
    BY DEF IInv
  <1> QED BY <1>1, Invariance, PTL
=============================================================================
