----------------------- MODULE SeatTransactionsProofs -----------------------
(***************************************************************************)
(* Proofs about SeatTransactions for every number of seats, users,         *)
(* payments and reservations, every lock duration and every MaxClock.  In  *)
(* four parts: locks and holds (IndInv), why one seat alone is no cause of *)
(* a deadlock (LocksInOrder), tickets (TicketInv), and the refinement of   *)
(* SeatLedger (LedgerInv).                                                 *)
(***************************************************************************)
EXTENDS SeatTransactions, TLAPS

IndInv ==
  /\ TypeOK
  /\ LocksAreOwned
  /\ ChecksAreStable
  /\ LiveHoldIsHonoured
  /\ LiveHoldsDisjoint

(* Reservations, payments and the cleanup are three kinds of transaction. *)
LEMMA KindsOfTransaction ==
  /\ \A r \in Rids : Running(r) <=> rpc[r] \in {"open", "valid"}
  /\ \A p \in Payments : Running(p) <=> pay[p].pc \in {"locking", "selling", "inserting"}
  /\ Running(Cleaner) <=> sweep.on
BY ConstantsAssumption DEF Running

(* An unfinished payment has its local variables. *)
LEMMA PaymentTyped ==
  ASSUME TypeOK, NEW p \in Payments, pay[p].pc \in {"locking", "selling", "inserting"}
  PROVE  pay[p] \in Payment /\ pay[p].rid \in Rids
<1>1. pay[p] \in Payment \cup {NoPayment(pc) : pc \in {"idle", "done", "failed"}}
  BY DEF TypeOK
<1>2. pay[p] \notin {NoPayment(pc) : pc \in {"idle", "done", "failed"}}
  BY DEF NoPayment
<1> QED
  BY <1>1, <1>2 DEF Payment

(* A row of reservations that is there has its columns. *)
LEMMA ReservationTyped ==
  ASSUME TypeOK, NEW r \in Rids, resv[r].st # "none"
  PROVE  /\ resv[r] \in Reservation
         /\ resv[r].user \in Users /\ resv[r].seats \in (SUBSET Seats) \ {{}}
         /\ resv[r].exp \in Times
<1>1. resv[r] \in Reservation \cup {NoReservation}
  BY DEF TypeOK
<1> QED
  BY <1>1 DEF Reservation, NoReservation

LEMMA ReleaseTyped ==
  ASSUME TypeOK, NEW t, Release(t)
  PROVE  /\ seatLock' \in [Seats -> Rids \cup {Free}]
         /\ keyLock' \in [Seats -> SUBSET Payments]
         /\ statusLock' \in [Seats -> Transactions \cup {Free}]
         /\ resvLock' \in [Rids -> Payments \cup {Free}]
BY DEF TypeOK, Release

LEMMA InitIndInv == Init => IndInv
<1> SUFFICES ASSUME Init PROVE IndInv
  OBVIOUS
<1>1. TypeOK
  BY ConstantsAssumption
  DEF Init, TypeOK, AvailableRow, Row, StatusRow, Times, NoTime, NoPayment
<1>2. LocksAreOwned
  BY ConstantsAssumption, KindsOfTransaction
  DEF Init, LocksAreOwned, SeatRowsOwned, PaidRowsOwned, RequestsOwnTheirRow, Committed,
      NoReservation, NoPayment, Transactions
<1>3. ChecksAreStable
  BY ConstantsAssumption
  DEF Init, ChecksAreStable, ValidatedSeatsStayFree, SoldRowsAreOwned, SweptRowsAreExpired,
      NoPayment, Transactions
<1>4. LiveHoldIsHonoured /\ LiveHoldsDisjoint
  BY DEF Init, LiveHoldIsHonoured, LiveHoldsDisjoint, Committed, NoReservation
<1> QED
  BY <1>1, <1>2, <1>3, <1>4 DEF IndInv

-----------------------------------------------------------------------------
LEMMA TypeStep ==
  ASSUME TypeOK, LocksAreOwned, [Next]_vars
  PROVE  TypeOK'
<1> USE ConstantsAssumption
<1>1. ASSUME NEW r \in Rids, BeginReservation(r) PROVE TypeOK'
  BY <1>1 DEF TypeOK, BeginReservation, Reservation, Times, locks
<1>2. ASSUME NEW r \in Rids, NEW s \in Seats, LockSeat(r, s) PROVE TypeOK'
  BY <1>2 DEF TypeOK, LockSeat
<1>3. ASSUME NEW r \in Rids, NEW s \in Seats, LockStatus(r, s) PROVE TypeOK'
  BY <1>3 DEF TypeOK, LockStatus, LockStatusRow, Transactions
<1>4. ASSUME NEW r \in Rids, FailReservation(r) PROVE TypeOK'
  BY <1>4, ReleaseTyped DEF TypeOK, FailReservation
<1>5. ASSUME NEW r \in Rids, Validate(r) PROVE TypeOK'
  BY <1>5 DEF TypeOK, Validate, locks
<1>6. ASSUME NEW r \in Rids, CommitReservation(r) PROVE TypeOK'
  <2>1. resv[r] \in Reservation /\ resv[r].user \in Users /\ resv[r].exp \in Times
    BY <1>6, ReservationTyped, KindsOfTransaction
    DEF CommitReservation, LocksAreOwned, SeatRowsOwned, PaidRowsOwned, RequestsOwnTheirRow
  <2>2. status' \in [Seats -> StatusRow]
    BY <1>6, <2>1 DEF TypeOK, CommitReservation, StatusRow, Row
  <2>3. resv' \in [Rids -> Reservation \cup {NoReservation}]
    BY <1>6, <2>1 DEF TypeOK, CommitReservation, Reservation
  <2> QED
    BY <1>6, <2>2, <2>3, ReleaseTyped DEF TypeOK, CommitReservation
<1>7. ASSUME NEW p \in Payments, BeginPayment(p) PROVE TypeOK'
  <2>1. pay' \in [Payments -> Payment \cup {NoPayment(pc) : pc \in {"idle", "done", "failed"}}]
    BY <1>7 DEF TypeOK, BeginPayment, EndPayment, Payment, Times
  <2> QED
    BY <1>7, <2>1 DEF TypeOK, BeginPayment, locks
<1>8. ASSUME NEW p \in Payments, RejectPayment(p) PROVE TypeOK'
  BY <1>8 DEF TypeOK, RejectPayment, EndPayment, locks
<1>9. ASSUME NEW p \in Payments, LockReservation(p) PROVE TypeOK'
  <2>1. pay[p] \in Payment /\ pay[p].rid \in Rids
    BY <1>9, PaymentTyped DEF LockReservation
  <2>2. pay' \in [Payments -> Payment \cup {NoPayment(pc) : pc \in {"idle", "done", "failed"}}]
    BY <1>9, <2>1 DEF TypeOK, LockReservation, Payment
  <2> QED
    BY <1>9, <2>1, <2>2 DEF TypeOK, LockReservation
<1>10. ASSUME NEW p \in Payments, NEW s \in Seats, SellSeat(p, s) PROVE TypeOK'
  BY <1>10 DEF TypeOK, SellSeat, LockStatusRow, Transactions
<1>11. ASSUME NEW p \in Payments, StampTickets(p) PROVE TypeOK'
  <2>1. pay[p] \in Payment
    BY <1>11, PaymentTyped DEF StampTickets
  <2>2. pay' \in [Payments -> Payment \cup {NoPayment(pc) : pc \in {"idle", "done", "failed"}}]
    BY <1>11, <2>1 DEF TypeOK, StampTickets, Payment
  <2> QED
    BY <1>11, <2>2 DEF TypeOK, StampTickets, locks
<1>12. ASSUME NEW p \in Payments, NEW s \in Seats, ShareSeatKey(p, s) PROVE TypeOK'
  BY <1>12 DEF TypeOK, ShareSeatKey
<1>13. ASSUME NEW p \in Payments, CommitPayment(p) PROVE TypeOK'
  <2>1. pay[p] \in Payment /\ pay[p].rid \in Rids
    BY <1>13, PaymentTyped DEF CommitPayment
  <2>2. resv[pay[p].rid] \in Reservation
    BY <1>13, <2>1, ReservationTyped, KindsOfTransaction
    DEF CommitPayment, LocksAreOwned, SeatRowsOwned, PaidRowsOwned, RequestsOwnTheirRow,
        Committed
  <2>3. status' \in [Seats -> StatusRow]
    BY <1>13 DEF TypeOK, CommitPayment, StatusRow, SoldRow, Row
  <2>4. resv' \in [Rids -> Reservation \cup {NoReservation}]
    BY <1>13, <2>1, <2>2 DEF TypeOK, CommitPayment, Reservation
  <2>5. tickets' \subseteq Ticket
    BY <1>13, <2>1, <2>2 DEF TypeOK, CommitPayment, Ticket, Payment, SeatsOf, Reservation
  <2> QED
    BY <1>13, <2>3, <2>4, <2>5, ReleaseTyped DEF TypeOK, CommitPayment, EndPayment
<1>14. ASSUME BeginCleanup PROVE TypeOK'
  BY <1>14 DEF TypeOK, BeginCleanup, locks
<1>15. ASSUME NEW s \in Seats, CleanRow(s) PROVE TypeOK'
  BY <1>15 DEF TypeOK, CleanRow, LockStatusRow, Transactions
<1>16. ASSUME EndCleanup, status' \in [Seats -> StatusRow] PROVE TypeOK'
  BY <1>16, ReleaseTyped DEF TypeOK, EndCleanup, Times
<1>17. ASSUME CommitCleanup PROVE TypeOK'
  BY <1>16, <1>17 DEF TypeOK, CommitCleanup, AvailableRow, StatusRow, Row
<1>18. ASSUME NEW t \in Transactions, Rollback(t) PROVE TypeOK'
  <2>1. CASE t \in Rids /\ FailReservation(t)
    BY <1>4, <2>1
  <2>2. CASE t \in Payments /\ EndPayment(t, "failed") /\ Release(t)
              /\ UNCHANGED <<clock, status, resv, tickets, rpc, sweep>>
    BY <2>2, ReleaseTyped DEF TypeOK, EndPayment
  <2>3. CASE t = Cleaner /\ EndCleanup /\ UNCHANGED status
    BY <1>16, <2>3 DEF TypeOK
  <2> QED
    BY <1>18, <2>1, <2>2, <2>3 DEF Rollback
<1>19. ASSUME Tick PROVE TypeOK'
  BY <1>19 DEF TypeOK, Tick, Times, locks
<1>20. ASSUME UNCHANGED vars PROVE TypeOK'
  BY <1>20 DEF TypeOK, vars, locks
<1> QED
  BY <1>1, <1>2, <1>3, <1>4, <1>5, <1>6, <1>7, <1>8, <1>9, <1>10, <1>11, <1>12, <1>13,
     <1>14, <1>15, <1>17, <1>18, <1>19, <1>20
  DEF Next, ReservationStep, PaymentStep, CleanupStep, SeatsNotFound, SeatConflict,
      Fail, DeadlockVictim
-----------------------------------------------------------------------------
(* A payment that ends, well or not, leaves nothing locked behind. *)
LEMMA PaymentEnds ==
  ASSUME TypeOK, LocksAreOwned, NEW p \in Payments, Release(p),
         pay'[p].pc \in {"done", "failed"},
         \A q \in Payments \ {p} : pay'[q] = pay[q],
         rpc' = rpc, sweep' = sweep,
         \A r \in Rids : /\ resv'[r].st = "open" <=> resv[r].st = "open"
                         /\ Committed(r)' <=> Committed(r)
                         /\ SeatsOf(r)' = SeatsOf(r) /\ Found(r)' = Found(r)
                         /\ resv'[r].seats = resv[r].seats
  PROVE  LocksAreOwned'
<1> USE ConstantsAssumption, KindsOfTransaction
<1>0. /\ \A r \in Rids : Running(r)' <=> rpc'[r] \in {"open", "valid"}
      /\ \A q \in Payments : Running(q)' <=> pay'[q].pc \in {"locking", "selling", "inserting"}
      /\ Running(Cleaner)' <=> sweep'.on
  BY DEF Running
<1>1. /\ \A s \in Seats : /\ seatLock'[s] = seatLock[s]
                          /\ statusLock'[s] = IF statusLock[s] = p THEN Free ELSE statusLock[s]
                          /\ keyLock'[s] = keyLock[s] \ {p}
      /\ \A r \in Rids : resvLock'[r] = IF resvLock[r] = p THEN Free ELSE resvLock[r]
  BY DEF Release, TypeOK
<1>2. \A t \in Transactions \ {p} : Running(t)' <=> Running(t)
  BY <1>0 DEF Transactions
<1>3. SeatRowsOwned'
  <2> SUFFICES ASSUME NEW s \in Seats
               PROVE  /\ seatLock'[s] # Free => Running(seatLock[s])'
                      /\ statusLock'[s] # Free => Running(statusLock[s])'
                      /\ \A q \in keyLock'[s] : pay'[q].pc = "inserting"
                      /\ \A r \in Rids : statusLock'[s] = r => Found(r)' = resv'[r].seats
                      /\ \A q \in Payments : statusLock'[s] = q =>
                           pay'[q].pc \in {"selling", "inserting"} /\ s \in SeatsOf(pay[q].rid)'
    BY DEF SeatRowsOwned
  <2>1. seatLock'[s] # Free => Running(seatLock[s])'
    BY <1>0, <1>1 DEF LocksAreOwned, SeatRowsOwned, TypeOK
  <2>2. statusLock'[s] # Free => Running(statusLock[s])'
    BY <1>0, <1>1 DEF LocksAreOwned, SeatRowsOwned, TypeOK, Transactions
  <2>3. \A q \in keyLock'[s] : pay'[q].pc = "inserting"
    BY <1>1 DEF LocksAreOwned, SeatRowsOwned, TypeOK
  <2>4. \A r \in Rids : statusLock'[s] = r => Found(r)' = resv'[r].seats
    BY <1>1 DEF LocksAreOwned, SeatRowsOwned, Transactions
  <2>5. ASSUME NEW q \in Payments, statusLock'[s] = q
        PROVE  pay'[q].pc \in {"selling", "inserting"} /\ s \in SeatsOf(pay[q].rid)'
    <3>1. q # p /\ statusLock[s] = q
      BY <1>1, <2>5 DEF Transactions
    <3>2. pay[q].pc \in {"selling", "inserting"} /\ s \in SeatsOf(pay[q].rid)
      BY <3>1 DEF LocksAreOwned, SeatRowsOwned
    <3>3. pay[q].rid \in Rids /\ pay'[q] = pay[q]
      BY <3>1, <3>2, PaymentTyped
    <3> QED
      BY <3>2, <3>3 DEF SeatsOf
  <2> QED
    BY <2>1, <2>2, <2>3, <2>4, <2>5
<1>4. PaidRowsOwned'
  <2>1. ASSUME NEW r \in Rids, resvLock'[r] # Free
        PROVE  pay'[resvLock'[r]].pc \in {"selling", "inserting"} /\ pay'[resvLock'[r]].rid = r
    BY <1>1, <2>1 DEF LocksAreOwned, PaidRowsOwned, TypeOK
  <2>2. ASSUME NEW q \in Payments, pay'[q].pc \in {"locking", "selling", "inserting"}
        PROVE  /\ resv'[pay'[q].rid].st \in {"reserved", "paid"}
               /\ pay'[q].pc \in {"selling", "inserting"} => resvLock'[pay'[q].rid] = q
    <3>1. q # p /\ pay'[q] = pay[q]
      BY <2>2
    <3>2. pay[q].rid \in Rids /\ Committed(pay[q].rid)
      BY <2>2, <3>1, PaymentTyped DEF LocksAreOwned, PaidRowsOwned
    <3> QED
      BY <1>1, <2>2, <3>1, <3>2 DEF LocksAreOwned, PaidRowsOwned, Committed
  <2> QED
    BY <1>0, <2>1, <2>2 DEF PaidRowsOwned, Committed
<1>5. RequestsOwnTheirRow'
  <2>1. \A r \in Rids : Running(r)' <=> Running(r)
    BY <1>0
  <2> QED
    BY <2>1 DEF LocksAreOwned, RequestsOwnTheirRow
<1> QED
  BY <1>3, <1>4, <1>5 DEF LocksAreOwned

LEMMA LocksStep ==
  ASSUME TypeOK, LocksAreOwned, ChecksAreStable, [Next]_vars
  PROVE  LocksAreOwned'
<1> USE ConstantsAssumption, KindsOfTransaction
<1>0. /\ \A r \in Rids : Running(r)' <=> rpc'[r] \in {"open", "valid"}
      /\ \A p \in Payments : Running(p)' <=> pay'[p].pc \in {"locking", "selling", "inserting"}
      /\ Running(Cleaner)' <=> sweep'.on
  BY DEF Running
<1>1. ASSUME NEW r \in Rids, BeginReservation(r) PROVE LocksAreOwned'
  BY <1>0, <1>1
  DEF TypeOK, LocksAreOwned, SeatRowsOwned, PaidRowsOwned, RequestsOwnTheirRow,
      BeginReservation, locks, Committed, SeatsOf, Found, Transactions
<1>2. ASSUME NEW r \in Rids, NEW s \in Seats, LockSeat(r, s) PROVE LocksAreOwned'
  BY <1>0, <1>2
  DEF TypeOK, LocksAreOwned, SeatRowsOwned, PaidRowsOwned, RequestsOwnTheirRow, LockSeat,
      Committed, SeatsOf, Found, Transactions
<1>3. ASSUME NEW r \in Rids, NEW s \in Seats, LockStatus(r, s) PROVE LocksAreOwned'
  BY <1>0, <1>3
  DEF TypeOK, LocksAreOwned, SeatRowsOwned, PaidRowsOwned, RequestsOwnTheirRow, LockStatus,
      LockStatusRow, Committed, SeatsOf, Found, Transactions
<1>4. ASSUME NEW r \in Rids, Running(r), FailReservation(r) PROVE LocksAreOwned'
  BY <1>0, <1>4
  DEF TypeOK, LocksAreOwned, SeatRowsOwned, PaidRowsOwned, RequestsOwnTheirRow,
      FailReservation, Release, NoReservation, Committed, SeatsOf, Found, Transactions
<1>5. ASSUME NEW r \in Rids, Validate(r) PROVE LocksAreOwned'
  BY <1>0, <1>5
  DEF TypeOK, LocksAreOwned, SeatRowsOwned, PaidRowsOwned, RequestsOwnTheirRow, Validate,
      locks, Committed, SeatsOf, Found, Transactions
<1>6. ASSUME NEW r \in Rids, CommitReservation(r) PROVE LocksAreOwned'
  <2>1. resv[r].seats \in (SUBSET Seats) \ {{}} /\ resv[r] \in Reservation
    BY <1>6, ReservationTyped
    DEF CommitReservation, LocksAreOwned, SeatRowsOwned, PaidRowsOwned, RequestsOwnTheirRow
  <2>2. Found(r) = resv[r].seats
    BY <1>6, <2>1
    DEF CommitReservation, ChecksAreStable, ValidatedSeatsStayFree, LocksAreOwned,
        SeatRowsOwned, PaidRowsOwned, RequestsOwnTheirRow
  <2> QED
    BY <1>0, <1>6, <2>1, <2>2
    DEF TypeOK, LocksAreOwned, SeatRowsOwned, PaidRowsOwned, RequestsOwnTheirRow,
        CommitReservation, Release, Committed, SeatsOf, Found,
        Reservation, Transactions
<1>7. ASSUME NEW p \in Payments, BeginPayment(p) PROVE LocksAreOwned'
  <2>1. \A q \in Payments \ {p} : pay'[q] = pay[q]
    BY <1>7 DEF BeginPayment, EndPayment, TypeOK
  <2>2. pay[p].pc = "idle"
    BY <1>7 DEF BeginPayment
  <2>3. \/ pay'[p].pc = "failed"
        \/ pay'[p].pc = "locking" /\ Committed(pay'[p].rid)
    BY <1>7 DEF BeginPayment, EndPayment, NoPayment, TypeOK
  <2> QED
    BY <1>0, <1>7, <2>1, <2>2, <2>3
    DEF TypeOK, LocksAreOwned, SeatRowsOwned, PaidRowsOwned, RequestsOwnTheirRow,
        BeginPayment, locks, Committed, SeatsOf, Found, Transactions
<1>8. ASSUME NEW p \in Payments, RejectPayment(p) PROVE LocksAreOwned'
  BY <1>0, <1>8
  DEF TypeOK, LocksAreOwned, SeatRowsOwned, PaidRowsOwned, RequestsOwnTheirRow,
      RejectPayment, EndPayment, NoPayment, locks, Committed, SeatsOf, Found, Transactions
<1>9. ASSUME NEW p \in Payments, LockReservation(p) PROVE LocksAreOwned'
  BY <1>0, <1>9, PaymentTyped
  DEF TypeOK, LocksAreOwned, SeatRowsOwned, PaidRowsOwned, RequestsOwnTheirRow,
      LockReservation, Payment, Committed, SeatsOf, Found, Transactions
<1>10. ASSUME NEW p \in Payments, NEW s \in Seats, SellSeat(p, s) PROVE LocksAreOwned'
  BY <1>0, <1>10
  DEF TypeOK, LocksAreOwned, SeatRowsOwned, PaidRowsOwned, RequestsOwnTheirRow, SellSeat,
      LockStatusRow, Committed, SeatsOf, Found, Transactions
<1>11. ASSUME NEW p \in Payments, StampTickets(p) PROVE LocksAreOwned'
  BY <1>0, <1>11, PaymentTyped
  DEF TypeOK, LocksAreOwned, SeatRowsOwned, PaidRowsOwned, RequestsOwnTheirRow,
      StampTickets, Payment, locks, Committed, SeatsOf, Found, Transactions
<1>12. ASSUME NEW p \in Payments, NEW s \in Seats, ShareSeatKey(p, s) PROVE LocksAreOwned'
  BY <1>0, <1>12
  DEF TypeOK, LocksAreOwned, SeatRowsOwned, PaidRowsOwned, RequestsOwnTheirRow,
      ShareSeatKey, Committed, SeatsOf, Found, Transactions
<1>13. ASSUME NEW p \in Payments, CommitPayment(p) PROVE LocksAreOwned'
  <2>1. pay[p].rid \in Rids /\ Committed(pay[p].rid)
    BY <1>13, PaymentTyped
    DEF CommitPayment, LocksAreOwned, SeatRowsOwned, PaidRowsOwned, RequestsOwnTheirRow
  <2>2. resv[pay[p].rid] \in Reservation
    BY <2>1, ReservationTyped DEF Committed
  <2>3. pay'[p].pc = "done" /\ \A q \in Payments \ {p} : pay'[q] = pay[q]
    BY <1>13 DEF CommitPayment, EndPayment, NoPayment, TypeOK
  <2>4. \A q \in Rids : /\ resv'[q].st = (IF q = pay[p].rid THEN "paid" ELSE resv[q].st)
                        /\ resv'[q].seats = resv[q].seats /\ resv'[q].event = resv[q].event
    <3>1. resv' = [resv EXCEPT ![pay[p].rid] = [resv[pay[p].rid] EXCEPT !.st = "paid"]]
      BY <1>13 DEF CommitPayment
    <3>2. \A q \in Rids \ {pay[p].rid} : resv'[q] = resv[q]
      BY <3>1 DEF TypeOK
    <3>3. resv'[pay[p].rid] = [resv[pay[p].rid] EXCEPT !.st = "paid"]
      BY <2>1, <3>1 DEF TypeOK
    <3>4. /\ resv'[pay[p].rid].st = "paid"
          /\ resv'[pay[p].rid].seats = resv[pay[p].rid].seats
          /\ resv'[pay[p].rid].event = resv[pay[p].rid].event
      BY <2>2, <3>3 DEF Reservation
    <3> QED
      BY <3>2, <3>4
  <2>5. \A q \in Rids : /\ Committed(q)' <=> Committed(q)
                        /\ SeatsOf(q)' = SeatsOf(q) /\ Found(q)' = Found(q)
    BY <2>1, <2>4 DEF Committed, SeatsOf, Found
  <2> QED
    <3>1. \A q \in Rids : resv'[q].st = "open" <=> resv[q].st = "open"
      BY <2>1, <2>4 DEF Committed
    <3>2. Release(p) /\ rpc' = rpc /\ sweep' = sweep
      BY <1>13 DEF CommitPayment
    <3> QED
      BY <2>3, <2>4, <2>5, <3>1, <3>2, PaymentEnds
<1>14. ASSUME BeginCleanup PROVE LocksAreOwned'
  BY <1>0, <1>14
  DEF TypeOK, LocksAreOwned, SeatRowsOwned, PaidRowsOwned, RequestsOwnTheirRow,
      BeginCleanup, locks, Committed, SeatsOf, Found, Transactions
<1>15. ASSUME NEW s \in Seats, CleanRow(s) PROVE LocksAreOwned'
  BY <1>0, <1>15
  DEF TypeOK, LocksAreOwned, SeatRowsOwned, PaidRowsOwned, RequestsOwnTheirRow, CleanRow,
      LockStatusRow, Committed, SeatsOf, Found, Transactions
<1>16. ASSUME EndCleanup PROVE LocksAreOwned'
  BY <1>0, <1>16
  DEF TypeOK, LocksAreOwned, SeatRowsOwned, PaidRowsOwned, RequestsOwnTheirRow, EndCleanup,
      Release, Committed, SeatsOf, Found, Transactions
<1>17. ASSUME CommitCleanup PROVE LocksAreOwned'
  BY <1>16, <1>17 DEF CommitCleanup
<1>18. ASSUME NEW t \in Transactions, Running(t), Rollback(t) PROVE LocksAreOwned'
  <2>1. CASE t \in Rids /\ FailReservation(t)
    BY <1>4, <1>18, <2>1
  <2>2. CASE t \in Payments /\ EndPayment(t, "failed") /\ Release(t)
              /\ UNCHANGED <<clock, status, resv, tickets, rpc, sweep>>
    <3>1. pay'[t].pc = "failed" /\ \A q \in Payments \ {t} : pay'[q] = pay[q]
      BY <2>2 DEF EndPayment, NoPayment, TypeOK
    <3>2. \A r \in Rids : /\ Committed(r)' <=> Committed(r)
                          /\ SeatsOf(r)' = SeatsOf(r) /\ Found(r)' = Found(r)
      BY <2>2 DEF Committed, SeatsOf, Found
    <3> QED
      BY <2>2, <3>1, <3>2, PaymentEnds
  <2>3. CASE t = Cleaner /\ EndCleanup /\ UNCHANGED status
    BY <1>16, <2>3
  <2> QED
    BY <1>18, <2>1, <2>2, <2>3 DEF Rollback
<1>19. ASSUME Tick PROVE LocksAreOwned'
  BY <1>0, <1>19
  DEF TypeOK, LocksAreOwned, SeatRowsOwned, PaidRowsOwned, RequestsOwnTheirRow, Tick, locks,
      Committed, SeatsOf, Found, Transactions
<1>20. ASSUME UNCHANGED vars PROVE LocksAreOwned'
  BY <1>0, <1>20
  DEF TypeOK, LocksAreOwned, SeatRowsOwned, PaidRowsOwned, RequestsOwnTheirRow, vars, locks,
      Committed, SeatsOf, Found, Transactions
<1> QED
  <2>1. ASSUME NEW t \in Transactions, DeadlockVictim(t) PROVE Running(t)
    BY <2>1 DEF DeadlockVictim, Deadlocked, Stuck
  <2> QED
    BY <1>1, <1>2, <1>3, <1>4, <1>5, <1>6, <1>7, <1>8, <1>9, <1>10, <1>11, <1>12, <1>13,
       <1>14, <1>15, <1>17, <1>18, <1>19, <1>20, <2>1
    DEF Next, ReservationStep, PaymentStep, CleanupStep, SeatsNotFound, SeatConflict,
        Fail, DeadlockVictim
-----------------------------------------------------------------------------
(* Time only makes a hold weaker. *)
LEMMA TimePasses ==
  ASSUME NEW row \in StatusRow, NEW now \in Times, NEW later \in Times, now <= later
  PROVE  /\ Reservable(row, now) => Reservable(row, later)
         /\ Expired(row, now) => Expired(row, later)
BY ConstantsAssumption DEF StatusRow, Times, NoTime, Reservable, Expired

(* A committed reservation is never changed but for being marked paid. *)
LEMMA CommittedStays ==
  ASSUME TypeOK, LocksAreOwned, [Next]_vars, NEW r \in Rids, Committed(r)
  PROVE  /\ Committed(r)' /\ SeatsOf(r)' = SeatsOf(r)
         /\ resv'[r].seats = resv[r].seats /\ resv'[r].event = resv[r].event
         /\ resv'[r].user = resv[r].user /\ resv'[r].exp = resv[r].exp
         /\ resv[r].st = "paid" => resv'[r].st = "paid"
<1> DEFINE Goal == /\ Committed(r)' /\ SeatsOf(r)' = SeatsOf(r)
                   /\ resv'[r].seats = resv[r].seats /\ resv'[r].event = resv[r].event
                   /\ resv'[r].user = resv[r].user /\ resv'[r].exp = resv[r].exp
                   /\ resv[r].st = "paid" => resv'[r].st = "paid"
<1> USE ConstantsAssumption, KindsOfTransaction
<1>1. rpc[r] = "done" /\ resv[r] \in Reservation
  BY ReservationTyped DEF LocksAreOwned, RequestsOwnTheirRow, Committed
<1>2. ASSUME resv'[r] = resv[r] PROVE Goal
  BY <1>2 DEF Committed, SeatsOf
<1>3. ASSUME NEW q \in Rids, BeginReservation(q) PROVE Goal
  BY <1>1, <1>2, <1>3 DEF BeginReservation, TypeOK
<1>4. ASSUME NEW q \in Rids, Running(q), FailReservation(q) PROVE Goal
  BY <1>1, <1>2, <1>4 DEF FailReservation, TypeOK
<1>5. ASSUME NEW q \in Rids, CommitReservation(q) PROVE Goal
  BY <1>1, <1>2, <1>5 DEF CommitReservation, TypeOK
<1>6. ASSUME NEW p \in Payments, CommitPayment(p) PROVE Goal
  <2>1. CASE pay[p].rid # r
    BY <1>2, <1>6, <2>1 DEF CommitPayment, TypeOK
  <2>2. CASE pay[p].rid = r
    <3>1. resv'[r] = [resv[r] EXCEPT !.st = "paid"]
      BY <1>6, <2>2 DEF CommitPayment, TypeOK
    <3>2. /\ resv'[r].st = "paid" /\ resv'[r].seats = resv[r].seats
          /\ resv'[r].event = resv[r].event /\ resv'[r].user = resv[r].user
          /\ resv'[r].exp = resv[r].exp
      BY <1>1, <3>1 DEF Reservation
    <3> QED
      BY <3>2 DEF Committed, SeatsOf
  <2> QED
    BY <2>1, <2>2
<1>7. ASSUME UNCHANGED resv PROVE Goal
  BY <1>2, <1>7
<1>8. ASSUME NEW t \in Transactions, Running(t), Rollback(t) PROVE Goal
  BY <1>4, <1>7, <1>8 DEF Rollback, EndCleanup
<1>9. ASSUME NEW t \in Transactions, DeadlockVictim(t) PROVE Running(t)
  BY <1>9 DEF DeadlockVictim, Deadlocked, Stuck
<1>10. ASSUME NEW q \in Rids, ReservationStep(q) PROVE Goal
  BY <1>4, <1>5, <1>7, <1>10
  DEF ReservationStep, LockSeat, LockStatus, SeatsNotFound, SeatConflict, Validate
<1>11. ASSUME NEW p \in Payments, PaymentStep(p) PROVE Goal
  BY <1>6, <1>7, <1>11
  DEF PaymentStep, SellSeat, ShareSeatKey, RejectPayment, LockReservation, StampTickets
<1>12. ASSUME CleanupStep PROVE Goal
  BY <1>7, <1>12 DEF CleanupStep, BeginCleanup, CleanRow, CommitCleanup, EndCleanup
<1> QED
  BY <1>3, <1>7, <1>8, <1>9, <1>10, <1>11, <1>12
  DEF Next, BeginPayment, Fail, DeadlockVictim, Tick, vars

(* The rows of seat_statuses change in three ways only, and each of them
   under the row's lock and on what the transaction has checked. *)
LEMMA StatusChanges ==
  ASSUME TypeOK, LocksAreOwned, ChecksAreStable, [Next]_vars,
         NEW s \in Seats, status'[s] # status[s]
  PROVE  \/ \E r \in Rids : /\ CommitReservation(r) /\ s \in resv[r].seats
                            /\ Reservable(status[s], clock)
         \/ \E p \in Payments : CommitPayment(p) /\ s \in SeatsOf(pay[p].rid)
                                /\ status'[s] = SoldRow
         \/ CommitCleanup /\ statusLock[s] = Cleaner /\ Expired(status[s], clock)
<1> DEFINE Goal ==
      \/ \E r \in Rids : /\ CommitReservation(r) /\ s \in resv[r].seats
                         /\ Reservable(status[s], clock)
      \/ \E p \in Payments : CommitPayment(p) /\ s \in SeatsOf(pay[p].rid)
                             /\ status'[s] = SoldRow
      \/ CommitCleanup /\ statusLock[s] = Cleaner /\ Expired(status[s], clock)
<1>1. ASSUME NEW r \in Rids, CommitReservation(r) PROVE Goal
  BY <1>1
  DEF CommitReservation, ChecksAreStable, ValidatedSeatsStayFree, SweptRowsAreExpired,
      TypeOK
<1>2. ASSUME NEW p \in Payments, CommitPayment(p) PROVE Goal
  BY <1>2 DEF CommitPayment, TypeOK
<1>3. ASSUME CommitCleanup PROVE Goal
  BY <1>3
  DEF CommitCleanup, ChecksAreStable, ValidatedSeatsStayFree, SweptRowsAreExpired, TypeOK
<1>4. status' # status
  OBVIOUS
<1>5. ASSUME NEW q \in Rids, ReservationStep(q) PROVE Goal
  BY <1>1, <1>4, <1>5
  DEF ReservationStep, LockSeat, LockStatus, SeatsNotFound, SeatConflict, Validate,
      FailReservation
<1>6. ASSUME NEW p \in Payments, PaymentStep(p) PROVE Goal
  BY <1>2, <1>4, <1>6
  DEF PaymentStep, SellSeat, ShareSeatKey, RejectPayment, LockReservation, StampTickets
<1>7. ASSUME CleanupStep PROVE Goal
  BY <1>3, <1>4, <1>7 DEF CleanupStep, BeginCleanup, CleanRow
<1>8. ASSUME NEW t \in Transactions, Rollback(t) PROVE FALSE
  BY <1>4, <1>8 DEF Rollback, FailReservation
<1> QED
  BY <1>4, <1>5, <1>6, <1>7, <1>8
  DEF Next, BeginReservation, BeginPayment, Fail, DeadlockVictim, Tick, vars
LEMMA ClockStep ==
  ASSUME TypeOK, [Next]_vars
  PROVE  clock' \in Times /\ clock <= clock'
<1> USE ConstantsAssumption
<1>1. CASE clock' = clock
  BY <1>1 DEF TypeOK, Times
<1>2. CASE Tick
  BY <1>2 DEF Tick, TypeOK, Times
<1>3. CASE clock' # clock /\ ~Tick
  BY <1>3
  DEF Next, vars, BeginReservation, ReservationStep, LockSeat, LockStatus, SeatsNotFound,
      SeatConflict, Validate, CommitReservation, FailReservation, BeginPayment, PaymentStep,
      SellSeat, ShareSeatKey, RejectPayment, LockReservation, StampTickets, CommitPayment,
      CleanupStep, BeginCleanup, CleanRow, CommitCleanup, EndCleanup, Fail, DeadlockVictim,
      Rollback
<1> QED
  BY <1>1, <1>2, <1>3

(* A row of seat_statuses goes back only with the end of its transaction ... *)
LEMMA LockKept ==
  ASSUME TypeOK, [Next]_vars, NEW s \in Seats, NEW t \in Rids \cup Payments, statusLock[s] = t
  PROVE  \/ statusLock'[s] = t
         \/ t \in Rids /\ rpc'[t] \in {"done", "failed"}
         \/ t \in Payments /\ pay'[t].pc \in {"done", "failed"}
<1> DEFINE Goal == \/ statusLock'[s] = t
                   \/ t \in Rids /\ rpc'[t] \in {"done", "failed"}
                   \/ t \in Payments /\ pay'[t].pc \in {"done", "failed"}
<1> USE ConstantsAssumption
<1>1. ASSUME NEW u \in Transactions, Release(u), u # t PROVE Goal
  BY <1>1 DEF Release, TypeOK
<1>2. ASSUME NEW x \in Seats, NEW u \in Transactions, LockStatusRow(u, x) PROVE Goal
  BY <1>2 DEF LockStatusRow, Transactions, TypeOK
<1>3. ASSUME UNCHANGED statusLock PROVE Goal
  BY <1>3
<1>4. ASSUME NEW q \in Rids, FailReservation(q) PROVE Goal
  BY <1>1, <1>4 DEF FailReservation, Transactions, TypeOK
<1>5. ASSUME NEW q \in Rids, ReservationStep(q) PROVE Goal
  <2>1. CASE CommitReservation(q)
    BY <1>1, <2>1 DEF CommitReservation, Transactions, TypeOK
  <2> QED
    BY <1>2, <1>3, <1>4, <1>5, <2>1
    DEF ReservationStep, LockSeat, LockStatus, SeatsNotFound, SeatConflict, Validate, locks,
        Transactions
<1>6. ASSUME NEW p \in Payments, Release(p), pay'[p].pc \in {"done", "failed"} PROVE Goal
  BY <1>1, <1>6 DEF Transactions
<1>7. ASSUME NEW p \in Payments, PaymentStep(p) PROVE Goal
  <2>1. CASE CommitPayment(p)
    BY <1>6, <2>1 DEF CommitPayment, EndPayment, NoPayment, TypeOK
  <2> QED
    BY <1>2, <1>3, <1>7, <2>1
    DEF PaymentStep, SellSeat, ShareSeatKey, RejectPayment, LockReservation, StampTickets,
        locks,
        Transactions
<1>8. ASSUME EndCleanup PROVE Goal
  BY <1>1, <1>8 DEF EndCleanup, Transactions
<1>9. ASSUME CleanupStep PROVE Goal
  BY <1>2, <1>3, <1>8, <1>9
  DEF CleanupStep, BeginCleanup, CleanRow, CommitCleanup, locks, Transactions
<1>10. ASSUME NEW u \in Transactions, Rollback(u) PROVE Goal
  BY <1>4, <1>6, <1>8, <1>10 DEF Rollback, EndPayment, NoPayment, TypeOK
<1> QED
  BY <1>3, <1>5, <1>7, <1>9, <1>10
  DEF Next, BeginReservation, BeginPayment, Fail, DeadlockVictim, Tick, vars, locks

(* ... and the cleanup takes only rows that have expired. *)
LEMMA CleanerLocks ==
  ASSUME TypeOK, [Next]_vars, NEW s \in Seats, statusLock'[s] = Cleaner
  PROVE  statusLock[s] = Cleaner \/ Expired(status[s], sweep.now)
<1> DEFINE Goal == statusLock[s] = Cleaner \/ Expired(status[s], sweep.now)
<1> USE ConstantsAssumption
<1>1. ASSUME NEW u, Release(u) PROVE Goal
  BY <1>1 DEF Release, TypeOK, Transactions
<1>2. ASSUME NEW x \in Seats, NEW u \in Rids \cup Payments, LockStatusRow(u, x) PROVE Goal
  BY <1>2 DEF LockStatusRow, TypeOK, Transactions
<1>3. ASSUME UNCHANGED statusLock PROVE Goal
  BY <1>3
<1>4. ASSUME NEW x \in Seats, CleanRow(x) PROVE Goal
  BY <1>4 DEF CleanRow, LockStatusRow, TypeOK
<1>5. ASSUME NEW q \in Rids, ReservationStep(q) PROVE Goal
  BY <1>1, <1>2, <1>3, <1>5
  DEF ReservationStep, LockSeat, LockStatus, SeatsNotFound, SeatConflict, Validate,
      CommitReservation, FailReservation, locks
<1>6. ASSUME NEW p \in Payments, PaymentStep(p) PROVE Goal
  BY <1>1, <1>2, <1>3, <1>6
  DEF PaymentStep, SellSeat, ShareSeatKey, RejectPayment, LockReservation, StampTickets,
      CommitPayment, locks
<1> QED
  BY <1>1, <1>3, <1>4, <1>5, <1>6
  DEF Next, BeginReservation, BeginPayment, CleanupStep, BeginCleanup, CommitCleanup,
      EndCleanup,
      Fail, DeadlockVictim, Rollback, FailReservation, Tick, vars, locks
(* How a request becomes valid, a payment comes to insert its tickets and a
   cleanup to have its time. *)
LEMMA ProgressSteps ==
  ASSUME TypeOK, LocksAreOwned, [Next]_vars
  PROVE  /\ \A r \in Rids : rpc'[r] = "valid" =>
              (rpc[r] = "valid" /\ resv'[r] = resv[r]) \/ Validate(r)
         /\ \A p \in Payments : pay'[p].pc = "inserting" =>
              (pay[p].pc = "inserting" /\ pay'[p].rid = pay[p].rid) \/ StampTickets(p)
         /\ sweep'.now \in {sweep.now, clock, 0}
<1> DEFINE Goal ==
      /\ \A r \in Rids : rpc'[r] = "valid" =>
           (rpc[r] = "valid" /\ resv'[r] = resv[r]) \/ Validate(r)
      /\ \A p \in Payments : pay'[p].pc = "inserting" =>
           (pay[p].pc = "inserting" /\ pay'[p].rid = pay[p].rid) \/ StampTickets(p)
      /\ sweep'.now \in {sweep.now, clock, 0}
<1> USE ConstantsAssumption, KindsOfTransaction
<1>1. ASSUME UNCHANGED <<pay, sweep>>, NEW q \in Rids,
             \A r \in Rids \ {q} : rpc'[r] = rpc[r] /\ resv'[r] = resv[r],
             rpc'[q] # "valid"
      PROVE  Goal
  BY <1>1
<1>2. ASSUME UNCHANGED <<rpc, sweep>>, NEW p \in Payments,
             \A r \in Rids : rpc[r] = "valid" => resv'[r] = resv[r],
             \A u \in Payments \ {p} : pay'[u] = pay[u], pay'[p].pc # "inserting"
      PROVE  Goal
  BY <1>2
<1>3. ASSUME UNCHANGED <<rpc, resv, pay>>, sweep'.now \in {sweep.now, clock, 0} PROVE Goal
  BY <1>3
<1>4. ASSUME UNCHANGED <<rpc, resv, pay, sweep>> PROVE Goal
  BY <1>4
<1>5. ASSUME NEW q \in Rids, BeginReservation(q) PROVE Goal
  BY <1>1, <1>5 DEF BeginReservation, TypeOK
<1>6. ASSUME NEW q \in Rids, FailReservation(q) PROVE Goal
  BY <1>1, <1>6 DEF FailReservation, TypeOK
<1>7. ASSUME NEW q \in Rids, CommitReservation(q) PROVE Goal
  BY <1>1, <1>7 DEF CommitReservation, TypeOK
<1>8. ASSUME NEW q \in Rids, Validate(q) PROVE Goal
  BY <1>8 DEF Validate, TypeOK
<1>9. ASSUME NEW q \in Rids, ReservationStep(q) PROVE Goal
  BY <1>4, <1>6, <1>7, <1>8, <1>9
  DEF ReservationStep, LockSeat, LockStatus, SeatsNotFound, SeatConflict
<1>10. ASSUME NEW p \in Payments, NEW pc \in {"done", "failed"}, EndPayment(p, pc)
       PROVE  pay'[p].pc # "inserting" /\ \A u \in Payments \ {p} : pay'[u] = pay[u]
  BY <1>10 DEF EndPayment, NoPayment, TypeOK
<1>11. ASSUME NEW p \in Payments, BeginPayment(p) PROVE Goal
  <2>1. pay'[p].pc # "inserting" /\ \A u \in Payments \ {p} : pay'[u] = pay[u]
    BY <1>11, <1>10 DEF BeginPayment, TypeOK
  <2> QED
    BY <1>2, <1>11, <2>1 DEF BeginPayment
<1>12. ASSUME NEW p \in Payments, RejectPayment(p) PROVE Goal
  BY <1>2, <1>10, <1>12 DEF RejectPayment
<1>13. ASSUME NEW p \in Payments, LockReservation(p) PROVE Goal
  <2>1. pay'[p].pc # "inserting" /\ \A u \in Payments \ {p} : pay'[u] = pay[u]
    BY <1>13, PaymentTyped DEF LockReservation, TypeOK, Payment
  <2> QED
    BY <1>2, <1>13, <2>1 DEF LockReservation
<1>14. ASSUME NEW p \in Payments, StampTickets(p) PROVE Goal
  <2>1. \A u \in Payments \ {p} : pay'[u] = pay[u]
    BY <1>14 DEF StampTickets, TypeOK
  <2> QED
    BY <1>14, <2>1 DEF StampTickets
<1>15. ASSUME NEW p \in Payments, CommitPayment(p) PROVE Goal
  <2>1. pay[p].rid \in Rids /\ resv[pay[p].rid].st # "open"
    BY <1>15, PaymentTyped DEF CommitPayment, LocksAreOwned, PaidRowsOwned, Committed
  <2>2. \A r \in Rids : rpc[r] = "valid" => resv'[r] = resv[r]
    BY <1>15, <2>1 DEF CommitPayment, LocksAreOwned, RequestsOwnTheirRow, TypeOK
  <2> QED
    BY <1>2, <1>10, <1>15, <2>2 DEF CommitPayment
<1>16. ASSUME NEW p \in Payments, PaymentStep(p) PROVE Goal
  BY <1>4, <1>12, <1>13, <1>14, <1>15, <1>16 DEF PaymentStep, SellSeat, ShareSeatKey
<1>17. ASSUME CleanupStep PROVE Goal
  <2>1. sweep'.now \in {sweep.now, clock, 0}
    BY <1>17 DEF CleanupStep, BeginCleanup, CleanRow, CommitCleanup, EndCleanup, TypeOK
  <2> QED
    BY <1>3, <1>17, <2>1 DEF CleanupStep, BeginCleanup, CleanRow, CommitCleanup, EndCleanup
<1>18. ASSUME NEW t \in Transactions, Rollback(t) PROVE Goal
  <2>1. CASE t \in Rids /\ FailReservation(t)
    BY <1>6, <2>1
  <2>2. CASE t \in Payments /\ EndPayment(t, "failed")
              /\ UNCHANGED <<clock, status, resv, tickets, rpc, sweep>>
    BY <1>2, <1>10, <2>2
  <2>3. CASE t = Cleaner /\ EndCleanup
    BY <1>3, <2>3 DEF EndCleanup, TypeOK
  <2> QED
    BY <1>18, <2>1, <2>2, <2>3 DEF Rollback
<1> QED
  BY <1>4, <1>5, <1>9, <1>11, <1>16, <1>17, <1>18
  DEF Next, Fail, DeadlockVictim, Tick, vars

LEMMA ChecksStep ==
  ASSUME TypeOK, LocksAreOwned, ChecksAreStable, TypeOK', [Next]_vars
  PROVE  ChecksAreStable'
<1> USE ConstantsAssumption, KindsOfTransaction
<1>0. clock \in Times /\ clock' \in Times /\ clock <= clock'
  BY ClockStep DEF TypeOK
<1>1. ValidatedSeatsStayFree'
  <2> SUFFICES ASSUME NEW r \in Rids, rpc'[r] = "valid", NEW s \in resv'[r].seats
               PROVE  statusLock'[s] = r /\ Reservable(status'[s], clock')
    BY DEF ValidatedSeatsStayFree, Reservable
  <2>1. CASE Validate(r)
    <3>1. statusLock[s] = r /\ Reservable(status[s], clock)
      BY <2>1 DEF Validate, StatusesLocked
    <3> QED
      BY <2>1, <3>1 DEF Validate, locks
  <2>2. CASE rpc[r] = "valid" /\ resv'[r] = resv[r]
    <3>1. statusLock[s] = r /\ Reservable(status[s], clock)
      BY <2>2 DEF ChecksAreStable, ValidatedSeatsStayFree
    <3>2. s \in Seats
      BY <2>2, ReservationTyped DEF LocksAreOwned, RequestsOwnTheirRow
    <3>3. statusLock'[s] = r
      BY <3>1, <3>2, LockKept
    <3>4. status'[s] = status[s]
      <4> SUFFICES ASSUME status'[s] # status[s] PROVE FALSE
        OBVIOUS
      <4>1. CASE \E q \in Rids : CommitReservation(q) /\ s \in resv[q].seats
        BY <3>1, <3>3, <4>1
        DEF CommitReservation, ChecksAreStable, ValidatedSeatsStayFree, TypeOK
      <4>2. CASE \E p \in Payments : CommitPayment(p) /\ s \in SeatsOf(pay[p].rid)
        BY <3>1, <4>2 DEF CommitPayment, ChecksAreStable, SoldRowsAreOwned
      <4>3. CASE statusLock[s] = Cleaner
        BY <3>1, <4>3
      <4> QED
        BY <3>2, <4>1, <4>2, <4>3, StatusChanges
    <3> QED
      BY <1>0, <3>1, <3>2, <3>3, <3>4, TimePasses DEF TypeOK
  <2> QED
    BY <2>1, <2>2, ProgressSteps
<1>2. SoldRowsAreOwned'
  <2> SUFFICES ASSUME NEW p \in Payments, pay'[p].pc = "inserting",
                      NEW s \in SeatsOf(pay[p].rid)'
               PROVE  statusLock'[s] = p
    BY DEF SoldRowsAreOwned
  <2>1. pay'[p].rid = pay[p].rid /\ pay[p].pc \in {"selling", "inserting"}
        /\ (pay[p].pc = "inserting" \/ StampTickets(p))
    BY ProgressSteps, PaymentTyped DEF StampTickets, TypeOK, Payment
  <2>2. pay[p].rid \in Rids /\ Committed(pay[p].rid)
    BY <2>1, PaymentTyped DEF LocksAreOwned, PaidRowsOwned
  <2>3. SeatsOf(pay[p].rid)' = SeatsOf(pay[p].rid)
    BY <2>1, <2>2, CommittedStays DEF SeatsOf
  <2>4. statusLock[s] = p
    BY <2>1, <2>3 DEF StampTickets, ChecksAreStable, SoldRowsAreOwned
  <2>5. s \in Seats
    BY <2>2, <2>3, ReservationTyped DEF SeatsOf, Committed
  <2> QED
    BY <2>4, <2>5, LockKept
<1>3. SweptRowsAreExpired'
  <2>1. ASSUME NEW s \in Seats, statusLock'[s] = Cleaner PROVE Expired(status'[s], clock')
    <3>1. sweep.now \in Times /\ sweep.now <= clock
      BY DEF ChecksAreStable, SweptRowsAreExpired, TypeOK
    <3>2. Expired(status[s], clock)
      BY <1>0, <2>1, <3>1, CleanerLocks, TimePasses
      DEF ChecksAreStable, SweptRowsAreExpired, TypeOK
    <3>3. CASE status'[s] = status[s]
      BY <1>0, <3>2, <3>3, TimePasses DEF TypeOK
    <3>4. CASE \E q \in Rids : CommitReservation(q) /\ s \in resv[q].seats
      <4> PICK q \in Rids : CommitReservation(q) /\ s \in resv[q].seats
        BY <3>4
      <4>1. statusLock[s] = q /\ Release(q)
        BY DEF CommitReservation, ChecksAreStable, ValidatedSeatsStayFree
      <4>2. statusLock'[s] = Free
        BY <4>1 DEF Release
      <4> QED
        BY <2>1, <4>2 DEF Transactions
    <3>5. CASE \E p \in Payments : CommitPayment(p) /\ s \in SeatsOf(pay[p].rid)
      <4> PICK p \in Payments : CommitPayment(p) /\ s \in SeatsOf(pay[p].rid)
        BY <3>5
      <4>1. statusLock[s] = p /\ Release(p)
        BY DEF CommitPayment, ChecksAreStable, SoldRowsAreOwned
      <4>2. statusLock'[s] = Free
        BY <4>1 DEF Release
      <4> QED
        BY <2>1, <4>2 DEF Transactions
    <3>6. CASE CommitCleanup
      BY <2>1, <3>6 DEF CommitCleanup, EndCleanup, Release, Transactions
    <3> QED
      BY <3>3, <3>4, <3>5, <3>6, StatusChanges
  <2>2. sweep'.now <= clock'
    BY <1>0, ProgressSteps DEF ChecksAreStable, SweptRowsAreExpired, TypeOK, Times
  <2> QED
    BY <2>1, <2>2 DEF SweptRowsAreExpired, Expired
<1> QED
  BY <1>1, <1>2, <1>3 DEF ChecksAreStable
-----------------------------------------------------------------------------
(* A reservation is committed by its own CreateReservation only. *)
LEMMA NewlyCommitted ==
  ASSUME TypeOK, LocksAreOwned, LocksAreOwned', [Next]_vars, NEW r \in Rids, Committed(r)'
  PROVE  Committed(r) \/ CommitReservation(r)
<1> SUFFICES rpc'[r] = "done" => rpc[r] = "done" \/ CommitReservation(r)
  BY DEF LocksAreOwned, RequestsOwnTheirRow, Committed
<1>1. ASSUME NEW q \in Rids, FailReservation(q), rpc'[r] = "done" PROVE rpc[r] = "done"
  BY <1>1 DEF FailReservation, TypeOK
<1>2. ASSUME NEW q \in Rids, BeginReservation(q) \/ ReservationStep(q), rpc'[r] = "done"
      PROVE  rpc[r] = "done" \/ CommitReservation(r)
  BY <1>1, <1>2
  DEF BeginReservation, ReservationStep, LockSeat, LockStatus, SeatsNotFound, SeatConflict,
      Validate, CommitReservation, TypeOK
<1>3. ASSUME UNCHANGED rpc PROVE rpc'[r] = "done" => rpc[r] = "done"
  BY <1>3
<1>4. ASSUME NEW t \in Transactions, Rollback(t), rpc'[r] = "done" PROVE rpc[r] = "done"
  BY <1>1, <1>3, <1>4 DEF Rollback, EndCleanup
<1>5. ASSUME NEW p \in Payments, BeginPayment(p) \/ PaymentStep(p) PROVE UNCHANGED rpc
  BY <1>5
  DEF BeginPayment, PaymentStep, SellSeat, ShareSeatKey, RejectPayment, LockReservation,
      StampTickets, CommitPayment
<1>6. ASSUME CleanupStep PROVE UNCHANGED rpc
  BY <1>6 DEF CleanupStep, BeginCleanup, CleanRow, CommitCleanup, EndCleanup
<1> QED
  BY <1>2, <1>3, <1>4, <1>5, <1>6 DEF Next, Fail, DeadlockVictim, Tick, vars

(* A row that a live reservation has in its hands is neither free to hold nor
   expired. *)
LEMMA LiveRow ==
  ASSUME TypeOK, LiveHoldIsHonoured, NEW r \in Rids, Committed(r), resv[r].exp > clock,
         NEW s \in resv[r].seats
  PROVE  ~Reservable(status[s], clock) /\ ~Expired(status[s], clock)
<1>1. resv[r].exp \in Times /\ clock \in Times
  BY ReservationTyped DEF Committed, TypeOK
<1>2. status[s] \in {Row("reserved", resv[r].user, resv[r].exp), SoldRow}
  BY DEF LiveHoldIsHonoured
<1>3. CASE status[s] = SoldRow
  BY <1>3 DEF SoldRow, Row, Reservable, Expired
<1>4. CASE status[s] = Row("reserved", resv[r].user, resv[r].exp)
  BY <1>1, <1>4, ConstantsAssumption DEF Row, Reservable, Expired, Times, NoTime
<1> QED
  BY <1>2, <1>3, <1>4

LEMMA HoldsStep ==
  ASSUME TypeOK, LocksAreOwned, ChecksAreStable, LiveHoldIsHonoured, LiveHoldsDisjoint,
         TypeOK', LocksAreOwned', [Next]_vars
  PROVE  LiveHoldIsHonoured' /\ LiveHoldsDisjoint'
<1>0. clock \in Times /\ clock' \in Times /\ clock <= clock'
  BY ClockStep DEF TypeOK
<1>1. ASSUME NEW r \in Rids, Committed(r), resv'[r].exp > clock'
      PROVE  resv[r].exp > clock
  <2>1. resv'[r].exp = resv[r].exp /\ resv[r].exp \in Times
    BY <1>1, CommittedStays, ReservationTyped DEF Committed
  <2> QED
    BY <1>0, <1>1, <2>1, ConstantsAssumption DEF Times
<1>2. ASSUME NEW r \in Rids, CommitReservation(r)
      PROVE  /\ ~Committed(r) /\ resv'[r].seats = resv[r].seats /\ resv[r].seats \subseteq Seats
             /\ \A s \in resv[r].seats : /\ Reservable(status[s], clock)
                                         /\ status'[s] = Row("reserved", resv'[r].user, resv'[r].exp)
             /\ \A q \in Rids \ {r} : ~CommitReservation(q)
  <2>1. resv[r] \in Reservation /\ resv[r].st = "open"
    BY <1>2, ReservationTyped, KindsOfTransaction
    DEF CommitReservation, LocksAreOwned, RequestsOwnTheirRow
  <2>2. resv'[r] = [resv[r] EXCEPT !.st = "reserved"]
    BY <1>2 DEF CommitReservation, TypeOK
  <2>3. /\ resv'[r].seats = resv[r].seats /\ resv'[r].user = resv[r].user
        /\ resv'[r].exp = resv[r].exp /\ resv[r].seats \subseteq Seats
    BY <2>1, <2>2 DEF Reservation
  <2>4. \A s \in resv[r].seats : /\ Reservable(status[s], clock)
                                 /\ status'[s] = Row("reserved", resv'[r].user, resv'[r].exp)
    BY <1>2, <2>3 DEF CommitReservation, ChecksAreStable, ValidatedSeatsStayFree
  <2>5. \A q \in Rids \ {r} : ~CommitReservation(q)
    BY <1>2 DEF CommitReservation, TypeOK
  <2> QED
    BY <2>1, <2>3, <2>4, <2>5 DEF Committed
<1>3. LiveHoldIsHonoured'
  <2> SUFFICES ASSUME NEW r \in Rids, Committed(r)', resv'[r].exp > clock',
                      NEW s \in resv'[r].seats
               PROVE  status'[s] \in {Row("reserved", resv'[r].user, resv'[r].exp), SoldRow}
    BY DEF LiveHoldIsHonoured, SoldRow, Row
  <2>1. CASE CommitReservation(r)
    BY <1>2, <2>1
  <2>2. CASE Committed(r)
    <3>1. /\ resv[r].exp > clock /\ s \in resv[r].seats /\ s \in Seats
          /\ resv'[r].user = resv[r].user /\ resv'[r].exp = resv[r].exp
      BY <1>1, <2>2, CommittedStays, ReservationTyped DEF Committed
    <3>2. status[s] \in {Row("reserved", resv'[r].user, resv'[r].exp), SoldRow}
      BY <2>2, <3>1 DEF LiveHoldIsHonoured
    <3>3. status'[s] = status[s] \/ status'[s] = SoldRow
      BY <2>2, <3>1, StatusChanges, LiveRow
    <3> QED
      BY <3>2, <3>3
  <2> QED
    BY <2>1, <2>2, NewlyCommitted
<1>4. LiveHoldsDisjoint'
  <2> SUFFICES ASSUME NEW q \in Rids, NEW r \in Rids, q # r, Committed(q)', Committed(r)',
                      resv'[q].exp > clock', resv'[r].exp > clock'
               PROVE  resv'[q].seats \cap resv'[r].seats = {}
    BY DEF LiveHoldsDisjoint
  <2>1. ASSUME NEW x \in Rids, NEW y \in Rids, Committed(x), resv'[x].exp > clock',
               CommitReservation(y)
        PROVE  resv'[x].seats \cap resv'[y].seats = {}
    BY <1>1, <1>2, <2>1, CommittedStays, LiveRow
  <2>2. CASE Committed(q) /\ Committed(r)
    BY <1>1, <2>2, CommittedStays DEF LiveHoldsDisjoint
  <2> QED
    BY <1>2, <2>1, <2>2, NewlyCommitted
<1> QED
  BY <1>3, <1>4

-----------------------------------------------------------------------------
LEMMA IndInvStep == IndInv /\ [Next]_vars => IndInv'
<1> SUFFICES ASSUME IndInv, [Next]_vars PROVE IndInv'
  OBVIOUS
<1>1. TypeOK /\ LocksAreOwned /\ ChecksAreStable /\ LiveHoldIsHonoured /\ LiveHoldsDisjoint
  BY DEF IndInv
<1>2. TypeOK'
  BY <1>1, TypeStep
<1>3. LocksAreOwned'
  BY <1>1, LocksStep
<1>4. ChecksAreStable'
  BY <1>1, <1>2, ChecksStep
<1>5. LiveHoldIsHonoured' /\ LiveHoldsDisjoint'
  BY <1>1, <1>2, <1>3, HoldsStep
<1> QED
  BY <1>2, <1>3, <1>4, <1>5 DEF IndInv

LEMMA Invariance == Spec => []IndInv
<1>1. IndInv /\ UNCHANGED vars => IndInv'
  BY IndInvStep
<1> QED
  BY <1>1, InitIndInv, IndInvStep, PTL DEF Spec

(* Every variable keeps its type, whatever the transactions do. *)
THEOREM TypeCorrect == Spec => []TypeOK
BY Invariance, PTL DEF IndInv

(* No transaction ever leaves a row lock behind or works on a row it does not
   own; this is what lets the other arguments speak of "the" holder of a row. *)
THEOREM LocksOwned == Spec => []LocksAreOwned
BY Invariance, PTL DEF IndInv

(* What CreateReservation, ExecutePaymentTransaction and CleanupExpiredSeats
   have checked under their locks still holds when they commit. *)
THEOREM ChecksStable == Spec => []ChecksAreStable
BY Invariance, PTL DEF IndInv

(* No seat is ever held by two reservations that have time left. *)
THEOREM HoldsDisjoint == Spec => []LiveHoldsDisjoint
BY Invariance, PTL DEF IndInv

(* No hold is taken away before it has run out, except to be sold. *)
THEOREM HoldsHonoured == Spec => []LiveHoldIsHonoured
BY Invariance, PTL DEF IndInv

(* No step makes a sold seat available or reserved again. *)
THEOREM SoldStaysSold == Spec => SoldIsFinal
<1>1. IndInv /\ [Next]_vars =>
        [\A s \in Seats : status[s].st = "sold" => status'[s].st = "sold"]_vars
  <2> SUFFICES ASSUME IndInv, [Next]_vars, NEW s \in Seats, status[s].st = "sold"
               PROVE  status'[s].st = "sold"
    OBVIOUS
  <2>1. CASE status'[s] = status[s]
    BY <2>1
  <2>2. CASE status'[s] # status[s]
    BY <2>2, StatusChanges DEF IndInv, Reservable, Expired, SoldRow, Row
  <2> QED
    BY <2>1, <2>2
<1> QED
  BY <1>1, Invariance, PTL DEF Spec, SoldIsFinal

(* No step does anything but sell a seat whose hold has time left. *)
THEOREM UnexpiredSoldOnly == Spec => UnexpiredHoldOnlySold
<1>1. IndInv /\ [Next]_vars =>
        [\A s \in Seats :
           status[s].st = "reserved" /\ status[s].exp > clock /\ status'[s] # status[s]
           => status'[s].st = "sold"]_vars
  <2> SUFFICES ASSUME IndInv, [Next]_vars, NEW s \in Seats,
                      status[s].st = "reserved", status[s].exp > clock, status'[s] # status[s]
               PROVE  status'[s].st = "sold"
    OBVIOUS
  <2>1. status[s] \in StatusRow /\ clock \in Times
    BY DEF IndInv, TypeOK
  <2>2. ~Reservable(status[s], clock) /\ ~Expired(status[s], clock)
    BY <2>1, ConstantsAssumption DEF Reservable, Expired, StatusRow, Times, NoTime
  <2> QED
    BY <2>2, StatusChanges DEF IndInv, SoldRow, Row
<1> QED
  BY <1>1, Invariance, PTL DEF Spec, UnexpiredHoldOnlySold

-----------------------------------------------------------------------------
(* Why one seat alone is no cause of a deadlock.                           *)

(* The order in which a reservation takes its locks: rows of seats that it
   asked for, and rows of seat_statuses once it has all of those; the cleanup
   goes to each row once. *)
LocksInOrder ==
  /\ \A r \in Rids, s \in Seats :
       /\ seatLock[s] = r => s \in Found(r)
       /\ statusLock[s] = r => s \in resv[r].seats /\ SeatsLocked(r)
  /\ \A s \in sweep.todo : statusLock[s] # Cleaner

(* The same for one reservation. *)
InOrder(r) ==
  \A s \in Seats :
    /\ seatLock[s] = r => s \in Found(r)
    /\ statusLock[s] = r => s \in resv[r].seats /\ SeatsLocked(r)

(* What a step does to a request that is under way before it and after it. *)
LEMMA RequestGoesOn ==
  ASSUME TypeOK, LocksAreOwned, [Next]_vars, NEW r \in Rids, Running(r), Running(r)'
  PROVE  /\ resv'[r] = resv[r]
         /\ \/ \E s \in Seats : LockSeat(r, s) \/ LockStatus(r, s)
            \/ \A s \in Seats : /\ seatLock'[s] = r <=> seatLock[s] = r
                                /\ statusLock'[s] = r <=> statusLock[s] = r
<1> DEFINE Same == \A s \in Seats : /\ seatLock'[s] = r <=> seatLock[s] = r
                                    /\ statusLock'[s] = r <=> statusLock[s] = r
           Locks == \/ \E s \in Seats : LockSeat(r, s) \/ LockStatus(r, s)
                    \/ Same
           Goal == resv'[r] = resv[r] /\ Locks
<1> USE ConstantsAssumption, KindsOfTransaction
<1>0. /\ rpc[r] \in {"open", "valid"} /\ rpc'[r] \in {"open", "valid"}
      /\ resv[r].st = "open" /\ r # Free
  BY DEF Running, LocksAreOwned, RequestsOwnTheirRow, Transactions
<1>1. ASSUME UNCHANGED <<resv, seatLock, statusLock>> PROVE Goal
  BY <1>1
<1>2. ASSUME NEW u \in Transactions, Release(u), u # r PROVE Same
  BY <1>0, <1>2 DEF Release, TypeOK
<1>3. ASSUME NEW x \in Seats, NEW u \in Transactions, LockStatusRow(u, x), u # r,
             UNCHANGED <<resv, seatLock>>
      PROVE  Goal
  BY <1>0, <1>3 DEF LockStatusRow, TypeOK
<1>4. ASSUME NEW q \in Rids, BeginReservation(q) PROVE Goal
  BY <1>0, <1>4 DEF BeginReservation, locks, TypeOK
<1>5. ASSUME NEW q \in Rids, FailReservation(q) PROVE Goal
  BY <1>0, <1>2, <1>5 DEF FailReservation, TypeOK, Transactions
<1>6. ASSUME NEW q \in Rids, ReservationStep(q) PROVE Goal
  <2>1. CASE CommitReservation(q)
    BY <1>0, <1>2, <2>1 DEF CommitReservation, TypeOK, Transactions
  <2>2. ASSUME NEW s \in Seats, LockSeat(q, s), q # r PROVE Goal
    BY <1>0, <2>2 DEF LockSeat, TypeOK
  <2>3. ASSUME NEW s \in Seats, LockSeat(q, s) \/ LockStatus(q, s) PROVE Goal
    <3>1. CASE q = r
      BY <2>3, <3>1 DEF LockSeat, LockStatus
    <3>2. CASE q # r
      BY <1>3, <2>2, <2>3, <3>2 DEF LockStatus, Transactions
    <3> QED
      BY <3>1, <3>2
  <2> QED
    BY <1>1, <1>5, <1>6, <2>1, <2>3
    DEF ReservationStep, SeatsNotFound, SeatConflict, Validate, locks
<1>7. ASSUME NEW p \in Payments, CommitPayment(p) PROVE Goal
  <2>1. pay[p].rid \in Rids /\ pay[p].rid # r
    BY <1>0, <1>7, PaymentTyped DEF CommitPayment, LocksAreOwned, PaidRowsOwned, Committed
  <2> QED
    BY <1>2, <1>7, <2>1 DEF CommitPayment, TypeOK, Transactions
<1>8. ASSUME NEW p \in Payments, PaymentStep(p) PROVE Goal
  BY <1>1, <1>3, <1>7, <1>8
  DEF PaymentStep, SellSeat, ShareSeatKey, RejectPayment, LockReservation, StampTickets,
      locks, Transactions
<1>9. ASSUME EndCleanup PROVE Goal
  BY <1>2, <1>9 DEF EndCleanup, Transactions
<1>10. ASSUME CleanupStep PROVE Goal
  BY <1>1, <1>3, <1>9, <1>10
  DEF CleanupStep, BeginCleanup, CleanRow, CommitCleanup, locks, Transactions
<1>11. ASSUME NEW t \in Transactions, Rollback(t) PROVE Goal
  BY <1>2, <1>5, <1>9, <1>11 DEF Rollback
<1> QED
  BY <1>1, <1>4, <1>6, <1>8, <1>10, <1>11
  DEF Next, BeginPayment, Fail, DeadlockVictim, Tick, vars, locks

(* Only a request that is under way comes by a lock. *)
LEMMA RequestTakes ==
  ASSUME TypeOK, [Next]_vars, NEW r \in Rids, NEW s \in Seats
  PROVE  /\ seatLock'[s] = r => seatLock[s] = r \/ rpc[r] = "open"
         /\ statusLock'[s] = r => statusLock[s] = r \/ rpc[r] = "open"
<1> DEFINE Goal == /\ seatLock'[s] = r => seatLock[s] = r \/ rpc[r] = "open"
                   /\ statusLock'[s] = r => statusLock[s] = r \/ rpc[r] = "open"
<1> USE ConstantsAssumption
<1>0. r # Free
  BY DEF Transactions
<1>1. ASSUME NEW u, Release(u) PROVE Goal
  BY <1>0, <1>1 DEF Release, TypeOK
<1>2. ASSUME NEW x \in Seats, NEW u \in Payments \cup {Cleaner}, LockStatusRow(u, x),
             UNCHANGED seatLock
      PROVE  Goal
  BY <1>2 DEF LockStatusRow, TypeOK, Transactions
<1>3. ASSUME UNCHANGED <<seatLock, statusLock>> PROVE Goal
  BY <1>3
<1>4. ASSUME NEW q \in Rids, NEW x \in Seats, LockSeat(q, x) PROVE Goal
  BY <1>4 DEF LockSeat, TypeOK
<1>5. ASSUME NEW q \in Rids, NEW x \in Seats, LockStatus(q, x) PROVE Goal
  BY <1>5 DEF LockStatus, LockStatusRow, TypeOK
<1>6. ASSUME NEW q \in Rids, ReservationStep(q) PROVE Goal
  BY <1>1, <1>3, <1>4, <1>5, <1>6
  DEF ReservationStep, SeatsNotFound, SeatConflict, Validate, CommitReservation,
      FailReservation, locks
<1>7. ASSUME NEW p \in Payments, PaymentStep(p) PROVE Goal
  BY <1>1, <1>2, <1>3, <1>7
  DEF PaymentStep, SellSeat, ShareSeatKey, RejectPayment, LockReservation, StampTickets,
      CommitPayment, locks
<1>8. ASSUME CleanupStep PROVE Goal
  BY <1>1, <1>2, <1>3, <1>8
  DEF CleanupStep, BeginCleanup, CleanRow, CommitCleanup, EndCleanup, locks
<1> QED
  BY <1>1, <1>3, <1>6, <1>7, <1>8
  DEF Next, BeginReservation, BeginPayment, Fail, DeadlockVictim, Rollback, FailReservation,
      EndCleanup, Tick, vars, locks

(* A cleanup does not go back to a row that it has locked. *)
LEMMA SweepStep ==
  ASSUME TypeOK, LocksAreOwned, [Next]_vars, \A s \in sweep.todo : statusLock[s] # Cleaner
  PROVE  \A s \in sweep'.todo : statusLock'[s] # Cleaner
<1> DEFINE Goal == \A s \in sweep'.todo : statusLock'[s] # Cleaner
<1> USE ConstantsAssumption, KindsOfTransaction
<1>1. sweep.todo \subseteq Seats
  BY DEF TypeOK
<1>2. ASSUME UNCHANGED <<sweep, statusLock>> PROVE Goal
  BY <1>2
<1>3. ASSUME NEW u, UNCHANGED sweep, Release(u) PROVE Goal
  BY <1>1, <1>3 DEF Release, TypeOK, Transactions
<1>4. ASSUME NEW x \in Seats, NEW u \in Rids \cup Payments, UNCHANGED sweep, LockStatusRow(u, x)
      PROVE  Goal
  BY <1>1, <1>4 DEF LockStatusRow, TypeOK
<1>5. ASSUME EndCleanup PROVE Goal
  BY <1>5 DEF EndCleanup
<1>6. ASSUME BeginCleanup PROVE Goal
  <2>1. \A s \in Seats : statusLock[s] # Cleaner
    BY <1>6 DEF BeginCleanup, LocksAreOwned, SeatRowsOwned, Transactions
  <2> QED
    BY <1>6, <2>1 DEF BeginCleanup, locks
<1>7. ASSUME NEW x \in Seats, CleanRow(x) PROVE Goal
  <2>1. sweep'.todo = sweep.todo \ {x} /\ \A s \in Seats \ {x} : statusLock'[s] = statusLock[s]
    BY <1>7 DEF CleanRow, LockStatusRow, TypeOK
  <2> QED
    BY <1>1, <2>1
<1>8. ASSUME NEW q \in Rids, ReservationStep(q) PROVE Goal
  BY <1>2, <1>3, <1>4, <1>8
  DEF ReservationStep, LockSeat, LockStatus, SeatsNotFound, SeatConflict, Validate,
      CommitReservation, FailReservation, locks
<1>9. ASSUME NEW p \in Payments, PaymentStep(p) PROVE Goal
  BY <1>2, <1>3, <1>4, <1>9
  DEF PaymentStep, SellSeat, ShareSeatKey, RejectPayment, LockReservation, StampTickets,
      CommitPayment, locks
<1> QED
  BY <1>2, <1>3, <1>5, <1>6, <1>7, <1>8, <1>9
  DEF Next, BeginReservation, BeginPayment, CleanupStep, CommitCleanup, Fail, DeadlockVictim,
      Rollback, FailReservation, Tick, vars, locks

LEMMA OrderStep ==
  ASSUME TypeOK, LocksAreOwned, LocksAreOwned', [Next]_vars, NEW r \in Rids, InOrder(r)
  PROVE  InOrder(r)'
<1> USE ConstantsAssumption
<1>1. CASE ~Running(r)'
  <2>1. r \notin {Free}
    BY DEF Transactions
  <2> QED
    BY <1>1, <2>1 DEF InOrder, LocksAreOwned, SeatRowsOwned
<1>2. CASE ~Running(r) /\ Running(r)'
  <2>1. ASSUME NEW s \in Seats PROVE seatLock'[s] # r /\ statusLock'[s] # r
    BY <1>2, RequestTakes DEF LocksAreOwned, SeatRowsOwned, Transactions, Running
  <2> QED
    BY <2>1 DEF InOrder
<1>3. CASE Running(r) /\ Running(r)'
  <2>1. resv[r].seats \subseteq Seats /\ Found(r) \subseteq Seats
    BY <1>3, ReservationTyped DEF LocksAreOwned, RequestsOwnTheirRow, Found
  <2>2. resv'[r] = resv[r] /\ Found(r)' = Found(r)
    BY <1>3, RequestGoesOn DEF Found
  <2>3. ASSUME NEW s \in Seats, LockSeat(r, s) PROVE InOrder(r)'
    BY <2>1, <2>2, <2>3 DEF InOrder, SeatsLocked, LockSeat, TypeOK
  <2>4. ASSUME NEW s \in Seats, LockStatus(r, s) PROVE InOrder(r)'
    BY <2>1, <2>2, <2>4 DEF InOrder, SeatsLocked, LockStatus, LockStatusRow, TypeOK
  <2>5. ASSUME \A s \in Seats : /\ seatLock'[s] = r <=> seatLock[s] = r
                                /\ statusLock'[s] = r <=> statusLock[s] = r
        PROVE  InOrder(r)'
    BY <2>1, <2>2, <2>5 DEF InOrder, SeatsLocked
  <2> QED
    BY <1>3, <2>3, <2>4, <2>5, RequestGoesOn
<1> QED
  BY <1>1, <1>2, <1>3

LEMMA InitLocksInOrder == Init => LocksInOrder
BY ConstantsAssumption DEF Init, LocksInOrder, Transactions

LEMMA LocksInOrderStep == IndInv /\ LocksInOrder /\ [Next]_vars => LocksInOrder'
<1> SUFFICES ASSUME IndInv, LocksInOrder, [Next]_vars PROVE LocksInOrder'
  OBVIOUS
<1>1. TypeOK /\ LocksAreOwned /\ LocksAreOwned'
  BY IndInvStep DEF IndInv
<1>2. ASSUME NEW r \in Rids PROVE InOrder(r)'
  BY <1>1, OrderStep DEF LocksInOrder, InOrder
<1>3. \A s \in sweep'.todo : statusLock'[s] # Cleaner
  BY <1>1, SweepStep DEF LocksInOrder
<1> QED
  BY <1>2, <1>3 DEF LocksInOrder, InOrder

(* A reservation of one seat that has its row of seat_statuses waits for
   nothing; with only its row of seats it waits for the other; and with
   neither for the row of seats. *)
LEMMA SingleSeatWaits ==
  ASSUME TypeOK, LocksInOrder, NEW r \in Rids, NEW s \in Seats, resv[r].seats = {s},
         NEW B \in BlockersOf(r)
  PROVE  /\ \A x \in Seats : statusLock[x] # r
         /\ IF seatLock[s] = r THEN B = {statusLock[s]} \ {Free}
            ELSE \/ B = {statusLock[s]} \ {Free}
                 \/ B = ({seatLock[s]} \cup keyLock[s]) \ {Free}
<1>1. rpc[r] = "open"
  BY DEF BlockersOf
<1>2. Found(r) \subseteq {s}
  BY DEF Found
<1>3. CASE ~SeatsLocked(r)
  <2>1. B \in {({seatLock[x]} \cup keyLock[x]) \ {Free} : x \in {y \in Found(r) : seatLock[y] # r}}
    BY <1>1, <1>3 DEF BlockersOf
  <2>2. B = ({seatLock[s]} \cup keyLock[s]) \ {Free} /\ seatLock[s] # r
    BY <1>2, <2>1
  <2>3. \A x \in Seats : statusLock[x] # r
    BY <1>3 DEF LocksInOrder
  <2> QED
    BY <2>2, <2>3
<1>4. CASE SeatsLocked(r)
  <2>1. B \in {{statusLock[x]} \ {Free} : x \in {y \in resv[r].seats : statusLock[y] # r}}
    BY <1>1, <1>4 DEF BlockersOf
  <2>2. B = {statusLock[s]} \ {Free} /\ statusLock[s] # r
    BY <2>1
  <2>3. \A x \in Seats : statusLock[x] # r
    BY <2>2 DEF LocksInOrder
  <2> QED
    BY <2>2, <2>3
<1> QED
  BY <1>3, <1>4

(* Follow the locks: the cleanup would have to wait for a reservation that has
   a row of seat_statuses, and such a one does not wait; so every reservation
   waits for one that has its row of seats, which has nothing to wait for but
   the cleanup. *)
LEMMA SingleSeatsNeverStuck ==
  ASSUME IndInv, LocksInOrder, NEW D \in SUBSET (Rids \cup {Cleaner}), Stuck(D),
         \A r \in D \ {Cleaner} : \E s \in Seats : resv[r].seats = {s}
  PROVE  FALSE
<1> USE ConstantsAssumption
<1>1. TypeOK
  BY DEF IndInv
<1>2. \A t \in D : BlockersOf(t) # {} /\ \A B \in BlockersOf(t) : B \cap D # {}
  BY DEF Stuck
<1>3. ASSUME NEW r \in D, r \in Rids, NEW x \in Seats PROVE statusLock[x] # r
  <2>1. PICK s \in Seats : resv[r].seats = {s}
    BY <1>3
  <2>2. PICK B : B \in BlockersOf(r)
    BY <1>2
  <2> QED
    BY <1>1, <1>3, <2>1, <2>2, SingleSeatWaits
<1>4. Cleaner \notin D
  <2> SUFFICES ASSUME Cleaner \in D PROVE FALSE
    OBVIOUS
  <2>1. BlockersOf(Cleaner) = {{statusLock[s]} \ {Free} : s \in sweep.todo}
    BY DEF BlockersOf
  <2>2. PICK s \in sweep.todo : ({statusLock[s]} \ {Free}) \cap D # {}
    BY <1>2, <2>1
  <2>3. s \in Seats /\ statusLock[s] \in D /\ statusLock[s] # Cleaner
    BY <1>1, <2>2 DEF TypeOK, LocksInOrder
  <2> QED
    BY <1>3, <2>3
<1>5. ASSUME NEW r \in D PROVE \E o \in D : \E s \in Seats : seatLock[s] = o /\ resv[r].seats = {s}
  <2>1. r \in Rids /\ \E s \in Seats : resv[r].seats = {s}
    BY <1>4
  <2>2. PICK s \in Seats : resv[r].seats = {s}
    BY <2>1
  <2>3. PICK B : B \in BlockersOf(r) /\ B \cap D # {}
    BY <1>2
  <2>4. statusLock[s] \notin D
    BY <1>3, <1>4
  <2>5. B \subseteq {seatLock[s]} \cup keyLock[s] /\ keyLock[s] \subseteq Payments
    BY <1>1, <2>1, <2>2, <2>3, <2>4, SingleSeatWaits DEF TypeOK
  <2>6. seatLock[s] \in D
    BY <1>4, <2>3, <2>5
  <2> QED
    BY <2>2, <2>6
<1>6. PICK r \in D : TRUE
  BY DEF Stuck
<1>7. PICK o \in D : \E s \in Seats : seatLock[s] = o
  BY <1>5, <1>6
<1>8. PICK s \in Seats : seatLock[s] = o
  BY <1>7
<1>9. o \in Rids /\ resv[o].seats = {s}
  <2>1. o \in Rids
    BY <1>4
  <2>2. s \in resv[o].seats
    BY <1>8, <2>1 DEF LocksInOrder, Found
  <2> QED
    BY <1>4, <2>1, <2>2
<1>10. PICK B : B \in BlockersOf(o) /\ B \cap D # {}
  BY <1>2
<1>11. statusLock[s] \in D
  BY <1>1, <1>8, <1>9, <1>10, SingleSeatWaits
<1> QED
  BY <1>3, <1>4, <1>11

(* Many users after one seat: whatever the number of requests, reservations of
   single seats and the cleanup never wait for one another in a circle. *)
THEOREM ContentionIsDeadlockFree == Spec => []SingleSeatContentionIsDeadlockFree
<1>1. IndInv /\ LocksInOrder => SingleSeatContentionIsDeadlockFree
  BY SingleSeatsNeverStuck DEF SingleSeatContentionIsDeadlockFree, Deadlocked
<1>2. IndInv /\ LocksInOrder /\ UNCHANGED vars => LocksInOrder'
  BY LocksInOrderStep
<1> QED
  BY <1>1, <1>2, InitLocksInOrder, LocksInOrderStep, Invariance, PTL DEF Spec

-----------------------------------------------------------------------------
(* Tickets: payment is all or nothing and happens once, and a seat is not  *)
(* issued twice to payments that were in time.                             *)

(* A payment that has its reservation has it to itself, and unpaid. *)
UnpaidWhilePaying ==
  \A p \in Payments :
    pay[p].pc \in {"selling", "inserting"} => resv[pay[p].rid].st = "reserved"

(* A timely ticket for seat s under reservation r: written, or stamped and not
   yet committed. *)
Issued(s, r) == \E t \in tickets : t.seat = s /\ t.rid = r /\ t.at < resv[r].exp
Stamped(s, r) ==
  \E p \in Payments : /\ pay[p].pc = "inserting" /\ pay[p].rid = r
                      /\ s \in SeatsOf(r) /\ pay[p].at < resv[r].exp
Claim(s, r) == Issued(s, r) \/ Stamped(s, r)

LiveOn(s, r) == Committed(r) /\ s \in resv[r].seats /\ resv[r].exp > clock

(* Such a ticket excludes any other, and any other hold that has time left and
   so might still be paid in time. *)
ClaimsExclude ==
  \A s \in Seats, q, r \in Rids :
    q # r /\ Claim(s, q) => ~Claim(s, r) /\ ~LiveOn(s, r)

TicketInv == IndInv /\ UnpaidWhilePaying /\ PaidExactlyOnce /\ ClaimsExclude

-----------------------------------------------------------------------------
(* What a step may do to tickets and to payments under way. *)

LEMMA TicketsChange ==
  ASSUME [Next]_vars
  PROVE  tickets' = tickets \/ \E p \in Payments : CommitPayment(p)
  BY DEF Next, vars, BeginReservation, ReservationStep, LockSeat, LockStatus, SeatsNotFound,
         SeatConflict, Validate, CommitReservation, FailReservation, BeginPayment,
         PaymentStep, SellSeat, ShareSeatKey, RejectPayment, LockReservation, StampTickets,
         CleanupStep, BeginCleanup, CleanRow, CommitCleanup, EndCleanup, Fail,
         DeadlockVictim, Rollback, Tick

LEMMA PaymentMoves ==
  ASSUME TypeOK, [Next]_vars, NEW p \in Payments, pay'[p] # pay[p],
         pay'[p].pc \in {"selling", "inserting"}
  PROVE  LockReservation(p) \/ StampTickets(p)
  <1> DEFINE Goal == LockReservation(p) \/ StampTickets(p)
  <1>1. ASSUME NEW q \in Payments, BeginPayment(q)
        PROVE  FALSE
    BY <1>1 DEF BeginPayment, EndPayment, NoPayment, TypeOK
  <1>2. ASSUME NEW q \in Payments, NEW pc \in {"done", "failed"}, EndPayment(q, pc)
        PROVE  FALSE
    BY <1>2 DEF EndPayment, NoPayment, TypeOK
  <1>3. ASSUME NEW q \in Payments, PaymentStep(q)
        PROVE  Goal
    <2>1. CASE LockReservation(q) \/ StampTickets(q)
      BY <2>1 DEF LockReservation, StampTickets, TypeOK
    <2>2. CASE RejectPayment(q) \/ CommitPayment(q)
      BY <1>2, <2>2 DEF RejectPayment, CommitPayment
    <2>3. CASE \E s \in Seats : SellSeat(q, s) \/ ShareSeatKey(q, s)
      BY <2>3 DEF SellSeat, ShareSeatKey
    <2> QED BY <1>3, <2>1, <2>2, <2>3 DEF PaymentStep
  <1>4. ASSUME NEW t \in Transactions, Rollback(t)
        PROVE  FALSE
    BY <1>2, <1>4 DEF Rollback, FailReservation, EndCleanup
  <1>5. UNCHANGED pay => FALSE
    OBVIOUS
  <1>6. ASSUME NEW r \in Rids, BeginReservation(r) \/ ReservationStep(r)
        PROVE  FALSE
    BY <1>5, <1>6
    DEF BeginReservation, ReservationStep, LockSeat, LockStatus, SeatsNotFound, SeatConflict,
        Validate, CommitReservation, FailReservation
  <1>7. CleanupStep \/ Tick \/ UNCHANGED vars => FALSE
    BY <1>5 DEF CleanupStep, BeginCleanup, CleanRow, CommitCleanup, EndCleanup, Tick, vars
  <1> QED BY <1>1, <1>3, <1>4, <1>6, <1>7 DEF Next, Fail, DeadlockVictim

LEMMA CommitPaymentWrites ==
  ASSUME IndInv, UnpaidWhilePaying, NEW p \in Payments, CommitPayment(p),
         NEW r, r = pay[p].rid
  PROVE  /\ r \in Rids /\ resv[r] \in Reservation /\ resv[r].st = "reserved"
         /\ pay[p].pc = "inserting"
         /\ SeatsOf(r) = resv[r].seats /\ resv[r].seats \subseteq Seats
         /\ resv'[r].st = "paid" /\ resv'[r].seats = resv[r].seats
         /\ resv'[r].exp = resv[r].exp
         /\ \A q \in Rids \ {r} : resv'[q] = resv[q]
         /\ tickets' = tickets \cup
              {[seat |-> s, rid |-> r, by |-> p, at |-> pay[p].at] : s \in resv[r].seats}
         /\ \A s \in resv[r].seats : status'[s].st = "sold"
  <1>1. pay[p].pc = "inserting" /\ r \in Rids /\ resv[r].st = "reserved"
    BY PaymentTyped DEF IndInv, CommitPayment, UnpaidWhilePaying
  <1>2. resv[r] \in Reservation /\ resv[r].seats \subseteq Seats
    BY <1>1, ReservationTyped DEF IndInv
  <1>3. SeatsOf(r) = resv[r].seats
    BY <1>1 DEF IndInv, LocksAreOwned, RequestsOwnTheirRow, Committed
  <1>4. resv' = [resv EXCEPT ![r] = [resv[r] EXCEPT !.st = "paid"]]
    BY DEF CommitPayment, IndInv, TypeOK
  <1>5. /\ resv'[r] = [resv[r] EXCEPT !.st = "paid"]
        /\ \A q \in Rids \ {r} : resv'[q] = resv[q]
    BY <1>1, <1>4 DEF IndInv, TypeOK
  <1>6. resv'[r].st = "paid" /\ resv'[r].seats = resv[r].seats /\ resv'[r].exp = resv[r].exp
    BY <1>2, <1>5 DEF Reservation
  <1>7. \A s \in resv[r].seats : status'[s].st = "sold"
    BY <1>2, <1>3 DEF CommitPayment, SoldRow, Row
  <1>8. tickets' = tickets \cup
          {[seat |-> s, rid |-> r, by |-> p, at |-> pay[p].at] : s \in resv[r].seats}
    BY <1>3 DEF CommitPayment
  <1> QED BY <1>1, <1>2, <1>3, <1>5, <1>6, <1>7, <1>8

(* Only its payment changes a reservation that is committed. *)
LEMMA CommittedSame ==
  ASSUME TypeOK, LocksAreOwned, [Next]_vars, NEW r \in Rids, Committed(r)
  PROVE  resv'[r] = resv[r] \/ \E p \in Payments : CommitPayment(p) /\ pay[p].rid = r
  <1> DEFINE Goal ==
        resv'[r] = resv[r] \/ \E p \in Payments : CommitPayment(p) /\ pay[p].rid = r
  <1>0. rpc[r] = "done"
    BY DEF LocksAreOwned, RequestsOwnTheirRow
  <1>1. ASSUME NEW q \in Rids, BeginReservation(q) PROVE Goal
    BY <1>0, <1>1 DEF BeginReservation, TypeOK
  <1>2. ASSUME NEW q \in Rids, Running(q), FailReservation(q) PROVE Goal
    BY <1>0, <1>2, KindsOfTransaction DEF FailReservation, TypeOK
  <1>3. ASSUME NEW q \in Rids, ReservationStep(q) PROVE Goal
    BY <1>0, <1>2, <1>3, KindsOfTransaction
    DEF ReservationStep, LockSeat, LockStatus, SeatsNotFound, SeatConflict, Validate,
        CommitReservation, TypeOK
  <1>4. ASSUME NEW p \in Payments, PaymentStep(p) PROVE Goal
    BY <1>4
    DEF PaymentStep, SellSeat, ShareSeatKey, RejectPayment, LockReservation, StampTickets,
        CommitPayment, TypeOK
  <1>5. CleanupStep => Goal
    BY DEF CleanupStep, BeginCleanup, CleanRow, CommitCleanup, EndCleanup
  <1>6. ASSUME NEW t \in Transactions, Running(t), Rollback(t) PROVE Goal
    BY <1>2, <1>6 DEF Rollback, EndCleanup
  <1>7. ASSUME NEW t \in Transactions, DeadlockVictim(t) PROVE Running(t)
    BY <1>7 DEF DeadlockVictim, Deadlocked, Stuck
  <1> QED BY <1>1, <1>3, <1>4, <1>5, <1>6, <1>7
          DEF Next, BeginPayment, Fail, DeadlockVictim, Tick, vars

(* What CreateReservation commits. *)
LEMMA CommitReservationWrites ==
  ASSUME TypeOK, LocksAreOwned, NEW r \in Rids, CommitReservation(r)
  PROVE  /\ resv[r] \in Reservation /\ resv[r].st = "open"
         /\ resv'[r] = [st |-> "reserved", user |-> resv[r].user, event |-> resv[r].event,
                        seats |-> resv[r].seats, ref |-> resv[r].ref, exp |-> resv[r].exp]
         /\ resv'[r].st = "reserved" /\ resv'[r].seats = resv[r].seats
         /\ resv'[r].exp = resv[r].exp
         /\ \A q \in Rids \ {r} : resv'[q] = resv[q]
  <1>1. resv[r] \in Reservation /\ resv[r].st = "open"
    BY ReservationTyped, KindsOfTransaction
    DEF CommitReservation, LocksAreOwned, RequestsOwnTheirRow
  <1>2. /\ resv'[r] = [resv[r] EXCEPT !.st = "reserved"]
        /\ \A q \in Rids \ {r} : resv'[q] = resv[q]
    BY DEF CommitReservation, TypeOK
  <1> QED BY <1>1, <1>2 DEF Reservation

(* A reservation becomes paid by a payment only. *)
LEMMA BecomesPaid ==
  ASSUME TypeOK, LocksAreOwned, LocksAreOwned', [Next]_vars, NEW r \in Rids,
         resv'[r].st = "paid", resv[r].st # "paid"
  PROVE  \E p \in Payments : CommitPayment(p) /\ pay[p].rid = r
  <1>1. ~CommitReservation(r)
    BY CommitReservationWrites
  <1>2. Committed(r)
    BY <1>1, NewlyCommitted DEF Committed
  <1> QED BY <1>2, CommittedSame

LEMMA SoldStays ==
  ASSUME IndInv, [Next]_vars, NEW s \in Seats, status[s].st = "sold"
  PROVE  status'[s].st = "sold"
  <1>1. CASE status'[s] # status[s]
    BY <1>1, StatusChanges DEF IndInv, Reservable, Expired, SoldRow, Row
  <1> QED BY <1>1

-----------------------------------------------------------------------------
LEMMA UnpaidStep ==
  ASSUME TicketInv, IndInv', [Next]_vars
  PROVE  UnpaidWhilePaying'
  <1> SUFFICES ASSUME NEW p \in Payments, pay'[p].pc \in {"selling", "inserting"}
               PROVE  resv'[pay'[p].rid].st = "reserved"
    BY DEF UnpaidWhilePaying
  <1>0. pay'[p] \in Payment /\ pay'[p].rid \in Rids
    BY PaymentTyped DEF IndInv, TypeOK, Payment, NoPayment
  <1>1. PICK r \in Rids : r = pay'[p].rid
    BY <1>0
  <1>2. pay[p].rid = r /\ resv[r].st = "reserved"
    <2>1. CASE pay'[p] = pay[p]
      BY <1>1, <2>1 DEF TicketInv, UnpaidWhilePaying
    <2>2. CASE LockReservation(p)
      <3>1. pay[p] \in Payment /\ Committed(pay[p].rid) /\ resv[pay[p].rid].st # "paid"
        BY <2>2, PaymentTyped, KindsOfTransaction
        DEF LockReservation, Payable, TicketInv, IndInv, LocksAreOwned, PaidRowsOwned
      <3>2. pay'[p].rid = pay[p].rid
        BY <2>2, <3>1 DEF LockReservation, TicketInv, IndInv, TypeOK, Payment
      <3> QED BY <1>1, <3>1, <3>2 DEF Committed
    <2>3. CASE StampTickets(p)
      <3>1. pay[p] \in Payment /\ resv[pay[p].rid].st = "reserved"
        BY <2>3, PaymentTyped DEF StampTickets, TicketInv, IndInv, UnpaidWhilePaying
      <3>2. pay'[p].rid = pay[p].rid
        BY <2>3, <3>1 DEF StampTickets, TicketInv, IndInv, TypeOK, Payment
      <3> QED BY <1>1, <3>1, <3>2
    <2> QED BY <2>1, <2>2, <2>3, PaymentMoves DEF TicketInv, IndInv
  <1>3. Committed(r)'
    BY <1>2, CommittedStays DEF TicketInv, IndInv, Committed
  <1>4. ASSUME resv'[r].st = "paid"
        PROVE  FALSE
    <2>1. PICK q \in Payments : CommitPayment(q) /\ pay[q].rid = r
      BY <1>1, <1>2, <1>4, BecomesPaid DEF TicketInv, IndInv
    <2>2. pay[q].pc = "inserting" /\ pay'[q].pc = "done"
          /\ \A o \in Payments \ {q} : pay'[o] = pay[o]
      BY <2>1 DEF CommitPayment, EndPayment, NoPayment, TicketInv, IndInv, TypeOK
    <2>3. q # p /\ pay[p].pc \in {"selling", "inserting"}
      BY <2>2
    <2>4. resvLock[r] = q /\ resvLock[r] = p
      BY <1>2, <2>1, <2>2, <2>3 DEF TicketInv, IndInv, LocksAreOwned, PaidRowsOwned
    <2> QED BY <2>3, <2>4
  <1> QED BY <1>1, <1>3, <1>4 DEF Committed

LEMMA PaidStep ==
  ASSUME TicketInv, IndInv', [Next]_vars
  PROVE  PaidExactlyOnce'
  <1> SUFFICES ASSUME NEW r \in Rids
               PROVE  LET own == {t \in tickets' : t.rid = r} IN
                      IF resv'[r].st = "paid"
                      THEN \E p \in Payments :
                             /\ \A s \in resv'[r].seats :
                                  status'[s].st = "sold" /\ \E t \in own : t.seat = s
                             /\ \A t \in own : t.by = p /\ t.seat \in resv'[r].seats
                             /\ \A t, u \in own : t.seat = u.seat => t = u
                      ELSE own = {}
    BY DEF PaidExactlyOnce
  <1> DEFINE own == {t \in tickets : t.rid = r}
             newOwn == {t \in tickets' : t.rid = r}
  (* The reservation has been paid before: nothing of it changes. *)
  <1>1. CASE resv[r].st = "paid"
    <2>1. /\ resv'[r].st = "paid" /\ resv'[r].seats = resv[r].seats
          /\ resv[r].seats \subseteq Seats
      BY <1>1, CommittedStays, ReservationTyped DEF TicketInv, IndInv, Committed
    <2>2. newOwn = own
      <3>1. ASSUME NEW p \in Payments, CommitPayment(p)
            PROVE  newOwn = own
        BY <1>1, <3>1, CommitPaymentWrites DEF TicketInv
      <3> QED BY <3>1, TicketsChange
    <2>3. \A s \in resv[r].seats : status[s].st = "sold" => status'[s].st = "sold"
      BY <2>1, SoldStays DEF TicketInv
    <2> QED BY <1>1, <2>1, <2>2, <2>3 DEF TicketInv, PaidExactlyOnce
  (* It is being paid: the tickets are exactly those of the payment. *)
  <1>2. CASE resv[r].st # "paid" /\ resv'[r].st = "paid"
    <2>1. PICK p \in Payments : CommitPayment(p) /\ pay[p].rid = r
      BY <1>2, BecomesPaid DEF TicketInv, IndInv
    <2>2. own = {}
      BY <1>2 DEF TicketInv, PaidExactlyOnce
    <2>3. /\ tickets' = tickets \cup
               {[seat |-> s, rid |-> r, by |-> p, at |-> pay[p].at] : s \in resv[r].seats}
          /\ resv'[r].seats = resv[r].seats
          /\ \A s \in resv[r].seats : status'[s].st = "sold"
      BY <2>1, CommitPaymentWrites DEF TicketInv
    <2>4. newOwn = {[seat |-> s, rid |-> r, by |-> p, at |-> pay[p].at] : s \in resv[r].seats}
      BY <2>2, <2>3
    <2>5. \A s \in resv'[r].seats : status'[s].st = "sold" /\ \E t \in newOwn : t.seat = s
      <3>1. ASSUME NEW s \in resv[r].seats
            PROVE  \E t \in newOwn : t.seat = s
        <4>1. [seat |-> s, rid |-> r, by |-> p, at |-> pay[p].at] \in newOwn
          BY <2>4
        <4> QED BY <4>1
      <3> QED BY <2>3, <3>1
    <2>6. /\ \A t \in newOwn : t.by = p /\ t.seat \in resv'[r].seats
          /\ \A t, u \in newOwn : t.seat = u.seat => t = u
      BY <2>3, <2>4
    <2> HIDE DEF newOwn
    <2>7. \E x \in Payments :
             /\ \A s \in resv'[r].seats :
                  status'[s].st = "sold" /\ \E t \in newOwn : t.seat = s
             /\ \A t \in newOwn : t.by = x /\ t.seat \in resv'[r].seats
             /\ \A t, u \in newOwn : t.seat = u.seat => t = u
      BY <2>5, <2>6
    <2> QED BY <1>2, <2>7 DEF newOwn
  (* It is not paid: no ticket is written for it. *)
  <1>3. CASE resv'[r].st # "paid"
    <2>1. resv[r].st # "paid"
      BY <1>3, CommittedStays DEF TicketInv, IndInv, Committed
    <2>2. own = {}
      BY <2>1 DEF TicketInv, PaidExactlyOnce
    <2>3. ASSUME NEW p \in Payments, CommitPayment(p)
          PROVE  newOwn = {}
      BY <1>3, <2>2, <2>3, CommitPaymentWrites DEF TicketInv
    <2> QED BY <1>3, <2>2, <2>3, TicketsChange
  <1> QED BY <1>1, <1>2, <1>3

-----------------------------------------------------------------------------
(* A ticket that is timely after a step was so before, or is stamped by it. *)
LEMMA ClaimsGrow ==
  ASSUME TicketInv, IndInv', [Next]_vars, NEW s \in Seats, NEW r \in Rids, Claim(s, r)'
  PROVE  \/ Claim(s, r)
         \/ LiveOn(s, r) /\ \E p \in Payments : StampTickets(p) /\ pay[p].rid = r
  <1> DEFINE Goal == \/ Claim(s, r)
                     \/ LiveOn(s, r) /\ \E p \in Payments : StampTickets(p) /\ pay[p].rid = r
  <1>1. ASSUME NEW t \in tickets', t.seat = s, t.rid = r, t.at < resv'[r].exp
        PROVE  Goal
    <2>1. CASE t \in tickets
      <3>1. Committed(r)
        BY <1>1, <2>1 DEF TicketInv, PaidExactlyOnce, Committed
      <3>2. resv'[r].exp = resv[r].exp
        BY <3>1, CommittedStays DEF TicketInv, IndInv
      <3> QED BY <1>1, <2>1, <3>2 DEF Claim, Issued
    <2>2. ASSUME NEW p \in Payments, CommitPayment(p), t \notin tickets
          PROVE  Goal
      <3>1. t.rid = pay[p].rid /\ t.seat \in SeatsOf(t.rid) /\ t.at = pay[p].at
        BY <2>2, CommitPaymentWrites DEF TicketInv
      <3>2. pay[p].pc = "inserting" /\ resv'[r].exp = resv[r].exp
        BY <1>1, <2>2, <3>1, CommitPaymentWrites DEF TicketInv
      <3> QED BY <1>1, <3>1, <3>2 DEF Claim, Stamped
    <2> QED BY <2>1, <2>2, TicketsChange
  <1>2. ASSUME NEW p \in Payments, pay'[p].pc = "inserting", pay'[p].rid = r,
               s \in SeatsOf(r)', pay'[p].at < resv'[r].exp
        PROVE  Goal
    <2>1. CASE pay'[p] = pay[p]
      <3>1. Committed(r)
        BY <1>2, <2>1 DEF TicketInv, UnpaidWhilePaying, Committed
      <3>2. resv'[r].exp = resv[r].exp /\ SeatsOf(r)' = SeatsOf(r)
        BY <3>1, CommittedStays DEF TicketInv, IndInv
      <3> QED BY <1>2, <2>1, <3>2 DEF Claim, Stamped
    <2>2. CASE StampTickets(p)
      <3>1. pay[p].pc = "selling" /\ pay[p] \in Payment
        BY <2>2, PaymentTyped DEF StampTickets, TicketInv, IndInv
      <3>2. pay'[p].rid = pay[p].rid /\ pay'[p].at = clock
        BY <2>2, <3>1 DEF StampTickets, TicketInv, IndInv, TypeOK, Payment
      <3>3. Committed(r)
        BY <1>2, <3>1, <3>2 DEF TicketInv, UnpaidWhilePaying, Committed
      <3>4. /\ resv'[r].exp = resv[r].exp /\ SeatsOf(r)' = SeatsOf(r)
            /\ SeatsOf(r) = resv[r].seats /\ resv[r].exp \in Times /\ clock \in Times
        BY <3>3, CommittedStays, ReservationTyped
        DEF TicketInv, IndInv, TypeOK, LocksAreOwned, RequestsOwnTheirRow, Committed
      <3>5. LiveOn(s, r)
        BY <1>2, <3>2, <3>3, <3>4, ConstantsAssumption DEF LiveOn, Times
      <3> QED BY <1>2, <2>2, <3>2, <3>5
    <2>3. CASE LockReservation(p)
      <3>1. pay[p] \in Payment
        BY <2>3, PaymentTyped DEF LockReservation, TicketInv, IndInv
      <3>2. pay'[p].pc = "selling"
        BY <2>3, <3>1 DEF LockReservation, TicketInv, IndInv, TypeOK, Payment
      <3> QED BY <1>2, <3>2
    <2> QED BY <1>2, <2>1, <2>2, <2>3, PaymentMoves DEF TicketInv, IndInv
  <1> QED BY <1>1, <1>2 DEF Claim, Issued, Stamped

(* A hold that is live after a step was live before, or the step commits it. *)
LEMMA LiveGrows ==
  ASSUME IndInv, IndInv', [Next]_vars, NEW s \in Seats, NEW r \in Rids, LiveOn(s, r)'
  PROVE  LiveOn(s, r) \/ (CommitReservation(r) /\ s \in resv[r].seats)
  <1>1. Committed(r)' /\ s \in resv'[r].seats /\ resv'[r].exp > clock'
    BY DEF LiveOn
  <1>2. CASE Committed(r)
    <2>1. /\ resv'[r].seats = resv[r].seats /\ resv'[r].exp = resv[r].exp
          /\ resv[r].exp \in Times /\ clock \in Times /\ clock' \in Times /\ clock <= clock'
      BY <1>2, CommittedStays, ReservationTyped, ClockStep DEF IndInv, TypeOK, Committed
    <2>2. resv[r].exp > clock
      BY <1>1, <2>1, ConstantsAssumption DEF Times
    <2> QED BY <1>1, <1>2, <2>1, <2>2 DEF LiveOn
  <1>3. CASE CommitReservation(r)
    <2>1. resv'[r].seats = resv[r].seats
      BY <1>3, CommitReservationWrites DEF IndInv
    <2> QED BY <1>1, <1>3, <2>1
  <1> QED BY <1>1, <1>2, <1>3, NewlyCommitted DEF IndInv

(* A reservation that commits finds no ticket for its seats, and no payment
   that is about to write one: the seat would be sold, or its row locked. *)
LEMMA CommitFindsNoClaim ==
  ASSUME TicketInv, NEW r \in Rids, CommitReservation(r), NEW s \in resv[r].seats,
         NEW q \in Rids, Claim(s, q)
  PROVE  FALSE
  <1>1. rpc[r] = "valid" /\ statusLock[s] = r /\ status[s].st # "sold"
    BY DEF CommitReservation, TicketInv, IndInv, ChecksAreStable, ValidatedSeatsStayFree,
           Reservable
  <1>2. ~Issued(s, q)
    BY <1>1 DEF Issued, TicketInv, PaidExactlyOnce
  <1>3. ASSUME NEW p \in Payments, pay[p].pc = "inserting", pay[p].rid = q, s \in SeatsOf(q)
        PROVE  FALSE
    BY <1>1, <1>3, ConstantsAssumption DEF TicketInv, IndInv, ChecksAreStable, SoldRowsAreOwned
  <1> QED BY <1>2, <1>3 DEF Claim, Stamped

LEMMA ClaimsStep ==
  ASSUME TicketInv, IndInv', [Next]_vars
  PROVE  ClaimsExclude'
  <1> SUFFICES ASSUME NEW s \in Seats, NEW q \in Rids, NEW r \in Rids, q # r, Claim(s, q)'
               PROVE  ~Claim(s, r)' /\ ~LiveOn(s, r)'
    BY DEF ClaimsExclude
  <1>1. ASSUME NEW x \in Rids, NEW y \in Rids, x # y, LiveOn(s, x)
        PROVE  ~LiveOn(s, y) /\ ~Claim(s, y)
    BY <1>1 DEF LiveOn, TicketInv, IndInv, LiveHoldsDisjoint, ClaimsExclude
  <1>2. ASSUME NEW x \in Rids, Claim(s, x)'
        PROVE  /\ Claim(s, x) \/ LiveOn(s, x)
               /\ \A y \in Rids : CommitReservation(y) => s \notin resv[y].seats
    <2>1. CASE Claim(s, x)
      BY <2>1, CommitFindsNoClaim
    <2>2. ASSUME LiveOn(s, x), NEW p \in Payments, StampTickets(p)
          PROVE  \A y \in Rids : ~CommitReservation(y)
      BY <2>2 DEF StampTickets, CommitReservation, TicketInv, IndInv, TypeOK
    <2> QED BY <1>2, <2>1, <2>2, ClaimsGrow
  <1>3. ~Claim(s, r)'
    <2>1. ASSUME Claim(s, r)'
          PROVE  FALSE
      <3>1. (Claim(s, q) \/ LiveOn(s, q)) /\ (Claim(s, r) \/ LiveOn(s, r))
        BY <1>2, <2>1
      <3> QED BY <1>1, <3>1 DEF TicketInv, ClaimsExclude
    <2> QED BY <2>1
  <1>4. ~LiveOn(s, r)'
    <2>1. ASSUME LiveOn(s, r)
          PROVE  FALSE
      <3>1. Claim(s, q) \/ LiveOn(s, q)
        BY <1>2
      <3> QED BY <1>1, <2>1, <3>1
    <2>2. ~(CommitReservation(r) /\ s \in resv[r].seats)
      BY <1>2
    <2> QED BY <2>1, <2>2, LiveGrows DEF TicketInv
  <1> QED BY <1>3, <1>4

-----------------------------------------------------------------------------
LEMMA InitTicketInv == Init => TicketInv
  BY InitIndInv
  DEF Init, TicketInv, UnpaidWhilePaying, PaidExactlyOnce, NoReservation, NoPayment,
      ClaimsExclude, Claim, Issued, Stamped

LEMMA StepTicketInv == TicketInv /\ [Next]_vars => TicketInv'
  BY IndInvStep, UnpaidStep, PaidStep, ClaimsStep DEF TicketInv

LEMMA TicketInvariance == Spec => []TicketInv
  BY InitTicketInv, StepTicketInv, PTL DEF Spec

(* Payment is all or nothing and happens once, however many requests race or
   are retried. *)
THEOREM PaidOnce == Spec => []PaidExactlyOnce
  <1>1. TicketInv => PaidExactlyOnce
    BY DEF TicketInv
  <1> QED BY TicketInvariance, <1>1, PTL

(* Of two tickets for one seat one was written too late: booking a seat twice
   takes a payment that ends after its own hold has run out. *)
THEOREM TimelyDisjoint == Spec => []TimelyTicketsDisjoint
  <1>1. TicketInv => TimelyTicketsDisjoint
    <2> SUFFICES ASSUME TicketInv, NEW t \in tickets, NEW u \in tickets, t.seat = u.seat,
                        t.at < resv[t.rid].exp, u.at < resv[u.rid].exp
                 PROVE  t = u
      BY DEF TimelyTicketsDisjoint
    <2>1. t.seat \in Seats /\ t.rid \in Rids /\ u.rid \in Rids
      BY DEF TicketInv, IndInv, TypeOK, Ticket
    <2>2. Claim(t.seat, t.rid) /\ Claim(t.seat, u.rid)
      BY DEF Claim, Issued
    <2>3. t.rid = u.rid
      BY <2>1, <2>2 DEF TicketInv, ClaimsExclude
    <2> QED BY <2>1, <2>3 DEF TicketInv, PaidExactlyOnce
  <1> QED BY TicketInvariance, <1>1, PTL

-----------------------------------------------------------------------------
(* SeatTransactions implements SeatLedger: at its commit each transaction  *)
(* does what the ledger does in one step, and no other step shows there.   *)

(* No hold is promised for longer than a new one would be, and tickets are
   stamped with times that have been. *)
HoldsAreBounded ==
  \A r \in Rids : resv[r].st # "none" => resv[r].exp <= clock + LockDuration
StampsArePast == \A p \in Payments : pay[p].pc = "inserting" => pay[p].at <= clock

LedgerInv == TicketInv /\ HoldsAreBounded /\ StampsArePast

(* The reservations of the ledger: those that are committed. *)
Visible == [r \in Rids |-> IF Committed(r) THEN resv[r] ELSE NoReservation]

-----------------------------------------------------------------------------
(* A row of reservations keeps its expiry from its INSERT on. *)
LEMMA ExpiryStays ==
  ASSUME TypeOK, LocksAreOwned, [Next]_vars, NEW r \in Rids, resv'[r].st # "none"
  PROVE  \/ resv[r].st # "none" /\ resv'[r].exp = resv[r].exp
         \/ BeginReservation(r)
  <1> DEFINE Goal == \/ resv[r].st # "none" /\ resv'[r].exp = resv[r].exp
                     \/ BeginReservation(r)
  <1>0. resv'[r] = resv[r] => Goal
    OBVIOUS
  <1>1. ASSUME NEW q \in Rids, BeginReservation(q) PROVE Goal
    <2>1. CASE q = r
      BY <1>1, <2>1
    <2>2. CASE q # r
      BY <1>0, <1>1, <2>2 DEF BeginReservation, TypeOK
    <2> QED BY <2>1, <2>2
  <1>2. ASSUME NEW q \in Rids, FailReservation(q) PROVE Goal
    BY <1>0, <1>2 DEF FailReservation, TypeOK, NoReservation
  <1>3. ASSUME NEW q \in Rids, CommitReservation(q) PROVE Goal
    <2>1. /\ resv[q].st = "open" /\ resv'[q].exp = resv[q].exp
          /\ q # r => resv'[r] = resv[r]
      BY <1>3, CommitReservationWrites
    <2> QED BY <1>0, <2>1
  <1>4. ASSUME NEW q \in Rids, ReservationStep(q) PROVE Goal
    BY <1>0, <1>2, <1>3, <1>4
    DEF ReservationStep, LockSeat, LockStatus, SeatsNotFound, SeatConflict, Validate
  <1>5. ASSUME NEW p \in Payments, CommitPayment(p) PROVE Goal
    <2>1. CASE pay[p].rid # r
      BY <1>0, <1>5, <2>1 DEF CommitPayment, TypeOK
    <2>2. CASE pay[p].rid = r
      <3>1. Committed(r)
        BY <1>5, <2>2, KindsOfTransaction
        DEF CommitPayment, LocksAreOwned, PaidRowsOwned
      <3>2. resv'[r].exp = resv[r].exp
        BY <3>1, CommittedStays
      <3> QED BY <3>1, <3>2 DEF Committed
    <2> QED BY <2>1, <2>2
  <1>6. ASSUME NEW p \in Payments, PaymentStep(p) PROVE Goal
    BY <1>0, <1>5, <1>6
    DEF PaymentStep, SellSeat, ShareSeatKey, RejectPayment, LockReservation, StampTickets
  <1>7. CleanupStep => Goal
    BY <1>0 DEF CleanupStep, BeginCleanup, CleanRow, CommitCleanup, EndCleanup
  <1>8. ASSUME NEW t \in Transactions, Rollback(t) PROVE Goal
    BY <1>0, <1>2, <1>8 DEF Rollback, EndCleanup
  <1> QED BY <1>0, <1>1, <1>4, <1>6, <1>7, <1>8
          DEF Next, BeginPayment, Fail, DeadlockVictim, Tick, vars

LEMMA OnlyTick ==
  ASSUME [Next]_vars
  PROVE  clock' = clock \/ Tick
  BY DEF Next, vars, BeginReservation, ReservationStep, LockSeat, LockStatus, SeatsNotFound,
         SeatConflict, Validate, CommitReservation, FailReservation, BeginPayment,
         PaymentStep, SellSeat, ShareSeatKey, RejectPayment, LockReservation, StampTickets,
         CommitPayment, CleanupStep, BeginCleanup, CleanRow, CommitCleanup, EndCleanup,
         Fail, DeadlockVictim, Rollback

LEMMA BoundsStep ==
  ASSUME LedgerInv, IndInv', [Next]_vars
  PROVE  HoldsAreBounded' /\ StampsArePast'
  <1>1. clock \in Times /\ clock' \in Times /\ clock <= clock'
    BY ClockStep DEF LedgerInv, TicketInv, IndInv, TypeOK
  <1>2. HoldsAreBounded'
    <2> SUFFICES ASSUME NEW r \in Rids, resv'[r].st # "none"
                 PROVE  resv'[r].exp <= clock' + LockDuration
      BY DEF HoldsAreBounded
    <2>1. resv'[r].exp \in Times
      BY ReservationTyped DEF IndInv, TypeOK, Reservation, NoReservation
    <2>2. CASE resv[r].st # "none" /\ resv'[r].exp = resv[r].exp
      <3>1. resv[r].exp <= clock + LockDuration
        BY <2>2 DEF LedgerInv, HoldsAreBounded
      <3> QED BY <1>1, <2>1, <2>2, <3>1, ConstantsAssumption DEF Times
    <2>3. CASE BeginReservation(r)
      <3>1. resv'[r].exp = clock + LockDuration /\ clock' = clock
        BY <2>3 DEF BeginReservation, LedgerInv, TicketInv, IndInv, TypeOK
      <3>2. clock + LockDuration <= clock + LockDuration
        BY <1>1, ConstantsAssumption DEF Times
      <3> QED BY <3>1, <3>2
    <2> QED BY <2>2, <2>3, ExpiryStays DEF LedgerInv, TicketInv, IndInv
  <1>3. StampsArePast'
    <2> SUFFICES ASSUME NEW p \in Payments, pay'[p].pc = "inserting"
                 PROVE  pay'[p].at <= clock'
      BY DEF StampsArePast
    <2>1. CASE pay'[p] = pay[p]
      <3>1. pay[p].at \in Times /\ pay[p].at <= clock
        BY <2>1, PaymentTyped DEF LedgerInv, TicketInv, IndInv, StampsArePast, Payment
      <3> QED BY <1>1, <2>1, <3>1, ConstantsAssumption DEF Times
    <2>2. CASE StampTickets(p)
      <3>1. pay[p] \in Payment
        BY <2>2, PaymentTyped DEF StampTickets, LedgerInv, TicketInv, IndInv
      <3>2. pay'[p].at = clock
        BY <2>2, <3>1 DEF StampTickets, LedgerInv, TicketInv, IndInv, TypeOK, Payment
      <3> QED BY <1>1, <3>2
    <2>3. CASE LockReservation(p)
      <3>1. pay[p] \in Payment
        BY <2>3, PaymentTyped DEF LockReservation, LedgerInv, TicketInv, IndInv
      <3>2. pay'[p].pc = "selling"
        BY <2>3, <3>1 DEF LockReservation, LedgerInv, TicketInv, IndInv, TypeOK, Payment
      <3> QED BY <3>2
    <2> QED BY <2>1, <2>2, <2>3, PaymentMoves DEF LedgerInv, TicketInv, IndInv
  <1> QED BY <1>2, <1>3

LEMMA LedgerInvariance == Spec => []LedgerInv
  <1>1. Init => LedgerInv
    BY InitTicketInv
    DEF Init, LedgerInv, HoldsAreBounded, StampsArePast, NoReservation, NoPayment
  <1>2. LedgerInv /\ [Next]_vars => LedgerInv'
    BY StepTicketInv, BoundsStep DEF LedgerInv, TicketInv
  <1> QED BY <1>1, <1>2, PTL DEF Spec

-----------------------------------------------------------------------------
(* The three commits, in the terms of the ledger.                          *)

LEMMA CommitReservationIsReserve ==
  ASSUME LedgerInv, LedgerInv', [Next]_vars, NEW r \in Rids, CommitReservation(r)
  PROVE  Ledger!Next
  <1>0. PICK row \in Reservation : row = resv[r] /\ row.st = "open"
    BY CommitReservationWrites DEF LedgerInv, TicketInv, IndInv
  <1>1. /\ row.user \in Users /\ row.event \in Events /\ row.ref \in Refs
        /\ row.exp \in Times /\ row.seats \in SUBSET Seats /\ row.seats # {}
    BY <1>0 DEF Reservation
  <1>2. /\ resv'[r] = [st |-> "reserved", user |-> row.user, event |-> row.event,
                       seats |-> row.seats, ref |-> row.ref, exp |-> row.exp]
        /\ resv'[r].st = "reserved" /\ \A q \in Rids \ {r} : resv'[q] = resv[q]
    BY <1>0, CommitReservationWrites DEF LedgerInv, TicketInv, IndInv
  <1>3. \A s \in row.seats : /\ statusLock[s] = r /\ EventOf[s] = row.event
                             /\ Reservable(status[s], clock)
    BY <1>0, <1>1
    DEF CommitReservation, LedgerInv, TicketInv, IndInv, ChecksAreStable,
        ValidatedSeatsStayFree, LocksAreOwned, SeatRowsOwned, Found
  <1>4. \A s \in row.seats : status[s].st # "sold" /\ ~Ledger!Held(s)
    <2>1. \A s \in row.seats : status[s] \in StatusRow /\ clock \in Times
      BY <1>1 DEF LedgerInv, TicketInv, IndInv, TypeOK
    <2> QED BY <1>3, <2>1, ConstantsAssumption
            DEF Ledger!Held, Reservable, StatusRow, Times, NoTime
  <1>5. row.exp <= clock + LockDuration
    BY <1>0 DEF LedgerInv, HoldsAreBounded
  <1>6. Visible[r] = NoReservation
    BY <1>0 DEF Visible, Committed
  <1>7. Visible' = [Visible EXCEPT ![r] = resv'[r]]
    BY <1>2 DEF Visible, Committed
  <1>8. status' = [s \in Seats |-> IF s \in row.seats
                     THEN [st |-> "reserved", by |-> row.user, exp |-> row.exp]
                     ELSE status[s]]
    BY <1>0 DEF CommitReservation, Row
  <1>9. UNCHANGED <<clock, tickets>>
    BY DEF CommitReservation
  <1>10. Ledger!Reserve(r, row.user, row.event, row.seats, row.ref, row.exp)
    BY <1>1, <1>2, <1>3, <1>4, <1>5, <1>6, <1>7, <1>8, <1>9
    DEF Ledger!Reserve, Ledger!NoReservation, NoReservation, Visible
  <1>11. r \in Ledger!Rids /\ row.exp \in Ledger!Times
    BY <1>1 DEF Ledger!Rids, Ledger!Times, Rids, Times
  <1> QED BY <1>1, <1>10, <1>11 DEF Ledger!Next

LEMMA CommitPaymentIsPay ==
  ASSUME LedgerInv, LedgerInv', [Next]_vars, NEW p \in Payments, CommitPayment(p)
  PROVE  Ledger!Next
  <1>1. PICK at \in Times : at = pay[p].at /\ at <= clock
    BY PaymentTyped
    DEF CommitPayment, LedgerInv, TicketInv, IndInv, StampsArePast, Payment
  <1>2. PICK r \in Rids : r = pay[p].rid
    BY CommitPaymentWrites DEF LedgerInv, TicketInv
  <1>3. /\ resv[r] \in Reservation /\ resv[r].st = "reserved"
        /\ SeatsOf(r) = resv[r].seats /\ resv[r].seats \subseteq Seats
        /\ resv'[r].st = "paid" /\ \A q \in Rids \ {r} : resv'[q] = resv[q]
        /\ tickets' = tickets \cup
             {[seat |-> s, rid |-> r, by |-> p, at |-> at] : s \in resv[r].seats}
    BY <1>1, <1>2, CommitPaymentWrites DEF LedgerInv, TicketInv
  <1>4. Visible[r] = resv[r]
    BY <1>3 DEF Visible, Committed
  <1>5. resv'[r] = [resv[r] EXCEPT !.st = "paid"]
    BY <1>2 DEF CommitPayment, LedgerInv, TicketInv, IndInv, TypeOK
  <1>6. Visible' = [Visible EXCEPT ![r] = [resv[r] EXCEPT !.st = "paid"]]
    BY <1>3, <1>5 DEF Visible, Committed
  <1>7. status' = [s \in Seats |-> IF s \in resv[r].seats THEN Ledger!SoldRow ELSE status[s]]
    BY <1>2, <1>3 DEF CommitPayment, SoldRow, Row, NoTime, Ledger!SoldRow, Ledger!NoTime
  <1>8. clock' = clock
    BY DEF CommitPayment
  <1>9. Ledger!Pay(r, p, at)
    BY <1>1, <1>3, <1>4, <1>6, <1>7, <1>8 DEF Ledger!Pay, Visible
  <1>10. r \in Ledger!Rids /\ at \in Ledger!Times
    BY DEF Ledger!Rids, Ledger!Times, Rids, Times
  <1> QED BY <1>9, <1>10 DEF Ledger!Next

(* A step that commits neither shows no reservation that was not there. *)
LEMMA NothingVisible ==
  ASSUME LedgerInv, LedgerInv', [Next]_vars,
         \A r \in Rids : ~CommitReservation(r), \A p \in Payments : ~CommitPayment(p)
  PROVE  Visible' = Visible /\ tickets' = tickets
  <1>1. ASSUME NEW r \in Rids
        PROVE  Visible'[r] = Visible[r]
    <2>1. Committed(r) => Committed(r)' /\ resv'[r] = resv[r]
      BY CommittedStays, CommittedSame DEF LedgerInv, TicketInv, IndInv
    <2>2. Committed(r)' => Committed(r)
      BY NewlyCommitted DEF LedgerInv, TicketInv, IndInv
    <2> QED BY <2>1, <2>2 DEF Visible
  <1> QED BY <1>1, TicketsChange DEF Visible

LEMMA CommitCleanupIsReturn ==
  ASSUME LedgerInv, LedgerInv', [Next]_vars, CommitCleanup
  PROVE  Ledger!Next
  <1> DEFINE S == {s \in Seats : statusLock[s] = Cleaner}
  <1>1. \A s \in S : Ledger!RanOut(s)
    BY DEF LedgerInv, TicketInv, IndInv, ChecksAreStable, SweptRowsAreExpired, Expired,
           Ledger!RanOut
  <1>2. status' = [s \in Seats |-> IF s \in S THEN Ledger!AvailableRow ELSE status[s]]
    BY DEF CommitCleanup, AvailableRow, Row, NoTime, Ledger!AvailableRow, Ledger!NoTime
  <1>3. Visible' = Visible /\ UNCHANGED <<clock, tickets>>
    BY DEF CommitCleanup, EndCleanup, Visible, Committed
  <1>4. Ledger!Return(S)
    BY <1>1, <1>2, <1>3 DEF Ledger!Return, Visible
  <1> QED BY <1>4 DEF Ledger!Next

LEMMA StepIsLedgerStep ==
  LedgerInv /\ LedgerInv' /\ [Next]_vars => [Ledger!Next]_(Ledger!vars)
  <1> SUFFICES ASSUME LedgerInv, LedgerInv', [Next]_vars
               PROVE  Ledger!Next \/ UNCHANGED Ledger!vars
    OBVIOUS
  <1>1. CASE \E r \in Rids : CommitReservation(r)
    BY <1>1, CommitReservationIsReserve
  <1>2. CASE \E p \in Payments : CommitPayment(p)
    BY <1>2, CommitPaymentIsPay
  <1>3. CASE CommitCleanup
    BY <1>3, CommitCleanupIsReturn
  <1>4. CASE /\ \A r \in Rids : ~CommitReservation(r)
             /\ \A p \in Payments : ~CommitPayment(p)
             /\ ~CommitCleanup
    <2>1. Visible' = Visible /\ tickets' = tickets
      BY <1>4, NothingVisible
    <2>2. status' = status
      <3>1. \A s \in Seats : status'[s] = status[s]
        BY <1>4, StatusChanges DEF LedgerInv, TicketInv, IndInv
      <3> QED BY <3>1 DEF LedgerInv, TicketInv, IndInv, TypeOK
    <2>3. CASE Tick
      BY <2>1, <2>2, <2>3 DEF Tick, Ledger!Next, Ledger!Tick, Visible
    <2>4. CASE clock' = clock
      BY <2>1, <2>2, <2>4 DEF Ledger!vars, Visible
    <2> QED BY <2>3, <2>4, OnlyTick
  <1> QED BY <1>1, <1>2, <1>3, <1>4

(* Whatever the transactions of seet_repo.go lock, wait for or lose on the way,
   the rest of the program sees only whole reservations, whole payments and
   the return of expired seats, each at one instant. *)
THEOREM TransactionsImplementLedger == Spec => ImplementsLedger
  <1>1. Init => Ledger!Init
    BY DEF Init, Committed, NoReservation, AvailableRow, Row, NoTime, Ledger!Init,
           Ledger!AvailableRow, Ledger!NoTime, Ledger!NoReservation, Ledger!Rids, Rids
  <1> QED BY <1>1, StepIsLedgerStep, LedgerInvariance, PTL
          DEF Spec, ImplementsLedger, Ledger!Spec
=============================================================================
