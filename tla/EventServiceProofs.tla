------------------------- MODULE EventServiceProofs -------------------------
(***************************************************************************)
(* Proofs about EventService, for any number of events, of requests and of *)
(* times that the process goes down.                                       *)
(***************************************************************************)
EXTENDS EventService, FiniteSetTheorems, TLAPS

(* How far the goroutine of an event has got, what the row says of it, and
   what the seats are. *)
GoroutineAgreesWithRow ==
  \A e \in Events :
    /\ seeder[e] = "idle" <=> rows[e] = NoRow
    /\ create[e] \in {"idle", "saved"} => seeder[e] = "idle"
    /\ e \in seats => seeder[e] \notin {"idle", "seeding", "failing"}
    /\ seeder[e] = "activating" => e \in seats
    /\ e \in Seeding => rows[e].st = "creating_seats"

(* What a request has read of its event is out of date at most in ways that
   are still true of the seats. *)
RememberedStatus ==
  \A q \in Requests : req[q] # NoRequest =>
    LET e == req[q].event
        st == req[q].old.st IN
    /\ rows[e] # NoRow
    /\ e \in Seeding => st = "creating_seats"
    /\ st \in {"active", "finished"} => e \in seats
    /\ st = "failed" => e \notin seats
    /\ req[q].pc = "deleted" => ~Live(rows[e])

(* An image is called after the request that created its event, or after an
   update of the event that has been written. *)
ImageOf(e, f) == f = e \/ (f \in Requests /\ req[f].pc = "done" /\ req[f].event = e)

ImagesHaveOneEvent ==
  /\ \A e \in Events : rows[e] # NoRow => ImageOf(e, rows[e].image)
  /\ \A q \in Requests : req[q] # NoRequest => ImageOf(req[q].event, req[q].old.image)

(* What is about to be written into a row is on disk. *)
SavedIsOnDisk ==
  /\ \A e \in Events : create[e] = "saved" => e \in files
  /\ \A q \in Requests : req[q].pc = "saved" => q \in files

TasksAreCounted ==
  /\ wg = Cardinality(Seeding)
  /\ process \in {"stopped", "down"} => Seeding = {} /\ \A q \in Requests : ~Busy(q)

IInv ==
  /\ TypeOK
  /\ GoroutineAgreesWithRow
  /\ StatusTellsOfSeats
  /\ RememberedStatus
  /\ ImagesHaveOneEvent
  /\ SavedIsOnDisk
  /\ LiveEventHasItsImage
  /\ TasksAreCounted

-----------------------------------------------------------------------------
LEMMA RowsAreRows == NoRow \notin Row
  BY DEF NoRow, Row

LEMMA RowTyped ==
  ASSUME TypeOK, NEW e \in Events, rows[e] # NoRow
  PROVE  /\ rows[e] \in Row /\ rows[e].st \in Statuses /\ rows[e].image \in Files
         /\ rows[e].deleted \in BOOLEAN
  BY DEF TypeOK, Row

LEMMA RequestTyped ==
  ASSUME TypeOK, NEW q \in Requests, req[q] # NoRequest
  PROVE  /\ req[q] \in Request /\ req[q].event \in Events /\ req[q].old \in Row
         /\ req[q].old.st \in Statuses /\ req[q].old.image \in Files
  BY DEF TypeOK, Request, Row

LEMMA SeedingIsFinite == IsFiniteSet(Seeding)
  BY ConstantsAssumption, FS_Subset DEF Seeding

(* What a write of one column or two leaves of a row. *)
LEMMA SettleWrites ==
  ASSUME IInv, NEW e \in Events, Settle(e)
  PROVE  /\ e \in Seeding /\ rows[e] \in Row /\ rows'[e] \in Row
         /\ rows[e] # NoRow /\ rows'[e] # NoRow
         /\ \A f \in Events \ {e} : rows'[f] = rows[f]
         /\ rows' \in [Events -> Row \cup {NoRow}]
         /\ rows'[e].image = rows[e].image /\ rows'[e].deleted = rows[e].deleted
         /\ rows'[e].st \in {rows[e].st, IF seeder[e] = "activating" THEN "active" ELSE "failed"}
  <1> DEFINE st == IF seeder[e] = "activating" THEN "active" ELSE "failed"
             new == [rows[e] EXCEPT !.st = st]
  <1>1. e \in Seeding /\ rows[e] \in Row
    BY RowTyped DEF IInv, GoroutineAgreesWithRow, Settle, Seeding
  <1>2. new \in Row /\ new.st = st /\ new.image = rows[e].image /\ new.deleted = rows[e].deleted
    BY <1>1 DEF Row, Statuses
  <1>3. rows' = [rows EXCEPT ![e] = Written(rows[e], new)] \/ rows' = rows
    BY DEF Settle
  <1>4. Written(rows[e], new) \in {rows[e], new}
    BY DEF Written
  <1>5. PICK y \in {rows[e], new} : rows' = [rows EXCEPT ![e] = y]
    BY <1>3, <1>4 DEF IInv, TypeOK
  <1> QED BY <1>1, <1>2, <1>5, RowsAreRows DEF IInv, TypeOK

LEMMA WriteEventWrites ==
  ASSUME IInv, NEW q \in Requests, WriteEvent(q), NEW e, e = req[q].event
  PROVE  /\ e \in Events /\ rows[e] \in Row /\ rows'[e] \in Row
         /\ rows[e] # NoRow /\ rows'[e] # NoRow
         /\ \A f \in Events \ {e} : rows'[f] = rows[f]
         /\ rows' \in [Events -> Row \cup {NoRow}]
         /\ rows'[e].deleted = rows[e].deleted
         /\ IF rows[e].deleted THEN rows'[e] = rows[e]
            ELSE rows'[e].st = req[q].old.st /\ rows'[e].image = q
  <1> DEFINE new == [rows[e] EXCEPT !.st = req[q].old.st, !.image = q]
  <1>1. req[q] # NoRequest
    BY DEF WriteEvent, At, NoRequest
  <1>2. e \in Events /\ rows[e] \in Row /\ req[q].old.st \in Statuses
    BY <1>1, RequestTyped, RowTyped DEF IInv, RememberedStatus
  <1>3. new \in Row /\ new.st = req[q].old.st /\ new.image = q /\ new.deleted = rows[e].deleted
    BY <1>2 DEF Row, Files
  <1>4. rows' = [rows EXCEPT ![e] = Written(rows[e], new)]
    BY DEF WriteEvent
  <1>5. Written(rows[e], new) = IF rows[e].deleted THEN rows[e] ELSE new
    BY DEF Written
  <1> QED BY <1>2, <1>3, <1>4, <1>5, RowsAreRows DEF IInv, TypeOK

LEMMA DeleteRowWrites ==
  ASSUME IInv, NEW q \in Requests, DeleteRow(q), NEW e, e = req[q].event
  PROVE  /\ e \in Events /\ rows[e] \in Row /\ rows'[e] \in Row
         /\ rows[e] # NoRow /\ rows'[e] # NoRow
         /\ \A f \in Events \ {e} : rows'[f] = rows[f]
         /\ rows' \in [Events -> Row \cup {NoRow}]
         /\ rows'[e].st = rows[e].st /\ rows'[e].image = rows[e].image /\ rows'[e].deleted
         /\ rows[e].deleted => rows'[e] = rows[e]
  <1> DEFINE new == [rows[e] EXCEPT !.deleted = TRUE]
  <1>1. req[q] # NoRequest
    BY DEF DeleteRow, At, NoRequest
  <1>2. e \in Events /\ rows[e] \in Row
    BY <1>1, RequestTyped, RowTyped DEF IInv, RememberedStatus
  <1>3. /\ new \in Row /\ new.st = rows[e].st /\ new.image = rows[e].image /\ new.deleted
        /\ rows[e].deleted => new = rows[e]
    BY <1>2 DEF Row
  <1>4. rows' = [rows EXCEPT ![e] = new]
    BY DEF DeleteRow
  <1> QED BY <1>2, <1>3, <1>4, RowsAreRows DEF IInv, TypeOK

LEMMA InitIInv == Init => IInv
  <1> SUFFICES ASSUME Init PROVE IInv
    OBVIOUS
  <1>1. Seeding = {}
    BY DEF Init, Seeding
  <1>2. TasksAreCounted
    BY <1>1, FS_EmptySet DEF Init, TasksAreCounted
  <1>3. TypeOK
    BY ConstantsAssumption DEF Init, TypeOK
  <1> QED
    BY <1>1, <1>2, <1>3
    DEF Init, IInv, GoroutineAgreesWithRow, StatusTellsOfSeats, RememberedStatus, NoRow,
        ImagesHaveOneEvent, SavedIsOnDisk, LiveEventHasItsImage, Live, NoRequest

LEMMA SaveImageIInv ==
  ASSUME IInv, NEW e \in Events, SaveImage(e)
  PROVE  IInv'
  <1>1. TypeOK'
    BY DEF IInv, TypeOK, Files, SaveImage
  <1>2. TasksAreCounted'
    BY DEF IInv, TasksAreCounted, Seeding, SaveImage
  <1>3. GoroutineAgreesWithRow'
    BY DEF IInv, GoroutineAgreesWithRow, Seeding, SaveImage
  <1>4. StatusTellsOfSeats'
    BY DEF IInv, StatusTellsOfSeats, SaveImage
  <1>5. RememberedStatus'
    BY DEF IInv, RememberedStatus, Seeding, SaveImage
  <1>6. ImagesHaveOneEvent'
    BY DEF IInv, ImagesHaveOneEvent, ImageOf, SaveImage
  <1>7. SavedIsOnDisk'
    BY DEF IInv, SavedIsOnDisk, SaveImage
  <1>8. LiveEventHasItsImage'
    BY DEF IInv, LiveEventHasItsImage, SaveImage
  <1> QED BY <1>1, <1>2, <1>3, <1>4, <1>5, <1>6, <1>7, <1>8 DEF IInv

LEMMA InsertEventIInv ==
  ASSUME IInv, NEW e \in Events, InsertEvent(e)
  PROVE  IInv'
  <1>1. TypeOK'
    BY DEF IInv, TypeOK, Row, Statuses, Files, Outcomes, InsertEvent
  <1>2. TasksAreCounted'
    <2>1. Seeding' = Seeding \cup {e} /\ e \notin Seeding
      BY DEF IInv, TypeOK, GoroutineAgreesWithRow, Seeding, InsertEvent
    <2>2. wg' = Cardinality(Seeding')
      BY <2>1, SeedingIsFinite, FS_AddElement DEF IInv, TasksAreCounted, InsertEvent
    <2>3. process' \notin {"stopped", "down"}
      BY DEF InsertEvent, Alive
    <2> QED BY <2>2, <2>3 DEF TasksAreCounted
  <1>3. GoroutineAgreesWithRow'
    BY DEF IInv, TypeOK, GoroutineAgreesWithRow, Seeding, NoRow, InsertEvent
  <1>4. StatusTellsOfSeats'
    BY DEF IInv, StatusTellsOfSeats, InsertEvent
  <1>5. RememberedStatus'
    BY DEF IInv, GoroutineAgreesWithRow, RememberedStatus, Seeding, InsertEvent
  <1>6. ImagesHaveOneEvent'
    BY DEF IInv, ImagesHaveOneEvent, ImageOf, InsertEvent
  <1>7. SavedIsOnDisk'
    BY DEF IInv, SavedIsOnDisk, InsertEvent
  <1>8. LiveEventHasItsImage'
    BY DEF IInv, LiveEventHasItsImage, SavedIsOnDisk, InsertEvent
  <1> QED BY <1>1, <1>2, <1>3, <1>4, <1>5, <1>6, <1>7, <1>8 DEF IInv

LEMMA InsertFailsIInv ==
  ASSUME IInv, NEW e \in Events, InsertFails(e)
  PROVE  IInv'
  <1>1. TypeOK'
    BY DEF IInv, TypeOK, Outcomes, InsertFails
  <1>2. TasksAreCounted'
    BY DEF IInv, TasksAreCounted, Seeding, Alive, InsertFails
  <1>3. GoroutineAgreesWithRow'
    BY DEF IInv, GoroutineAgreesWithRow, Seeding, InsertFails
  <1>4. StatusTellsOfSeats'
    BY DEF IInv, StatusTellsOfSeats, InsertFails
  <1>5. RememberedStatus'
    BY DEF IInv, RememberedStatus, Seeding, InsertFails
  <1>6. ImagesHaveOneEvent'
    BY DEF IInv, ImagesHaveOneEvent, ImageOf, InsertFails
  <1>7. SavedIsOnDisk'
    BY DEF IInv, SavedIsOnDisk, InsertFails
  <1>8. LiveEventHasItsImage'
    BY DEF IInv, LiveEventHasItsImage, InsertFails
  <1> QED BY <1>1, <1>2, <1>3, <1>4, <1>5, <1>6, <1>7, <1>8 DEF IInv

LEMMA SeedSeatsIInv ==
  ASSUME IInv, NEW e \in Events, SeedSeats(e)
  PROVE  IInv'
  <1>1. TypeOK'
    BY DEF IInv, TypeOK, SeedSeats
  <1>2. TasksAreCounted'
    BY DEF IInv, TypeOK, TasksAreCounted, Seeding, SeedSeats
  <1>3. GoroutineAgreesWithRow'
    BY DEF IInv, TypeOK, GoroutineAgreesWithRow, Seeding, SeedSeats
  <1>4. StatusTellsOfSeats'
    BY DEF IInv, StatusTellsOfSeats, GoroutineAgreesWithRow, Seeding, SeedSeats
  <1>5. RememberedStatus'
    BY DEF IInv, TypeOK, RememberedStatus, Seeding, SeedSeats
  <1>6. ImagesHaveOneEvent'
    BY DEF IInv, ImagesHaveOneEvent, ImageOf, SeedSeats
  <1>7. SavedIsOnDisk'
    BY DEF IInv, SavedIsOnDisk, SeedSeats
  <1>8. LiveEventHasItsImage'
    BY DEF IInv, LiveEventHasItsImage, SeedSeats
  <1> QED BY <1>1, <1>2, <1>3, <1>4, <1>5, <1>6, <1>7, <1>8 DEF IInv

LEMMA SettleIInv ==
  ASSUME IInv, NEW e \in Events, Settle(e)
  PROVE  IInv'
  <1>a. /\ e \in Seeding /\ rows[e] \in Row /\ rows'[e] \in Row
        /\ rows[e] # NoRow /\ rows'[e] # NoRow
        /\ \A f \in Events \ {e} : rows'[f] = rows[f]
        /\ rows' \in [Events -> Row \cup {NoRow}]
        /\ rows'[e].image = rows[e].image /\ rows'[e].deleted = rows[e].deleted
        /\ rows'[e].st \in {rows[e].st, IF seeder[e] = "activating" THEN "active" ELSE "failed"}
    BY SettleWrites
  <1>b. /\ Alive /\ seeder[e] \in {"activating", "failing"} /\ wg' = wg - 1
        /\ seeder' \in {[seeder EXCEPT ![e] = "done"], [seeder EXCEPT ![e] = "gaveup"]}
        /\ UNCHANGED <<seats, begun, files, create, req, process, stops>>
    BY DEF Settle
  <1>1. TasksAreCounted' /\ wg' \in Nat
    <2>1. Seeding' = Seeding \ {e} /\ e \in Seeding
      BY DEF IInv, TypeOK, Seeding, Settle
    <2>a. IsFiniteSet(Seeding') /\ Cardinality(Seeding') = Cardinality(Seeding) - 1
      BY <2>1, SeedingIsFinite, FS_RemoveElement
    <2>b. Cardinality(Seeding') \in Nat
      BY <2>a, FS_CardinalityType
    <2>2. wg' = Cardinality(Seeding') /\ wg' \in Nat
      BY <2>a, <2>b DEF IInv, TasksAreCounted, Settle
    <2>3. process' \notin {"stopped", "down"}
      BY DEF Settle, Alive
    <2> QED BY <2>2, <2>3 DEF TasksAreCounted
  <1>2. TypeOK'
    BY <1>a, <1>b, <1>1 DEF IInv, TypeOK
  <1>3. GoroutineAgreesWithRow'
    BY <1>a, <1>b DEF IInv, TypeOK, GoroutineAgreesWithRow, Seeding
  <1>4. StatusTellsOfSeats'
    BY <1>a, <1>b DEF IInv, StatusTellsOfSeats, GoroutineAgreesWithRow
  <1>5. RememberedStatus'
    BY RequestTyped, <1>a, <1>b DEF IInv, TypeOK, RememberedStatus, Seeding, Live
  <1>6. ImagesHaveOneEvent'
    BY <1>a, <1>b DEF IInv, ImagesHaveOneEvent, ImageOf
  <1>7. SavedIsOnDisk'
    BY <1>b DEF IInv, SavedIsOnDisk
  <1>8. LiveEventHasItsImage'
    BY <1>a, <1>b DEF IInv, LiveEventHasItsImage, Live
  <1> QED BY <1>1, <1>2, <1>3, <1>4, <1>5, <1>6, <1>7, <1>8 DEF IInv

LEMMA FindEventIInv ==
  ASSUME IInv, NEW q \in Requests, FindEvent(q)
  PROVE  IInv'
  <1>1. TypeOK'
    BY DEF IInv, TypeOK, Request, Live, FindEvent
  <1>2. TasksAreCounted'
    BY DEF IInv, TasksAreCounted, Seeding, FindEvent
  <1>3. GoroutineAgreesWithRow'
    BY DEF IInv, GoroutineAgreesWithRow, Seeding, FindEvent
  <1>4. StatusTellsOfSeats'
    BY DEF IInv, StatusTellsOfSeats, FindEvent
  <1>5. RememberedStatus'
    BY
    DEF IInv, StatusTellsOfSeats, GoroutineAgreesWithRow, RememberedStatus, Seeding, Live,
        FindEvent
  <1>6. ImagesHaveOneEvent'
    BY DEF IInv, ImagesHaveOneEvent, ImageOf, Live, NoRequest, FindEvent
  <1>7. SavedIsOnDisk'
    BY DEF IInv, SavedIsOnDisk, FindEvent
  <1>8. LiveEventHasItsImage'
    BY DEF IInv, LiveEventHasItsImage, NoRequest, FindEvent
  <1> QED BY <1>1, <1>2, <1>3, <1>4, <1>5, <1>6, <1>7, <1>8 DEF IInv

LEMMA RemoveOldImageIInv ==
  ASSUME IInv, NEW q \in Requests, RemoveOldImage(q)
  PROVE  IInv'
  <1>1. TypeOK'
    BY DEF IInv, TypeOK, Request, NoRequest, RemoveOldImage, At
  <1>2. TasksAreCounted'
    BY DEF IInv, TasksAreCounted, Seeding, RemoveOldImage, At
  <1>3. GoroutineAgreesWithRow'
    BY DEF IInv, GoroutineAgreesWithRow, Seeding, RemoveOldImage
  <1>4. StatusTellsOfSeats'
    BY DEF IInv, StatusTellsOfSeats, RemoveOldImage
  <1>5. RememberedStatus'
    BY DEF IInv, RememberedStatus, Seeding, NoRequest, RemoveOldImage, At
  <1>6. ImagesHaveOneEvent'
    BY DEF IInv, ImagesHaveOneEvent, ImageOf, NoRequest, RemoveOldImage, At
  <1>7. SavedIsOnDisk'
    BY ConstantsAssumption, RequestTyped
    DEF IInv, SavedIsOnDisk, GoroutineAgreesWithRow, RememberedStatus, ImagesHaveOneEvent,
        ImageOf, NoRequest, RemoveOldImage, At
  <1>8. LiveEventHasItsImage'
    BY ConstantsAssumption, RequestTyped
    DEF IInv, TypeOK, LiveEventHasItsImage, ImagesHaveOneEvent, ImageOf, Live, NoRequest,
        RemoveOldImage, At
  <1> QED BY <1>1, <1>2, <1>3, <1>4, <1>5, <1>6, <1>7, <1>8 DEF IInv

LEMMA SaveNewImageIInv ==
  ASSUME IInv, NEW q \in Requests, SaveNewImage(q)
  PROVE  IInv'
  <1>1. TypeOK'
    BY DEF IInv, TypeOK, Request, Files, NoRequest, SaveNewImage, At
  <1>2. TasksAreCounted'
    BY DEF IInv, TasksAreCounted, Seeding, SaveNewImage, At
  <1>3. GoroutineAgreesWithRow'
    BY DEF IInv, GoroutineAgreesWithRow, Seeding, SaveNewImage
  <1>4. StatusTellsOfSeats'
    BY DEF IInv, StatusTellsOfSeats, SaveNewImage
  <1>5. RememberedStatus'
    BY DEF IInv, RememberedStatus, Seeding, NoRequest, SaveNewImage, At
  <1>6. ImagesHaveOneEvent'
    BY DEF IInv, ImagesHaveOneEvent, ImageOf, NoRequest, SaveNewImage, At
  <1>7. SavedIsOnDisk'
    BY DEF IInv, SavedIsOnDisk, SaveNewImage
  <1>8. LiveEventHasItsImage'
    BY DEF IInv, LiveEventHasItsImage, SaveNewImage
  <1> QED BY <1>1, <1>2, <1>3, <1>4, <1>5, <1>6, <1>7, <1>8 DEF IInv

LEMMA WriteEventIInv ==
  ASSUME IInv, NEW q \in Requests, WriteEvent(q)
  PROVE  IInv'
  <1> DEFINE e == req[q].event
  <1>a. /\ e \in Events /\ rows[e] \in Row /\ rows'[e] \in Row
        /\ rows[e] # NoRow /\ rows'[e] # NoRow
        /\ \A f \in Events \ {e} : rows'[f] = rows[f]
        /\ rows' \in [Events -> Row \cup {NoRow}]
        /\ rows'[e].deleted = rows[e].deleted
        /\ IF rows[e].deleted THEN rows'[e] = rows[e]
           ELSE rows'[e].st = req[q].old.st /\ rows'[e].image = q
    BY WriteEventWrites
  <1>b. /\ Alive /\ req[q].pc = "saved" /\ req[q].kind = "update" /\ req[q] # NoRequest
        /\ req' = [req EXCEPT ![q].pc = "done"]
        /\ UNCHANGED <<seats, begun, files, create, seeder, wg, process, stops>>
    BY DEF WriteEvent, At, NoRequest
  <1>1. TypeOK'
    BY <1>a, <1>b DEF IInv, TypeOK, Request, Outcomes
  <1>2. TasksAreCounted'
    BY <1>b DEF IInv, TasksAreCounted, Seeding, Alive, Alive
  <1>3. GoroutineAgreesWithRow'
    BY <1>a, <1>b DEF IInv, GoroutineAgreesWithRow, RememberedStatus, Seeding
  <1>4. StatusTellsOfSeats'
    BY <1>a, <1>b DEF IInv, StatusTellsOfSeats, RememberedStatus
  <1>5. RememberedStatus'
    BY RequestTyped, <1>a, <1>b DEF IInv, RememberedStatus, Seeding, Live
  <1>6. ImagesHaveOneEvent'
    BY <1>a, <1>b DEF IInv, TypeOK, ImagesHaveOneEvent, ImageOf
  <1>7. SavedIsOnDisk'
    BY <1>b DEF IInv, SavedIsOnDisk
  <1>8. LiveEventHasItsImage'
    BY RowTyped, <1>a, <1>b DEF IInv, LiveEventHasItsImage, SavedIsOnDisk, Live
  <1> QED BY <1>1, <1>2, <1>3, <1>4, <1>5, <1>6, <1>7, <1>8 DEF IInv

LEMMA DeleteRowIInv ==
  ASSUME IInv, NEW q \in Requests, DeleteRow(q)
  PROVE  IInv'
  <1> DEFINE e == req[q].event
  <1>a. /\ e \in Events /\ rows[e] \in Row /\ rows'[e] \in Row
        /\ rows[e] # NoRow /\ rows'[e] # NoRow
        /\ \A f \in Events \ {e} : rows'[f] = rows[f]
        /\ rows' \in [Events -> Row \cup {NoRow}]
        /\ rows'[e].st = rows[e].st /\ rows'[e].image = rows[e].image /\ rows'[e].deleted
    BY DeleteRowWrites
  <1>b. /\ Alive /\ req[q].pc = "found" /\ req[q].kind = "delete" /\ req[q] # NoRequest
        /\ req' = [req EXCEPT ![q].pc = "deleted"]
        /\ UNCHANGED <<seats, begun, files, create, seeder, wg, process, stops>>
    BY DEF DeleteRow, At, NoRequest
  <1>1. TypeOK'
    BY <1>a, <1>b DEF IInv, TypeOK, Request
  <1>2. TasksAreCounted'
    BY <1>b DEF IInv, TasksAreCounted, Seeding, Alive, Alive
  <1>3. GoroutineAgreesWithRow'
    BY <1>a, <1>b DEF IInv, GoroutineAgreesWithRow, Seeding
  <1>4. StatusTellsOfSeats'
    BY <1>a, <1>b DEF IInv, StatusTellsOfSeats
  <1>5. RememberedStatus'
    BY RequestTyped, <1>a, <1>b DEF IInv, RememberedStatus, Seeding, Live
  <1>6. ImagesHaveOneEvent'
    BY <1>a, <1>b DEF IInv, ImagesHaveOneEvent, ImageOf
  <1>7. SavedIsOnDisk'
    BY <1>b DEF IInv, SavedIsOnDisk
  <1>8. LiveEventHasItsImage'
    BY <1>a, <1>b DEF IInv, LiveEventHasItsImage, Live
  <1> QED BY <1>1, <1>2, <1>3, <1>4, <1>5, <1>6, <1>7, <1>8 DEF IInv

LEMMA RemoveImageIInv ==
  ASSUME IInv, NEW q \in Requests, RemoveImage(q)
  PROVE  IInv'
  <1>1. TypeOK'
    BY DEF IInv, TypeOK, Request, Outcomes, NoRequest, RemoveImage, At
  <1>2. TasksAreCounted'
    BY DEF IInv, TasksAreCounted, Seeding, RemoveImage, At
  <1>3. GoroutineAgreesWithRow'
    BY DEF IInv, GoroutineAgreesWithRow, Seeding, RemoveImage
  <1>4. StatusTellsOfSeats'
    BY DEF IInv, StatusTellsOfSeats, RemoveImage
  <1>5. RememberedStatus'
    BY DEF IInv, RememberedStatus, Seeding, NoRequest, RemoveImage, At
  <1>6. ImagesHaveOneEvent'
    BY DEF IInv, ImagesHaveOneEvent, ImageOf, NoRequest, RemoveImage, At
  <1>7. SavedIsOnDisk'
    BY ConstantsAssumption, RequestTyped
    DEF IInv, SavedIsOnDisk, GoroutineAgreesWithRow, RememberedStatus, ImagesHaveOneEvent,
        ImageOf, NoRequest, RemoveImage, At
  <1>8. LiveEventHasItsImage'
    BY ConstantsAssumption, RequestTyped
    DEF IInv, LiveEventHasItsImage, ImagesHaveOneEvent, RememberedStatus, ImageOf, Live,
        NoRequest, RemoveImage, At
  <1> QED BY <1>1, <1>2, <1>3, <1>4, <1>5, <1>6, <1>7, <1>8 DEF IInv

LEMMA RequestFailsIInv ==
  ASSUME IInv, NEW q \in Requests, RequestFails(q)
  PROVE  IInv'
  <1>1. TypeOK'
    BY DEF IInv, TypeOK, Request, Outcomes, NoRequest, RequestFails, At
  <1>2. TasksAreCounted'
    BY DEF IInv, TasksAreCounted, Seeding, RequestFails, At
  <1>3. GoroutineAgreesWithRow'
    BY DEF IInv, GoroutineAgreesWithRow, Seeding, RequestFails
  <1>4. StatusTellsOfSeats'
    BY DEF IInv, StatusTellsOfSeats, RequestFails
  <1>5. RememberedStatus'
    BY DEF IInv, RememberedStatus, Seeding, NoRequest, RequestFails, At
  <1>6. ImagesHaveOneEvent'
    BY DEF IInv, ImagesHaveOneEvent, ImageOf, NoRequest, RequestFails, At
  <1>7. SavedIsOnDisk'
    BY DEF IInv, SavedIsOnDisk, RequestFails
  <1>8. LiveEventHasItsImage'
    BY DEF IInv, LiveEventHasItsImage, RequestFails
  <1> QED BY <1>1, <1>2, <1>3, <1>4, <1>5, <1>6, <1>7, <1>8 DEF IInv

LEMMA StartTimePassesIInv ==
  ASSUME IInv, NEW e \in Events, StartTimePasses(e)
  PROVE  IInv'
  <1>1. TypeOK'
    BY DEF IInv, TypeOK, StartTimePasses
  <1>2. TasksAreCounted'
    BY DEF IInv, TasksAreCounted, Seeding, Busy, StartTimePasses
  <1>3. GoroutineAgreesWithRow'
    BY DEF IInv, GoroutineAgreesWithRow, Seeding, StartTimePasses
  <1>4. StatusTellsOfSeats'
    BY DEF IInv, StatusTellsOfSeats, StartTimePasses
  <1>5. RememberedStatus'
    BY DEF IInv, RememberedStatus, Seeding, StartTimePasses
  <1>6. ImagesHaveOneEvent'
    BY DEF IInv, ImagesHaveOneEvent, ImageOf, StartTimePasses
  <1>7. SavedIsOnDisk'
    BY DEF IInv, SavedIsOnDisk, StartTimePasses
  <1>8. LiveEventHasItsImage'
    BY DEF IInv, LiveEventHasItsImage, StartTimePasses
  <1> QED BY <1>1, <1>2, <1>3, <1>4, <1>5, <1>6, <1>7, <1>8 DEF IInv

LEMMA CloseEventsIInv ==
  ASSUME IInv, CloseEvents
  PROVE  IInv'
  <1>1. TypeOK'
    BY DEF IInv, TypeOK, Row, Statuses, Live, CloseEvents, Over
  <1>2. TasksAreCounted'
    BY DEF IInv, TasksAreCounted, Seeding, Alive, CloseEvents
  <1>3. GoroutineAgreesWithRow'
    BY DEF IInv, GoroutineAgreesWithRow, Seeding, NoRow, CloseEvents, Over
  <1>4. StatusTellsOfSeats'
    BY DEF IInv, StatusTellsOfSeats, CloseEvents, Over
  <1>5. RememberedStatus'
    BY RequestTyped DEF IInv, RememberedStatus, Seeding, NoRow, CloseEvents, Over
  <1>6. ImagesHaveOneEvent'
    BY DEF IInv, ImagesHaveOneEvent, ImageOf, NoRow, CloseEvents, Over
  <1>7. SavedIsOnDisk'
    BY DEF IInv, SavedIsOnDisk, CloseEvents
  <1>8. LiveEventHasItsImage'
    BY DEF IInv, LiveEventHasItsImage, CloseEvents, Over
  <1> QED BY <1>1, <1>2, <1>3, <1>4, <1>5, <1>6, <1>7, <1>8 DEF IInv

LEMMA GoDownIInv ==
  ASSUME IInv, GoDown
  PROVE  IInv'
  <1>1. TypeOK'
    BY ConstantsAssumption DEF IInv, TypeOK, Request, Outcomes, NoRequest, Busy, GoDown
  <1>2. TasksAreCounted'
    <2>1. Seeding' = {}
      BY DEF Seeding, GoDown
    <2>2. \A q \in Requests : ~Busy(q)'
      BY DEF Busy, GoDown
    <2> QED BY <2>1, <2>2, FS_EmptySet DEF TasksAreCounted, GoDown
  <1>3. GoroutineAgreesWithRow'
    BY DEF IInv, GoroutineAgreesWithRow, Seeding, GoDown
  <1>4. StatusTellsOfSeats'
    BY DEF IInv, StatusTellsOfSeats, GoDown
  <1>5. RememberedStatus'
    BY DEF IInv, RememberedStatus, Seeding, NoRequest, Busy, GoDown
  <1>6. ImagesHaveOneEvent'
    BY DEF IInv, ImagesHaveOneEvent, ImageOf, Busy, NoRequest, GoDown
  <1>7. SavedIsOnDisk'
    BY DEF SavedIsOnDisk, Busy, GoDown
  <1>8. LiveEventHasItsImage'
    BY DEF IInv, LiveEventHasItsImage, GoDown
  <1> QED BY <1>1, <1>2, <1>3, <1>4, <1>5, <1>6, <1>7, <1>8 DEF IInv

LEMMA SignalIInv ==
  ASSUME IInv, Signal
  PROVE  IInv'
  <1>1. TypeOK'
    BY ConstantsAssumption DEF IInv, TypeOK, Signal
  <1>2. TasksAreCounted'
    BY DEF IInv, TasksAreCounted, Seeding, Signal
  <1>3. GoroutineAgreesWithRow'
    BY DEF IInv, GoroutineAgreesWithRow, Seeding, Signal
  <1>4. StatusTellsOfSeats'
    BY DEF IInv, StatusTellsOfSeats, Signal
  <1>5. RememberedStatus'
    BY DEF IInv, RememberedStatus, Seeding, Signal
  <1>6. ImagesHaveOneEvent'
    BY DEF IInv, ImagesHaveOneEvent, ImageOf, Signal
  <1>7. SavedIsOnDisk'
    BY DEF IInv, SavedIsOnDisk, Signal
  <1>8. LiveEventHasItsImage'
    BY DEF IInv, LiveEventHasItsImage, Signal
  <1> QED BY <1>1, <1>2, <1>3, <1>4, <1>5, <1>6, <1>7, <1>8 DEF IInv

LEMMA StopIInv ==
  ASSUME IInv, Stop
  PROVE  IInv'
  <1>1. TypeOK'
    BY DEF IInv, TypeOK, Stop
  <1>2. TasksAreCounted'
    <2>1. Seeding = {}
      BY SeedingIsFinite, FS_EmptySet DEF IInv, TasksAreCounted, Stop
    <2>2. UNCHANGED <<Seeding, wg, req>>
      BY DEF Seeding, Stop
    <2> QED BY <2>1, <2>2 DEF IInv, TasksAreCounted, Busy, Stop
  <1>3. GoroutineAgreesWithRow'
    BY DEF IInv, GoroutineAgreesWithRow, Seeding, Stop
  <1>4. StatusTellsOfSeats'
    BY DEF IInv, StatusTellsOfSeats, Stop
  <1>5. RememberedStatus'
    BY DEF IInv, RememberedStatus, Seeding, Stop
  <1>6. ImagesHaveOneEvent'
    BY DEF IInv, ImagesHaveOneEvent, ImageOf, Stop
  <1>7. SavedIsOnDisk'
    BY DEF SavedIsOnDisk, Busy, Stop
  <1>8. LiveEventHasItsImage'
    BY DEF IInv, LiveEventHasItsImage, Stop
  <1> QED BY <1>1, <1>2, <1>3, <1>4, <1>5, <1>6, <1>7, <1>8 DEF IInv

LEMMA StartIInv ==
  ASSUME IInv, Start
  PROVE  IInv'
  <1>1. TypeOK'
    BY DEF IInv, TypeOK, Start
  <1>2. TasksAreCounted'
    BY DEF IInv, TasksAreCounted, Seeding, Start
  <1>3. GoroutineAgreesWithRow'
    BY DEF IInv, GoroutineAgreesWithRow, Seeding, Start
  <1>4. StatusTellsOfSeats'
    BY DEF IInv, StatusTellsOfSeats, Start
  <1>5. RememberedStatus'
    BY DEF IInv, RememberedStatus, Seeding, Start
  <1>6. ImagesHaveOneEvent'
    BY DEF IInv, ImagesHaveOneEvent, ImageOf, Start
  <1>7. SavedIsOnDisk'
    BY DEF IInv, SavedIsOnDisk, Start
  <1>8. LiveEventHasItsImage'
    BY DEF IInv, LiveEventHasItsImage, Start
  <1> QED BY <1>1, <1>2, <1>3, <1>4, <1>5, <1>6, <1>7, <1>8 DEF IInv

-----------------------------------------------------------------------------
LEMMA StepIInv == IInv /\ [Next]_vars => IInv'
  <1> SUFFICES ASSUME IInv, [Next]_vars
               PROVE  IInv'
    OBVIOUS
  <1>1. CASE UNCHANGED vars
    BY <1>1
    DEF vars, IInv, TypeOK, GoroutineAgreesWithRow, StatusTellsOfSeats, RememberedStatus,
        ImagesHaveOneEvent, ImageOf, SavedIsOnDisk, LiveEventHasItsImage, TasksAreCounted,
        Seeding, Busy
  <1>2. ASSUME NEW e \in Events, SaveImage(e) \/ CreateStep(e) \/ StartTimePasses(e)
        PROVE  IInv'
    BY <1>2, SaveImageIInv, InsertEventIInv, InsertFailsIInv, SeedSeatsIInv, SettleIInv,
       StartTimePassesIInv
    DEF CreateStep
  <1>3. ASSUME NEW q \in Requests, FindEvent(q) \/ RequestStep(q)
        PROVE  IInv'
    BY <1>3, FindEventIInv, RemoveOldImageIInv, SaveNewImageIInv, WriteEventIInv,
       DeleteRowIInv, RemoveImageIInv, RequestFailsIInv
    DEF RequestStep
  <1>4. CASE CloseEvents
    BY <1>4, CloseEventsIInv
  <1>5. CASE Crash \/ MissingImage
    BY <1>5, GoDownIInv DEF Crash, MissingImage
  <1>6. CASE Signal \/ Stop \/ Start
    BY <1>6, SignalIInv, StopIInv, StartIInv
  <1> QED BY <1>1, <1>2, <1>3, <1>4, <1>5, <1>6 DEF Next

LEMMA Invariance == Spec => []IInv
  BY InitIInv, StepIInv, PTL DEF Spec

(* Rows, files and requests stay within their types, and the counter of the
   WaitGroup is never taken below zero (Go would panic). *)
THEOREM TypeCorrect == Spec => []TypeOK
  <1>1. IInv => TypeOK
    BY DEF IInv
  <1> QED BY Invariance, <1>1, PTL

(* What the status of an event says about its seats is true, whoever wrote it. *)
THEOREM StatusIsTrue == Spec => []StatusTellsOfSeats
  <1>1. IInv => StatusTellsOfSeats
    BY DEF IInv
  <1> QED BY Invariance, <1>1, PTL

(* A live event has its image, unless an update has removed it and is not
   done, or failed. *)
THEOREM ImagesKept == Spec => []LiveEventHasItsImage
  <1>1. IInv => LiveEventHasItsImage
    BY DEF IInv
  <1> QED BY Invariance, <1>1, PTL

(* A process that stopped when asked to left neither goroutine nor request
   behind. *)
THEOREM StopWaits == Spec => []StopWaitsForTasks
  <1>1. IInv => StopWaitsForTasks
    BY DEF IInv, TasksAreCounted, StopWaitsForTasks
  <1> QED BY Invariance, <1>1, PTL

-----------------------------------------------------------------------------
(* The steps that write rows, as the two theorems below need them. *)
LEMMA WhoWrites ==
  ASSUME IInv, [Next]_vars, NEW e \in Events, rows[e] # NoRow
  PROVE  \/ rows'[e] = rows[e]
         \/ Settle(e)
         \/ \E q \in Requests : (WriteEvent(q) \/ DeleteRow(q)) /\ req[q].event = e
         \/ CloseEvents
  <1>1. ASSUME NEW f \in Events, InsertEvent(f)
        PROVE  rows'[e] = rows[e]
    BY <1>1 DEF IInv, TypeOK, GoroutineAgreesWithRow, InsertEvent
  <1>2. ASSUME NEW f \in Events, Settle(f)
        PROVE  rows'[e] = rows[e] \/ Settle(e)
    BY <1>2, SettleWrites
  <1>3. ASSUME NEW q \in Requests, WriteEvent(q)
        PROVE  rows'[e] = rows[e] \/ req[q].event = e
    BY <1>3, WriteEventWrites
  <1>4. ASSUME NEW q \in Requests, DeleteRow(q)
        PROVE  rows'[e] = rows[e] \/ req[q].event = e
    BY <1>4, DeleteRowWrites
  <1>5. ASSUME NEW f \in Events, SaveImage(f) \/ CreateStep(f) \/ StartTimePasses(f)
        PROVE  rows'[e] = rows[e] \/ Settle(e)
    BY <1>5, <1>1, <1>2 DEF CreateStep, SaveImage, InsertFails, SeedSeats, StartTimePasses
  <1>6. ASSUME NEW q \in Requests, FindEvent(q) \/ RequestStep(q)
        PROVE  \/ rows'[e] = rows[e]
               \/ (WriteEvent(q) \/ DeleteRow(q)) /\ req[q].event = e
    BY <1>6, <1>3, <1>4
    DEF RequestStep, FindEvent, RemoveOldImage, SaveNewImage, RemoveImage, RequestFails
  <1>7. Crash \/ MissingImage \/ Signal \/ Stop \/ Start \/ UNCHANGED vars => rows' = rows
    BY DEF Crash, MissingImage, GoDown, Signal, Stop, Start, vars
  <1> QED BY <1>5, <1>6, <1>7 DEF Next

LEMMA CloseEventsWrites ==
  ASSUME IInv, CloseEvents, NEW e \in Events
  PROVE  \/ rows'[e] = rows[e]
         \/ rows[e].st = "active" /\ rows'[e].st = "finished" /\ Live(rows[e])
  <1>1. CASE e \in Over
    <2>1. rows[e] # NoRow /\ rows[e].st = "active" /\ Live(rows[e])
      BY <1>1 DEF Over, Live
    <2>2. rows'[e] = [rows[e] EXCEPT !.st = "finished"]
      BY <1>1 DEF CloseEvents
    <2>3. rows[e] \in Row
      BY <2>1, RowTyped DEF IInv
    <2> QED BY <2>1, <2>2, <2>3 DEF Row
  <1>2. CASE e \notin Over
    BY <1>2 DEF CloseEvents
  <1> QED BY <1>1, <1>2

(* No step brings a deleted event back or writes to it, also not a step of
   what began before the deletion. *)
THEOREM DeletionIsFinal == Spec => DeletedIsFinal
  <1>1. ASSUME IInv, [Next]_vars, NEW e \in Events, rows[e] # NoRow, ~Live(rows[e])
        PROVE  rows'[e] = rows[e]
    <2>0. rows[e].deleted /\ rows[e] \in Row
      BY <1>1, RowTyped DEF IInv, Live
    <2>1. ASSUME Settle(e)
          PROVE  rows'[e] = rows[e]
      BY <1>1, <2>0, <2>1 DEF IInv, TypeOK, Settle, Written
    <2>2. ASSUME NEW q \in Requests, WriteEvent(q), req[q].event = e
          PROVE  rows'[e] = rows[e]
      BY <1>1, <2>0, <2>2, WriteEventWrites
    <2>3. ASSUME NEW q \in Requests, DeleteRow(q), req[q].event = e
          PROVE  rows'[e] = rows[e]
      BY <1>1, <2>0, <2>3, DeleteRowWrites
    <2>4. CloseEvents => rows'[e] = rows[e]
      BY <1>1, CloseEventsWrites
    <2> QED BY <1>1, <2>1, <2>2, <2>3, <2>4, WhoWrites
  <1>2. IInv /\ [Next]_vars =>
          [\A e \in Events : rows[e] # NoRow /\ ~Live(rows[e]) => rows'[e] = rows[e]]_vars
    BY <1>1
  <1> QED BY Invariance, <1>2, PTL DEF Spec, DeletedIsFinal

(* Only an update that writes back the status it has found moves an event back. *)
THEOREM StatusForward == Spec => StatusMovesForward
  <1> DEFINE Moves(e) ==
        \/ <<rows[e].st, rows'[e].st>> \in Forward
        \/ \E q \in Requests :
             /\ req[q].pc = "saved" /\ req'[q].pc = "done"
             /\ req[q].event = e /\ req[q].old.st = rows'[e].st
  <1>1. ASSUME IInv, [Next]_vars, NEW e \in Events, rows[e] # NoRow, rows'[e].st # rows[e].st
        PROVE  Moves(e)
    <2>1. ASSUME Settle(e)
          PROVE  Moves(e)
      <3>1. rows[e].st = "creating_seats"
        BY <1>1, <2>1, SettleWrites DEF IInv, GoroutineAgreesWithRow
      <3>2. rows'[e].st \in {"active", "failed"}
        BY <1>1, <2>1, SettleWrites
      <3> QED BY <3>1, <3>2 DEF Forward
    <2>2. ASSUME NEW q \in Requests, WriteEvent(q), req[q].event = e
          PROVE  Moves(e)
      <3>1. rows'[e].st = req[q].old.st
        BY <1>1, <2>2, WriteEventWrites
      <3>2. req[q].pc = "saved" /\ req[q] \in Request
        BY <1>1, <2>2, RequestTyped DEF IInv, WriteEvent, At, Busy, NoRequest
      <3>3. req'[q].pc = "done"
        BY <1>1, <2>2, <3>2 DEF IInv, TypeOK, WriteEvent, Request
      <3> QED BY <2>2, <3>1, <3>2, <3>3
    <2>3. ASSUME NEW q \in Requests, DeleteRow(q), req[q].event = e
          PROVE  FALSE
      BY <1>1, <2>3, DeleteRowWrites
    <2>4. CloseEvents => Moves(e)
      BY <1>1, CloseEventsWrites DEF Forward
    <2> QED BY <1>1, <2>1, <2>2, <2>3, <2>4, WhoWrites
  <1>2. IInv /\ [Next]_vars =>
          [\A e \in Events : rows[e] # NoRow /\ rows'[e].st # rows[e].st => Moves(e)]_vars
    BY <1>1
  <1> QED BY Invariance, <1>2, PTL DEF Spec, StatusMovesForward
=============================================================================
