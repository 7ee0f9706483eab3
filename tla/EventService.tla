---------------------------- MODULE EventService ----------------------------
(***************************************************************************)
(* Events and their images: CreateNewEvent with the goroutine that makes   *)
(* the seats, UpdateEvent, DeleteEvent (internal/service/event_service.go),*)
(* the nightly DeactivateExpiredEvents, and the process around them: it    *)
(* crashes, or is stopped and waits for what it has begun, and is started  *)
(* again.  Each statement and each file operation is a step.  What the     *)
(* three do to the cache is in EventListings.                              *)
(***************************************************************************)
EXTENDS Naturals, FiniteSets

CONSTANTS
  Events,      \* ids of events; e also names the request that creates e
  Requests,    \* update and delete requests
  MaxStops     \* bound: how often the process goes down

ASSUME ConstantsAssumption ==
  IsFiniteSet(Events) /\ Events \cap Requests = {} /\ MaxStops \in Nat

VARIABLES
  rows,        \* committed rows of events, soft-deleted ones included
  seats,       \* the events whose seats and seat_statuses are committed
  begun,       \* the events whose start_time is past
  files,       \* ./uploads; a file is called after the request that saved it
  create,      \* progress of CreateNewEvent
  seeder,      \* progress of its goroutine
  req,         \* progress and local variables of updates and deletions
  wg,          \* the counter of the WaitGroup
  process,     \* of the operating system
  stops        \* how often it went down

vars == <<rows, seats, begun, files, create, seeder, req, wg, process, stops>>

Statuses == {"creating_seats", "active", "failed", "finished"}
Files == Events \cup Requests
NoRow == [st |-> "none"]
Row == [st : Statuses, image : Files, deleted : BOOLEAN]
Live(row) == row # NoRow /\ ~row.deleted

NoRequest == [pc |-> "idle"]
Outcomes == {"done", "failed", "lost"}
Request == [pc : {"found", "removed", "saved", "deleted"} \cup Outcomes,
            kind : {"update", "delete"}, event : Events, old : Row]
Busy(q) == req[q].pc \in {"found", "removed", "saved", "deleted"}
Seeding == {e \in Events : seeder[e] \in {"seeding", "activating", "failing"}}

TypeOK ==
  /\ rows \in [Events -> Row \cup {NoRow}]
  /\ seats \subseteq Events /\ begun \subseteq Events /\ files \subseteq Files
  /\ create \in [Events -> {"idle", "saved"} \cup Outcomes]
  /\ seeder \in [Events -> {"idle", "seeding", "activating", "failing", "done", "gaveup", "lost"}]
  /\ req \in [Requests -> Request \cup {NoRequest}]
  /\ wg \in Nat
  /\ process \in {"up", "stopping", "stopped", "down"}
  /\ stops \in 0 .. MaxStops

Init ==
  /\ rows = [e \in Events |-> NoRow]
  /\ seats = {} /\ begun = {} /\ files = {} /\ wg = 0 /\ stops = 0
  /\ create = [e \in Events |-> "idle"] /\ seeder = [e \in Events |-> "idle"]
  /\ req = [q \in Requests |-> NoRequest]
  /\ process = "up"

Alive == process \in {"up", "stopping"}

(* Every UPDATE of events has deleted_at IS NULL, which gorm adds. *)
Written(old, new) == IF old.deleted THEN old ELSE new

-----------------------------------------------------------------------------
(* CreateNewEvent                                                          *)

SaveImage(e) ==
  /\ process = "up" /\ create[e] = "idle"
  /\ files' = files \cup {e}
  /\ create' = [create EXCEPT ![e] = "saved"]
  /\ UNCHANGED <<rows, seats, begun, seeder, req, wg, process, stops>>

(* Mutant: the goroutine itself calls wg.Add, when it gets to run. *)
InsertEventUncounted(e) ==
  /\ Alive /\ create[e] = "saved"
  /\ rows' = [rows EXCEPT ![e] = [st |-> "creating_seats", image |-> e, deleted |-> FALSE]]
  /\ create' = [create EXCEPT ![e] = "done"]
  /\ seeder' = [seeder EXCEPT ![e] = "seeding"]
  /\ UNCHANGED <<seats, begun, files, req, wg, process, stops>>

(* The row is inserted, wg.Add(1), and the goroutine is started. *)
InsertEvent(e) ==
  /\ Alive /\ create[e] = "saved"
  /\ rows' = [rows EXCEPT ![e] = [st |-> "creating_seats", image |-> e, deleted |-> FALSE]]
  /\ create' = [create EXCEPT ![e] = "done"]
  /\ seeder' = [seeder EXCEPT ![e] = "seeding"]
  /\ wg' = wg + 1
  /\ UNCHANGED <<seats, begun, files, req, process, stops>>

InsertFails(e) ==
  /\ Alive /\ create[e] = "saved"
  /\ create' = [create EXCEPT ![e] = "failed"]
  /\ UNCHANGED <<rows, seats, begun, files, seeder, req, wg, process, stops>>

(* CreateSeatsForEvent: all the seats of the event, or none.  Nothing has
   looked at the numbers of rows and of seats per row: all may be none. *)
SeedSeats(e) ==
  /\ Alive /\ seeder[e] = "seeding"
  /\ \/ /\ seats' = seats \cup {e}
        /\ seeder' = [seeder EXCEPT ![e] = "activating"]
     \/ /\ UNCHANGED seats
        /\ seeder' = [seeder EXCEPT ![e] = "failing"]
  /\ UNCHANGED <<rows, begun, files, create, req, wg, process, stops>>

(* Mutants: a failure is not told from a success; the status is not written. *)
SettleAlwaysActive(e) ==
  /\ Alive /\ seeder[e] \in {"activating", "failing"}
  /\ \/ /\ rows' = [rows EXCEPT ![e] = Written(@, [@ EXCEPT !.st = "active"])]
        /\ seeder' = [seeder EXCEPT ![e] = "done"]
     \/ /\ UNCHANGED rows
        /\ seeder' = [seeder EXCEPT ![e] = "gaveup"]
  /\ wg' = wg - 1
  /\ UNCHANGED <<seats, begun, files, create, req, process, stops>>

SettleForgotten(e) ==
  /\ Alive /\ seeder[e] \in {"activating", "failing"}
  /\ seeder' = [seeder EXCEPT ![e] = "done"]
  /\ wg' = wg - 1
  /\ UNCHANGED <<rows, seats, begun, files, create, req, process, stops>>

(* UpdateEventStatus, whose error is ignored, and wg.Done. *)
Settle(e) ==
  /\ Alive /\ seeder[e] \in {"activating", "failing"}
  /\ \/ /\ rows' = [rows EXCEPT ![e] =
                Written(@, [@ EXCEPT !.st =
                              IF seeder[e] = "activating" THEN "active" ELSE "failed"])]
        /\ seeder' = [seeder EXCEPT ![e] = "done"]
     \/ /\ UNCHANGED rows
        /\ seeder' = [seeder EXCEPT ![e] = "gaveup"]
  /\ wg' = wg - 1
  /\ UNCHANGED <<seats, begun, files, create, req, process, stops>>

-----------------------------------------------------------------------------
(* UpdateEvent and DeleteEvent                                             *)

(* FindByID; a request for no live row is a 404 and changes nothing. *)
FindEvent(q) ==
  /\ process = "up" /\ req[q] = NoRequest
  /\ \E e \in Events, kind \in {"update", "delete"} :
       /\ Live(rows[e])
       /\ req' = [req EXCEPT ![q] = [pc |-> "found", kind |-> kind, event |-> e,
                                     old |-> rows[e]]]
  /\ UNCHANGED <<rows, seats, begun, files, create, seeder, wg, process, stops>>

At(q, kind, pc) == Alive /\ Busy(q) /\ req[q].kind = kind /\ req[q].pc = pc

(* os.Remove of the old image; when it fails that is only logged. *)
RemoveOldImage(q) ==
  /\ At(q, "update", "found")
  /\ files' \in {files \ {req[q].old.image}, files}
  /\ req' = [req EXCEPT ![q].pc = "removed"]
  /\ UNCHANGED <<rows, seats, begun, create, seeder, wg, process, stops>>

SaveNewImage(q) ==
  /\ At(q, "update", "removed")
  /\ files' = files \cup {q}
  /\ req' = [req EXCEPT ![q].pc = "saved"]
  /\ UNCHANGED <<rows, seats, begun, create, seeder, wg, process, stops>>

(* Mutants: the row is saved whole, deleted_at included; the image is not. *)
WriteEventWhole(q) ==
  /\ At(q, "update", "saved")
  /\ rows' = [rows EXCEPT ![req[q].event] = [req[q].old EXCEPT !.image = q]]
  /\ req' = [req EXCEPT ![q].pc = "done"]
  /\ UNCHANGED <<seats, begun, files, create, seeder, wg, process, stops>>

WriteEventKeepsImage(q) ==
  /\ At(q, "update", "saved")
  /\ rows' = [rows EXCEPT ![req[q].event] =
                Written(@, [@ EXCEPT !.st = req[q].old.st])]
  /\ req' = [req EXCEPT ![q].pc = "done"]
  /\ UNCHANGED <<seats, begun, files, create, seeder, wg, process, stops>>

(* Updates with a struct writes its non-zero columns: the new image, and the
   status as it was found. *)
WriteEvent(q) ==
  /\ At(q, "update", "saved")
  /\ rows' = [rows EXCEPT ![req[q].event] =
                Written(@, [@ EXCEPT !.st = req[q].old.st, !.image = q])]
  /\ req' = [req EXCEPT ![q].pc = "done"]
  /\ UNCHANGED <<seats, begun, files, create, seeder, wg, process, stops>>

DeleteRow(q) ==
  /\ At(q, "delete", "found")
  /\ rows' = [rows EXCEPT ![req[q].event].deleted = TRUE]
  /\ req' = [req EXCEPT ![q].pc = "deleted"]
  /\ UNCHANGED <<seats, begun, files, create, seeder, wg, process, stops>>

(* os.Remove of the image; a file that is not there is a 500. *)
RemoveImage(q) ==
  /\ At(q, "delete", "deleted")
  /\ files' = files \ {req[q].old.image}
  /\ req' = [req EXCEPT ![q].pc = IF req[q].old.image \in files THEN "done" ELSE "failed"]
  /\ UNCHANGED <<rows, seats, begun, create, seeder, wg, process, stops>>

(* An error of the database or of the file system: a 500. *)
RequestFails(q) ==
  /\ At(q, "update", "removed") \/ At(q, "update", "saved")
       \/ At(q, "delete", "found") \/ At(q, "delete", "deleted")
  /\ req' = [req EXCEPT ![q].pc = "failed"]
  /\ UNCHANGED <<rows, seats, begun, files, create, seeder, wg, process, stops>>

-----------------------------------------------------------------------------
(* DeactivateExpiredEvents, every night                                    *)

StartTimePasses(e) ==
  /\ e \notin begun
  /\ begun' = begun \cup {e}
  /\ UNCHANGED <<rows, seats, files, create, seeder, req, wg, process, stops>>

(* Mutant: every event that has begun is closed. *)
OverInAnyState == {e \in begun : Live(rows[e]) /\ rows[e].st # "finished"}

(* start_time < now AND status = 'active' *)
Over == {e \in begun : Live(rows[e]) /\ rows[e].st = "active"}

CloseEvents ==
  /\ Alive /\ Over # {}
  /\ rows' = [e \in Events |-> IF e \in Over THEN [rows[e] EXCEPT !.st = "finished"] ELSE rows[e]]
  /\ UNCHANGED <<seats, begun, files, create, seeder, req, wg, process, stops>>

-----------------------------------------------------------------------------
(* The process                                                             *)

GoDown ==
  /\ stops < MaxStops /\ stops' = stops + 1
  /\ process' = "down" /\ wg' = 0
  /\ create' = [e \in Events |-> IF create[e] = "saved" THEN "lost" ELSE create[e]]
  /\ seeder' = [e \in Events |-> IF e \in Seeding THEN "lost" ELSE seeder[e]]
  /\ req' = [q \in Requests |-> IF Busy(q) THEN [req[q] EXCEPT !.pc = "lost"] ELSE req[q]]
  /\ UNCHANGED <<rows, seats, begun, files>>

Crash == Alive /\ GoDown

(* A request without an image: FormFile fails, and the handler reads a field
   of the nil it got.  No middleware recovers. *)
MissingImage ==
  /\ process = "up"
  /\ \/ \E e \in Events : create[e] = "idle"
     \/ \E q \in Requests : req[q] = NoRequest
  /\ GoDown

Signal ==
  /\ process = "up" /\ stops < MaxStops
  /\ process' = "stopping" /\ stops' = stops + 1
  /\ UNCHANGED <<rows, seats, begun, files, create, seeder, req, wg>>

(* app.Shutdown has waited for the requests, wg.Wait for the goroutines. *)
Stop ==
  /\ process = "stopping"
  /\ \A e \in Events : create[e] # "saved"
  /\ \A q \in Requests : ~Busy(q)
  /\ wg = 0
  /\ process' = "stopped"
  /\ UNCHANGED <<rows, seats, begun, files, create, seeder, req, wg, stops>>

Start ==
  /\ process \in {"down", "stopped"}
  /\ process' = "up"
  /\ UNCHANGED <<rows, seats, begun, files, create, seeder, req, wg, stops>>

-----------------------------------------------------------------------------
CreateStep(e) == InsertEvent(e) \/ InsertFails(e) \/ SeedSeats(e) \/ Settle(e)
RequestStep(q) ==
  \/ RemoveOldImage(q) \/ SaveNewImage(q) \/ WriteEvent(q)
  \/ DeleteRow(q) \/ RemoveImage(q) \/ RequestFails(q)

Next ==
  \/ \E e \in Events : SaveImage(e) \/ CreateStep(e) \/ StartTimePasses(e)
  \/ \E q \in Requests : FindEvent(q) \/ RequestStep(q)
  \/ CloseEvents \/ Crash \/ MissingImage \/ Signal \/ Stop \/ Start

Spec == Init /\ [][Next]_vars

(* A goroutine and a request that run go on; a process that is asked to stop
   stops once it may; Docker starts one that is down (restart: always). *)
Fairness ==
  /\ \A e \in Events : WF_vars(CreateStep(e))
  /\ \A q \in Requests : WF_vars(RequestStep(q))
  /\ WF_vars(Stop) /\ WF_vars(Start)

FairSpec == Spec /\ Fairness

-----------------------------------------------------------------------------
(* What the status says about the seats is true, though it is written by the
   goroutine, by the nightly job and, from what they read long ago, by
   updates: an active or finished event has had its seats committed, a failed
   one has none. *)
StatusTellsOfSeats ==
  \A e \in Events :
    /\ rows[e].st \in {"active", "finished"} => e \in seats
    /\ rows[e].st = "failed" => e \notin seats

(* A live event's image is on disk, unless an update of that event has taken
   it away and has not finished, or never will. *)
LiveEventHasItsImage ==
  \A e \in Events : Live(rows[e]) /\ rows[e].image \notin files =>
    \E q \in Requests :
      /\ req[q].pc \in {"removed", "saved", "failed", "lost"} /\ req[q].kind = "update"
      /\ req[q].event = e /\ req[q].old.image = rows[e].image

(* A process that was asked to stop has ended its goroutines and requests
   first: the counter of the WaitGroup covers every goroutine. *)
StopWaitsForTasks ==
  process = "stopped" =>
    Seeding = {} /\ \A q \in Requests : ~Busy(q)

(* A deleted event is out of reach for good, also for an update, a goroutine
   or a nightly job that began before the deletion. *)
DeletedIsFinal ==
  [][\A e \in Events : rows[e] # NoRow /\ ~Live(rows[e]) => rows'[e] = rows[e]]_vars

(* The status of an event only moves forward, except that an update writes
   back the one it found: the lost update of UpdateEvent is the only way an
   event goes back to creating_seats or is opened again. *)
Forward == {<<"creating_seats", "active">>, <<"creating_seats", "failed">>,
            <<"active", "finished">>}
StatusMovesForward ==
  [][\A e \in Events : rows[e] # NoRow /\ rows'[e].st # rows[e].st =>
       \/ <<rows[e].st, rows'[e].st>> \in Forward
       \/ \E q \in Requests :
            /\ req[q].pc = "saved" /\ req'[q].pc = "done"
            /\ req[q].event = e /\ req[q].old.st = rows'[e].st]_vars

(* An event does not stay in creating_seats, unless it is deleted, its
   goroutine died with the process or could not write the status, or an update
   wrote creating_seats back. *)
Abandoned(e) ==
  \/ ~Live(rows[e])
  \/ seeder[e] \in {"gaveup", "lost"}
  \/ \E q \in Requests : /\ req[q].pc = "done" /\ req[q].kind = "update"
                         /\ req[q].event = e /\ req[q].old.st = "creating_seats"
CreationSettles ==
  \A e \in Events :
    rows[e].st = "creating_seats" ~> rows[e].st # "creating_seats" \/ Abandoned(e)
=============================================================================
