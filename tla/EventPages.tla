---------------------------- MODULE EventPages ----------------------------
(***************************************************************************)
(* An admin who reads the list of events page by page (GetAdminEvents of   *)
(* internal/service/event_service.go, GetEventsPaginated of internal/      *)
(* repository/event_repo.go) while events come and go.  No cache is asked: *)
(* every page is cut out of the rows of that moment, in two statements.    *)
(* The pages of GetPublicEvents come from a cache and are up to ten        *)
(* minutes old, each of another age: what is said here is not true of      *)
(* them, and EventListings says how old they are.                          *)
(***************************************************************************)
EXTENDS Integers, FiniteSets, Sequences

CONSTANTS
  Events,
  StartTime,   \* start_time of each event
  Limits,      \* what admins ask for as limit
  MaxChanges   \* bound: how often an event comes or goes

ASSUME ConstantsAssumption ==
  /\ IsFiniteSet(Events) /\ Cardinality(Events) > 1
  /\ StartTime \in [Events -> Nat]
  /\ Limits \subseteq Int /\ MaxChanges \in Nat

VARIABLES
  listed,      \* the events that match search and location now
  page, limit, total,   \* of the request
  pc,          \* of the walk, "down" when its request has ended the process
  seen,        \* the events of the pages got so far
  came, went,  \* history: events that did so since the walk began
  changes

vars == <<listed, page, limit, total, pc, seen, came, went, changes>>

TypeOK ==
  /\ listed \subseteq Events /\ came \subseteq Events /\ went \subseteq Events
  /\ page \in 1 .. Cardinality(Events) /\ limit \in Limits
  /\ total \in 0 .. Cardinality(Events)
  /\ pc \in {"idle", "counting", "finding", "done", "down"}
  /\ seen \in Seq(Events)
  /\ changes \in 0 .. MaxChanges

Init ==
  /\ listed \in SUBSET Events
  /\ page = 1 /\ limit \in Limits /\ total = 0
  /\ pc = "idle" /\ seen = <<>> /\ came = {} /\ went = {} /\ changes = 0

-----------------------------------------------------------------------------
(* The order of a result: ORDER BY start_time asc says nothing of ties. *)
Orders(S) ==
  {o \in [1 .. Cardinality(S) -> S] :
     \A i, j \in DOMAIN o : i < j => o[i] # o[j] /\ StartTime[o[i]] <= StartTime[o[j]]}

(* Mutants: the first page is page 0; each page has one row too many. *)
SliceFromZero(o, p, l) ==
  IF l < 0 THEN o
  ELSE SubSeq(o, p * l + 1, IF p * l + l < Len(o) THEN p * l + l ELSE Len(o))

SliceOverlaps(o, p, l) ==
  IF l < 0 THEN o
  ELSE SubSeq(o, (p - 1) * l + 1, IF p * l + 1 < Len(o) THEN p * l + 1 ELSE Len(o))

(* OFFSET (page - 1) * limit LIMIT limit, for a page from 1 on.  gorm leaves
   out a LIMIT below 0 and an OFFSET below 1. *)
Slice(o, p, l) ==
  IF l < 0 THEN o
  ELSE SubSeq(o, (p - 1) * l + 1, IF p * l < Len(o) THEN p * l ELSE Len(o))

(* Mutant: one page too many. *)
OnePageMore(n, l) == IF l > 0 THEN n \div l + 1 ELSE 1

(* int((totalItems + int64(limit) - 1) / int64(limit)): Go rounds towards 0. *)
TotalPages(n, l) ==
  LET a == n + l - 1 IN
  IF l > 0 THEN a \div l
  ELSE IF a >= 0 THEN -(a \div (-l)) ELSE (-a) \div (-l)

(* The admin asks for the first page. *)
Ask ==
  /\ pc = "idle" /\ pc' = "counting"
  /\ UNCHANGED <<listed, page, limit, total, seen, came, went, changes>>

Count ==
  /\ pc = "counting" /\ pc' = "finding"
  /\ total' = Cardinality(listed)
  /\ UNCHANGED <<listed, page, limit, seen, came, went, changes>>

(* The page comes back with TotalPages, and the admin goes on while there is
   a further one.  A limit of 0 divides by zero, and nothing recovers. *)
Find ==
  /\ pc = "finding" /\ limit # 0
  /\ \E o \in Orders(listed) : seen' = seen \o Slice(o, page, limit)
  /\ IF page < TotalPages(total, limit)
     THEN page' = page + 1 /\ pc' = "counting"
     ELSE pc' = "done" /\ UNCHANGED page
  /\ UNCHANGED <<listed, limit, total, came, went, changes>>

DivideByZero ==
  /\ pc = "finding" /\ limit = 0
  /\ pc' = "down"
  /\ UNCHANGED <<listed, page, limit, total, seen, came, went, changes>>

(* An event is created (CreateEvent; whatever its status, the admin's list has
   it), or written so that it now matches what is searched for ... *)
List(e) ==
  /\ e \notin listed /\ changes < MaxChanges /\ changes' = changes + 1
  /\ listed' = listed \cup {e}
  /\ came' = IF pc = "idle" THEN came ELSE came \cup {e}
  /\ UNCHANGED <<page, limit, total, pc, seen, went>>

(* ... or is deleted, or written so that it no longer matches. *)
TakeOff(e) ==
  /\ e \in listed /\ changes < MaxChanges /\ changes' = changes + 1
  /\ listed' = listed \ {e}
  /\ went' = IF pc = "idle" THEN went ELSE went \cup {e}
  /\ UNCHANGED <<page, limit, total, pc, seen, came>>

Next ==
  \/ Ask \/ Count \/ Find \/ DivideByZero
  \/ pc # "done" /\ \E e \in Events : List(e) \/ TakeOff(e)

Spec == Init /\ [][Next]_vars

-----------------------------------------------------------------------------
Times(e) == Cardinality({i \in DOMAIN seen : seen[i] = e})
Ties(e) == \E g \in Events \ {e} : StartTime[g] = StartTime[e]
(* Events of S that come before e. *)
Ahead(S, e) == \E g \in S : StartTime[g] <= StartTime[e]

(* As long as nothing changes and no two events begin at the same time, the
   pages 1 .. TotalPages show every listed event, once and in order. *)
WalkIsComplete ==
  pc = "done" /\ came = {} /\ went = {} /\ (\A e \in listed : ~Ties(e))
  => seen \in Orders(listed)

(* With changes between the pages, and between the two statements of one, an
   event that is listed all along is left out only if another one before it
   came or went, and shown twice only if one before it came; or one begins at
   the same time. *)
WrongOnlyBehindAShift ==
  pc = "done" => \A e \in listed \ (came \cup went) :
    /\ Times(e) = 0 => Ahead(came \cup went, e) \/ Ties(e)
    /\ Times(e) > 1 => Ahead(came, e) \/ Ties(e)
=============================================================================
