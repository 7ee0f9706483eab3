--------------------------- MODULE EventListings ---------------------------
(***************************************************************************)
(* The cached listings of GetPublicEvents (internal/service/               *)
(* event_service.go) over internal/database/redis.go, while events and     *)
(* their seats change.  A listing is known by the version of the database  *)
(* it was read from; a request reads the events, then their free seats,    *)
(* then stores both, and nothing ties the three together.  No call of      *)
(* Redis is sure to succeed, and none of its errors reaches the client.    *)
(***************************************************************************)
EXTENDS Integers

CONSTANTS
  Queries,     \* page, limit, search and location: each has its own cache key
  Readers,     \* concurrent listing requests
  Writers,     \* updates, deletions and activations of events
  TTL,         \* 10*time.Minute, in ticks
  MaxDelay,    \* bound: how long a request takes from its SELECT to its SET
  MaxVersion   \* bound: how often the database changes

ASSUME ConstantsAssumption ==
  TTL \in Nat \ {0} /\ MaxDelay \in Nat /\ MaxVersion \in Nat

VARIABLES
  version,     \* number of changes of events and seats that are committed
  cache,       \* cache[k]: what Redis has under key k
  reader,      \* progress and local variables of listing requests
  writer       \* progress of the requests that change events

vars == <<version, cache, reader, writer>>

Versions == 0 .. MaxVersion
NoCount == -1              \* the error of GetAvailableSeatCounts is dropped
ActiveKey == "events:active"
Keys == Queries \cup {ActiveKey}

NoEntry == [ttl |-> 0]
(* age: for how many ticks the list has been out of date. *)
Entry == [ttl : 1 .. TTL, list : Versions, seats : Versions \cup {NoCount},
          age : 0 .. TTL + MaxDelay]

Idle == [pc |-> "idle"]
Reader == [pc : {"missed", "listed", "counted", "answered"}, key : Queries,
           list : Versions, seats : Versions \cup {NoCount},
           age : 0 .. MaxDelay, elapsed : 0 .. MaxDelay]

TypeOK ==
  /\ version \in Versions
  /\ cache \in [Keys -> Entry \cup {NoEntry}]
  /\ reader \in [Readers -> Reader \cup {Idle}]
  /\ writer \in [Writers -> {"idle", "committed", "done"}]

Init ==
  /\ version = 0
  /\ cache = [k \in Keys |-> NoEntry]
  /\ reader = [i \in Readers |-> Idle]
  /\ writer = [w \in Writers |-> "idle"]

-----------------------------------------------------------------------------
(* GetPublicEvents                                                         *)

NewReader(k) == [pc |-> "missed", key |-> k, list |-> 0,
                 seats |-> NoCount, age |-> 0, elapsed |-> 0]
Answer(k) == [NewReader(k) EXCEPT !.pc = "answered", !.list = cache[k].list,
                                  !.seats = cache[k].seats]

(* Mutant: a hit makes the entry last longer. *)
LookUpAndRenew(i, k) ==
  /\ reader[i] = Idle
  /\ \/ /\ cache[k] # NoEntry
        /\ reader' = [reader EXCEPT ![i] = Answer(k)]
        /\ cache' = [cache EXCEPT ![k].ttl = TTL]
     \/ /\ reader' = [reader EXCEPT ![i] = NewReader(k)]
        /\ UNCHANGED cache
  /\ UNCHANGED <<version, writer>>

(* GetCache: a hit is the answer.  An error of Redis counts as a miss. *)
LookUp(i, k) ==
  /\ reader[i] = Idle
  /\ \/ /\ cache[k] # NoEntry
        /\ reader' = [reader EXCEPT ![i] = Answer(k)]
     \/ reader' = [reader EXCEPT ![i] = NewReader(k)]
  /\ UNCHANGED <<version, cache, writer>>

(* GetEventsPaginated, whose two statements are one step here. *)
ListEvents(i) ==
  /\ reader[i].pc = "missed"
  /\ reader' = [reader EXCEPT ![i].pc = "listed", ![i].list = version]
  /\ UNCHANGED <<version, cache, writer>>

(* GetAvailableSeatCounts: without counts every event has no free seat. *)
CountSeats(i) ==
  /\ reader[i].pc = "listed"
  /\ \E n \in {version, NoCount} :
       reader' = [reader EXCEPT ![i].pc = "counted", ![i].seats = n]
  /\ UNCHANGED <<version, cache, writer>>

NewEntry(i, list) == [ttl |-> TTL, list |-> list, seats |-> reader[i].seats,
                      age |-> reader[i].age]

(* Mutant: the events are listed once more before they are stored. *)
StoreRelisted(i) ==
  /\ reader[i].pc = "counted"
  /\ cache' \in {cache, [cache EXCEPT ![reader[i].key] = NewEntry(i, version)]}
  /\ reader' = [reader EXCEPT ![i].pc = "answered"]
  /\ UNCHANGED <<version, writer>>

(* SetCache, which may fail, and the answer. *)
Store(i) ==
  /\ reader[i].pc = "counted"
  /\ cache' \in {cache, [cache EXCEPT ![reader[i].key] = NewEntry(i, reader[i].list)]}
  /\ reader' = [reader EXCEPT ![i].pc = "answered"]
  /\ UNCHANGED <<version, writer>>

(* The listing fails (500), or the client has its answer. *)
EndRequest(i) ==
  /\ reader[i].pc \in {"missed", "answered"}
  /\ reader' = [reader EXCEPT ![i] = Idle]
  /\ UNCHANGED <<version, cache, writer>>

-----------------------------------------------------------------------------
(* Those who change events and seats                                       *)

(* UpdateEvent, DeleteEvent and the activation of a new event. *)
Write(w) ==
  /\ writer[w] = "idle"
  /\ version < MaxVersion /\ version' = version + 1
  /\ writer' = [writer EXCEPT ![w] = "committed"]
  /\ UNCHANGED <<cache, reader>>

(* DeleteCache, whose error is logged; a deletion that cannot remove the image
   returns before it.  No listing is stored under this key. *)
Invalidate(w) ==
  /\ writer[w] = "committed"
  /\ writer' = [writer EXCEPT ![w] = "done"]
  /\ cache' \in {cache, [cache EXCEPT ![ActiveKey] = NoEntry]}
  /\ UNCHANGED <<version, reader>>

(* The nightly job closes events; reservations, payments and the cleanup
   change what is free.  None of them knows of the cache. *)
ChangeUnseen ==
  /\ version < MaxVersion /\ version' = version + 1
  /\ UNCHANGED <<cache, reader, writer>>

-----------------------------------------------------------------------------
Older(entry) == IF entry.list < version THEN entry.age + 1 ELSE 0

AgeReaders ==
  /\ \A i \in Readers : reader[i].pc \in {"listed", "counted"} => reader[i].elapsed < MaxDelay
  /\ reader' = [i \in Readers |->
       IF reader[i].pc \in {"listed", "counted"}
       THEN [reader[i] EXCEPT !.elapsed = @ + 1, !.age = Older(reader[i])]
       ELSE reader[i]]

(* Mutants: the entry is set without a time to live; it lives one tick on. *)
TickNeverExpires ==
  /\ AgeReaders
  /\ cache' = [k \in Keys |->
       IF cache[k] = NoEntry THEN NoEntry ELSE [cache[k] EXCEPT !.age = 0]]
  /\ UNCHANGED <<version, writer>>

TickLate ==
  /\ AgeReaders
  /\ cache' = [k \in Keys |->
       IF cache[k].ttl = 0 THEN NoEntry
       ELSE [cache[k] EXCEPT !.ttl = @ - 1, !.age = Older(cache[k])]]
  /\ UNCHANGED <<version, writer>>

(* Redis forgets an entry whose time is up. *)
Tick ==
  /\ AgeReaders
  /\ cache' = [k \in Keys |->
       IF cache[k].ttl <= 1 THEN NoEntry
       ELSE [cache[k] EXCEPT !.ttl = @ - 1, !.age = Older(cache[k])]]
  /\ UNCHANGED <<version, writer>>

-----------------------------------------------------------------------------
ReaderStep(i) == ListEvents(i) \/ CountSeats(i) \/ Store(i) \/ EndRequest(i)

Next ==
  \/ \E i \in Readers : (\E k \in Queries : LookUp(i, k)) \/ ReaderStep(i)
  \/ \E w \in Writers : Write(w) \/ Invalidate(w)
  \/ ChangeUnseen \/ Tick

Spec == Init /\ [][Next]_vars

(* Time passes, and a request that has begun is carried to its end. *)
Fairness == WF_vars(Tick) /\ \A i \in Readers : WF_vars(ReaderStep(i))

FairSpec == Spec /\ Fairness

-----------------------------------------------------------------------------
(* However reads, stores and changes interleave, nobody is given a listing
   that has been out of date for longer than an entry lives plus the time a
   request may keep an old listing before it stores it: an entry that is
   already old when it is stored does not get a full life beyond that. *)
StalenessIsBounded ==
  \A k \in Keys : cache[k] # NoEntry => cache[k].age + cache[k].ttl <= TTL + MaxDelay

(* The free seats of a listing are counted after its events were listed, so
   that an event that has just been activated is not cached as having none,
   unless counting failed. *)
CountsFollowList ==
  \A k \in Keys : cache[k] # NoEntry /\ cache[k].seats # NoCount =>
    cache[k].list <= cache[k].seats

(* Once the events no longer change, what is cached is in the end what the
   database has, though nothing ever deletes a listing and a slow request may
   have put an old one back. *)
Outdated(k) == cache[k] # NoEntry /\ cache[k].list < version
CacheCatchesUp == <>[](\A k \in Keys : ~Outdated(k))
=============================================================================
