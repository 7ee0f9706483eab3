------------------------ MODULE EventListingsProofs ------------------------
(***************************************************************************)
(* Proofs about EventListings: how old a cached listing can be, and in     *)
(* which order its two halves were read, for any number of requests and    *)
(* queries and any times to live and delays.                               *)
(***************************************************************************)
EXTENDS EventListings, TLAPS

(* What a request holds between its SELECT and its SET: a listing that is out
   of date for no longer than the request has had it, and seats that were
   counted after it was read. *)
ReadersKeepUp ==
  \A i \in Readers : reader[i].pc \in {"listed", "counted"} =>
    /\ reader[i].list <= version
    /\ reader[i].age <= reader[i].elapsed
    /\ reader[i].pc = "counted" /\ reader[i].seats # NoCount =>
         reader[i].list <= reader[i].seats

(* Before that it holds nothing. *)
MissedIsFresh ==
  \A i \in Readers : reader[i].pc = "missed" => reader[i].age = 0

IInv == TypeOK /\ ReadersKeepUp /\ MissedIsFresh /\ StalenessIsBounded /\ CountsFollowList

-----------------------------------------------------------------------------
LEMMA ReaderTyped ==
  ASSUME TypeOK, NEW i \in Readers, reader[i].pc # "idle"
  PROVE  /\ reader[i] \in Reader /\ reader[i].key \in Keys
         /\ reader[i].list \in Versions /\ reader[i].seats \in Versions \cup {NoCount}
         /\ reader[i].age \in 0 .. MaxDelay /\ reader[i].elapsed \in 0 .. MaxDelay
  BY DEF TypeOK, Idle, Reader, Keys

LEMMA EntryTyped ==
  ASSUME TypeOK, NEW k \in Keys, cache[k] # NoEntry
  PROVE  /\ cache[k] \in Entry /\ cache[k].ttl \in 1 .. TTL
         /\ cache[k].list \in Versions /\ cache[k].seats \in Versions \cup {NoCount}
         /\ cache[k].age \in 0 .. TTL + MaxDelay
  BY DEF TypeOK, Entry

LEMMA InitIInv == Init => IInv
  BY ConstantsAssumption
  DEF Init, IInv, TypeOK, Versions, Idle, ReadersKeepUp, MissedIsFresh, StalenessIsBounded,
      CountsFollowList

LEMMA LookUpIInv ==
  ASSUME IInv, NEW i \in Readers, NEW k \in Queries, LookUp(i, k)
  PROVE  IInv'
  <1>1. k \in Keys
    BY DEF Keys
  <1>2. NewReader(k) \in Reader /\ NewReader(k).pc = "missed" /\ NewReader(k).age = 0
    BY ConstantsAssumption DEF NewReader, Reader, Versions
  <1>3. cache[k] # NoEntry => Answer(k) \in Reader /\ Answer(k).pc = "answered"
    BY <1>1, <1>2, EntryTyped DEF Answer, Reader, IInv
  <1>4. PICK r \in Reader : /\ reader' = [reader EXCEPT ![i] = r]
                            /\ r.pc = "answered" \/ (r.pc = "missed" /\ r.age = 0)
    <2>1. CASE cache[k] # NoEntry /\ reader' = [reader EXCEPT ![i] = Answer(k)]
      BY <2>1, <1>3
    <2>2. CASE reader' = [reader EXCEPT ![i] = NewReader(k)]
      BY <2>2, <1>2
    <2> QED BY <2>1, <2>2 DEF LookUp
  <1>5. TypeOK'
    BY <1>4 DEF IInv, TypeOK, LookUp
  <1>6. ReadersKeepUp' /\ MissedIsFresh'
    BY <1>4 DEF IInv, TypeOK, ReadersKeepUp, MissedIsFresh, LookUp
  <1> QED BY <1>5, <1>6 DEF IInv, StalenessIsBounded, CountsFollowList, LookUp

LEMMA ListEventsIInv ==
  ASSUME IInv, NEW i \in Readers, ListEvents(i)
  PROVE  IInv'
  <1> DEFINE r == [reader[i] EXCEPT !.pc = "listed", !.list = version]
  <1>1. reader[i] \in Reader /\ reader[i].age = 0 /\ reader[i].elapsed \in 0 .. MaxDelay
    BY ReaderTyped DEF IInv, MissedIsFresh, ListEvents
  <1>2. /\ r \in Reader /\ r.pc = "listed" /\ r.list = version /\ r.age = 0
        /\ r.elapsed \in 0 .. MaxDelay
    BY <1>1 DEF IInv, TypeOK, Reader
  <1>3. reader' = [reader EXCEPT ![i] = r]
    BY DEF ListEvents
  <1>4. TypeOK'
    BY <1>2, <1>3 DEF IInv, TypeOK, ListEvents
  <1>5. ReadersKeepUp' /\ MissedIsFresh'
    BY <1>2, <1>3, ConstantsAssumption
    DEF IInv, TypeOK, Versions, ReadersKeepUp, MissedIsFresh, ListEvents
  <1> QED BY <1>4, <1>5 DEF IInv, StalenessIsBounded, CountsFollowList, ListEvents

LEMMA CountSeatsIInv ==
  ASSUME IInv, NEW i \in Readers, CountSeats(i)
  PROVE  IInv'
  <1>1. PICK n \in {version, NoCount} :
          reader' = [reader EXCEPT ![i].pc = "counted", ![i].seats = n]
    BY DEF CountSeats
  <1> DEFINE r == [reader[i] EXCEPT !.pc = "counted", !.seats = n]
  <1>2. reader[i] \in Reader /\ reader[i].list <= version /\ reader[i].age <= reader[i].elapsed
    BY ReaderTyped DEF IInv, ReadersKeepUp, CountSeats
  <1>3. /\ r \in Reader /\ r.pc = "counted" /\ r.seats = n /\ r.list <= version
        /\ r.age <= r.elapsed
    BY <1>2 DEF IInv, TypeOK, Reader
  <1>4. reader' = [reader EXCEPT ![i] = r]
    BY <1>1 DEF IInv, TypeOK
  <1>5. TypeOK'
    BY <1>3, <1>4 DEF IInv, TypeOK, CountSeats
  <1>6. ReadersKeepUp' /\ MissedIsFresh'
    BY <1>3, <1>4 DEF IInv, TypeOK, ReadersKeepUp, MissedIsFresh, CountSeats
  <1> QED BY <1>5, <1>6 DEF IInv, StalenessIsBounded, CountsFollowList, CountSeats

(* The entry that is stored gets a full life, whatever its age: its age is
   that of the request's listing. *)
LEMMA StoreIInv ==
  ASSUME IInv, NEW i \in Readers, Store(i)
  PROVE  IInv'
  <1> DEFINE k == reader[i].key
             new == NewEntry(i, reader[i].list)
             r == [reader[i] EXCEPT !.pc = "answered"]
  <1>1. /\ reader[i] \in Reader /\ k \in Keys
        /\ reader[i].list \in Versions /\ reader[i].seats \in Versions \cup {NoCount}
        /\ reader[i].age \in 0 .. MaxDelay
    BY ReaderTyped DEF IInv, Store
  <1>2. reader[i].seats # NoCount => reader[i].list <= reader[i].seats
    BY DEF IInv, ReadersKeepUp, Store
  <1>3. /\ new \in Entry /\ new.age + new.ttl <= TTL + MaxDelay
        /\ new.seats # NoCount => new.list <= new.seats
    BY <1>1, <1>2, ConstantsAssumption DEF NewEntry, Entry
  <1>4. cache' \in {cache, [cache EXCEPT ![k] = new]} /\ reader' = [reader EXCEPT ![i] = r]
    BY DEF Store
  <1>5. r \in Reader /\ r.pc = "answered"
    BY <1>1 DEF Reader
  <1>6. TypeOK'
    BY <1>1, <1>3, <1>4, <1>5 DEF IInv, TypeOK, Store
  <1>7. ReadersKeepUp' /\ MissedIsFresh'
    BY <1>4, <1>5 DEF IInv, TypeOK, ReadersKeepUp, MissedIsFresh, Store
  <1>8. StalenessIsBounded' /\ CountsFollowList'
    BY <1>1, <1>3, <1>4 DEF IInv, TypeOK, StalenessIsBounded, CountsFollowList
  <1> QED BY <1>6, <1>7, <1>8 DEF IInv

LEMMA EndRequestIInv ==
  ASSUME IInv, NEW i \in Readers, EndRequest(i)
  PROVE  IInv'
  <1>1. TypeOK'
    BY DEF IInv, TypeOK, EndRequest
  <1>2. ReadersKeepUp' /\ MissedIsFresh'
    BY DEF IInv, TypeOK, Idle, ReadersKeepUp, MissedIsFresh, EndRequest
  <1> QED BY <1>1, <1>2 DEF IInv, StalenessIsBounded, CountsFollowList, EndRequest

(* The database only moves on. *)
LEMMA WriteIInv ==
  ASSUME IInv, version < MaxVersion, version' = version + 1, UNCHANGED <<cache, reader>>,
         writer' \in [Writers -> {"idle", "committed", "done"}]
  PROVE  IInv'
  <1>1. TypeOK'
    BY ConstantsAssumption DEF IInv, TypeOK, Versions
  <1>2. ReadersKeepUp'
    <2> SUFFICES ASSUME NEW i \in Readers, reader[i].pc \in {"listed", "counted"}
                 PROVE  reader[i].list <= version + 1
      BY DEF IInv, ReadersKeepUp
    <2> QED BY ReaderTyped, ConstantsAssumption DEF IInv, TypeOK, ReadersKeepUp, Versions
  <1> QED BY <1>1, <1>2 DEF IInv, MissedIsFresh, StalenessIsBounded, CountsFollowList

LEMMA InvalidateIInv ==
  ASSUME IInv, NEW w \in Writers, Invalidate(w)
  PROVE  IInv'
  <1>1. TypeOK'
    BY DEF IInv, TypeOK, Keys, Invalidate
  <1>2. StalenessIsBounded' /\ CountsFollowList'
    BY DEF IInv, TypeOK, Keys, StalenessIsBounded, CountsFollowList, Invalidate
  <1> QED BY <1>1, <1>2 DEF IInv, ReadersKeepUp, MissedIsFresh, Invalidate

(* A tick takes one off the life of an entry and adds one to its age at most. *)
LEMMA TickIInv ==
  ASSUME IInv, Tick
  PROVE  IInv'
  <1>1. ASSUME NEW i \in Readers, reader[i].pc \in {"listed", "counted"}
        PROVE  /\ reader'[i] \in Reader
               /\ reader'[i].pc = reader[i].pc /\ reader'[i].list = reader[i].list
               /\ reader'[i].seats = reader[i].seats
               /\ reader'[i].age <= reader'[i].elapsed
    <2> DEFINE longer == reader[i].elapsed + 1
               age == Older(reader[i])
               r == [reader[i] EXCEPT !.elapsed = longer, !.age = age]
    <2>1. /\ reader[i] \in Reader /\ reader[i].elapsed \in 0 .. MaxDelay
          /\ reader[i].age \in 0 .. MaxDelay /\ reader[i].age <= reader[i].elapsed
      BY <1>1, ReaderTyped DEF IInv, ReadersKeepUp
    <2>2. reader[i].elapsed < MaxDelay
      BY <1>1 DEF Tick, AgeReaders
    <2>3. longer \in 0 .. MaxDelay /\ age \in 0 .. MaxDelay /\ age <= longer
      BY <2>1, <2>2, ConstantsAssumption DEF Older
    <2> HIDE DEF longer, age
    <2>4. /\ r \in Reader /\ r.pc = reader[i].pc /\ r.list = reader[i].list
          /\ r.seats = reader[i].seats /\ r.age <= r.elapsed
      <3>1. r \in Reader
        BY <2>1, <2>3 DEF Reader
      <3>2. r.pc = reader[i].pc /\ r.list = reader[i].list /\ r.seats = reader[i].seats
        BY <2>1 DEF Reader
      <3>3. r.age = age /\ r.elapsed = longer
        BY <2>1 DEF Reader
      <3> QED BY <2>3, <3>1, <3>2, <3>3
    <2>5. reader'[i] = r
      BY <1>1 DEF Tick, AgeReaders, longer, age
    <2> QED BY <2>4, <2>5
  <1>2. ASSUME NEW i \in Readers, reader[i].pc \notin {"listed", "counted"}
        PROVE  reader'[i] = reader[i]
    BY <1>2 DEF Tick, AgeReaders
  <1>3. ASSUME NEW k \in Keys, cache'[k] # NoEntry
        PROVE  /\ cache[k] # NoEntry /\ cache'[k] \in Entry
               /\ cache'[k].list = cache[k].list /\ cache'[k].seats = cache[k].seats
               /\ cache'[k].age + cache'[k].ttl <= TTL + MaxDelay
    <2> DEFINE left == cache[k].ttl - 1
               age == Older(cache[k])
               n == [cache[k] EXCEPT !.ttl = left, !.age = age]
    <2>1. cache'[k] = n /\ ~(cache[k].ttl <= 1)
      BY <1>3 DEF Tick
    <2>2. cache[k] # NoEntry
      BY <2>1 DEF NoEntry
    <2>3. /\ cache[k] \in Entry /\ cache[k].ttl \in 2 .. TTL /\ cache[k].age \in 0 .. TTL + MaxDelay
          /\ cache[k].age + cache[k].ttl <= TTL + MaxDelay
      BY <2>1, <2>2, EntryTyped, ConstantsAssumption DEF IInv, StalenessIsBounded
    <2>4. /\ left \in 1 .. TTL /\ age \in 0 .. TTL + MaxDelay
          /\ age + left <= TTL + MaxDelay
      BY <2>3, ConstantsAssumption DEF Older
    <2> HIDE DEF left, age
    <2>5. /\ n \in Entry /\ n.list = cache[k].list /\ n.seats = cache[k].seats
          /\ n.age + n.ttl <= TTL + MaxDelay
      <3>1. n \in Entry
        BY <2>3, <2>4 DEF Entry
      <3>2. n.list = cache[k].list /\ n.seats = cache[k].seats /\ n.age = age /\ n.ttl = left
        BY <2>3 DEF Entry
      <3> QED BY <2>4, <3>1, <3>2
    <2> QED BY <2>1, <2>2, <2>5
  <1>4. TypeOK'
    <2>1. cache' \in [Keys -> Entry \cup {NoEntry}]
      BY <1>3 DEF Tick
    <2>2. reader' \in [Readers -> Reader \cup {Idle}]
      BY <1>1, <1>2 DEF IInv, TypeOK, Tick, AgeReaders
    <2> QED BY <2>1, <2>2 DEF IInv, TypeOK, Tick
  <1>5. ReadersKeepUp' /\ MissedIsFresh'
    BY <1>1, <1>2 DEF IInv, ReadersKeepUp, MissedIsFresh, Tick
  <1>6. StalenessIsBounded' /\ CountsFollowList'
    BY <1>3 DEF IInv, StalenessIsBounded, CountsFollowList
  <1> QED BY <1>4, <1>5, <1>6 DEF IInv

LEMMA StepIInv == IInv /\ [Next]_vars => IInv'
  <1> SUFFICES ASSUME IInv, [Next]_vars
               PROVE  IInv'
    OBVIOUS
  <1>1. CASE UNCHANGED vars
    BY <1>1 DEF vars, IInv, TypeOK, ReadersKeepUp, MissedIsFresh, StalenessIsBounded,
                CountsFollowList
  <1>2. CASE \E i \in Readers : (\E k \in Queries : LookUp(i, k)) \/ ReaderStep(i)
    BY <1>2, LookUpIInv, ListEventsIInv, CountSeatsIInv, StoreIInv, EndRequestIInv
    DEF ReaderStep
  <1>3. ASSUME NEW w \in Writers, Write(w)
        PROVE  IInv'
    BY <1>3, WriteIInv DEF IInv, TypeOK, Write
  <1>4. CASE \E w \in Writers : Invalidate(w)
    BY <1>4, InvalidateIInv
  <1>5. CASE ChangeUnseen
    BY <1>5, WriteIInv DEF IInv, TypeOK, ChangeUnseen
  <1>6. CASE Tick
    BY <1>6, TickIInv
  <1> QED BY <1>1, <1>2, <1>3, <1>4, <1>5, <1>6 DEF Next

LEMMA Invariance == Spec => []IInv
  BY InitIInv, StepIInv, PTL DEF Spec

(* Cache, requests and writers stay within their types; among other things the
   counters of entries and requests stay within their bounds. *)
THEOREM TypeCorrect == Spec => []TypeOK
  <1>1. IInv => TypeOK
    BY DEF IInv
  <1> QED BY Invariance, <1>1, PTL

(* No listing is served that has been out of date for longer than an entry
   lives and a request may take, though no update ever removes a listing. *)
THEOREM StalenessBounded == Spec => []StalenessIsBounded
  <1>1. IInv => StalenessIsBounded
    BY DEF IInv
  <1> QED BY Invariance, <1>1, PTL

(* The seats of a cached listing were counted no earlier than its events were
   read, unless counting failed. *)
THEOREM CountsAfterList == Spec => []CountsFollowList
  <1>1. IInv => CountsFollowList
    BY DEF IInv
  <1> QED BY Invariance, <1>1, PTL
=============================================================================
