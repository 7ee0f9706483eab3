-------------------------- MODULE SeatStreamProofs --------------------------
(***************************************************************************)
(* Proofs about SeatStream: whatever the number of connections, the        *)
(* capacity of their channels and the number of broadcasts, no goroutine   *)
(* panics and no client's feed has a gap.                                  *)
(***************************************************************************)
EXTENDS SeatStream, SequenceTheorems, TLAPS

(* What a client has received, is being sent and will be sent. *)
Feed(c) == got[c] \o writing[c] \o queue[c]

SequencesOK ==
  /\ queue \in [Clients -> Seq(Messages)]
  /\ writing \in [Clients -> Seq(Messages)]
  /\ got \in [Clients -> Seq(Messages)]

(* The map of the hub has only open channels, so that whoever takes a channel
   out of it, and nobody else, closes it. *)
MapHasOpenChannels == clients \cap closed = {}

(* A connection begins with nothing, and its writer has nothing in hand unless
   it is sending. *)
BeginsEmpty ==
  \A c \in Clients :
    /\ handler[c] = "idle" =>
         c \notin clients /\ c \notin closed /\ queue[c] = <<>> /\ got[c] = <<>>
    /\ handler[c] \in {"idle", "registered"} => writer[c] = "idle"
    /\ writer[c] \in {"idle", "hello", "select"} => writing[c] = <<>>

IInv ==
  /\ TypeOK /\ SequencesOK
  /\ MapHasOpenChannels /\ NeverPanics
  /\ BeginsEmpty /\ StreamHasNoGap

-----------------------------------------------------------------------------
(* Taking a message out of the channel leaves the feed what it was. *)
LEMMA TakeKeepsFeed ==
  ASSUME NEW S, NEW g \in Seq(S), NEW q \in Seq(S), q # <<>>
  PROVE  /\ <<Head(q)>> \in Seq(S) /\ Tail(q) \in Seq(S)
         /\ Len(Tail(q)) = Len(q) - 1
         /\ g \o <<Head(q)>> \o Tail(q) = g \o <<>> \o q
  <1> DEFINE h == <<Head(q)>>
             t == Tail(q)
  <1>1. /\ h \in Seq(S) /\ Len(h) = 1 /\ h[1] = Head(q)
        /\ t \in Seq(S) /\ Len(t) = Len(q) - 1 /\ Len(q) \in Nat
        /\ \A i \in 1 .. Len(t) : t[i] = q[i + 1]
    BY HeadTailProperties, LenProperties
  <1>2. /\ h \o t \in Seq(S) /\ Len(h \o t) = Len(q)
        /\ \A i \in 1 .. Len(q) : (h \o t)[i] = IF i <= 1 THEN h[i] ELSE t[i - 1]
    BY <1>1, ConcatProperties
  <1>3. q[1] = Head(q)
    OBVIOUS
  <1> HIDE DEF h, t
  <1>4. ASSUME NEW i \in 1 .. Len(q)
        PROVE  (h \o t)[i] = q[i]
    <2>1. CASE i = 1
      BY <1>1, <1>2, <1>3, <2>1
    <2>2. CASE i # 1
      <3>1. i - 1 \in 1 .. Len(t) /\ ~(i <= 1)
        BY <1>1, <2>2
      <3>2. t[i - 1] = q[(i - 1) + 1]
        BY <1>1, <3>1
      <3>3. (i - 1) + 1 = i
        OBVIOUS
      <3> QED BY <1>2, <3>1, <3>2, <3>3
    <2> QED BY <2>1, <2>2
  <1>5. h \o t = q
    BY <1>2, <1>4, SeqEqual
  <1>6. (g \o h) \o t = g \o (h \o t)
    BY <1>1, ConcatAssociative
  <1> QED BY <1>1, <1>5, <1>6, ConcatEmptySeq DEF h, t

(* A message that is put into the channel comes last in the feed. *)
LEMMA AppendExtendsFeed ==
  ASSUME NEW S, NEW f \in Seq(S), NEW q \in Seq(S), NEW m \in S
  PROVE  f \o Append(q, m) = Append(f \o q, m)
  <1>1. <<m>> \in Seq(S) /\ f \o q \in Seq(S)
    BY ConcatProperties
  <1>2. Append(q, m) = q \o <<m>> /\ Append(f \o q, m) = (f \o q) \o <<m>>
    BY <1>1, AppendIsConcat
  <1> QED BY <1>1, <1>2, ConcatAssociative

LEMMA FeedTyped ==
  ASSUME SequencesOK, NEW c \in Clients
  PROVE  /\ queue[c] \in Seq(Messages) /\ writing[c] \in Seq(Messages)
         /\ got[c] \in Seq(Messages) /\ got[c] \o writing[c] \in Seq(Messages)
         /\ Feed(c) \in Seq(Messages)
         /\ Len(queue[c]) \in Nat /\ Len(Feed(c)) \in Nat
  BY ConcatProperties, LenProperties DEF SequencesOK, Feed

(* The gap can only be where the feed changes. *)
LEMMA SameFeedSameGap ==
  ASSUME IInv, joined' = joined, sent' = sent, clients' \subseteq clients,
         \A c \in Clients : Feed(c)' = Feed(c)
  PROVE  StreamHasNoGap'
  BY DEF IInv, StreamHasNoGap, Feed

LEMMA InitIInv == Init => IInv
  <1> SUFFICES ASSUME Init
               PROVE  IInv
    OBVIOUS
  <1>1. /\ \A c \in Clients : queue[c] = <<>> /\ writing[c] = <<>> /\ got[c] = <<>>
        /\ <<>> \in Seq(Messages) /\ Len(<<>>) = 0 /\ <<>> \o <<>> = <<>>
    BY EmptySeq, ConcatEmptySeq DEF Init
  <1>2. SequencesOK
    BY <1>1 DEF Init, SequencesOK
  <1>3. TypeOK
    <2>1. panicked \in BOOLEAN
      BY Zenon DEF Init
    <2> QED BY <1>1, <2>1, ConstantsAssumption DEF Init, TypeOK
  <1>4. StreamHasNoGap
    BY <1>1 DEF Init, StreamHasNoGap
  <1> QED BY <1>2, <1>3, <1>4 DEF Init, IInv, MapHasOpenChannels, NeverPanics, BeginsEmpty

-----------------------------------------------------------------------------
LEMMA BroadcastIInv ==
  ASSUME IInv, Broadcast
  PROVE  IInv'
  <1> DEFINE full == {c \in clients : Len(queue[c]) = Buffer}
  <1>1. /\ sent < MaxMessages /\ sent' = sent + 1 /\ sent' \in Messages
        /\ clients' = clients \ full /\ closed' = closed \cup full
        /\ queue' = [c \in Clients |-> IF c \in clients \ full
                                       THEN Append(queue[c], sent') ELSE queue[c]]
        /\ UNCHANGED <<handler, writer, writing, got, joined>>
    BY ConstantsAssumption DEF Broadcast, IInv, TypeOK, Messages
  <1>2. panicked' = FALSE
    <2>1. ~panicked /\ clients \cap closed = {}
      BY DEF IInv, NeverPanics, MapHasOpenChannels
    <2>2. panicked' = (panicked \/ clients \cap closed # {})
      BY DEF Broadcast
    <2> QED BY <2>1, <2>2
  <1>3. ASSUME NEW c \in Clients, c \in clients \ full
        PROVE  /\ queue'[c] = Append(queue[c], sent') /\ queue'[c] \in Seq(Messages)
               /\ Len(queue'[c]) <= Buffer
               /\ Feed(c)' = Append(Feed(c), sent')
    <2>1. /\ queue[c] \in Seq(Messages) /\ got[c] \o writing[c] \in Seq(Messages)
          /\ Len(queue[c]) \in Nat /\ Len(queue[c]) <= Buffer /\ Len(queue[c]) # Buffer
      BY <1>3, FeedTyped DEF IInv, TypeOK
    <2>2. queue'[c] = Append(queue[c], sent')
      BY <1>1, <1>3
    <2>3. queue'[c] \in Seq(Messages) /\ Len(queue'[c]) = Len(queue[c]) + 1
      BY <1>1, <2>1, <2>2, AppendProperties
    <2>4. Feed(c)' = Append(Feed(c), sent')
      <3> DEFINE f == got[c] \o writing[c]
                 m == sent'
      <3>1. Feed(c)' = f \o Append(queue[c], m) /\ Feed(c) = f \o queue[c]
        BY <1>1, <2>2 DEF Feed
      <3>2. f \in Seq(Messages) /\ queue[c] \in Seq(Messages) /\ m \in Messages
        BY <1>1, <2>1
      <3> HIDE DEF f, m
      <3>3. f \o Append(queue[c], m) = Append(f \o queue[c], m)
        BY <3>2, AppendExtendsFeed
      <3> QED BY <3>1, <3>3 DEF m
    <2> QED BY <2>1, <2>2, <2>3, <2>4, ConstantsAssumption
  <1>4. ASSUME NEW c \in Clients, c \notin clients \ full
        PROVE  queue'[c] = queue[c] /\ Feed(c)' = Feed(c)
    BY <1>1, <1>4 DEF Feed
  <1>5. SequencesOK'
    BY <1>1, <1>3, <1>4 DEF IInv, SequencesOK
  <1>6. TypeOK'
    <2>1. panicked' \in BOOLEAN
      BY <1>2, Zenon
    <2>2. sent' \in 0 .. MaxMessages
      BY <1>1, ConstantsAssumption DEF IInv, TypeOK
    <2>3. \A c \in Clients : queue'[c] \in Seq(Messages) /\ Len(queue'[c]) <= Buffer
      BY <1>3, <1>4 DEF IInv, TypeOK
    <2>4. dropped' \subseteq Clients
      BY DEF Broadcast, IInv, TypeOK
    <2> QED BY <1>1, <2>1, <2>2, <2>3, <2>4 DEF IInv, TypeOK
  <1>7. MapHasOpenChannels' /\ BeginsEmpty'
    BY <1>1, <1>4 DEF IInv, MapHasOpenChannels, BeginsEmpty
  <1>8. StreamHasNoGap'
    <2> SUFFICES ASSUME NEW c \in Clients
                 PROVE  /\ \A i \in 1 .. Len(Feed(c)') : Feed(c)'[i] = joined[c] + i
                        /\ c \in clients' => joined[c] + Len(Feed(c)') = sent'
      BY <1>1 DEF StreamHasNoGap, Feed
    <2>1. /\ \A i \in 1 .. Len(Feed(c)) : Feed(c)[i] = joined[c] + i
          /\ c \in clients => joined[c] + Len(Feed(c)) = sent
      BY DEF IInv, StreamHasNoGap, Feed
    <2>2. CASE c \in clients \ full
      <3> DEFINE f == Feed(c)
      <3>1. /\ f \in Seq(Messages) /\ Len(f) \in Nat /\ joined[c] \in Int
            /\ joined[c] + Len(f) = sent
        BY <2>1, <2>2, FeedTyped DEF IInv, TypeOK
      <3>2. /\ Len(Append(f, sent')) = Len(f) + 1
            /\ \A i \in 1 .. Len(f) : Append(f, sent')[i] = f[i]
            /\ Append(f, sent')[Len(f) + 1] = sent'
        BY <1>1, <3>1, AppendProperties
      <3>3. Feed(c)' = Append(f, sent')
        BY <1>3, <2>2
      <3>4. \A i \in 1 .. Len(f) : f[i] = joined[c] + i
        BY <2>1
      <3> HIDE DEF f
      <3>5. ASSUME NEW i \in 1 .. Len(f) + 1
            PROVE  Append(f, sent')[i] = joined[c] + i
        <4>1. CASE i \in 1 .. Len(f)
          BY <3>2, <3>4, <4>1
        <4>2. CASE i = Len(f) + 1
          <5>1. Append(f, sent')[i] = sent'
            BY <3>2, <4>2
          <5>2. sent' = joined[c] + i
            BY <1>1, <3>1, <4>2
          <5> QED BY <5>1, <5>2
        <4> QED BY <3>1, <4>1, <4>2
      <3> QED BY <1>1, <3>1, <3>2, <3>3, <3>5
    <2>3. CASE c \notin clients \ full
      BY <1>1, <1>4, <2>1, <2>3
    <2> QED BY <2>2, <2>3
  <1>9. NeverPanics'
    BY <1>2, Zenon DEF NeverPanics
  <1> QED BY <1>5, <1>6, <1>7, <1>8, <1>9 DEF IInv

LEMMA ConnectIInv ==
  ASSUME IInv, NEW c \in Clients, Connect(c)
  PROVE  IInv'
  <1>1. /\ handler[c] = "idle" /\ handler' = [handler EXCEPT ![c] = "registered"]
        /\ clients' = clients \cup {c} /\ joined' = [joined EXCEPT ![c] = sent]
        /\ UNCHANGED <<sent, queue, closed, writer, writing, got, dropped>>
    BY DEF Connect, Register
  <1>2. /\ writer[c] = "idle" /\ c \notin closed
        /\ queue[c] = <<>> /\ got[c] = <<>> /\ writing[c] = <<>>
    BY <1>1 DEF IInv, BeginsEmpty
  <1>3. NeverPanics' /\ panicked' \in BOOLEAN
    BY Zenon DEF Connect, Register, IInv, TypeOK, NeverPanics
  <1>4. TypeOK' /\ SequencesOK'
    BY <1>1, <1>3 DEF IInv, TypeOK, SequencesOK
  <1>5. MapHasOpenChannels' /\ BeginsEmpty'
    BY <1>1, <1>2 DEF IInv, TypeOK, MapHasOpenChannels, BeginsEmpty
  <1>6. StreamHasNoGap'
    <2>1. Len(Feed(c)) = 0
      BY <1>2, EmptySeq, ConcatEmptySeq DEF Feed
    <2>2. /\ joined'[c] = sent /\ sent \in Int
          /\ \A d \in Clients \ {c} : joined'[d] = joined[d]
                                     /\ (d \in clients' => d \in clients)
      BY <1>1 DEF IInv, TypeOK
    <2>3. \A d \in Clients : Feed(d)' = Feed(d)
      BY <1>1 DEF Feed
    <2>4. ASSUME NEW d \in Clients \ {c}
          PROVE  /\ \A i \in 1 .. Len(Feed(d)) : Feed(d)[i] = joined'[d] + i
                 /\ d \in clients' => joined'[d] + Len(Feed(d)) = sent
      <3>1. /\ \A i \in 1 .. Len(Feed(d)) : Feed(d)[i] = joined[d] + i
            /\ d \in clients => joined[d] + Len(Feed(d)) = sent
        BY DEF IInv, StreamHasNoGap, Feed
      <3> QED BY <2>2, <3>1
    <2>5. /\ \A i \in 1 .. Len(Feed(c)) : Feed(c)[i] = joined'[c] + i
          /\ joined'[c] + Len(Feed(c)) = sent
      BY <2>1, <2>2
    <2> QED BY <1>1, <2>3, <2>4, <2>5 DEF StreamHasNoGap, Feed
  <1> QED BY <1>3, <1>4, <1>5, <1>6 DEF IInv

LEMMA StartWriterIInv ==
  ASSUME IInv, NEW c \in Clients, StartWriter(c)
  PROVE  IInv'
  <1>1. NeverPanics' /\ panicked' \in BOOLEAN
    BY Zenon DEF StartWriter, IInv, TypeOK, NeverPanics
  <1>2. TypeOK' /\ SequencesOK'
    BY <1>1 DEF StartWriter, IInv, TypeOK, SequencesOK
  <1>3. MapHasOpenChannels' /\ BeginsEmpty'
    BY DEF StartWriter, IInv, TypeOK, MapHasOpenChannels, BeginsEmpty
  <1>4. StreamHasNoGap'
    BY SameFeedSameGap DEF StartWriter, Feed
  <1> QED BY <1>1, <1>2, <1>3, <1>4 DEF IInv

(* The handler closes the channel only if it finds it in the map. *)
LEMMA ReturnIInv ==
  ASSUME IInv, NEW c \in Clients, Return(c)
  PROVE  IInv'
  <1>1. /\ handler[c] = "streaming" /\ handler' = [handler EXCEPT ![c] = "returned"]
        /\ clients' = clients \ {c}
        /\ closed' = IF c \in clients THEN closed \cup {c} ELSE closed
        /\ UNCHANGED <<sent, queue, writer, writing, got, joined, dropped>>
    BY DEF Return, Unregister
  <1>2. NeverPanics' /\ panicked' \in BOOLEAN
    <2>1. c \in clients => c \notin closed
      BY DEF IInv, MapHasOpenChannels
    <2>2. ~panicked /\ (IF c \in clients THEN panicked' = (panicked \/ c \in closed)
                                          ELSE panicked' = panicked)
      BY Zenon DEF Return, Unregister, IInv, NeverPanics
    <2>3. ~panicked'
      BY <2>1, <2>2, Zenon
    <2>4. panicked' \in BOOLEAN
      BY <2>1, <2>2, Zenon DEF IInv, TypeOK
    <2> QED BY <2>3, <2>4, Zenon DEF NeverPanics
  <1>3. TypeOK' /\ SequencesOK'
    BY <1>1, <1>2 DEF IInv, TypeOK, SequencesOK
  <1>4. MapHasOpenChannels' /\ BeginsEmpty'
    BY <1>1 DEF IInv, TypeOK, MapHasOpenChannels, BeginsEmpty
  <1>5. StreamHasNoGap'
    BY <1>1, SameFeedSameGap DEF Feed
  <1> QED BY <1>2, <1>3, <1>4, <1>5 DEF IInv

(* The steps of a body writer move what is in the feed, and close nothing. *)
LEMMA WriterIInv ==
  ASSUME IInv, NEW c \in Clients, WriterUnchanged,
         SequencesOK', \A d \in Clients : Len(queue'[d]) <= Buffer,
         writer' \in [Clients -> {"idle", "hello", "select", "flush", "ended"}],
         \A d \in Clients \ {c} :
            /\ queue'[d] = queue[d] /\ writing'[d] = writing[d] /\ got'[d] = got[d]
            /\ writer'[d] = writer[d],
         handler[c] \notin {"idle", "registered"},
         writer'[c] \in {"idle", "hello", "select"} => writing'[c] = <<>>,
         Feed(c)' = Feed(c)
  PROVE  IInv'
  <1>1. NeverPanics' /\ panicked' \in BOOLEAN
    BY Zenon DEF WriterUnchanged, IInv, TypeOK, NeverPanics
  <1>2. TypeOK'
    BY <1>1 DEF WriterUnchanged, IInv, TypeOK, SequencesOK
  <1>3. MapHasOpenChannels' /\ BeginsEmpty'
    BY DEF WriterUnchanged, IInv, MapHasOpenChannels, BeginsEmpty
  <1>4. \A d \in Clients : Feed(d)' = Feed(d)
    BY DEF Feed
  <1>5. StreamHasNoGap'
    BY <1>4, SameFeedSameGap DEF WriterUnchanged
  <1> QED BY <1>1, <1>2, <1>3, <1>5 DEF IInv

LEMMA WriterRuns ==
  ASSUME IInv, NEW c \in Clients, writer[c] # "idle"
  PROVE  handler[c] \notin {"idle", "registered"}
  BY DEF IInv, BeginsEmpty

LEMMA SendFailsIInv ==
  ASSUME IInv, NEW c \in Clients, SendFails(c)
  PROVE  IInv'
  <1>1. handler[c] \notin {"idle", "registered"}
    BY WriterRuns DEF SendFails
  <1> QED BY <1>1, WriterIInv DEF SendFails, IInv, TypeOK, SequencesOK, Feed

LEMMA SendSucceedsIInv ==
  ASSUME IInv, NEW c \in Clients, SendSucceeds(c)
  PROVE  IInv'
  <1>1. handler[c] \notin {"idle", "registered"}
    BY WriterRuns DEF SendSucceeds
  <1>2. /\ queue' = queue /\ got' = [got EXCEPT ![c] = got[c] \o writing[c]]
        /\ writing' = [writing EXCEPT ![c] = <<>>] /\ <<>> \in Seq(Messages)
        /\ got[c] \o writing[c] \in Seq(Messages)
    BY FeedTyped, EmptySeq DEF SendSucceeds, IInv
  <1>3. SequencesOK'
    BY <1>2 DEF IInv, SequencesOK
  <1>4. Feed(c)' = Feed(c)
    BY <1>2, ConcatEmptySeq DEF IInv, SequencesOK, Feed
  <1> QED BY <1>1, <1>2, <1>3, <1>4, WriterIInv DEF SendSucceeds, IInv, TypeOK, SequencesOK

LEMMA TakeHeartbeatIInv ==
  ASSUME IInv, NEW c \in Clients, TakeHeartbeat(c)
  PROVE  IInv'
  <1>1. handler[c] \notin {"idle", "registered"}
    BY WriterRuns DEF TakeHeartbeat
  <1> QED BY <1>1, WriterIInv DEF TakeHeartbeat, IInv, TypeOK, SequencesOK, Feed

LEMMA TakeMessageIInv ==
  ASSUME IInv, NEW c \in Clients, TakeMessage(c)
  PROVE  IInv'
  <1>1. handler[c] \notin {"idle", "registered"} /\ writing[c] = <<>>
    BY WriterRuns DEF TakeMessage, IInv, BeginsEmpty
  <1>2. /\ <<Head(queue[c])>> \in Seq(Messages) /\ Tail(queue[c]) \in Seq(Messages)
        /\ Len(Tail(queue[c])) <= Buffer
        /\ got[c] \o <<Head(queue[c])>> \o Tail(queue[c]) = got[c] \o <<>> \o queue[c]
    <2>1. /\ queue[c] \in Seq(Messages) /\ queue[c] # <<>> /\ got[c] \in Seq(Messages)
          /\ Len(queue[c]) \in Nat /\ Len(queue[c]) <= Buffer
      BY FeedTyped DEF TakeMessage, IInv, TypeOK
    <2>2. /\ <<Head(queue[c])>> \in Seq(Messages) /\ Tail(queue[c]) \in Seq(Messages)
          /\ Len(Tail(queue[c])) = Len(queue[c]) - 1
          /\ got[c] \o <<Head(queue[c])>> \o Tail(queue[c]) = got[c] \o <<>> \o queue[c]
      BY <2>1, TakeKeepsFeed
    <2>3. Len(queue[c]) - 1 <= Buffer
      BY <2>1, ConstantsAssumption
    <2> QED BY <2>2, <2>3
  <1>3. /\ queue' = [queue EXCEPT ![c] = Tail(queue[c])] /\ got' = got
        /\ writing' = [writing EXCEPT ![c] = <<Head(queue[c])>>]
    BY DEF TakeMessage
  <1>4. SequencesOK'
    BY <1>2, <1>3 DEF IInv, SequencesOK
  <1>5. Feed(c)' = Feed(c)
    BY <1>1, <1>2, <1>3 DEF IInv, SequencesOK, Feed
  <1>6. \A d \in Clients : Len(queue'[d]) <= Buffer
    BY <1>2, <1>3 DEF IInv, TypeOK, SequencesOK
  <1> QED BY <1>1, <1>3, <1>4, <1>5, <1>6, WriterIInv
          DEF TakeMessage, IInv, TypeOK, SequencesOK

LEMMA StreamClosedIInv ==
  ASSUME IInv, NEW c \in Clients, StreamClosed(c)
  PROVE  IInv'
  <1>1. handler[c] \notin {"idle", "registered"}
    BY WriterRuns DEF StreamClosed
  <1> QED BY <1>1, WriterIInv DEF StreamClosed, IInv, TypeOK, SequencesOK, Feed

-----------------------------------------------------------------------------
LEMMA StepIInv == IInv /\ [Next]_vars => IInv'
  <1> SUFFICES ASSUME IInv, [Next]_vars
               PROVE  IInv'
    OBVIOUS
  <1>1. CASE UNCHANGED vars
    <2>1. NeverPanics' /\ panicked' \in BOOLEAN
      BY <1>1, Zenon DEF vars, IInv, TypeOK, NeverPanics
    <2> QED BY <1>1, <2>1
            DEF vars, IInv, TypeOK, SequencesOK, MapHasOpenChannels, BeginsEmpty, StreamHasNoGap
  <1>2. CASE Broadcast
    BY <1>2, BroadcastIInv
  <1>3. ASSUME NEW c \in Clients, Connect(c) \/ StartWriter(c) \/ Return(c)
        PROVE  IInv'
    BY <1>3, ConnectIInv, StartWriterIInv, ReturnIInv
  <1>4. ASSUME NEW c \in Clients, Send(c) \/ TakeHeartbeat(c) \/ Receive(c)
        PROVE  IInv'
    BY <1>4, SendFailsIInv, SendSucceedsIInv, TakeHeartbeatIInv, TakeMessageIInv,
       StreamClosedIInv
    DEF Send, Receive
  <1> QED BY <1>1, <1>2, <1>3, <1>4 DEF Next

LEMMA Invariance == Spec => []IInv
  BY InitIInv, StepIInv, PTL DEF Spec

(* Among other things, no channel ever holds more than its capacity, so that
   the hub, which sends under its mutex, never blocks. *)
THEOREM TypeCorrect == Spec => []TypeOK
  <1>1. IInv => TypeOK
    BY DEF IInv
  <1> QED BY Invariance, <1>1, PTL

(* However broadcasts and returning handlers interleave, no channel is closed
   twice or sent on after it was closed. *)
THEOREM HubNeverPanics == Spec => []NeverPanics
  <1>1. IInv => NeverPanics
    BY DEF IInv
  <1> QED BY Invariance, <1>1, PTL

(* What a client receives are consecutive broadcasts from its registration on. *)
THEOREM FeedHasNoGap == Spec => []StreamHasNoGap
  <1>1. IInv => StreamHasNoGap
    BY DEF IInv
  <1> QED BY Invariance, <1>1, PTL
=============================================================================
