----------------------------- MODULE SeatStream -----------------------------
(***************************************************************************)
(* The live feed of seat changes: the hub of internal/sse/hub.go, and for  *)
(* each connection the two goroutines of internal/handler/stream.go: the   *)
(* request handler, which registers a channel and unregisters it when it   *)
(* returns, and the body writer, which copies the channel to the client.   *)
(* fasthttp starts the writer as soon as it is set; from then on the two   *)
(* run concurrently.                                                       *)
(*                                                                         *)
(* A message is the number of the broadcast that made it.                  *)
(***************************************************************************)
EXTENDS Integers, Sequences, FiniteSets

CONSTANTS
  Clients,       \* connections, each with a channel of its own
  Buffer,        \* capacity of that channel: 10 in StreamEvents
  MaxMessages    \* bound: how many broadcasts are made

ASSUME ConstantsAssumption == Buffer \in Nat \ {0} /\ MaxMessages \in Nat

VARIABLES
  sent,          \* how many broadcasts there have been
  clients,       \* the keys of Hub.clients
  queue,         \* queue[c]: what is in the channel of c
  closed,        \* the channels that have been closed
  handler,       \* progress of StreamEvents
  writer,        \* progress of its body writer
  writing,       \* what the body writer is sending: <<>>, a heartbeat, or <<m>>
  got,           \* got[c]: the seat updates the client has received
  joined,        \* history: the value of sent when c was registered
  dropped,       \* history: the clients Broadcast has cut off
  panicked       \* a send on or a close of a closed channel has happened

vars == <<sent, clients, queue, closed, handler, writer, writing, got, joined,
          dropped, panicked>>

Messages == 1 .. MaxMessages

TypeOK ==
  /\ sent \in 0 .. MaxMessages
  /\ clients \subseteq Clients /\ closed \subseteq Clients /\ dropped \subseteq Clients
  /\ \A c \in Clients : queue[c] \in Seq(Messages) /\ Len(queue[c]) <= Buffer
  /\ handler \in [Clients -> {"idle", "registered", "streaming", "returned"}]
  /\ writer \in [Clients -> {"idle", "hello", "select", "flush", "ended"}]
  /\ \A c \in Clients : writing[c] \in Seq(Messages) /\ got[c] \in Seq(Messages)
  /\ joined \in [Clients -> 0 .. MaxMessages]
  /\ panicked \in BOOLEAN

Init ==
  /\ sent = 0 /\ clients = {} /\ closed = {} /\ dropped = {} /\ panicked = FALSE
  /\ queue = [c \in Clients |-> <<>>]
  /\ handler = [c \in Clients |-> "idle"]
  /\ writer = [c \in Clients |-> "idle"]
  /\ writing = [c \in Clients |-> <<>>]
  /\ got = [c \in Clients |-> <<>>]
  /\ joined = [c \in Clients |-> 0]

-----------------------------------------------------------------------------
(* The hub.  Each method runs under its mutex, so it is one step.          *)

Register(c) ==
  /\ clients' = clients \cup {c}
  /\ joined' = [joined EXCEPT ![c] = sent]
  /\ UNCHANGED <<closed, panicked>>

(* Mutants: without looking the channel up first; without closing it. *)
UnregisterUnchecked(c) ==
  /\ clients' = clients \ {c}
  /\ closed' = closed \cup {c}
  /\ panicked' = (panicked \/ c \in closed)

UnregisterWithoutClose(c) ==
  /\ clients' = clients \ {c}
  /\ UNCHANGED <<closed, panicked>>

Unregister(c) ==
  /\ clients' = clients \ {c}
  /\ IF c \in clients
     THEN closed' = closed \cup {c} /\ panicked' = (panicked \/ c \in closed)
     ELSE UNCHANGED <<closed, panicked>>

(* Mutants: a full channel is skipped; it is not looked at. *)
BroadcastSkipsFull ==
  LET full == {c \in clients : Len(queue[c]) = Buffer} IN
  /\ sent < MaxMessages
  /\ sent' = sent + 1
  /\ queue' = [c \in Clients |-> IF c \in clients \ full
                                 THEN Append(queue[c], sent') ELSE queue[c]]
  /\ panicked' = (panicked \/ clients \cap closed # {})
  /\ UNCHANGED <<clients, closed, handler, writer, writing, got, joined, dropped>>

BroadcastIgnoresFull ==
  /\ sent < MaxMessages
  /\ sent' = sent + 1
  /\ queue' = [c \in Clients |-> IF c \in clients THEN Append(queue[c], sent') ELSE queue[c]]
  /\ panicked' = (panicked \/ clients \cap closed # {})
  /\ UNCHANGED <<clients, closed, handler, writer, writing, got, joined, dropped>>

(* One message to every registered channel; the clients whose channel is full
   are cut off. *)
Broadcast ==
  LET full == {c \in clients : Len(queue[c]) = Buffer} IN
  /\ sent < MaxMessages
  /\ sent' = sent + 1
  /\ queue' = [c \in Clients |-> IF c \in clients \ full
                                 THEN Append(queue[c], sent') ELSE queue[c]]
  /\ closed' = closed \cup full
  /\ clients' = clients \ full
  /\ dropped' = dropped \cup full
  /\ panicked' = (panicked \/ clients \cap closed # {})
  /\ UNCHANGED <<handler, writer, writing, got, joined>>

-----------------------------------------------------------------------------
(* StreamEvents                                                            *)

Connect(c) ==
  /\ handler[c] = "idle"
  /\ Register(c)
  /\ handler' = [handler EXCEPT ![c] = "registered"]
  /\ UNCHANGED <<sent, queue, writer, writing, got, dropped>>

StartWriter(c) ==
  /\ handler[c] = "registered"
  /\ handler' = [handler EXCEPT ![c] = "streaming"]
  /\ writer' = [writer EXCEPT ![c] = "hello"]
  /\ UNCHANGED <<sent, clients, queue, closed, writing, got, joined, dropped, panicked>>

(* return nil, and with it the deferred Unregister *)
Return(c) ==
  /\ handler[c] = "streaming"
  /\ Unregister(c)
  /\ handler' = [handler EXCEPT ![c] = "returned"]
  /\ UNCHANGED <<sent, queue, writer, writing, got, joined, dropped>>

WriterUnchanged ==
  UNCHANGED <<sent, clients, closed, handler, joined, dropped, panicked>>

(* send fails, on the greeting or later: the client has gone away. *)
SendFails(c) ==
  /\ writer[c] \in {"hello", "flush"}
  /\ writer' = [writer EXCEPT ![c] = "ended"]
  /\ UNCHANGED <<queue, writing, got>> /\ WriterUnchanged

SendSucceeds(c) ==
  /\ writer[c] \in {"hello", "flush"}
  /\ writer' = [writer EXCEPT ![c] = "select"]
  /\ got' = [got EXCEPT ![c] = @ \o writing[c]]
  /\ writing' = [writing EXCEPT ![c] = <<>>]
  /\ UNCHANGED queue /\ WriterUnchanged

TakeHeartbeat(c) ==
  /\ writer[c] = "select"
  /\ writer' = [writer EXCEPT ![c] = "flush"]
  /\ UNCHANGED <<queue, writing, got>> /\ WriterUnchanged

TakeMessage(c) ==
  /\ writer[c] = "select" /\ queue[c] # <<>>
  /\ writer' = [writer EXCEPT ![c] = "flush"]
  /\ writing' = [writing EXCEPT ![c] = <<Head(queue[c])>>]
  /\ queue' = [queue EXCEPT ![c] = Tail(@)]
  /\ UNCHANGED got /\ WriterUnchanged

(* msg, ok := <-msgChan is not ok: closed, and nothing is left in it *)
StreamClosed(c) ==
  /\ writer[c] = "select" /\ queue[c] = <<>> /\ c \in closed
  /\ writer' = [writer EXCEPT ![c] = "ended"]
  /\ UNCHANGED <<queue, writing, got>> /\ WriterUnchanged

-----------------------------------------------------------------------------
Send(c) == SendFails(c) \/ SendSucceeds(c)
Receive(c) == TakeMessage(c) \/ StreamClosed(c)

Next ==
  \/ Broadcast
  \/ \E c \in Clients : \/ Connect(c) \/ StartWriter(c) \/ Return(c)
                        \/ Send(c) \/ TakeHeartbeat(c) \/ Receive(c)

Spec == Init /\ [][Next]_vars

(* A handler that runs goes on to its end, a send succeeds or fails, and the
   select, which chooses among the ready cases at random, does not take the
   heartbeat for ever when the channel is ready too. *)
Fairness ==
  \A c \in Clients : /\ WF_vars(StartWriter(c)) /\ WF_vars(Return(c))
                     /\ WF_vars(Send(c)) /\ SF_vars(Receive(c))

FairSpec == Spec /\ Fairness

-----------------------------------------------------------------------------
(* No goroutine sends on or closes a channel that is closed already: handler
   and broadcaster may both decide to close one, and the map decides who does. *)
NeverPanics == ~panicked

(* A stream has no gap and no repetition.  What a client has received, is
   being sent and still has queued are consecutive broadcasts, from the first
   one after it was registered; while it is registered, up to the last. *)
StreamHasNoGap ==
  \A c \in Clients :
    LET feed == got[c] \o writing[c] \o queue[c] IN
    /\ \A i \in 1 .. Len(feed) : feed[i] = joined[c] + i
    /\ c \in clients => joined[c] + Len(feed) = sent

(* The body writer does not outlive its connection for ever: once the handler
   has returned, the stream ends. *)
EveryStreamEnds ==
  \A c \in Clients : handler[c] = "returned" ~> writer[c] = "ended"

(* README, "Real-time updates": connected clients observe updates instantly.
   A broadcast reaches every client whose stream is open and which was not
   cut off for being slow. *)
ConnectedClientsObserveUpdates ==
  [][sent' # sent =>
       \A c \in Clients \ dropped' :
         writer[c] \in {"select", "flush"} => queue'[c] # queue[c]]_vars
=============================================================================
