----------------------------- MODULE ControlPlane -----------------------------
(***************************************************************************)
(* The control plane: ControlClient, ControlServer and ControlDispatcher   *)
(* of src/control.cpp over the connections of src/transport.cpp, with what *)
(* they share of the coordinator: its epoch, and the operations in flight  *)
(* that shutdown() waits for.                                              *)
(*                                                                         *)
(* Every client makes one connection and one call at a time.  The server   *)
(* has a thread that accepts and one handler thread per connection; the    *)
(* owner of the coordinator may shut it down at any time, and does so when *)
(* run() returns.  What an operation does to the coordinator is the module *)
(* PacingFabric; here it is in flight, or it is over.                      *)
(*                                                                         *)
(* Where it depends on the platform whether closing a socket wakes a       *)
(* thread that is blocked in it, both are modelled.                        *)
(***************************************************************************)
EXTENDS Integers, FiniteSets

CONSTANTS
  Client,          \* peers of the server
  None,            \* no frame, no connection
  Operations,      \* what each client calls
  Faults,          \* what may go wrong: "damage" of a frame, "shutdown" while serving
  MaxConnections,  \* config.max_connections
  MaxCalls         \* bound: calls of a client

ASSUME ControlAssumption ==
  /\ None \notin Client /\ IsFiniteSet(Client)
  /\ Operations \in [Client -> SUBSET {"query", "work", "advance", "stop"}]
  /\ Faults \subseteq {"damage", "shutdown"}
  /\ MaxConnections \in Nat \ {0} /\ MaxCalls \in Nat

VARIABLES
  client,    \* of every client: what it does, the epoch it was told, its calls
  request,   \* the frame on the way to the server
  reply,     \* the frame on the way back
  socket,    \* the server's end of the connection
  stuck,     \* handlers blocked in a socket that was closed under them
  handler,   \* the handler thread of every connection
  run,       \* the thread in ControlServer::run, with the connection it accepted
  listener,  \* is it open, and is run() blocked in it though it was closed
  backlog,   \* connections that wait to be accepted
  active,    \* active_
  conns,     \* connections_
  stopping,  \* stopping_
  epoch,     \* epoch_ of the coordinator
  ops,       \* active_operations_
  fabric     \* the coordinator: up, draining, drained, closed

peers  == <<client, request, reply>>
server == <<run, listener, backlog, active, conns, stopping>>
shared == <<epoch, ops, fabric>>
vars   == <<peers, socket, stuck, handler, server, shared>>

-----------------------------------------------------------------------------
(* Data *)

\* The epoch of a stamp, and whether its boot nonce is accepted: that of this boot, or
\* none at all.
Stamp   == [epoch: Nat, boot: BOOLEAN]
NoStamp == [epoch |-> 0, boot |-> TRUE]
Hello   == [kind |-> "hello", op |-> "hello", stamp |-> NoStamp]
Request(op, stamp) == [kind |-> "request", op |-> op, stamp |-> stamp]
\* Replies: the epoch, or an answer.
Welcome(e) == [kind |-> "welcome", epoch |-> e]
Answer     == [kind |-> "answer", epoch |-> 0]

\* A frame that is there as far as its header tells, and that receive() refuses: magic,
\* version, type or checksum are wrong, or the length is too small or above the limit.
Damaged == [kind |-> "damaged"]
\* A frame of which less is there than receive() waits for: it was cut short, or its
\* length was damaged to a larger one within the limit.
Short == [kind |-> "short"]

\* What arrives of a frame.
Arriving(frame) == {frame} \cup (IF "damage" \in Faults THEN {Damaged, Short} ELSE {})

\* Between two requests a handler remembers the handshake only.
Ready(pc, established) ==
  [pc |-> pc, established |-> established, op |-> "hello", stamp |-> NoStamp, since |-> 0]
Gone == [pc |-> "closed", epoch |-> 0, calls |-> 0]

Goes(c, pc) == handler' = [handler EXCEPT ![c].pc = pc]
\* serve() leaves its loop.
Ends(c) == handler' = [handler EXCEPT ![c] = Ready("end", FALSE)]
\* The response is there; of the request it only matters any more whether it was to stop.
Responds(c) ==
  handler' = [handler EXCEPT ![c] =
    [Ready("send", @.established) EXCEPT !.op = IF handler[c].op = "stop" THEN "stop" ELSE "query"]]

\* The clients that have something to call, and so may wait for an answer.
Caller == {c \in Client : Operations[c] # {}}

\* A connection is over for the client once the server's socket is closed and no
\* thread is blocked in it.
Ended(c) == socket[c] = "closed" /\ c \notin stuck

\* The socket of the listener lives as long as a thread is blocked in it.
Listening == listener # "closed"

-----------------------------------------------------------------------------
(* ControlClient *)

\* connect_loopback and the frame of handshake.  A client that has nothing to call does
\* not get as far as the handshake.
Connect(c) ==
  /\ client[c].pc = "new"
  /\ Listening
  /\ \/ /\ c \in Caller
        /\ client' = [client EXCEPT ![c].pc = "waiting"]
        /\ request' = [request EXCEPT ![c] = Hello]
     \/ /\ c \notin Caller
        /\ client' = [client EXCEPT ![c].pc = "idle"]
        /\ UNCHANGED request
  /\ backlog' = backlog \cup {c}
  /\ UNCHANGED <<reply, socket, stuck, handler, run, listener, active, conns, stopping,
                 shared>>

\* connect_loopback gives up after its retries.
ConnectRefused(c) ==
  /\ client[c].pc = "new"
  /\ ~Listening
  /\ client' = [client EXCEPT ![c] = Gone]
  /\ UNCHANGED <<request, reply, socket, stuck, handler, server, shared>>

\* call and call_with_stamp: the stamp is the one of the handshake or any other one.
Call(c, op, stamp) ==
  /\ client[c].pc = "idle" /\ client[c].calls < MaxCalls
  /\ client' = [client EXCEPT ![c].pc = "waiting", ![c].calls = @ + 1]
  /\ ~Ended(c)
  /\ request' = [request EXCEPT ![c] = Request(op, stamp)]
  /\ UNCHANGED <<reply, socket, stuck, handler, server, shared>>

\* An answer ends the call, and a welcome renews the stamp.  A damaged one poisons the
\* connection and fails the call; for the rest of a short one the client waits.
Return(c) ==
  /\ client[c].pc = "waiting"
  /\ reply[c] # None
  /\ \E f \in Arriving(reply[c]) :
       client' = [client EXCEPT ![c] =
         IF f.kind = "damaged" THEN Gone
         ELSE IF f.kind = "short" THEN [@ EXCEPT !.pc = "reading"]
         ELSE IF f.kind = "welcome" THEN [@ EXCEPT !.pc = "idle", !.epoch = f.epoch]
         ELSE [@ EXCEPT !.pc = "idle"]]
  /\ reply' = [reply EXCEPT ![c] = None]
  /\ UNCHANGED <<request, socket, stuck, handler, server, shared>>

Waits(c) == client[c].pc \in {"waiting", "reading"}

\* The peer closed the connection: the call fails.
Fail(c) ==
  /\ Waits(c)
  /\ reply[c] = None /\ Ended(c)
  /\ client' = [client EXCEPT ![c] = Gone]
  /\ UNCHANGED <<request, reply, socket, stuck, handler, server, shared>>

\* A client leaves between two calls, or dies in the middle of one; its request is on
\* the way nevertheless.
Close(c) ==
  /\ client[c].pc = "idle" \/ Waits(c)
  /\ client' = [client EXCEPT ![c] = Gone]
  /\ reply' = [reply EXCEPT ![c] = None]
  /\ UNCHANGED <<request, socket, stuck, handler, server, shared>>

-----------------------------------------------------------------------------
(* ControlServer::run *)

Accept(c) ==
  /\ run.pc = "accept"
  /\ Listening /\ c \in backlog
  /\ run' = [pc |-> "admit", accepted |-> c]
  /\ backlog' = backlog \ {c}
  /\ socket' = [socket EXCEPT ![c] = "open"]
  /\ listener' = IF listener = "blocked" THEN "closed" ELSE listener
  /\ UNCHANGED <<peers, stuck, handler, active, conns, stopping, shared>>

\* accept() fails on a closed listener; any other failure is tried again.
AcceptFails ==
  /\ run.pc = "accept"
  /\ ~Listening /\ stopping
  /\ run' = [run EXCEPT !.pc = "drain"]
  /\ UNCHANGED <<peers, socket, stuck, handler, listener, backlog, active, conns, stopping,
                 shared>>

\* Variant: one connection too many.
RoomForOneMore == active <= MaxConnections
Room == active < MaxConnections

\* A connection gets a handler of its own, or is closed at once.
Admit ==
  /\ run.pc = "admit"
  /\ LET c == run.accepted
     IN  \/ /\ ~stopping /\ Room
            /\ conns' = conns \cup {c} /\ active' = active + 1
            /\ Goes(c, "receive")
            /\ UNCHANGED socket
         \/ /\ stopping \/ ~Room
            /\ socket' = [socket EXCEPT ![c] = "closed"]
            /\ UNCHANGED <<conns, active, handler>>
  /\ run' = [pc |-> "accept", accepted |-> None]
  /\ UNCHANGED <<peers, stuck, listener, backlog, stopping, shared>>

Drained == active = 0

RunReturns ==
  /\ run.pc = "drain"
  /\ Drained
  /\ run' = [run EXCEPT !.pc = "returned"]
  /\ UNCHANGED <<peers, socket, stuck, handler, listener, backlog, active, conns, stopping,
                 shared>>

\* The system resets what waits at a listener that is gone.
Reset(c) ==
  /\ c \in backlog /\ ~Listening
  /\ backlog' = backlog \ {c}
  /\ socket' = [socket EXCEPT ![c] = "closed"]
  /\ UNCHANGED <<peers, stuck, handler, run, listener, active, conns, stopping, shared>>

-----------------------------------------------------------------------------
(* ControlServer::serve *)

\* Variant: the handler goes on after a frame that it cannot read.
AfterDamageAgain == "receive"
\* receive() fails on a damaged frame and poisons the connection.
AfterDamage == "end"

\* A handler whose frame arrives in a closed socket reads no more than its header.  One
\* that got a part of a frame goes on reading, and nothing limits how long.
Receive(c) ==
  /\ handler[c].pc = "receive"
  /\ request[c] # None
  /\ request' = [request EXCEPT ![c] = None]
  /\ stuck' = stuck \ {c}
  /\ \E f \in Arriving(request[c]) :
         handler' = [handler EXCEPT ![c] =
           IF socket[c] = "closed" THEN Ready("end", FALSE)
           ELSE IF f.kind = "short" THEN Ready("reading", FALSE)
           ELSE IF f.kind = "damaged" THEN Ready(AfterDamage, FALSE)
           ELSE IF f.kind = "hello" THEN Ready("send", TRUE)
           ELSE IF ~@.established \/ f.op = "query" THEN [@ EXCEPT !.pc = "send", !.op = "query"]
           ELSE [@ EXCEPT !.pc = "dispatch", !.op = f.op, !.stamp = f.stamp, !.since = epoch]]
  /\ UNCHANGED <<client, reply, socket, server, shared>>

\* Is the handler blocked in recv_exact?
Blocked(c) ==
  \/ handler[c].pc = "receive" /\ request[c] = None
  \/ handler[c].pc = "reading"

\* The client closed the connection, or stop() did and the thread was woken.
ReceiveFails(c) ==
  /\ Blocked(c)
  /\ client[c].pc = "closed" \/ (socket[c] = "closed" /\ c \notin stuck)
  /\ Ends(c)
  /\ stuck' = stuck \ {c}
  /\ UNCHANGED <<peers, socket, server, shared>>

\* The welcome tells the epoch of now.  A connection that was closed ends here; that the
\* client is gone, send may or may not find out.
Send(c) ==
  /\ handler[c].pc = "send"
  /\ \/ /\ socket[c] = "closed" \/ client[c].pc = "closed"
        /\ Ends(c) /\ UNCHANGED reply
     \/ /\ socket[c] # "closed"
        /\ handler' = [handler EXCEPT ![c] =
             Ready(IF @.op = "stop" THEN "stop" ELSE "receive", @.established)]
        /\ reply' = [reply EXCEPT ![c] =
             IF client[c].pc = "closed" THEN None
             ELSE IF handler[c].op = "hello" THEN Welcome(epoch) ELSE Answer]
  /\ UNCHANGED <<client, request, socket, stuck, server, shared>>

\* A request to stop stops the server.
StopFlag(c) ==
  /\ handler[c].pc = "stop"
  /\ IF stopping THEN Ends(c) ELSE Goes(c, "closing")
  /\ stopping' = TRUE
  /\ UNCHANGED <<peers, socket, stuck, run, listener, backlog, active, conns, shared>>

\* Variant: the listener is left open.
ListenerAfterStopOpen(blocked) == "open"
ListenerAfterStop(blocked) == IF blocked THEN "blocked" ELSE "closed"

\* The listener and the connections are closed outside of the lock.  Where that wakes
\* nobody, a thread that waits in one of them may be blocked there.
StopClose(c) ==
  /\ handler[c].pc = "closing"
  /\ Ends(c)
  /\ socket' = [d \in Client |-> IF d \in conns THEN "closed" ELSE socket[d]]
  /\ \E blocked \in BOOLEAN, S \in SUBSET {d \in conns \ {c} : Blocked(d)} :
       /\ blocked => run.pc = "accept" /\ backlog = {}
       /\ listener' = ListenerAfterStop(blocked)
       /\ stuck' = {d \in S : socket[d] = "open"}
  /\ UNCHANGED <<peers, run, backlog, active, conns, stopping, shared>>

\* The handler closes its connection and takes itself off the books.
End(c) ==
  /\ handler[c].pc = "end"
  /\ socket' = [socket EXCEPT ![c] = "closed"]
  /\ active' = active - 1 /\ conns' = conns \ {c}
  /\ handler' = [handler EXCEPT ![c] = Ready("gone", FALSE)]
  /\ request' = [request EXCEPT ![c] = None]
  /\ UNCHANGED <<client, reply, stuck, run, listener, backlog, stopping, shared>>

-----------------------------------------------------------------------------
(* ControlDispatcher::dispatch *)

\* Variant: any epoch will do.
SameEpochAny(stamp) == stamp.epoch # 0
SameEpoch(stamp) == stamp.epoch # 0 /\ stamp.epoch = epoch

\* stale_check: a request to stop needs no stamp.  The boot, which is compared under the
\* lock taken again, never changes.
Check(c) ==
  /\ handler[c].pc = "dispatch"
  /\ IF handler[c].op # "stop" /\ SameEpoch(handler[c].stamp) /\ handler[c].stamp.boot
     THEN Goes(c, "guard") ELSE Responds(c)
  /\ UNCHANGED <<peers, socket, stuck, server, shared>>

-----------------------------------------------------------------------------
(* The coordinator: OperationGuard, the check of running_, shutdown *)

Guard(c) ==
  /\ handler[c].pc = "guard"
  /\ ops' = ops + 1
  /\ Goes(c, "enter")
  /\ UNCHANGED <<peers, socket, stuck, server, epoch, fabric>>

\* Variant: an operation that is refused leaves its guard behind.
AfterRefusalKept == ops
AfterRefusal == ops - 1

\* The first critical section; an advance of the epoch happens in it.
Enter(c) ==
  /\ handler[c].pc = "enter"
  /\ \/ /\ fabric = "up"
        /\ epoch' = IF handler[c].op = "advance" THEN epoch + 1 ELSE epoch
        /\ Goes(c, "operating")
        /\ UNCHANGED ops
     \/ /\ fabric # "up"
        /\ ops' = AfterRefusal
        /\ Responds(c)
        /\ UNCHANGED epoch
  /\ UNCHANGED <<peers, socket, stuck, server, fabric>>

Finish(c) ==
  /\ handler[c].pc = "operating"
  /\ ops' = ops - 1
  /\ Responds(c)
  /\ UNCHANGED <<peers, socket, stuck, server, epoch, fabric>>

\* shutdown() refuses new operations, waits for the ones in flight, and then takes the
\* durable store away under another lock.
ShutdownBegins ==
  /\ fabric = "up"
  /\ run.pc = "returned" \/ "shutdown" \in Faults
  /\ fabric' = "draining"
  /\ UNCHANGED <<peers, socket, stuck, handler, server, epoch, ops>>

\* Variant: it does not wait.
NoOperationIgnored == TRUE
NoOperation == ops = 0

ShutdownDrained ==
  /\ fabric = "draining"
  /\ NoOperation
  /\ fabric' = "drained"
  /\ UNCHANGED <<peers, socket, stuck, handler, server, epoch, ops>>

ShutdownCloses ==
  /\ fabric = "drained"
  /\ fabric' = "closed"
  /\ UNCHANGED <<peers, socket, stuck, handler, server, epoch, ops>>

-----------------------------------------------------------------------------
(* The specification *)

Init ==
  /\ client = [c \in Client |-> [pc |-> "new", epoch |-> 0, calls |-> 0]]
  /\ request = [c \in Client |-> None] /\ reply = [c \in Client |-> None]
  /\ socket = [c \in Client |-> "none"] /\ stuck = {}
  /\ handler = [c \in Client |-> Ready("none", FALSE)]
  /\ run = [pc |-> "accept", accepted |-> None]
  /\ listener = "open" /\ backlog = {}
  /\ active = 0 /\ conns = {} /\ stopping = FALSE
  /\ epoch = 1 /\ ops = 0 /\ fabric = "up"

\* The stamp of the handshake, and stamps of callers that were not told this one.
Stamps(c) == {[epoch |-> client[c].epoch, boot |-> b] : b \in BOOLEAN} \cup {NoStamp}

\* A request for the epoch, one that is malformed, or one to stop goes by no stamp.
Requests(c) ==
  ((Operations[c] \cap {"work", "advance"}) \X Stamps(c))
    \cup ((Operations[c] \cap {"query", "stop"}) \X {NoStamp})

Peer(c) ==
  \/ Connect(c) \/ ConnectRefused(c) \/ Close(c)
  \/ \E r \in Requests(c) : Call(c, r[1], r[2])
Answered(c) == Return(c) \/ Fail(c)
Handler(c) ==
  \/ Receive(c) \/ ReceiveFails(c) \/ Send(c) \/ StopFlag(c) \/ StopClose(c) \/ End(c)
  \/ Check(c) \/ Guard(c) \/ Enter(c) \/ Finish(c)
Run      == (\E c \in Client : Accept(c)) \/ AcceptFails \/ Admit \/ RunReturns
Shutdown == ShutdownBegins \/ ShutdownDrained \/ ShutdownCloses

Next ==
  \/ \E c \in Client : Peer(c) \/ Answered(c) \/ Handler(c) \/ Reset(c)
  \/ Run \/ Shutdown

Spec == Init /\ [][Next]_vars

\* Threads that can go on do, and a client reads what it waits for.  Nothing makes a
\* client call, or leave.
Fairness ==
  /\ \A c \in Caller : WF_vars(Answered(c))
  /\ \A c \in Client : WF_vars(Handler(c) \/ Reset(c))
  /\ WF_vars(Run)
  /\ WF_vars(ShutdownDrained \/ ShutdownCloses)

FairSpec == Spec /\ Fairness

-----------------------------------------------------------------------------
(* Properties *)

\* Every variable has its type.
TypeOK ==
  /\ \A c \in Client :
       /\ client[c].pc \in {"new", "waiting", "reading", "idle", "closed"}
       /\ client[c].epoch \in Nat /\ client[c].calls \in 0 .. MaxCalls
       /\ handler[c].stamp \in Stamp
  /\ socket \in [Client -> {"none", "open", "closed"}]
  /\ stuck \subseteq Client /\ conns \subseteq Client /\ backlog \subseteq Client
  /\ listener \in {"open", "blocked", "closed"}
  /\ active \in 0 .. MaxConnections
  /\ ops \in 0 .. Cardinality(Client)
  /\ epoch \in Nat /\ fabric \in {"up", "draining", "drained", "closed"}

Working == {c \in Client : handler[c].pc \notin {"none", "gone"}}

Operating == {c \in Client : handler[c].pc \in {"enter", "operating"}}

\* The counters that run() and shutdown() wait for count exactly the handlers that are
\* still at work, and the operations that are in flight.
CountersExact ==
  /\ active = Cardinality(Working) /\ conns = Working
  /\ ops = Cardinality(Operating)

\* When run() has returned, no handler is left that would use the server; the store is
\* closed only when no operation that was let in is still in flight.
NothingOutlivesItsServer ==
  /\ run.pc = "returned" => Working = {}
  /\ fabric = "closed" => \A c \in Client : handler[c].pc # "operating"

\* An operation is carried out only for a stamp that was of the present epoch when the
\* request was received or later, never for one that was superseded before.
SupersededIsFenced ==
  \A c \in Client : handler[c].pc \in {"guard", "enter", "operating"} =>
    handler[c].stamp.epoch >= handler[c].since /\ handler[c].stamp.boot

\* The rest of a request or of a reply is missing, and neither side has a timeout: they
\* wait until the server stops, or for good where that does not wake the handler.
CutShort(c) ==
  /\ handler[c].pc = "reading" \/ client[c].pc = "reading"
  /\ stopping => c \in stuck

\* A client that waits gets an answer or loses its connection, whatever is damaged,
\* stopped, refused or shut down meanwhile, unless the frame that it sent or waits for is
\* cut short.
CallsReturn ==
  \A c \in Caller : Waits(c) ~> (~Waits(c) \/ CutShort(c))

\* What still holds run() up where closing a socket does not wake who is blocked in it: a
\* listener to which nobody connects, a client that neither calls nor leaves.
Held == listener = "blocked" \/ \E c \in stuck : client[c].pc # "closed"

\* After a request to stop run() returns.  It needs the help of the clients only where
\* closing a socket does not wake its thread, and there it returns when that help comes:
\* unless something holds it up for good.
StopEnds == <>stopping => <>(run.pc = "returned") \/ <>[]Held

\* shutdown() ends: what is refused meanwhile does not hold it up for good.
ShutdownEnds == fabric = "draining" ~> fabric = "closed"

=============================================================================
