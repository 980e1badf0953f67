-------------------------- MODULE ControlPlaneProofs --------------------------
(***************************************************************************)
(* Proofs about ControlPlane, for any number of clients, calls and         *)
(* connections and for every combination of faults.                        *)
(*                                                                         *)
(* The inductive invariant Inv says, beyond the properties themselves,     *)
(* what the variables are (Types), that a connection is waiting, being     *)
(* admitted or served, but only one of the three (Phases), that no         *)
(* request was received in an epoch that has not begun (Fenced), and that  *)
(* an operation in flight keeps shutdown() waiting (Quiet).                *)
(***************************************************************************)
EXTENDS ControlPlane, FiniteSetTheorems, TLAPS

-----------------------------------------------------------------------------
(* The inductive invariant *)

OperationNames == {"hello", "query", "work", "advance", "stop"}
HandlerPCs == {"none", "receive", "reading", "send", "stop", "closing", "end", "gone",
               "dispatch", "guard", "enter", "operating"}

ClientState  == [pc: {"new", "waiting", "reading", "idle", "closed"}, epoch: Nat,
                 calls: 0 .. MaxCalls]
HandlerState == [pc: HandlerPCs, established: BOOLEAN, op: OperationNames, stamp: Stamp,
                 since: Nat]
Frame     == [kind: {"hello", "request"}, op: OperationNames, stamp: Stamp]
Reply     == [kind: {"welcome", "answer"}, epoch: Nat]
RunState  == [pc: {"accept", "admit", "drain", "returned"}, accepted: Client \cup {None}]

PeerTypes ==
  /\ client \in [Client -> ClientState]
  /\ request \in [Client -> Frame \cup {None}]
  /\ reply \in [Client -> Reply \cup {None}]

ServerTypes ==
  /\ socket \in [Client -> {"none", "open", "closed"}]
  /\ stuck \subseteq Client /\ backlog \subseteq Client /\ conns \subseteq Client
  /\ handler \in [Client -> HandlerState]
  /\ run \in RunState
  /\ listener \in {"open", "blocked", "closed"}
  /\ active \in Int /\ active <= MaxConnections /\ stopping \in BOOLEAN

SharedTypes ==
  /\ epoch \in Nat /\ ops \in Int
  /\ fabric \in {"up", "draining", "drained", "closed"}

Types == PeerTypes /\ ServerTypes /\ SharedTypes

\* Until it is admitted a connection has no handler, and it waits in one place.
Phases ==
  /\ \A c \in Client : client[c].pc = "new" => c \notin backlog /\ handler[c].pc = "none"
  /\ \A c \in backlog : handler[c].pc = "none"
  /\ run.pc = "admit" =>
       /\ run.accepted \in Client \ backlog
       /\ client[run.accepted].pc # "new" /\ handler[run.accepted].pc = "none"

\* No handler received its request in an epoch to come.
NotFromTheFuture == \A c \in Client : handler[c].since <= epoch

\* Once shutdown() has seen no operation, none is carried out.
Quiet ==
  fabric \in {"drained", "closed"} => \A c \in Client : handler[c].pc # "operating"

Inv == Types /\ Phases /\ CountersExact /\ NotFromTheFuture /\ SupersededIsFenced
       /\ Quiet /\ (run.pc = "returned" => Working = {})

-----------------------------------------------------------------------------
(* Types *)

LEMMA FramesAreTyped ==
  /\ NoStamp \in Stamp /\ Hello \in Frame
  /\ \A op \in OperationNames, s \in Stamp : Request(op, s) \in Frame
  /\ \A pc \in HandlerPCs, b \in BOOLEAN : Ready(pc, b) \in HandlerState
  /\ \A e \in Nat : Welcome(e) \in Reply
  /\ Answer \in Reply
  BY DEF NoStamp, Stamp, Hello, Frame, Request, Ready, HandlerState, HandlerPCs,
         OperationNames, Welcome, Answer, Reply

\* A frame that was not lost arrives as it was sent.
LEMMA ArrivesAsSent ==
  ASSUME NEW frame, NEW f \in Arriving(frame), f.kind \notin {"damaged", "short"}
  PROVE  f = frame
  BY DEF Arriving, Damaged, Short

LEMMA InitTypes == Init => Types
  <1> SUFFICES ASSUME Init
               PROVE  Types
    OBVIOUS
  <1>1. PeerTypes
    BY ControlAssumption DEF Init, PeerTypes, ClientState
  <1>2. ServerTypes
    <2>1. Ready("none", FALSE) \in HandlerState
      BY FramesAreTyped DEF HandlerPCs
    <2>2. active \in Int /\ active <= MaxConnections
      BY ControlAssumption DEF Init
    <2> QED
      BY <2>1, <2>2 DEF Init, ServerTypes, RunState
  <1>3. SharedTypes
    BY DEF Init, SharedTypes
  <1> QED
    BY <1>1, <1>2, <1>3 DEF Types

LEMMA GoesTyped ==
  ASSUME Types, NEW c \in Client, NEW pc \in HandlerPCs, Goes(c, pc)
  PROVE  handler' \in [Client -> HandlerState]
  BY DEF Types, ServerTypes, Goes, HandlerState

LEMMA RespondsTyped ==
  ASSUME Types, NEW c \in Client, Responds(c)
  PROVE  handler' \in [Client -> HandlerState]
  <1>1. handler[c] \in HandlerState
    BY DEF Types, ServerTypes
  <1>2. \A op \in {"stop", "query"} :
          [Ready("send", handler[c].established) EXCEPT !.op = op] \in HandlerState
    <2>1. Ready("send", handler[c].established) \in HandlerState
      BY <1>1, FramesAreTyped DEF HandlerState, HandlerPCs
    <2> QED
      BY <2>1 DEF HandlerState, OperationNames
  <1> QED
    BY <1>2 DEF Responds, Types, ServerTypes

LEMMA EndsTyped ==
  ASSUME Types, NEW c \in Client, Ends(c)
  PROVE  handler' \in [Client -> HandlerState]
  <1>1. Ready("end", FALSE) \in HandlerState
    BY FramesAreTyped DEF HandlerPCs
  <1> QED
    BY <1>1 DEF Ends, Types, ServerTypes

\* What a client got of its reply: the call is over, or the client goes on reading.
LEMMA ReturnMoves ==
  ASSUME Types, NEW c \in Client, Return(c)
  PROVE  /\ client'[c] \in ClientState /\ client'[c].pc # "new"
         /\ client' = [client EXCEPT ![c] = client'[c]]
  <1>1. client[c] \in ClientState /\ reply[c] \in Reply /\ client \in [Client -> ClientState]
    BY DEF Return, Types, PeerTypes
  <1>2. PICK f \in Arriving(reply[c]) :
          client' = [client EXCEPT ![c] =
            IF f.kind = "damaged" THEN Gone
            ELSE IF f.kind = "short" THEN [@ EXCEPT !.pc = "reading"]
            ELSE IF f.kind = "welcome" THEN [@ EXCEPT !.pc = "idle", !.epoch = f.epoch]
            ELSE [@ EXCEPT !.pc = "idle"]]
    BY DEF Return
  <1>3. Gone \in ClientState /\ Gone.pc # "new"
    BY ControlAssumption DEF Gone, ClientState
  <1>4. /\ [client[c] EXCEPT !.pc = "reading"] \in ClientState
        /\ [client[c] EXCEPT !.pc = "idle"] \in ClientState
        /\ \A e \in Nat : [client[c] EXCEPT !.pc = "idle", !.epoch = e] \in ClientState
    BY <1>1 DEF ClientState
  <1>5. f.kind \notin {"damaged", "short"} => f.epoch \in Nat
    BY <1>1, ArrivesAsSent DEF Reply
  <1>6. client'[c] \in ClientState /\ client'[c].pc # "new"
    BY <1>1, <1>2, <1>3, <1>4, <1>5 DEF ClientState
  <1> QED
    BY <1>1, <1>2, <1>6

\* The client keeps the types of what it shares with the server.
LEMMA PeerStepTypes ==
  ASSUME Types, NEW c \in Client, Peer(c) \/ Answered(c)
  PROVE  Types'
  <1>1. client[c] \in ClientState /\ reply[c] \in Reply \cup {None}
    BY DEF Types, PeerTypes
  <1>2. CASE Connect(c)
    <2>1. request' \in [Client -> Frame \cup {None}]
      BY <1>2, FramesAreTyped DEF Connect, Types, PeerTypes
    <2>2. client' \in [Client -> ClientState]
      <3>1. \A pc \in {"waiting", "idle"} : [client[c] EXCEPT !.pc = pc] \in ClientState
        BY <1>1 DEF ClientState
      <3> QED
        BY <1>2, <3>1 DEF Connect, Types, PeerTypes
    <2>3. backlog' \subseteq Client
      BY <1>2 DEF Connect, Types, ServerTypes
    <2> QED
      BY <1>2, <2>1, <2>2, <2>3 DEF Connect, Types, PeerTypes, ServerTypes, SharedTypes, shared
  <1>3. CASE \/ ConnectRefused(c) \/ Close(c) \/ Fail(c)
    <2>1. Gone \in ClientState
      BY ControlAssumption DEF Gone, ClientState
    <2> QED
      BY <1>3, <2>1 DEF ConnectRefused, Close, Fail, Types, PeerTypes, ServerTypes, SharedTypes,
                        server, shared
  <1>4. ASSUME NEW r \in Requests(c), Call(c, r[1], r[2])
        PROVE  Types'
    <2>1. r[1] \in OperationNames /\ r[2] \in Stamp
      BY <1>1, FramesAreTyped
         DEF Requests, Stamps, OperationNames, ClientState, Stamp
    <2>2. request' \in [Client -> Frame \cup {None}]
      BY <1>4, <2>1, FramesAreTyped DEF Call, Types, PeerTypes
    <2>3. client' \in [Client -> ClientState]
      <3>1. client[c].calls + 1 \in 0 .. MaxCalls
        BY <1>1, <1>4, ControlAssumption DEF Call, ClientState
      <3> QED
        BY <1>1, <1>4, <3>1 DEF Call, Types, PeerTypes, ClientState
    <2> QED
      BY <1>4, <2>2, <2>3 DEF Call, Types, PeerTypes, ServerTypes, SharedTypes, server, shared
  <1>5. CASE Return(c)
    <2>1. client' \in [Client -> ClientState]
      BY <1>5, ReturnMoves DEF Types, PeerTypes
    <2> QED
      BY <1>5, <2>1 DEF Return, Types, PeerTypes, ServerTypes, SharedTypes, server, shared
  <1> QED
    BY <1>2, <1>3, <1>4, <1>5 DEF Peer, Answered

LEMMA RunStepTypes ==
  ASSUME Types, Phases, Run \/ \E c \in Client : Reset(c)
  PROVE  Types'
  <1>1. ASSUME NEW c \in Client, Accept(c) \/ Reset(c)
        PROVE  Types'
    BY <1>1 DEF Accept, Reset, Types, PeerTypes, ServerTypes, SharedTypes, RunState, peers, shared
  <1>2. CASE AcceptFails \/ RunReturns
    BY <1>2 DEF AcceptFails, RunReturns, Types, PeerTypes, ServerTypes, SharedTypes, RunState,
                peers, shared
  <1>3. CASE Admit
    <2> DEFINE c == run.accepted
    <2>1. /\ run' \in RunState /\ UNCHANGED <<peers, stuck, listener, backlog, stopping, shared>>
          /\ c \in Client
      BY <1>3 DEF Admit, RunState, Phases
    <2>2. CASE /\ Room /\ conns' = conns \cup {c} /\ active' = active + 1
               /\ Goes(c, "receive") /\ UNCHANGED socket
      <3>1. active' \in Int /\ active' <= MaxConnections
        BY <2>2, ControlAssumption DEF Room, Types, ServerTypes
      <3>2. handler' \in [Client -> HandlerState]
        BY <2>1, <2>2, GoesTyped DEF HandlerPCs
      <3> QED
        BY <2>1, <2>2, <3>1, <3>2 DEF Types, PeerTypes, ServerTypes, SharedTypes, peers, shared
    <2>3. CASE socket' = [socket EXCEPT ![c] = "closed"] /\ UNCHANGED <<conns, active, handler>>
      BY <2>1, <2>3 DEF Types, PeerTypes, ServerTypes, SharedTypes, peers, shared
    <2> QED
      BY <1>3, <2>1, <2>2, <2>3 DEF Admit
  <1> QED
    BY <1>1, <1>2, <1>3 DEF Run

LEMMA ShutdownTypes ==
  ASSUME Types, Shutdown
  PROVE  Types'
  BY DEF Shutdown, ShutdownBegins, ShutdownDrained, ShutdownCloses, Types, PeerTypes, ServerTypes,
         SharedTypes, peers, server

\* What a handler does to the types: its own record, and what it shares.
LEMMA HandlerTypes ==
  ASSUME Types, NEW c \in Client, Handler(c)
  PROVE  Types'
  <1>1. handler[c] \in HandlerState /\ request[c] \in Frame \cup {None}
    BY DEF Types, PeerTypes, ServerTypes
  <1>2. CASE Receive(c)
    <2>1. PICK f \in Arriving(request[c]) :
            handler' = [handler EXCEPT ![c] =
              IF socket[c] = "closed" THEN Ready("end", FALSE)
              ELSE IF f.kind = "short" THEN Ready("reading", FALSE)
              ELSE IF f.kind = "damaged" THEN Ready("end", FALSE)
              ELSE IF f.kind = "hello" THEN Ready("send", TRUE)
              ELSE IF ~@.established \/ f.op = "query"
                   THEN [@ EXCEPT !.pc = "send", !.op = "query"]
              ELSE [@ EXCEPT !.pc = "dispatch", !.op = f.op, !.stamp = f.stamp, !.since = epoch]]
      BY <1>2 DEF Receive, AfterDamage
    <2>2. handler' \in [Client -> HandlerState]
      <3> DEFINE h == handler[c]
      <3>1. request[c] \in Frame /\ epoch \in Nat
        BY <1>1, <1>2 DEF Receive, Types, SharedTypes
      <3>2. /\ Ready("send", TRUE) \in HandlerState
            /\ Ready("end", FALSE) \in HandlerState
            /\ Ready("reading", FALSE) \in HandlerState
        BY FramesAreTyped DEF HandlerPCs
      <3>3. [h EXCEPT !.pc = "send", !.op = "query"] \in HandlerState
        BY <1>1 DEF HandlerState, HandlerPCs, OperationNames
      <3>4. f.kind \notin {"damaged", "short"} =>
              [h EXCEPT !.pc = "dispatch", !.op = f.op, !.stamp = f.stamp, !.since = epoch]
                \in HandlerState
        BY <1>1, <3>1, ArrivesAsSent DEF HandlerState, HandlerPCs, Frame
      <3>5. handler'[c] \in HandlerState
        BY <2>1, <3>2, <3>3, <3>4 DEF Types, ServerTypes
      <3> QED
        BY <2>1, <3>5 DEF Types, ServerTypes
    <2> QED
      BY <1>2, <2>2 DEF Receive, Types, PeerTypes, ServerTypes, SharedTypes, server, shared
  <1>3. CASE ReceiveFails(c)
    <2>1. handler' \in [Client -> HandlerState]
      BY <1>3, EndsTyped DEF ReceiveFails
    <2> QED
      BY <1>3, <2>1 DEF ReceiveFails, Types, PeerTypes, ServerTypes, SharedTypes, peers, server,
                        shared
  <1>4. CASE Send(c)
    <2>1. UNCHANGED <<client, request, socket, stuck, server, shared>>
      BY <1>4 DEF Send
    <2>2. CASE Ends(c) /\ UNCHANGED reply
      <3>1. handler' \in [Client -> HandlerState]
        BY <2>2, EndsTyped
      <3> QED
        BY <2>1, <2>2, <3>1 DEF Types, PeerTypes, ServerTypes, SharedTypes, server, shared
    <2>3. CASE /\ handler' = [handler EXCEPT ![c] =
                     Ready(IF @.op = "stop" THEN "stop" ELSE "receive", @.established)]
               /\ reply' = [reply EXCEPT ![c] =
                     IF client[c].pc = "closed" THEN None
                     ELSE IF handler[c].op = "hello" THEN Welcome(epoch) ELSE Answer]
      <3>1. Welcome(epoch) \in Reply /\ Answer \in Reply
        BY FramesAreTyped DEF Types, SharedTypes
      <3>2. \A pc \in {"stop", "receive"} : Ready(pc, handler[c].established) \in HandlerState
        BY <1>1, FramesAreTyped DEF HandlerState, HandlerPCs
      <3> QED
        BY <2>1, <2>3, <3>1, <3>2 DEF Types, PeerTypes, ServerTypes, SharedTypes, server, shared
    <2> QED
      BY <1>4, <2>2, <2>3 DEF Send
  <1>5. CASE StopFlag(c)
    <2>1. handler' \in [Client -> HandlerState]
      <3>1. \A pc \in HandlerPCs : Goes(c, pc) => handler' \in [Client -> HandlerState]
        BY GoesTyped
      <3> QED
        BY <1>5, <3>1, EndsTyped DEF StopFlag, HandlerPCs
    <2> QED
      BY <1>5, <2>1 DEF StopFlag, Types, PeerTypes, ServerTypes, SharedTypes, peers, shared
  <1>6. CASE StopClose(c)
    <2>1. handler' \in [Client -> HandlerState]
      BY <1>6, EndsTyped DEF StopClose
    <2>2. stuck' \subseteq Client /\ listener' \in {"open", "blocked", "closed"}
      BY <1>6 DEF StopClose, ListenerAfterStop, Types, ServerTypes
    <2> QED
      BY <1>6, <2>1, <2>2 DEF StopClose, Types, PeerTypes, ServerTypes, SharedTypes, peers, shared
  <1>7. CASE End(c)
    <2>1. handler' \in [Client -> HandlerState]
      BY <1>7, FramesAreTyped DEF End, HandlerPCs, Types, ServerTypes
    <2>2. active' \in Int /\ active' <= MaxConnections
      BY <1>7, ControlAssumption DEF End, Types, ServerTypes
    <2> QED
      BY <1>7, <2>1, <2>2 DEF End, Types, PeerTypes, ServerTypes, SharedTypes, shared
  <1>8. CASE \/ Check(c) \/ Guard(c) \/ Enter(c) \/ Finish(c)
    <2>1. \A pc \in HandlerPCs : Goes(c, pc) => handler' \in [Client -> HandlerState]
      BY GoesTyped
    <2>2. handler' \in [Client -> HandlerState]
      BY <1>8, <2>1, RespondsTyped DEF Check, Guard, Enter, Finish, HandlerPCs
    <2>3. epoch' \in Nat /\ ops' \in Int
      BY <1>8 DEF Check, Guard, Enter, Finish, AfterRefusal, Types, SharedTypes, shared
    <2> QED
      BY <1>8, <2>2, <2>3 DEF Check, Guard, Enter, Finish, Types, PeerTypes, ServerTypes,
                              SharedTypes, peers, server, shared
  <1> QED
    BY <1>2, <1>3, <1>4, <1>5, <1>6, <1>7, <1>8 DEF Handler

LEMMA StepTypes ==
  ASSUME Types, Phases, [Next]_vars
  PROVE  Types'
  <1>1. CASE UNCHANGED vars
    BY <1>1 DEF vars, peers, server, shared, Types, PeerTypes, ServerTypes, SharedTypes
  <1> QED
    BY <1>1, PeerStepTypes, HandlerTypes, RunStepTypes, ShutdownTypes DEF Next

-----------------------------------------------------------------------------
(* Every connection is in one place *)

\* A handler's step leaves the other handlers, the clients' progress and the queue alone.
LEMMA HandlerMoves ==
  ASSUME Types, NEW c \in Client, Handler(c)
  PROVE  /\ handler[c].pc \notin {"none", "gone"}
         /\ \A d \in Client \ {c} : handler'[d] = handler[d]
         /\ UNCHANGED <<client, run, backlog>>
  <1>1. handler \in [Client -> HandlerState]
    BY DEF Types, ServerTypes
  <1> USE <1>1 DEF Goes, Responds, Ends, peers, server
  <1>2. CASE Receive(c)
    BY <1>2 DEF Receive
  <1>3. CASE ReceiveFails(c) \/ Send(c) \/ StopFlag(c) \/ StopClose(c) \/ End(c)
    BY <1>3 DEF ReceiveFails, Blocked, Send, StopFlag, StopClose, End
  <1>4. CASE Check(c) \/ Guard(c) \/ Enter(c) \/ Finish(c)
    BY <1>4 DEF Check, Guard, Enter, Finish
  <1> QED
    BY <1>2, <1>3, <1>4 DEF Handler

\* A client's step moves the client on, from its start for good.
LEMMA PeerMoves ==
  ASSUME Types, NEW c \in Client, Peer(c) \/ Answered(c)
  PROVE  /\ client'[c].pc # "new"
         /\ \A d \in Client \ {c} : client'[d] = client[d]
         /\ UNCHANGED <<handler, run, conns, active, epoch, ops, fabric>>
         /\ \/ UNCHANGED backlog
            \/ client[c].pc = "new" /\ backlog' = backlog \cup {c}
  <1>1. client \in [Client -> ClientState]
    BY DEF Types, PeerTypes
  <1> USE <1>1 DEF ClientState, server, shared
  <1>2. CASE Connect(c)
    BY <1>2 DEF Connect
  <1>3. CASE ConnectRefused(c) \/ Close(c) \/ Fail(c)
    BY <1>3 DEF ConnectRefused, Close, Fail, Waits, Gone
  <1>5. CASE Return(c)
    BY <1>5, ReturnMoves DEF Return
  <1>4. ASSUME NEW r \in Requests(c), Call(c, r[1], r[2])
        PROVE  /\ client'[c].pc # "new"
               /\ \A d \in Client \ {c} : client'[d] = client[d]
               /\ UNCHANGED <<handler, run, conns, active, epoch, ops, fabric, backlog>>
               /\ client[c].pc # "new"
    BY <1>4 DEF Call
  <1> QED
    BY <1>2, <1>3, <1>4, <1>5 DEF Peer, Answered

\* Only the admission gives a connection its handler.
LEMMA OthersKeepHandlers ==
  ASSUME Types, Shutdown \/ AcceptFails \/ RunReturns \/ \E c \in Client : Accept(c) \/ Reset(c)
  PROVE  UNCHANGED <<client, handler, active, conns, epoch, ops>> /\ backlog' \subseteq backlog
  BY DEF Shutdown, ShutdownBegins, ShutdownDrained, ShutdownCloses, AcceptFails, RunReturns,
         Accept, Reset, peers, server, shared

LEMMA AdmitMoves ==
  ASSUME Types, Phases, Admit
  PROVE  /\ run.accepted \in Client /\ run'.pc = "accept"
         /\ handler[run.accepted].pc = "none" /\ client[run.accepted].pc # "new"
         /\ run.accepted \notin backlog
         /\ UNCHANGED <<client, backlog, epoch, ops, fabric>>
         /\ \A d \in Client \ {run.accepted} : handler'[d] = handler[d]
         /\ handler'[run.accepted].since = handler[run.accepted].since
         /\ \/ UNCHANGED <<handler, active, conns>>
            \/ /\ handler'[run.accepted].pc = "receive"
               /\ active' = active + 1 /\ conns' = conns \cup {run.accepted}
  BY DEF Admit, Phases, Goes, peers, shared, Types, ServerTypes, HandlerState

LEMMA StepPhases ==
  ASSUME Types, Phases, [Next]_vars
  PROVE  Phases'
  <1>1. CASE UNCHANGED vars
    BY <1>1 DEF vars, peers, server, shared, Phases
  <1>2. ASSUME NEW c \in Client, Peer(c) \/ Answered(c)
        PROVE  Phases'
    BY <1>2, PeerMoves DEF Phases, Types, ServerTypes
  <1>3. ASSUME NEW c \in Client, Handler(c)
        PROVE  Phases'
    BY <1>3, HandlerMoves DEF Phases, Types, ServerTypes
  <1>4. ASSUME NEW c \in Client, Accept(c)
        PROVE  Phases'
    BY <1>4 DEF Accept, Phases, Types, ServerTypes, peers
  <1>5. CASE \/ Shutdown \/ AcceptFails \/ RunReturns \/ \E c \in Client : Reset(c)
    <2>1. UNCHANGED <<client, handler>> /\ backlog' \subseteq backlog
      BY <1>5, OthersKeepHandlers
    <2>2. run' = run \/ run'.pc # "admit"
      BY <1>5 DEF Shutdown, ShutdownBegins, ShutdownDrained, ShutdownCloses, AcceptFails,
                  RunReturns, Reset, server, Types, ServerTypes, RunState
    <2> QED
      BY <2>1, <2>2 DEF Phases, Types, ServerTypes
  <1>6. CASE Admit
    BY <1>6, AdmitMoves DEF Phases, Types, ServerTypes
  <1> QED
    BY <1>1, <1>2, <1>3, <1>4, <1>5, <1>6 DEF Next, Run

-----------------------------------------------------------------------------
(* The counters *)

\* One element more, one element less.
LEMMA Counting ==
  ASSUME NEW S, IsFiniteSet(S), NEW c
  PROVE  /\ c \notin S => Cardinality(S \cup {c}) = Cardinality(S) + 1
         /\ c \in S => Cardinality(S \ {c}) = Cardinality(S) - 1
  BY FS_AddElement, FS_RemoveElement

LEMMA CountsAreFinite ==
  /\ IsFiniteSet(Working) /\ IsFiniteSet(Operating)
  /\ Cardinality(Operating) <= Cardinality(Client)
  /\ Cardinality(Working) \in Nat /\ Cardinality(Operating) \in Nat
  BY ControlAssumption, FS_Subset, FS_CardinalityType DEF Working, Operating

\* What the step of a handler counts.
LEMMA HandlerCounts ==
  ASSUME Types, NEW c \in Client, Handler(c)
  PROVE  /\ \/ handler'[c].pc \notin {"none", "gone"} /\ UNCHANGED <<active, conns>>
            \/ handler'[c].pc = "gone" /\ active' = active - 1 /\ conns' = conns \ {c}
         /\ LET F == {"enter", "operating"}
            IN  \/ handler[c].pc \notin F /\ handler'[c].pc \notin F /\ ops' = ops
                \/ handler[c].pc \notin F /\ handler'[c].pc \in F /\ ops' = ops + 1
                \/ handler[c].pc \in F /\ handler'[c].pc \notin F /\ ops' = ops - 1
                \/ handler[c].pc \in F /\ handler'[c].pc \in F /\ ops' = ops
  <1>1. handler \in [Client -> HandlerState]
    BY DEF Types, ServerTypes
  <1> USE <1>1 DEF Goes, Responds, Ends, server, shared, Ready, HandlerState
  <1>2. CASE Receive(c)
    BY <1>2 DEF Receive, AfterDamage
  <1>3. CASE ReceiveFails(c)
    BY <1>3 DEF ReceiveFails, Blocked
  <1>4. CASE Send(c)
    BY <1>4 DEF Send
  <1>5. CASE StopFlag(c) \/ StopClose(c)
    BY <1>5 DEF StopFlag, StopClose
  <1>6. CASE End(c)
    BY <1>6 DEF End
  <1>7. CASE Check(c) \/ Guard(c)
    BY <1>7 DEF Check, Guard
  <1>8. CASE Enter(c) \/ Finish(c)
    BY <1>8 DEF Enter, Finish, AfterRefusal
  <1> QED
    BY <1>2, <1>3, <1>4, <1>5, <1>6, <1>7, <1>8 DEF Handler

LEMMA StepCounters ==
  ASSUME Types, Phases, CountersExact, [Next]_vars
  PROVE  CountersExact'
  <1>1. CASE UNCHANGED <<handler, active, conns, ops>>
    BY <1>1 DEF CountersExact, Working, Operating
  <1>2. ASSUME NEW c \in Client, Handler(c)
        PROVE  CountersExact'
    <2>1. /\ \A d \in Client \ {c} : handler'[d] = handler[d]
          /\ c \in Working
      BY <1>2, HandlerMoves DEF Working
    <2>2. active' = Cardinality(Working') /\ conns' = Working'
      <3>1. CASE handler'[c].pc \notin {"none", "gone"} /\ UNCHANGED <<active, conns>>
        <4>1. Working' = Working
          BY <2>1, <3>1 DEF Working
        <4> QED
          BY <3>1, <4>1 DEF CountersExact
      <3>2. CASE handler'[c].pc = "gone" /\ active' = active - 1 /\ conns' = conns \ {c}
        <4>1. Working' = Working \ {c}
          BY <2>1, <3>2 DEF Working
        <4> QED
          BY <2>1, <3>2, <4>1, Counting, CountsAreFinite DEF CountersExact
      <3> QED
        BY <1>2, <3>1, <3>2, HandlerCounts
    <2>3. ops' = Cardinality(Operating')
      <3>1. CASE c \in Operating <=> c \in Operating'
        <4>1. Operating' = Operating
          BY <2>1, <3>1 DEF Operating
        <4>2. ops' = ops
          BY <1>2, <3>1, HandlerCounts DEF Operating
        <4> QED
          BY <4>1, <4>2 DEF CountersExact
      <3>2. CASE c \notin Operating /\ c \in Operating'
        <4>1. Operating' = Operating \cup {c}
          BY <2>1, <3>2 DEF Operating
        <4>2. ops' = ops + 1
          BY <1>2, <3>2, HandlerCounts DEF Operating
        <4> QED
          BY <3>2, <4>1, <4>2, Counting, CountsAreFinite DEF CountersExact
      <3>3. CASE c \in Operating /\ c \notin Operating'
        <4>1. Operating' = Operating \ {c}
          BY <2>1, <3>3 DEF Operating
        <4>2. ops' = ops - 1
          BY <1>2, <3>3, HandlerCounts DEF Operating
        <4> QED
          BY <3>3, <4>1, <4>2, Counting, CountsAreFinite DEF CountersExact
      <3> QED
        BY <3>1, <3>2, <3>3
    <2> QED
      BY <2>2, <2>3 DEF CountersExact
  <1>3. CASE Admit
    <2> DEFINE c == run.accepted
    <2>1. c \in Client /\ handler[c].pc = "none" /\ ops' = ops
      BY <1>3, AdmitMoves
    <2>2. CASE /\ handler'[c].pc = "receive"
               /\ active' = active + 1 /\ conns' = conns \cup {c}
      <3>1. \A d \in Client \ {c} : handler'[d] = handler[d]
        BY <1>3, AdmitMoves
      <3> HIDE DEF c
      <3>2. Working' = Working \cup {c} /\ c \notin Working /\ Operating' = Operating
        BY <2>1, <2>2, <3>1 DEF Working, Operating
      <3> QED
        BY <2>1, <2>2, <3>2, Counting, CountsAreFinite DEF CountersExact
    <2> QED
      BY <1>1, <1>3, <2>1, <2>2, AdmitMoves
  <1>4. ASSUME NEW c \in Client, Peer(c) \/ Answered(c)
        PROVE  CountersExact'
    BY <1>1, <1>4, PeerMoves
  <1>5. CASE \/ Shutdown \/ AcceptFails \/ RunReturns \/ \E c \in Client : Accept(c) \/ Reset(c)
    BY <1>1, <1>5, OthersKeepHandlers
  <1> QED
    BY <1>1, <1>2, <1>3, <1>4, <1>5 DEF Next, Run, vars, server, shared

-----------------------------------------------------------------------------
(* The epoch of a request *)

\* How a handler comes to carry an operation out: it receives the request, it compares
\* the epochs, and it goes on with what it has compared.
LEMMA HandlerStamps ==
  ASSUME Types, NEW c \in Client, Handler(c)
  PROVE  /\ epoch' >= epoch
         /\ \/ handler'[c].since = handler[c].since /\ handler'[c].stamp = handler[c].stamp
            \/ /\ handler'[c].since \in {0, epoch}
               /\ handler'[c].pc \notin {"guard", "enter", "operating"}
         /\ handler'[c].pc = "guard" =>
              SameEpoch(handler[c].stamp) /\ handler[c].stamp.boot /\ handler'[c].stamp = handler[c].stamp
         /\ handler'[c].pc \in {"enter", "operating"} => handler[c].pc \in {"guard", "enter"}
         /\ handler'[c].pc = "operating" => fabric = "up" /\ handler[c].pc = "enter"
         /\ fabric' = fabric
  <1>1. handler \in [Client -> HandlerState] /\ epoch \in Nat
    BY DEF Types, ServerTypes, SharedTypes
  <1> USE <1>1 DEF Goes, Responds, Ends, shared, Ready, NoStamp, HandlerState
  <1>2. CASE Receive(c)
    BY <1>2 DEF Receive, AfterDamage
  <1>3. CASE ReceiveFails(c)
    BY <1>3 DEF ReceiveFails, Blocked
  <1>4. CASE Send(c)
    BY <1>4 DEF Send
  <1>5. CASE StopFlag(c) \/ StopClose(c)
    BY <1>5 DEF StopFlag, StopClose
  <1>6. CASE End(c)
    BY <1>6 DEF End
  <1>7. CASE Check(c)
    BY <1>7 DEF Check
  <1>8. CASE Guard(c)
    BY <1>8 DEF Guard
  <1>9. CASE Enter(c)
    BY <1>9 DEF Enter
  <1>10. CASE Finish(c)
    BY <1>10 DEF Finish
  <1> QED
    BY <1>2, <1>3, <1>4, <1>5, <1>6, <1>7, <1>8, <1>9, <1>10 DEF Handler

\* No thread but a handler changes an epoch, a stamp or an operation.
LEMMA OutsideStamps ==
  ASSUME Types, Phases, NEW c \in Client, [Next]_vars,
         \A d \in Client : ~Handler(d)
  PROVE  /\ epoch' = epoch /\ handler'[c].since = handler[c].since
         /\ handler'[c].pc \in {"guard", "enter", "operating"} => handler'[c] = handler[c]
  <1>1. CASE UNCHANGED vars
    BY <1>1 DEF vars, server, shared
  <1>2. ASSUME NEW d \in Client, Peer(d) \/ Answered(d)
        PROVE  UNCHANGED <<epoch, handler>>
    BY <1>2, PeerMoves
  <1>3. CASE \/ Shutdown \/ AcceptFails \/ RunReturns \/ \E d \in Client : Accept(d) \/ Reset(d)
    BY <1>3, OthersKeepHandlers
  <1>4. CASE Admit
    BY <1>4, AdmitMoves
  <1> QED
    BY <1>1, <1>2, <1>3, <1>4 DEF Next, Run

LEMMA StepFence ==
  ASSUME Types, Phases, NotFromTheFuture, SupersededIsFenced, [Next]_vars
  PROVE  NotFromTheFuture' /\ SupersededIsFenced'
  <1>1. epoch \in Nat /\ \A c \in Client : handler[c].since \in Nat /\ handler[c].stamp.epoch \in Nat
    BY DEF Types, ServerTypes, SharedTypes, HandlerState, Stamp
  <1>2. ASSUME NEW c \in Client, Handler(c)
        PROVE  NotFromTheFuture' /\ SupersededIsFenced'
    <2>1. \A d \in Client \ {c} : handler'[d] = handler[d]
      BY <1>2, HandlerMoves
    <2>2. epoch' \in Nat /\ epoch' >= epoch
      BY <1>2, HandlerStamps, StepTypes DEF Types, SharedTypes
    <2>3. NotFromTheFuture'
      BY <1>1, <1>2, <2>1, <2>2, HandlerStamps DEF NotFromTheFuture
    <2>4. SupersededIsFenced'
      <3>1. handler'[c].pc \in {"guard", "enter", "operating"} =>
              handler'[c].stamp.epoch >= handler'[c].since /\ handler'[c].stamp.boot
        <4>1. CASE handler'[c].pc = "guard"
          BY <1>1, <1>2, <4>1, HandlerStamps DEF NotFromTheFuture, SameEpoch
        <4>2. CASE handler'[c].pc \in {"enter", "operating"}
          BY <1>2, <4>2, HandlerStamps DEF SupersededIsFenced
        <4> QED
          BY <4>1, <4>2
      <3> QED
        BY <2>1, <3>1 DEF SupersededIsFenced
    <2> QED
      BY <2>3, <2>4
  <1>3. CASE \A c \in Client : ~Handler(c)
    BY <1>3, OutsideStamps DEF NotFromTheFuture, SupersededIsFenced
  <1> QED
    BY <1>2, <1>3

-----------------------------------------------------------------------------
(* The end of run() and of shutdown() *)

LEMMA StepQuiet ==
  ASSUME Types, Phases, CountersExact, Quiet, [Next]_vars
  PROVE  Quiet'
  <1>1. ASSUME NEW c \in Client, Handler(c)
        PROVE  Quiet'
    BY <1>1, HandlerMoves, HandlerStamps DEF Quiet
  <1>2. ASSUME NEW c \in Client, Peer(c) \/ Answered(c)
        PROVE  Quiet'
    BY <1>2, PeerMoves DEF Quiet
  <1>3. CASE Shutdown
    <2>1. handler' = handler
      BY <1>3, OthersKeepHandlers
    <2>2. CASE ShutdownDrained
      <3>1. Operating = {}
        BY <2>2, CountsAreFinite, FS_EmptySet DEF ShutdownDrained, NoOperation, CountersExact
      <3> QED
        BY <2>1, <3>1 DEF Quiet, Operating
    <2> QED
      BY <1>3, <2>1, <2>2 DEF Shutdown, ShutdownBegins, ShutdownCloses, Quiet
  <1>4. CASE AcceptFails \/ RunReturns \/ \E c \in Client : Accept(c) \/ Reset(c)
    <2>1. UNCHANGED <<handler, fabric>>
      BY <1>4, OthersKeepHandlers DEF AcceptFails, RunReturns, Accept, Reset, shared
    <2> QED
      BY <2>1 DEF Quiet
  <1>5. CASE Admit
    BY <1>5, AdmitMoves DEF Quiet
  <1>6. CASE UNCHANGED vars
    BY <1>6 DEF vars, server, shared, Quiet
  <1> QED
    BY <1>1, <1>2, <1>3, <1>4, <1>5, <1>6 DEF Next, Run

LEMMA StepReturned ==
  ASSUME Types, Phases, CountersExact, run.pc = "returned" => Working = {}, [Next]_vars
  PROVE  (run.pc = "returned" => Working = {})'
  <1>1. ASSUME NEW c \in Client, Handler(c)
        PROVE  (run.pc = "returned" => Working = {})'
    BY <1>1, HandlerMoves DEF Working
  <1>2. ASSUME NEW c \in Client, Peer(c) \/ Answered(c)
        PROVE  (run.pc = "returned" => Working = {})'
    BY <1>2, PeerMoves DEF Working
  <1>3. CASE RunReturns
    <2>1. Working = {}
      BY <1>3, CountsAreFinite, FS_EmptySet DEF RunReturns, Drained, CountersExact
    <2> QED
      BY <1>3, <2>1 DEF RunReturns, Working
  <1>4. CASE AcceptFails \/ \E c \in Client : Accept(c)
    BY <1>4 DEF AcceptFails, Accept, Types, ServerTypes, RunState
  <1>5. CASE Shutdown \/ UNCHANGED vars \/ \E c \in Client : Reset(c)
    BY <1>5 DEF Shutdown, ShutdownBegins, ShutdownDrained, ShutdownCloses, Reset, vars, server,
                Working
  <1>6. CASE Admit
    BY <1>6, AdmitMoves
  <1> QED
    BY <1>1, <1>2, <1>3, <1>4, <1>5, <1>6 DEF Next, Run

-----------------------------------------------------------------------------
(* The theorems *)

LEMMA Invariance == Spec => []Inv
  <1>1. Init => Inv
    <2> SUFFICES ASSUME Init
                 PROVE  Inv
      OBVIOUS
    <2>1. Types
      BY InitTypes
    <2>2. \A c \in Client : handler[c].pc = "none" /\ handler[c].since = 0
      BY DEF Init, Ready
    <2>3. Working = {} /\ Operating = {}
      BY <2>2 DEF Working, Operating
    <2>4. CountersExact
      BY <2>3, FS_EmptySet DEF Init, CountersExact
    <2>5. Phases
      BY <2>2 DEF Init, Phases
    <2>6. NotFromTheFuture
      <3>1. epoch = 1
        BY DEF Init
      <3> QED
        BY <2>2, <3>1 DEF NotFromTheFuture
    <2>7. SupersededIsFenced /\ Quiet
      BY <2>2 DEF SupersededIsFenced, Quiet
    <2> QED
      BY <2>1, <2>3, <2>4, <2>5, <2>6, <2>7 DEF Inv
  <1>2. Inv /\ [Next]_vars => Inv'
    BY StepTypes, StepPhases, StepCounters, StepFence, StepQuiet, StepReturned DEF Inv
  <1> QED
    BY <1>1, <1>2, PTL DEF Spec

\* Every variable of the control plane has its type; in particular neither counter
\* exceeds what it counts.
THEOREM TypeCorrect == Spec => []TypeOK
  <1>1. Inv => TypeOK
    <2> SUFFICES ASSUME Inv
                 PROVE  TypeOK
      OBVIOUS
    <2>1. active \in 0 .. MaxConnections /\ ops \in 0 .. Cardinality(Client)
      <3>1. active = Cardinality(Working) /\ ops = Cardinality(Operating)
            /\ active <= MaxConnections
        BY DEF Inv, CountersExact, Types, ServerTypes
      <3> QED
        BY <3>1, CountsAreFinite, ControlAssumption, FS_CardinalityType
    <2> QED
      BY <2>1 DEF Inv, Types, PeerTypes, ServerTypes, SharedTypes, TypeOK, ClientState,
                  HandlerState
  <1> QED
    BY <1>1, Invariance, PTL

\* The counters that run() and shutdown() wait for count exactly the handlers that are at
\* work and the operations that are in flight: on every path through serve(), dispatch()
\* and OperationGuard each is taken off the books once.
THEOREM CountsAreExact == Spec => []CountersExact
  <1>1. Inv => CountersExact
    BY DEF Inv
  <1> QED
    BY <1>1, Invariance, PTL

\* run() returns after its last handler, and shutdown() closes the store after the last
\* operation that was let in.
THEOREM ServerOutlivesItsHandlers == Spec => []NothingOutlivesItsServer
  <1>1. Inv => NothingOutlivesItsServer
    BY DEF Inv, Quiet, NothingOutlivesItsServer
  <1> QED
    BY <1>1, Invariance, PTL

\* stale_check lets no request pass whose stamp had been superseded when it was received,
\* however the epoch advances between the check and the operation.
THEOREM SupersededRequestsAreFenced == Spec => []SupersededIsFenced
  <1>1. Inv => SupersededIsFenced
    BY DEF Inv
  <1> QED
    BY <1>1, Invariance, PTL

=============================================================================
