---------------------------- MODULE TcpReceiver -----------------------------
(***************************************************************************)
(* TcpDataReceiver: connect() and stop(), called by one thread, and the    *)
(* worker that asks for batches.  It inherits start() and stop() of        *)
(* RecordProducer.  The other clients of a server, among them              *)
(* TcpServiceClient, are connections with one request.                     *)
(***************************************************************************)
EXTENDS TcpLink

CONSTANTS MaxAsked       \* capacity of the batches the receiver asks for

ASSUME ReceiverAssumption == MaxAsked \in Nat \ {0}

VARIABLES rcv,           \* the TcpDataReceiver, its worker and its caller
          got            \* records it has pushed since it connected

(* "call": where the thread that owns the receiver is. *)
NewReceiver ==
  [connected |-> FALSE, running |-> FALSE, worker |-> "none", joinable |-> FALSE,
   conn |-> NoConn, batch |-> <<>>, call |-> "idle"]

InitReceiver == rcv = NewReceiver /\ got = <<>>

SocketOpen == rcv.conn # NoConn /\ IsOpen(rcv.conn, "client")

IsConnected == rcv.connected /\ rcv.running

Goes(call) == rcv' = [rcv EXCEPT !.call = call]

HangUp == net' = IF SocketOpen THEN ClosedAt(rcv.conn, "client") ELSE net
-----------------------------------------------------------------------------
(* connect() refuses while the receiver runs, or connects under a time-out. *)
Connect(serverUp) ==
  /\ rcv.call = "connect"
  /\ \/ /\ rcv.running \/ rcv.connected
        /\ Goes("refused") /\ UNCHANGED <<net, got>>
     \/ /\ ~rcv.running /\ ~rcv.connected /\ ~serverUp
        /\ Goes("refused") /\ UNCHANGED <<net, got>>
     \/ /\ ~rcv.running /\ ~rcv.connected /\ serverUp
        /\ \E c \in Fresh :
             /\ net' = Connected(c, Msg("stream", <<>>))
             /\ rcv' = [rcv EXCEPT !.conn = c, !.call = "handshake"]
        /\ got' = <<>>

(* start(): the members were made at the first connection.  A joinable      *)
(* thread that is assigned to ends the process.                             *)
Started(r) ==
  IF r.running THEN [r EXCEPT !.call = "accepted"]
  ELSE IF r.joinable THEN [r EXCEPT !.call = "terminated"]
  ELSE [r EXCEPT !.running = TRUE, !.worker = "loop", !.joinable = TRUE, !.call = "accepted"]

(* The answer to the request, or the failure to send it or to get one. *)
Handshake ==
  /\ rcv.call = "handshake"
  /\ \/ /\ CanRead(rcv.conn, "client") /\ Works /\ net[rcv.conn].down.type = "schema"
        /\ net' = Taken(rcv.conn, "client")
        /\ rcv' = Started([rcv EXCEPT !.connected = TRUE])
     \/ /\ \/ ReadFails(rcv.conn, "client")
           \/ CanRead(rcv.conn, "client") /\ Works /\ net[rcv.conn].down.type # "schema"
        /\ HangUp /\ Goes("refused")
  /\ UNCHANGED got

(* stop() closes the socket, so that the worker leaves its read, and joins  *)
(* it: also one that has ended, which leaves m_running set.                 *)
StopBegin ==
  /\ rcv.call = "stop"
  /\ HangUp
  /\ rcv' = [rcv EXCEPT !.connected = FALSE, !.running = FALSE,
                        !.call = IF rcv.running THEN "join" ELSE "stopped"]
  /\ UNCHANGED got

StopWorkerJoin ==
  /\ rcv.call = "join" /\ rcv.worker = "ended"
  /\ rcv' = [rcv EXCEPT !.joinable = FALSE, !.call = "stopped"]
  /\ UNCHANGED <<net, got>>

ReceiverCalls(serverUp) ==
  Handshake \/ ((Connect(serverUp) \/ StopBegin \/ StopWorkerJoin) /\ Works)
-----------------------------------------------------------------------------
(* workerLoop *)
Asks ==
  /\ rcv.worker = "loop"
  /\ \/ /\ rcv.running /\ SocketOpen /\ Works
        /\ net' = Sent(rcv.conn, "client", Msg("ask", MaxAsked))
        /\ rcv' = [rcv EXCEPT !.worker = "wait"]
     \/ /\ (~rcv.running /\ Works) \/ WriteFails(rcv.conn, "client")
        /\ rcv' = [rcv EXCEPT !.worker = "leave"]
        /\ UNCHANGED net
  /\ UNCHANGED got

(* The answer: an empty one keeps the connection, a bad one ends it.        *)
Receives ==
  /\ rcv.worker = "wait"
  /\ \/ /\ CanRead(rcv.conn, "client") /\ Works
        /\ LET answer == net[rcv.conn].down
           IN  rcv' = IF answer.type # "batch" \/ Len(answer.val) > MaxAsked
                        THEN [rcv EXCEPT !.worker = "leave"]
                        ELSE [rcv EXCEPT !.worker = "push", !.batch = answer.val]
        /\ net' = Taken(rcv.conn, "client")
     \/ /\ ReadFails(rcv.conn, "client")
        /\ rcv' = [rcv EXCEPT !.worker = "leave"]
        /\ UNCHANGED net
  /\ UNCHANGED got

(* Mutant of Pushes: the batch stays behind. *)
PushesTwice ==
  /\ rcv.worker = "push"
  /\ got' = got \o rcv.batch
  /\ rcv' = [rcv EXCEPT !.worker = "loop"]
  /\ UNCHANGED net

(* commitBatch and flush; an empty answer is waited out instead. *)
Pushes ==
  /\ rcv.worker = "push"
  /\ got' = got \o rcv.batch
  /\ rcv' = [rcv EXCEPT !.worker = "loop", !.batch = <<>>]
  /\ UNCHANGED net

(* Mutant of WorkerEnds: the worker clears m_running, as the base class does. *)
WorkerEndsRunning ==
  /\ rcv.worker = "leave"
  /\ HangUp
  /\ rcv' = [rcv EXCEPT !.worker = "ended", !.connected = FALSE, !.running = FALSE]
  /\ UNCHANGED got

(* Mutant of WorkerEnds: the connection is still taken for one. *)
WorkerEndsConnected ==
  /\ rcv.worker = "leave"
  /\ HangUp
  /\ rcv' = [rcv EXCEPT !.worker = "ended"]
  /\ UNCHANGED got

(* onProduceStop; m_running is left as it is. *)
WorkerEnds ==
  /\ rcv.worker = "leave"
  /\ HangUp
  /\ rcv' = [rcv EXCEPT !.worker = "ended", !.connected = FALSE]
  /\ UNCHANGED got

ReceiverWorks == Asks \/ Receives \/ ((Pushes \/ WorkerEnds) /\ Works)
-----------------------------------------------------------------------------
(* Other clients: requestBufferList, requestRecRule, and a client that asks *)
(* for a stream.  They close when they have an answer, or give up.          *)
PeerConnects(serverUp) ==
  /\ serverUp /\ Spend("clients")
  /\ \E c \in Fresh, type \in {"list", "rule", "stream"} : net' = Connected(c, Msg(type, <<>>))
  /\ UNCHANGED <<rcv, got>>

PeerFinishes ==
  /\ \E c \in Conns \ {rcv.conn} :
       /\ IsOpen(c, "client") /\ (net[c].down # Nothing \/ AtEnd(c, "client"))
       /\ net' = ClosedAt(c, "client")
  /\ UNCHANGED <<rcv, got>> /\ Works
=============================================================================
