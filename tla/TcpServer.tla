----------------------------- MODULE TcpServer ------------------------------
(***************************************************************************)
(* TcpServer, TcpDataSender and TcpServerManager: the table of one buffer, *)
(* a detached thread per connection that handles its first request, the    *)
(* list of sessions, the worker of each session, and the application's     *)
(* thread that registers, unregisters, starts and stops.  A session is a   *)
(* shared pointer: the thread that drops the last reference runs its       *)
(* destructor.                                                             *)
(***************************************************************************)
EXTENDS TcpLink

CONSTANTS BufferSize     \* capacity of the served RecBuffer, whose writer blocks

VARIABLES served,        \* records pushed into the served buffer
          srv,           \* [up, reg, list, app, closing]
          handler,       \* where handleClient of each connection is
          sender         \* the TcpDataSender of each connection

serverVars == <<served, srv, handler, sender>>

(* "life": alive, or where its destructor is. *)
NoSender == [life |-> "none", running |-> FALSE, worker |-> "none", cursor |-> 0, asked |-> 0]

InitServer ==
  /\ served = 0
  /\ srv = [up |-> TRUE, reg |-> TRUE, list |-> {}, app |-> "idle", closing |-> {}]
  /\ handler = [c \in Conns |-> "none"]
  /\ sender = [c \in Conns |-> NoSender]

Exists(c) == sender[c].life \notin {"none", "gone"}

(* A blocking writer waits for the slowest reader; a session's reader is    *)
(* registered as long as the session exists.                                *)
SourceWrites ==
  /\ Spend("records")
  /\ \A c \in Conns : Exists(c) => served - sender[c].cursor < BufferSize
  /\ served' = served + 1
  /\ UNCHANGED <<net, srv, handler, sender>>
-----------------------------------------------------------------------------
(* handleClient, on a thread of its own per connection.  Steps that touch   *)
(* only the connection are taken together with the one before them.         *)
Handles(c, from, to) == handler[c] = from /\ handler' = [handler EXCEPT ![c] = to]

(* An answer that ends the conversation: the socket dies with the handler.  *)
Answered(c, msg) == [Sent(c, "server", msg) EXCEPT ![c].up = Nothing, ![c].server = "closed"]

(* The first request.  Names and schemas are answered here; a stream of a   *)
(* buffer that is found in the table is granted in steps of its own.        *)
ReceiveRequest(c) ==
  /\ net[c] # Unused /\ srv.up
  /\ \/ /\ CanRead(c, "server") /\ Works /\ net[c].up.type = "list"
        /\ Handles(c, "none", "done")
        /\ net' = Answered(c, Msg("names", srv.reg))
     \/ /\ CanRead(c, "server") /\ Works /\ (net[c].up.type = "rule" \/ ~srv.reg)
        /\ Handles(c, "none", "done")
        /\ net' = Answered(c, IF srv.reg THEN Msg("schema", <<>>) ELSE Msg("error", <<>>))
     \/ /\ CanRead(c, "server") /\ Works /\ net[c].up.type = "stream" /\ srv.reg
        /\ Handles(c, "none", "grant")
        /\ net' = Taken(c, "server")
     \/ /\ ReadFails(c, "server")
        /\ Handles(c, "none", "done")
        /\ net' = ClosedAt(c, "server")
  /\ UNCHANGED <<served, srv, sender>>

(* cleanupDeadSenders: every listed session that does not run loses its     *)
(* place in the list.                                                       *)
CleanedUp == {d \in srv.list : sender[d].running}

(* The schema is sent, dead sessions are removed, and the new session is    *)
(* constructed, whose reader starts at the end of the buffer.               *)
Grant(c) ==
  /\ \/ /\ IsOpen(c, "server") /\ Works
        /\ Handles(c, "grant", "publish")
        /\ net' = Sent(c, "server", Msg("schema", <<>>))
        /\ srv' = [srv EXCEPT !.list = CleanedUp]
        /\ sender' = [sender EXCEPT ![c] = [NoSender EXCEPT !.life = "alive", !.cursor = served]]
     \/ /\ WriteFails(c, "server")
        /\ Handles(c, "grant", "done")
        /\ net' = ClosedAt(c, "server")
        /\ UNCHANGED <<srv, sender>>
  /\ UNCHANGED served

(* Mutant of Publish: no second look at the table. *)
PublishUnchecked(c) ==
  /\ Handles(c, "publish", "start")
  /\ srv' = [srv EXCEPT !.list = @ \cup {c}]
  /\ UNCHANGED <<net, served, sender>>

(* The second look at the table and the entry into the list are one step    *)
(* for unregisterBuffer: both hold both locks.                              *)
Publish(c) ==
  /\ Handles(c, "publish", IF srv.reg THEN "start" ELSE "done")
  /\ srv' = IF srv.reg THEN [srv EXCEPT !.list = @ \cup {c}] ELSE srv
  /\ sender' = IF srv.reg THEN sender ELSE [sender EXCEPT ![c].life = "close"]
  /\ UNCHANGED <<net, served>>

(* RecordConsumer::start, after which the handler drops its reference: it   *)
(* is the last if the session has left the list since.                      *)
StartSender(c) ==
  /\ Handles(c, "start", "done")
  /\ sender' = [sender EXCEPT ![c].running = TRUE, ![c].worker = "read",
                              ![c].life = IF c \in srv.list \cup srv.closing THEN @ ELSE "close"]
  /\ UNCHANGED <<net, served, srv>>

HeldByHandler(c) == handler[c] \in {"publish", "start"}

HandleClient(c) == ReceiveRequest(c) \/ Grant(c) \/ ((Publish(c) \/ StartSender(c)) /\ Works)
-----------------------------------------------------------------------------
(* Mutant of DestroyBegin: the connection is left open. *)
DestroyOpen(c) ==
  /\ sender[c].life = "close"
  /\ sender' = [sender EXCEPT ![c].life = "join", ![c].running = FALSE]
  /\ UNCHANGED <<net, served, srv, handler>>

(* ~TcpDataSender breaks the connection, so that the worker leaves its read, *)
(* clears m_running, and joins the worker if there is one.                  *)
DestroyBegin(c) ==
  /\ sender[c].life = "close"
  /\ net' = ClosedAt(c, "server")
  /\ sender' = [sender EXCEPT ![c].life = "join", ![c].running = FALSE]
  /\ UNCHANGED <<served, srv, handler>>

(* Mutant of DestroyJoin: the worker is not waited for. *)
DestroyDetached(c) ==
  /\ sender[c].life = "join"
  /\ sender' = [sender EXCEPT ![c].life = "gone"]
  /\ UNCHANGED <<net, served, srv, handler>>

DestroyJoin(c) ==
  /\ sender[c].life = "join" /\ sender[c].worker \in {"none", "ended"}
  /\ sender' = [sender EXCEPT ![c] = [NoSender EXCEPT !.life = "gone"]]
  /\ UNCHANGED <<net, served, srv, handler>>

DestroySender(c) == (DestroyBegin(c) \/ DestroyJoin(c)) /\ Works
-----------------------------------------------------------------------------
(* TcpDataSender::workerLoop.  A worker that waits in a read does not see    *)
(* m_running; one that ends by itself leaves it set and its socket open.    *)
SenderReads(c) ==
  /\ sender[c].worker = "read"
  /\ \/ /\ CanRead(c, "server") /\ Works
        /\ net' = Taken(c, "server")
        /\ sender' = IF net[c].up.type = "ask"
                       THEN [sender EXCEPT ![c].worker = "answer", ![c].asked = net[c].up.val]
                       ELSE [sender EXCEPT ![c].worker = "ended"]
     \/ /\ ReadFails(c, "server")
        /\ sender' = [sender EXCEPT ![c].worker = "ended"]
        /\ UNCHANGED net
  /\ UNCHANGED <<served, srv, handler>>

(* nextBatch without waiting takes what the reader has by now, if anything; *)
(* it is lost when the write fails.                                         *)
SenderAnswers(c) ==
  /\ sender[c].worker = "answer"
  /\ \E n \in 0 .. Min({sender[c].asked, served - sender[c].cursor}) :
       LET taken(worker) == [sender EXCEPT ![c].cursor = @ + n, ![c].worker = worker, ![c].asked = 0]
       IN  \/ /\ IsOpen(c, "server") /\ Works
              /\ sender' = taken(IF sender[c].running THEN "read" ELSE "ended")
              /\ net' = Sent(c, "server", Msg("batch", [i \in 1 .. n |-> sender[c].cursor + i]))
           \/ /\ WriteFails(c, "server")
              /\ sender' = taken("ended")
              /\ UNCHANGED net
  /\ UNCHANGED <<served, srv, handler>>

SenderWorks(c) == SenderReads(c) \/ SenderAnswers(c)
-----------------------------------------------------------------------------
(* The application's thread. *)
RegisterBuffer ==
  /\ srv.up /\ srv.app = "idle" /\ ~srv.reg
  /\ srv' = [srv EXCEPT !.reg = TRUE]
  /\ UNCHANGED <<net, served, handler, sender>>

(* The entry and the sessions of the buffer leave under both locks; the     *)
(* references are dropped afterwards, one by one.                           *)
UnregisterBuffer ==
  /\ srv.up /\ srv.app = "idle" /\ srv.reg
  /\ srv' = [srv EXCEPT !.reg = FALSE, !.closing = srv.list, !.list = {}, !.app = "unregister"]
  /\ UNCHANGED <<net, served, handler, sender>>

(* TcpServerManager::stop: no more connections are accepted, the server is  *)
(* destroyed with its sessions.  Detached handlers must have ended by then. *)
StopServer ==
  /\ srv.up /\ srv.app = "idle"
  /\ \A c \in Conns : handler[c] \in {"none", "done"}
  /\ srv' = [srv EXCEPT !.up = FALSE, !.reg = FALSE, !.closing = srv.list, !.list = {}, !.app = "stop"]
  /\ LET waiting == {c \in Conns : handler[c] = "none" /\ net[c] # Unused}
     IN  /\ net' = [c \in Conns |-> IF c \in waiting
                                     THEN [net[c] EXCEPT !.server = "closed", !.up = Nothing]
                                     ELSE net[c]]
         /\ handler' = [c \in Conns |-> IF c \in waiting THEN "done" ELSE handler[c]]
  /\ UNCHANGED <<served, sender>>

DropReference(c) ==
  /\ c \in srv.closing /\ (HeldByHandler(c) \/ sender[c].life = "alive")
  /\ IF HeldByHandler(c)
       THEN srv' = [srv EXCEPT !.closing = @ \ {c}] /\ UNCHANGED sender
       ELSE sender' = [sender EXCEPT ![c].life = "close"] /\ UNCHANGED srv
  /\ UNCHANGED <<net, served, handler>>

SessionClosed(c) ==
  /\ c \in srv.closing /\ sender[c].life = "gone"
  /\ srv' = [srv EXCEPT !.closing = @ \ {c}]
  /\ UNCHANGED <<net, served, handler, sender>>

ApplicationReturns ==
  /\ srv.app # "idle" /\ srv.closing = {}
  /\ srv' = [srv EXCEPT !.app = "idle"]
  /\ UNCHANGED <<net, served, handler, sender>>

(* TcpServerManager::start: a new server, on which nothing is registered. *)
StartServer ==
  /\ ~srv.up /\ srv.app = "idle"
  /\ srv' = [srv EXCEPT !.up = TRUE]
  /\ UNCHANGED <<net, served, handler, sender>>

Application == (RegisterBuffer \/ UnregisterBuffer \/ StopServer \/ StartServer) /\ Spend("calls")

Closes == (\E c \in Conns : DropReference(c) \/ SessionClosed(c)) \/ ApplicationReturns
=============================================================================
