----------------------------- MODULE TcpStream ------------------------------
(***************************************************************************)
(* A buffer served over TCP and received again: the server, its sessions,  *)
(* other clients, connections that fail, and a TcpDataReceiver owned by a  *)
(* TcpSessionWidget of the receiver application, whose timers and rows     *)
(* call it from the GUI thread.                                            *)
(***************************************************************************)
EXTENDS TcpServer, TcpReceiver

VARIABLES widget         \* [active, timer, status]

linkVars   == <<net, budget>>
clientVars == <<rcv, got, widget>>
tcpVars    == <<linkVars, serverVars, clientVars>>

TcpInit ==
  /\ InitLink /\ InitServer /\ InitReceiver
  /\ widget = [active |-> FALSE, timer |-> FALSE, status |-> "Stopped"]
-----------------------------------------------------------------------------
(* The widget.  Its methods run to their end in the GUI thread; a call of   *)
(* the receiver's connect() or stop() inside them takes several steps.      *)
GuiIdle == rcv.call = "idle"

GuiOnly == UNCHANGED <<net, got>>

Shows(status) == widget' = [widget EXCEPT !.status = status]

(* startConnection, from a row or startAll; tryConnect at once. *)
StartConnection ==
  /\ GuiIdle /\ ~widget.active /\ Spend("enables")
  /\ widget' = [widget EXCEPT !.active = TRUE, !.timer = TRUE]
  /\ Goes("connect") /\ GuiOnly

(* tryConnect by the timer. *)
ConnectTimer ==
  /\ GuiIdle /\ widget.timer /\ ~IsConnected
  /\ Goes("connect") /\ GuiOnly /\ UNCHANGED widget

(* The end of tryConnect. *)
ConnectReturns ==
  /\ \/ rcv.call = "refused" /\ Shows("Connection Failed")
     \/ rcv.call = "accepted" /\ widget' = [widget EXCEPT !.timer = FALSE, !.status = "Connected"]
  /\ Goes("idle") /\ GuiOnly

(* checkStatus *)
CheckStatus ==
  /\ GuiIdle /\ widget.active
  /\ \/ IsConnected /\ widget.status # "Connected" /\ Shows("Connected")
     \/ /\ ~IsConnected /\ widget.status = "Connected"
        /\ widget' = [widget EXCEPT !.status = "Disconnected. Retrying...", !.timer = TRUE]
  /\ GuiOnly /\ UNCHANGED rcv

(* stopConnection, from a row, stopAll, removeRow or the window's end: the  *)
(* receiver is stopped and deleted.                                         *)
StopConnection ==
  /\ GuiIdle /\ widget.active
  /\ widget' = [widget EXCEPT !.active = FALSE, !.timer = FALSE]
  /\ Goes("stop") /\ GuiOnly

ConnectionStopped ==
  /\ rcv.call = "stopped"
  /\ rcv' = NewReceiver
  /\ Shows("Stopped") /\ GuiOnly

WidgetSteps == ConnectReturns \/ ConnectionStopped \/ ConnectTimer \/ CheckStatus
-----------------------------------------------------------------------------
TcpNext ==
  \/ SourceWrites /\ UNCHANGED clientVars
  \/ (\E c \in Conns : HandleClient(c) \/ SenderWorks(c) \/ DestroySender(c)) /\ UNCHANGED clientVars
  \/ (Application \/ (Closes /\ Works)) /\ UNCHANGED clientVars
  \/ (StartConnection \/ ((StopConnection \/ WidgetSteps) /\ Works)) /\ UNCHANGED serverVars
  \/ (ReceiverCalls(srv.up) \/ ReceiverWorks) /\ UNCHANGED <<serverVars, widget>>
  \/ (PeerConnects(srv.up) \/ PeerFinishes) /\ UNCHANGED <<serverVars, widget>>

TcpSpec == TcpInit /\ [][TcpNext]_tcpVars
-----------------------------------------------------------------------------
(* Every thread runs: handlers, sessions, destructors, the application in a *)
(* call, the GUI in its event loop, the worker of the receiver.  Nobody has *)
(* to write records, to fail, to connect or to call anything.               *)
HandlerRuns(c)  == HandleClient(c) /\ UNCHANGED clientVars
SessionRuns(c)  == SenderWorks(c) /\ UNCHANGED clientVars
DestroyRuns(c)  == DestroySender(c) /\ UNCHANGED clientVars
CallRuns        == Closes /\ Works /\ UNCHANGED clientVars
GuiRuns         == (WidgetSteps /\ Works /\ UNCHANGED serverVars)
                     \/ (ReceiverCalls(srv.up) /\ UNCHANGED <<serverVars, widget>>)
ReceiverRuns    == ReceiverWorks /\ UNCHANGED <<serverVars, widget>>

TcpFair ==
  /\ TcpSpec
  /\ \A c \in Conns :
       WF_tcpVars(HandlerRuns(c)) /\ WF_tcpVars(SessionRuns(c)) /\ WF_tcpVars(DestroyRuns(c))
  /\ WF_tcpVars(CallRuns) /\ WF_tcpVars(GuiRuns) /\ WF_tcpVars(ReceiverRuns)
-----------------------------------------------------------------------------
InFlight(c) == IF net[c].down.type = "batch" THEN net[c].down.val ELSE <<>>

(* Within a connection the receiver gets a run of the source's records      *)
(* without a gap and none twice, whatever fails and whoever closes: what it *)
(* has pushed, holds and has on the way is all the session has handed out   *)
(* as long as both are at work.                                             *)
StreamIsGapless ==
  rcv.conn # NoConn =>
    LET c    == rcv.conn
        seen == got \o rcv.batch \o InFlight(c)
    IN  /\ \A i \in 1 .. Len(seen) - 1 : seen[i + 1] = seen[i] + 1
        /\ \A i \in DOMAIN seen : seen[i] \in 1 .. served
        /\ (seen # <<>> /\ IsOpen(c, "client") /\ sender[c].worker \in {"read", "answer"})
             => Last(seen) = sender[c].cursor

(* The worker of a session never outlives the object, and the list never    *)
(* holds a destroyed one: however publication, start, clean-up by another   *)
(* session, unregistering and the end of the handler interleave, somebody   *)
(* owns the session or waits for its worker.                                *)
SessionsAreOwned ==
  \A c \in Conns :
    /\ sender[c].worker \in {"read", "answer"} =>
         \/ c \in srv.list \cup srv.closing \/ HeldByHandler(c)
         \/ sender[c].life \in {"close", "join"}
    /\ c \in srv.list => sender[c].life = "alive"

(* When unregisterBuffer() has returned, no session of the buffer is alive  *)
(* but one that its own handler still holds and is about to drop.           *)
UnregisteredIsSilent ==
  (~srv.reg /\ srv.app = "idle") =>
    \A c \in Conns : sender[c].life = "alive" => HeldByHandler(c)

(* A receiver is never started over a thread that was not joined, although  *)
(* its worker ends by itself whenever a connection does.                    *)
NoThreadLost == rcv.call # "terminated"

(* unregisterBuffer() and the stop() of server and receiver return, though  *)
(* they join threads that read from sockets without end.                    *)
InCall == srv.app # "idle" \/ rcv.call \in {"stop", "join"}

CallsComplete == InCall ~> ~InCall

(* The end of a connection is shown: the widget does not go on saying       *)
(* "Connected" about a receiver whose worker has ended.                     *)
DeathIsShown ==
  (rcv.worker = "ended" /\ widget.status = "Connected") ~> (widget.status # "Connected")

(* What the widget says it does when a connection is lost, "Disconnected.   *)
(* Retrying..." (TcpSessionWidget.cpp:122): while the server is there and    *)
(* serves the buffer, the widget is connected again, unless it is stopped.  *)
RetriesSucceed ==
  (widget.status = "Disconnected. Retrying...") ~> (IsConnected \/ ~widget.active \/ ~srv.up \/ ~srv.reg)
=============================================================================
