------------------------------ MODULE TcpLink -------------------------------
(***************************************************************************)
(* TCP connections as both ends see them.  Each side sends a message only  *)
(* after it has read the answer to its last one, so that at most one       *)
(* message travels in each direction.  A read or a write may also fail for *)
(* one end only: by its time-out, or because the network broke.            *)
(***************************************************************************)
EXTENDS Integers, Sequences, SequencesExt, FiniteSetsExt

CONSTANTS MaxConns,      \* bound: connections ever made
          Budgets        \* bounds: how often what may happen, see budget

VARIABLES net,           \* the connections, in the order they were made
          budget         \* how many records, failures, other clients, calls of
                         \* the application and of the user are still to come

Conns == 1 .. MaxConns
NoConn == 0

Msg(type, val) == [type |-> type, val |-> val]
Nothing == Msg("nothing", <<>>)

Unused == [client |-> "none", server |-> "none", up |-> Nothing, down |-> Nothing]

InitLink == net = [c \in Conns |-> Unused] /\ budget \in Budgets

Other(end) == IF end = "client" THEN "server" ELSE "client"
Inbox(end) == IF end = "client" THEN "down" ELSE "up"

IsOpen(c, end) == net[c][end] = "open"

(* asio::read: a message, or the end of the stream. *)
CanRead(c, end) == IsOpen(c, end) /\ net[c][Inbox(end)] # Nothing

AtEnd(c, end) ==
  ~IsOpen(c, end) \/ (net[c][Inbox(end)] = Nothing /\ ~IsOpen(c, Other(end)))

Spend(what) == budget[what] > 0 /\ budget' = [budget EXCEPT ![what] = @ - 1]

(* A failure or a time-out; and a step without one. *)
Fault == Spend("failures")
Works == UNCHANGED budget

ReadFails(c, end)  == (AtEnd(c, end) /\ Works) \/ (~AtEnd(c, end) /\ Fault)
WriteFails(c, end) == (~IsOpen(c, end) /\ Works) \/ (IsOpen(c, end) /\ Fault)

(* The next connection that can be made. *)
Fresh == {c \in Conns : net[c] = Unused /\ \A d \in 1 .. c - 1 : net[d] # Unused}

Connected(c, request) == [net EXCEPT ![c] = [Unused EXCEPT !.client = "open", !.server = "open",
                                                           !.up = request]]

Taken(c, end) == [net EXCEPT ![c][Inbox(end)] = Nothing]

(* A message to an end that is closed goes nowhere. *)
Sent(c, end, msg) ==
  IF IsOpen(c, Other(end)) THEN [net EXCEPT ![c][Inbox(Other(end))] = msg] ELSE net

(* What was in the inbox of a closed end is lost. *)
ClosedAt(c, end) == [net EXCEPT ![c][end] = "closed", ![c][Inbox(end)] = Nothing]
=============================================================================
