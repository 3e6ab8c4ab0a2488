-------------------------------- MODULE TcpProofs ---------------------------
(***************************************************************************)
(* The TCP link, for any number of connections, clients, calls, failures,  *)
(* any buffer and any size of the batches asked for: who owns a session of *)
(* the server and the thread of the receiver, and that a receiver gets a   *)
(* run of the source's records without a gap.                              *)
(*                                                                         *)
(* Ownership.  A session is referred to by its handler until that has      *)
(* started it, by the list, and by a caller that took the list over.  The  *)
(* invariant ties the three to the life of the session: a session that     *)
(* nobody holds any more was not running when the clean-up dropped it, so  *)
(* that its handler still has to start it, and then notices that it holds  *)
(* the last reference.                                                     *)
(*                                                                         *)
(* No gap.  On the receiver's connection there is one token, which is the  *)
(* request in flight, the session that answers it, or the batch in flight, *)
(* and none of them while the receiver holds it itself.  So a batch is     *)
(* never overwritten, and the session's cursor is the last record of what  *)
(* it has handed out.                                                      *)
(***************************************************************************)
EXTENDS TcpStream, TLAPS

ServerShape ==
  /\ DOMAIN srv = {"up", "reg", "list", "app", "closing"}
  /\ DOMAIN handler = Conns
  /\ DOMAIN sender = Conns
  /\ \A c \in Conns : DOMAIN sender[c] = {"life", "running", "worker", "cursor", "asked"}

Referred(c) == c \in srv.list \/ c \in srv.closing

Session(c) ==
  /\ handler[c] \in {"none", "grant", "publish", "start", "done"}
  /\ handler[c] \in {"none", "grant"} => sender[c].life = "none"
  /\ sender[c].life = "none" => sender[c].worker = "none" /\ ~Referred(c)
  /\ HeldByHandler(c) => sender[c].life = "alive" /\ sender[c].worker = "none"
  /\ handler[c] = "publish" => ~Referred(c)
  /\ c \in srv.list => sender[c].life = "alive" /\ c \notin srv.closing
  /\ (sender[c].life = "alive" /\ handler[c] = "done") => sender[c].running = TRUE /\ Referred(c)
  /\ sender[c].worker \in {"read", "answer"} => sender[c].life \in {"alive", "close", "join"}

SessionInv ==
  /\ ServerShape
  /\ \A c \in Conns : Session(c)
  /\ srv.list \subseteq Conns
  /\ srv.app = "idle" => srv.closing = {}
  /\ ~srv.reg => srv.list = {}

LEMMA SessionInit ==
  ASSUME InitServer
  PROVE  SessionInv
<1>1. /\ srv = [up |-> TRUE, reg |-> TRUE, list |-> {}, app |-> "idle", closing |-> {}]
      /\ handler = [c \in Conns |-> "none"] /\ sender = [c \in Conns |-> NoSender]
  BY DEF InitServer
<1>2. /\ DOMAIN NoSender = {"life", "running", "worker", "cursor", "asked"}
      /\ NoSender.life = "none" /\ NoSender.worker = "none"
  BY DEF NoSender
<1> HIDE DEF NoSender
<1> QED BY <1>1, <1>2 DEF SessionInv, ServerShape, Session, Referred, HeldByHandler

(* A step that changes neither the server's table nor the handlers, and of  *)
(* the sessions only what the invariant allows.                             *)
LEMMA SessionFrame ==
  ASSUME SessionInv, NEW c \in Conns, UNCHANGED <<srv, handler>>,
         DOMAIN sender' = Conns, DOMAIN sender'[c] = DOMAIN sender[c],
         \A d \in Conns \ {c} : sender'[d] = sender[d],
         Session(c)'
  PROVE  SessionInv'
<1>1. \A d \in Conns \ {c} : Session(d)'
  BY DEF SessionInv, ServerShape, Session, Referred, HeldByHandler
<1> QED BY <1>1 DEF SessionInv, ServerShape

LEMMA HandlerStep ==
  ASSUME SessionInv, NEW c \in Conns, HandleClient(c)
  PROVE  SessionInv'
<1> USE DEF SessionInv, ServerShape, Session, Referred, HeldByHandler, Handles
<1>1. CASE ReceiveRequest(c)
  <2>1. /\ handler[c] = "none" /\ UNCHANGED <<srv, sender>>
        /\ \E to \in {"grant", "done"} : handler' = [handler EXCEPT ![c] = to]
    BY <1>1 DEF ReceiveRequest
  <2> QED BY <2>1
<1>2. CASE Grant(c)
  <2>1. CASE handler' = [handler EXCEPT ![c] = "done"] /\ UNCHANGED <<srv, sender>>
    BY <1>2, <2>1 DEF Grant
  <2>2. CASE /\ handler' = [handler EXCEPT ![c] = "publish"]
             /\ srv' = [srv EXCEPT !.list = CleanedUp]
             /\ sender' = [sender EXCEPT ![c] = [NoSender EXCEPT !.life = "alive", !.cursor = served]]
    <3> DEFINE s == [NoSender EXCEPT !.life = "alive", !.cursor = served]
    <3>1. /\ s.life = "alive" /\ s.worker = "none"
          /\ DOMAIN s = {"life", "running", "worker", "cursor", "asked"}
      BY DEF NoSender
    <3> HIDE DEF s
    <3>2. sender' = [sender EXCEPT ![c] = s]
      BY <2>2 DEF s
    <3>3. handler[c] = "grant" /\ ~Referred(c)
      BY <1>2 DEF Grant
    <3>4. /\ srv'.list = CleanedUp /\ srv'.closing = srv.closing /\ srv'.app = srv.app
          /\ srv'.reg = srv.reg /\ DOMAIN srv' = DOMAIN srv
      BY <2>2
    <3>5. \A d \in srv.list : sender[d].running = TRUE => d \in srv'.list
      BY <3>4 DEF CleanedUp
    <3>6. srv'.list \subseteq srv.list
      BY <3>4 DEF CleanedUp
    <3>7. \A d \in Conns \ {c} : Session(d)'
      BY <2>2, <3>2, <3>4, <3>5, <3>6
    <3>8. Session(c)'
      BY <2>2, <3>1, <3>2, <3>3, <3>4, <3>6
    <3>9. ServerShape'
      <4>1. DOMAIN handler' = Conns /\ DOMAIN sender' = Conns
        BY <2>2, <3>2
      <4>2. \A d \in Conns : DOMAIN sender'[d] = {"life", "running", "worker", "cursor", "asked"}
        BY <3>1, <3>2
      <4> QED BY <3>4, <4>1, <4>2
    <3>10. \A d \in Conns : Session(d)'
      BY <3>7, <3>8
    <3> HIDE DEF Session, ServerShape
    <3> QED BY <3>4, <3>6, <3>9, <3>10
  <2> QED BY <1>2, <2>1, <2>2 DEF Grant
<1>3. CASE Publish(c)
  <2>1. CASE srv.reg
    <3>1. /\ handler[c] = "publish" /\ handler' = [handler EXCEPT ![c] = "start"]
          /\ srv' = [srv EXCEPT !.list = @ \cup {c}] /\ sender' = sender
      BY <1>3, <2>1 DEF Publish
    <3> QED BY <2>1, <3>1
  <2>2. CASE ~srv.reg
    <3>1. /\ handler[c] = "publish" /\ handler' = [handler EXCEPT ![c] = "done"]
          /\ srv' = srv /\ sender' = [sender EXCEPT ![c].life = "close"]
      BY <1>3, <2>2 DEF Publish
    <3> QED BY <3>1
  <2> QED BY <2>1, <2>2
<1>4. CASE StartSender(c)
  <2>1. handler[c] = "start" /\ handler' = [handler EXCEPT ![c] = "done"] /\ srv' = srv
    BY <1>4 DEF StartSender
  <2>2. PICK l : /\ l = IF c \in srv.list \cup srv.closing THEN sender[c].life ELSE "close"
                 /\ sender' = [sender EXCEPT ![c].running = TRUE, ![c].worker = "read", ![c].life = l]
    BY <1>4 DEF StartSender
  <2>3. /\ DOMAIN sender' = Conns /\ \A d \in Conns \ {c} : sender'[d] = sender[d]
        /\ DOMAIN sender'[c] = DOMAIN sender[c] /\ sender'[c].running = TRUE
        /\ sender'[c].worker = "read" /\ sender'[c].life = l
    BY <2>2
  <2>4. Session(c)'
    BY <2>1, <2>2, <2>3
  <2>5. \A d \in Conns \ {c} : Session(d)'
    BY <2>1, <2>3
  <2> QED BY <2>1, <2>3, <2>4, <2>5
<1> QED BY <1>1, <1>2, <1>3, <1>4 DEF HandleClient

LEMMA SenderStep ==
  ASSUME SessionInv, NEW c \in Conns, DestroySender(c) \/ SenderWorks(c)
  PROVE  SessionInv'
<1> USE DEF SessionInv, ServerShape, Session, Referred, HeldByHandler
<1>1. CASE DestroyBegin(c)
  BY <1>1, SessionFrame DEF DestroyBegin
<1>2. CASE DestroyJoin(c)
  <2> DEFINE s == [NoSender EXCEPT !.life = "gone"]
  <2>1. /\ s.life = "gone" /\ s.worker = "none"
        /\ DOMAIN s = {"life", "running", "worker", "cursor", "asked"}
    BY DEF NoSender
  <2> HIDE DEF s
  <2>2. /\ sender[c].life = "join" /\ sender' = [sender EXCEPT ![c] = s]
        /\ UNCHANGED <<srv, handler>>
    BY <1>2 DEF DestroyJoin, s
  <2> QED BY <2>1, <2>2, SessionFrame
<1>3. CASE SenderWorks(c)
  <2>1. /\ sender[c].worker \in {"read", "answer"} /\ UNCHANGED <<srv, handler>>
        /\ DOMAIN sender' = Conns /\ \A d \in Conns \ {c} : sender'[d] = sender[d]
        /\ DOMAIN sender'[c] = DOMAIN sender[c]
        /\ sender'[c].life = sender[c].life /\ sender'[c].running = sender[c].running
        /\ sender'[c].worker \in {"read", "answer", "ended"}
    <3>1. CASE SenderReads(c)
      BY <3>1 DEF SenderReads
    <3>2. CASE SenderAnswers(c)
      <4>1. PICK n, w \in {"read", "ended"} :
              sender' = [sender EXCEPT ![c].cursor = @ + n, ![c].worker = w, ![c].asked = 0]
        BY <3>2 DEF SenderAnswers
      <4> QED BY <3>2, <4>1 DEF SenderAnswers
    <3> QED BY <1>3, <3>1, <3>2 DEF SenderWorks
  <2> QED BY <2>1, SessionFrame
<1> QED BY <1>1, <1>2, <1>3 DEF DestroySender

LEMMA ApplicationStep ==
  ASSUME SessionInv, Application \/ Closes
  PROVE  SessionInv'
<1> USE DEF SessionInv, ServerShape, Session, Referred, HeldByHandler
<1>1. CASE RegisterBuffer \/ StartServer \/ ApplicationReturns
  BY <1>1 DEF RegisterBuffer, StartServer, ApplicationReturns
<1>2. CASE UnregisterBuffer
  BY <1>2 DEF UnregisterBuffer
<1>3. CASE StopServer
  <2>1. /\ srv.app = "idle" /\ sender' = sender
        /\ srv' = [srv EXCEPT !.up = FALSE, !.reg = FALSE, !.closing = srv.list, !.list = {}, !.app = "stop"]
    BY <1>3 DEF StopServer
  <2>2. DOMAIN handler' = Conns /\ \A c \in Conns : handler[c] \in {"none", "done"}
    BY <1>3 DEF StopServer
  <2>3. \A c \in Conns : handler'[c] = handler[c] \/ (handler[c] = "none" /\ handler'[c] = "done")
    BY <1>3 DEF StopServer
  <2> QED BY <2>1, <2>2, <2>3
<1>4. ASSUME NEW c \in Conns, DropReference(c) \/ SessionClosed(c) PROVE SessionInv'
  <2>1. CASE HeldByHandler(c) /\ DropReference(c)
    BY <2>1 DEF DropReference
  <2>2. CASE ~HeldByHandler(c) /\ DropReference(c)
    <3>1. /\ c \in srv.closing /\ sender[c].life = "alive"
          /\ sender' = [sender EXCEPT ![c].life = "close"] /\ UNCHANGED <<srv, handler>>
      BY <2>2 DEF DropReference
    <3>2. /\ DOMAIN sender' = Conns /\ \A d \in Conns \ {c} : sender'[d] = sender[d]
          /\ DOMAIN sender'[c] = DOMAIN sender[c] /\ sender'[c].life = "close"
          /\ sender'[c].worker = sender[c].worker
      <4> HIDE DEF SessionInv, ServerShape, Session, Referred, HeldByHandler
      <4>1. DOMAIN sender = Conns /\ DOMAIN sender[c] = {"life", "running", "worker", "cursor", "asked"}
        BY DEF SessionInv, ServerShape
      <4> QED BY <3>1, <4>1
    <3>3. Session(c)'
      BY <2>2, <3>1, <3>2
    <3> QED BY <3>1, <3>2, <3>3, SessionFrame
  <2>3. CASE SessionClosed(c)
    BY <2>3 DEF SessionClosed
  <2> QED BY <1>4, <2>1, <2>2, <2>3
<1> QED BY <1>1, <1>2, <1>3, <1>4 DEF Application, Closes

LEMMA SessionInvariant == TcpSpec => []SessionInv
<1>1. TcpInit => SessionInv
  BY SessionInit DEF TcpInit
<1>2. ASSUME SessionInv, [TcpNext]_tcpVars PROVE SessionInv'
  <2>1. CASE UNCHANGED <<srv, handler, sender>>
    BY <1>2, <2>1 DEF SessionInv, ServerShape, Session, Referred, HeldByHandler
  <2> QED BY <1>2, <2>1, HandlerStep, SenderStep, ApplicationStep
          DEF TcpNext, SourceWrites, serverVars, tcpVars
<1> QED BY <1>1, <1>2, PTL DEF TcpSpec

(* The worker of a session never outlives the object and the list holds no  *)
(* destroyed one, although a session is published before it is started and  *)
(* the clean-up of another may remove it in between (TcpServer.cpp:130-172). *)
THEOREM EverySessionHasAnOwner == TcpSpec => []SessionsAreOwned
<1>1. SessionInv => SessionsAreOwned
  BY DEF SessionInv, Session, Referred, HeldByHandler, SessionsAreOwned
<1> QED BY <1>1, SessionInvariant, PTL

(* When unregisterBuffer() has returned no session of the buffer is alive,  *)
(* but one that its handler still holds (TcpServer.cpp:24-46).               *)
THEOREM UnregisterEndsAllSessions == TcpSpec => []UnregisteredIsSilent
<1>1. SessionInv => UnregisteredIsSilent
  BY DEF SessionInv, Session, Referred, HeldByHandler, UnregisteredIsSilent
<1> QED BY <1>1, SessionInvariant, PTL
-----------------------------------------------------------------------------
(* The receiver: outside of stop() its thread is joinable exactly when      *)
(* m_running is set, since a worker that ends by itself leaves both.        *)
ReceiverInv ==
  /\ DOMAIN rcv = {"connected", "running", "worker", "joinable", "conn", "batch", "call"}
  /\ rcv.running \in BOOLEAN /\ rcv.joinable \in BOOLEAN
  /\ rcv.call # "terminated"
  /\ rcv.call \notin {"join", "stopped"} => rcv.joinable = rcv.running
  /\ rcv.call = "handshake" => ~rcv.running

LEMMA ReceiverInvariant == TcpSpec => []ReceiverInv
<1>1. ASSUME rcv = NewReceiver PROVE ReceiverInv
  <2>1. /\ DOMAIN NewReceiver = {"connected", "running", "worker", "joinable", "conn", "batch", "call"}
        /\ NewReceiver.running = FALSE /\ NewReceiver.joinable = FALSE /\ NewReceiver.call = "idle"
    BY DEF NewReceiver
  <2> HIDE DEF NewReceiver
  <2> QED BY <1>1, <2>1 DEF ReceiverInv
<1>2. TcpInit => ReceiverInv
  BY <1>1 DEF TcpInit, InitReceiver
<1>3. ASSUME ReceiverInv, [TcpNext]_tcpVars PROVE ReceiverInv'
  <2> USE DEF ReceiverInv
  <2>1. CASE UNCHANGED rcv
    BY <1>3, <2>1
  <2>2. CASE ReceiverWorks
    BY <1>3, <2>2 DEF ReceiverWorks, Asks, Receives, Pushes, WorkerEnds
  <2>3. CASE ReceiverCalls(srv.up)
    <3>1. CASE Connect(srv.up)
      BY <1>3, <3>1 DEF Connect, Goes
    <3>2. CASE Handshake
      <4>1. rcv.call = "handshake" /\ ~rcv.running /\ ~rcv.joinable
        BY <1>3, <3>2 DEF Handshake
      <4>2. CASE Goes("refused")
        BY <1>3, <4>1, <4>2 DEF Goes
      <4>3. CASE rcv' = Started([rcv EXCEPT !.connected = TRUE])
        BY <1>3, <4>1, <4>3 DEF Started
      <4> QED BY <3>2, <4>2, <4>3 DEF Handshake
    <3>3. CASE StopBegin \/ StopWorkerJoin
      BY <1>3, <3>3 DEF StopBegin, StopWorkerJoin
    <3> QED BY <2>3, <3>1, <3>2, <3>3 DEF ReceiverCalls
  <2>4. CASE StartConnection \/ ConnectTimer \/ ConnectReturns \/ StopConnection
    BY <1>3, <2>4 DEF StartConnection, ConnectTimer, ConnectReturns, StopConnection, Goes, GuiIdle
  <2>5. CASE ConnectionStopped
    <3>1. rcv' = NewReceiver
      BY <2>5 DEF ConnectionStopped
    <3> QED BY <3>1 DEF NewReceiver
  <2>6. CASE CheckStatus
    BY <2>1, <2>6 DEF CheckStatus
  <2> QED BY <1>3, <2>1, <2>2, <2>3, <2>4, <2>5, <2>6
          DEF TcpNext, WidgetSteps, PeerConnects, PeerFinishes, clientVars, tcpVars
<1> QED BY <1>2, <1>3, PTL DEF TcpSpec

(* A receiver is never started over a thread that was not joined, although  *)
(* its worker ends by itself whenever a connection does                     *)
(* (TcpDataReceiver.cpp:23-101).                                            *)
THEOREM ReceiverThreadIsJoined == TcpSpec => []NoThreadLost
<1>1. ReceiverInv => NoThreadLost
  BY DEF ReceiverInv, NoThreadLost
<1> QED BY <1>1, ReceiverInvariant, PTL
-----------------------------------------------------------------------------
(* The stream of one connection.                                            *)

(* s is a run of records of a source that has written k. *)
Run(s, k) ==
  /\ s \in Seq(Nat)
  /\ \A i \in 1 .. Len(s) - 1 : s[i + 1] = s[i] + 1
  /\ \A i \in DOMAIN s : s[i] \in 1 .. k

EndsAt(s, k) == s # <<>> => Last(s) = k

LEMMA Concatenation ==
  ASSUME NEW S, NEW s \in Seq(S), NEW t \in Seq(S)
  PROVE  /\ s \o t \in Seq(S) /\ Len(s) \in Nat /\ Len(t) \in Nat
         /\ Len(s \o t) = Len(s) + Len(t) /\ DOMAIN (s \o t) = 1 .. Len(s) + Len(t)
         /\ \A i \in 1 .. Len(s) : (s \o t)[i] = s[i]
         /\ \A i \in Len(s) + 1 .. Len(s) + Len(t) : (s \o t)[i] = t[i - Len(s)]
  OBVIOUS

LEMMA RunPrefix ==
  ASSUME NEW s \in Seq(Nat), NEW t \in Seq(Nat), NEW k, Run(s \o t, k)
  PROVE  Run(s, k)
<1>1. /\ Len(s \o t) = Len(s) + Len(t) /\ Len(s) \in Nat /\ Len(t) \in Nat
      /\ \A i \in 1 .. Len(s) : (s \o t)[i] = s[i]
  OBVIOUS
<1>2. DOMAIN (s \o t) = 1 .. Len(s) + Len(t) /\ DOMAIN s = 1 .. Len(s)
  BY <1>1
<1> QED BY <1>1, <1>2 DEF Run

LEMMA RunGrows ==
  ASSUME NEW k \in Nat, NEW m \in Nat, k <= m, NEW s, Run(s, k)
  PROVE  Run(s, m)
  BY DEF Run

(* The next n records behind the m-th. *)
LEMMA RunJoins ==
  ASSUME NEW s \in Seq(Nat), NEW t \in Seq(Nat), NEW k \in Nat, Run(s, k), NEW m \in Nat,
         m + Len(t) <= k, EndsAt(s, m), \A i \in 1 .. Len(t) : t[i] = m + i
  PROVE  Run(s \o t, k) /\ EndsAt(s \o t, m + Len(t))
<1> DEFINE r == s \o t
           n == Len(t)
           l == Len(s)
<1>1. /\ r \in Seq(Nat) /\ l \in Nat /\ n \in Nat /\ Len(r) = l + n /\ DOMAIN r = 1 .. l + n
      /\ \A i \in 1 .. l : r[i] = s[i]
      /\ \A i \in l + 1 .. l + n : r[i] = t[i - l]
  BY Concatenation
<1>2. /\ \A i \in 1 .. l : s[i] \in Nat /\ s[i] \in 1 .. k
      /\ \A i \in 1 .. l - 1 : s[i + 1] = s[i] + 1
      /\ l > 0 => s[l] = m
  BY DEF Run, EndsAt, Last
<1>3. m + n <= k /\ \A i \in 1 .. n : t[i] = m + i
  OBVIOUS
<1> HIDE DEF r, n, l
<1>4. \A i \in l + 1 .. l + n : r[i] = m + (i - l)
  <2>1. ASSUME NEW i \in l + 1 .. l + n PROVE r[i] = m + (i - l)
    <3>1. i - l \in 1 .. n
      BY <1>1
    <3>2. r[i] = t[i - l]
      BY <1>1
    <3> QED BY <1>3, <3>1, <3>2
  <2> QED BY <2>1
<1>5. \A i \in 1 .. l + n - 1 : r[i + 1] = r[i] + 1
  <2>1. ASSUME NEW i \in 1 .. l - 1 PROVE r[i + 1] = r[i] + 1
    <3>1. i \in 1 .. l /\ i + 1 \in 1 .. l
      BY <1>1
    <3>2. r[i] = s[i] /\ r[i + 1] = s[i + 1]
      BY <1>1, <3>1
    <3> QED BY <1>2, <3>2
  <2>2. ASSUME l > 0, n > 0 PROVE r[l + 1] = r[l] + 1
    <3>1. r[l + 1] = m + 1
      BY <1>1, <1>4, <2>2
    <3>2. r[l] = m
      BY <1>1, <1>2, <2>2
    <3> QED BY <3>1, <3>2
  <2>3. ASSUME NEW i \in l + 1 .. l + n - 1 PROVE r[i + 1] = r[i] + 1
    <3>1. i \in l + 1 .. l + n /\ i + 1 \in l + 1 .. l + n
      BY <1>1
    <3>2. \A j \in l + 1 .. l + n : r[j] = m + (j - l)
      BY <1>4
    <3>3. r[i + 1] = m + ((i + 1) - l)
      BY <3>1, <3>2
    <3> QED BY <1>1, <3>1, <3>2, <3>3
  <2>4. ASSUME NEW i \in 1 .. l + n - 1 PROVE i \in 1 .. l - 1 \/ i \in l + 1 .. l + n - 1
                                              \/ (i = l /\ l > 0 /\ n > 0)
    BY <1>1
  <2> QED BY <2>1, <2>2, <2>3, <2>4
<1>6. \A i \in 1 .. l + n : r[i] \in 1 .. k
  <2>1. \A i \in 1 .. l : r[i] \in 1 .. k
    BY <1>1, <1>2
  <2>2. ASSUME NEW i \in l + 1 .. l + n PROVE r[i] \in 1 .. k
    BY <1>1, <1>3, r[i] = m + (i - l), <1>4
  <2>3. \A i \in 1 .. l + n : i \in 1 .. l \/ i \in l + 1 .. l + n
    BY <1>1
  <2> QED BY <2>1, <2>2, <2>3
<1>7. Run(r, k)
  BY <1>1, <1>5, <1>6 DEF Run
<1>8. EndsAt(r, m + n)
  <2>1. CASE n = 0
    <3>1. r # <<>> => l > 0
      BY <1>1, <2>1
    <3>2. l > 0 => r[l] = m
      BY <1>1, <1>2
    <3> QED BY <1>1, <2>1, <3>1, <3>2 DEF EndsAt, Last
  <2>2. CASE n > 0
    BY <1>1, <1>4, <2>2 DEF EndsAt, Last
  <2> QED BY <1>1, <2>1, <2>2
<1> QED BY <1>7, <1>8 DEF r, n

LEMMA MinOfTwo ==
  ASSUME NEW a \in Int, NEW b \in Int
  PROVE  Min({a, b}) \in Int /\ Min({a, b}) <= a /\ Min({a, b}) <= b
<1>1. \E x \in {a, b} : \A y \in {a, b} : x <= y
  BY a <= b \/ b <= a
<1> QED BY <1>1 DEF Min
-----------------------------------------------------------------------------
(* One connection after a step on it. *)
NetShape == DOMAIN net = Conns /\ \A c \in Conns : DOMAIN net[c] = {"client", "server", "up", "down"}

Touched(n, c, client, server, up, down) ==
  /\ DOMAIN n = Conns
  /\ \A d \in Conns \ {c} : n[d] = net[d]
  /\ DOMAIN n[c] = {"client", "server", "up", "down"}
  /\ n[c].client = client /\ n[c].server = server /\ n[c].up = up /\ n[c].down = down

LEMMA ClientSide ==
  ASSUME NetShape, NEW c \in Conns, NEW msg
  PROVE  /\ Touched(Taken(c, "client"), c, net[c].client, net[c].server, net[c].up, Nothing)
         /\ Touched(ClosedAt(c, "client"), c, "closed", net[c].server, net[c].up, Nothing)
         /\ Touched(Sent(c, "client", msg), c, net[c].client, net[c].server,
                    IF IsOpen(c, "server") THEN msg ELSE net[c].up, net[c].down)
         /\ Touched(Connected(c, msg), c, "open", "open", msg, Nothing)
<1> USE DEF NetShape, Touched, Inbox, Other
<1>1. Touched(Taken(c, "client"), c, net[c].client, net[c].server, net[c].up, Nothing)
  BY DEF Taken
<1>2. Touched(ClosedAt(c, "client"), c, "closed", net[c].server, net[c].up, Nothing)
  BY DEF ClosedAt
<1>3. Touched(Sent(c, "client", msg), c, net[c].client, net[c].server,
              IF IsOpen(c, "server") THEN msg ELSE net[c].up, net[c].down)
  BY DEF Sent
<1>4. Touched(Connected(c, msg), c, "open", "open", msg, Nothing)
  BY DEF Connected, Unused
<1> QED BY <1>1, <1>2, <1>3, <1>4

LEMMA ServerSide ==
  ASSUME NetShape, NEW c \in Conns, NEW msg
  PROVE  /\ Touched(Taken(c, "server"), c, net[c].client, net[c].server, Nothing, net[c].down)
         /\ Touched(ClosedAt(c, "server"), c, net[c].client, "closed", Nothing, net[c].down)
         /\ Touched(Sent(c, "server", msg), c, net[c].client, net[c].server, net[c].up,
                    IF IsOpen(c, "client") THEN msg ELSE net[c].down)
         /\ Touched(Answered(c, msg), c, net[c].client, "closed", Nothing,
                    IF IsOpen(c, "client") THEN msg ELSE net[c].down)
<1> USE DEF NetShape, Touched, Inbox, Other
<1>1. Touched(Taken(c, "server"), c, net[c].client, net[c].server, Nothing, net[c].down)
  BY DEF Taken
<1>2. Touched(ClosedAt(c, "server"), c, net[c].client, "closed", Nothing, net[c].down)
  BY DEF ClosedAt
<1>3. Touched(Sent(c, "server", msg), c, net[c].client, net[c].server, net[c].up,
              IF IsOpen(c, "client") THEN msg ELSE net[c].down)
  BY DEF Sent
<1>4. Touched(Answered(c, msg), c, net[c].client, "closed", Nothing,
              IF IsOpen(c, "client") THEN msg ELSE net[c].down)
  BY <1>3 DEF Answered
<1> QED BY <1>1, <1>2, <1>3, <1>4
-----------------------------------------------------------------------------
(* The three places of the token. *)
Asking(c)    == net[c].up.type = "ask"
Answering(c) == sender[c].worker = "answer"
Arriving(c)  == net[c].down.type = "batch"

Seen(c) == got \o rcv.batch \o InFlight(c)

Link(c) ==
  /\ net[c].client = "none" => net[c] = Unused /\ handler[c] = "none"
  /\ Asking(c) => net[c].up.val = MaxAsked
  /\ Answering(c) => sender[c].asked = MaxAsked
  /\ sender[c].cursor \in Nat /\ sender[c].cursor <= served

OneToken(c) ==
  /\ ~(Asking(c) /\ Answering(c)) /\ ~(Asking(c) /\ Arriving(c)) /\ ~(Answering(c) /\ Arriving(c))
  /\ rcv.worker \notin {"wait", "leave"} => ~Asking(c) /\ ~Answering(c) /\ ~Arriving(c)

Flow(c) ==
  /\ net[c].client # "none"
  /\ got \in Seq(Nat) /\ rcv.batch \in Seq(Nat)
  /\ Arriving(c) => net[c].down.val \in Seq(Nat) /\ Len(net[c].down.val) <= MaxAsked
  /\ handler[c] # "done" => got = <<>> /\ rcv.batch = <<>> /\ ~Arriving(c)
  /\ net[c].client = "open" => OneToken(c)
  /\ Run(Seen(c), served)
  /\ (net[c].client = "open" /\ sender[c].worker \in {"read", "answer"})
       => EndsAt(Seen(c), sender[c].cursor)

Worker ==
  /\ rcv.worker # "push" => rcv.batch = <<>>
  /\ (rcv.call \notin {"join", "stopped"} /\ ~rcv.running) => rcv.worker = "none"
  /\ rcv.conn = NoConn => rcv.worker = "none" /\ rcv.call # "handshake"

StreamInv ==
  /\ NetShape /\ served \in Nat
  /\ \A c \in Conns : Link(c)
  /\ rcv.conn # NoConn => rcv.conn \in Conns /\ Flow(rcv.conn)
  /\ Worker

SameSession(d) ==
  /\ sender'[d].worker = sender[d].worker /\ sender'[d].cursor = sender[d].cursor
  /\ sender'[d].asked = sender[d].asked

SameConn(d) ==
  net'[d] = net[d] /\ handler'[d] = handler[d] /\ SameSession(d)

SameReceiver ==
  got' = got /\ rcv'.batch = rcv.batch /\ rcv'.worker \in {rcv.worker, "leave"}

LEMMA LinkFrame ==
  ASSUME NEW d \in Conns, Link(d), SameConn(d), served \in Nat, served' \in Nat, served <= served'
  PROVE  Link(d)'
  BY DEF Link, SameConn, SameSession, Asking, Answering

LEMMA FlowFrame ==
  ASSUME NEW d \in Conns, Flow(d), SameConn(d), SameReceiver,
         served \in Nat, served' \in Nat, served <= served'
  PROVE  Flow(d)'
<1>1. Seen(d)' = Seen(d)
  BY DEF Seen, InFlight, SameConn, SameReceiver
<1>2. Run(Seen(d)', served')
  BY <1>1, RunGrows DEF Flow
<1>3. OneToken(d) => OneToken(d)'
  BY DEF OneToken, Asking, Answering, Arriving, SameConn, SameSession, SameReceiver
<1> QED BY <1>1, <1>2, <1>3
        DEF Flow, SameConn, SameSession, SameReceiver, Arriving

(* A step of the server on one connection, or of another client. *)
LEMMA StepOnOne ==
  ASSUME StreamInv, NEW c \in Conns, UNCHANGED <<rcv, got>>, NetShape',
         served' \in Nat, served <= served',
         \A d \in Conns \ {c} : SameConn(d),
         Link(c)', rcv.conn = c => Flow(c)'
  PROVE  StreamInv'
<1>1. \A d \in Conns : Link(d)'
  BY LinkFrame DEF StreamInv
<1>2. rcv.conn # NoConn => Flow(rcv.conn)'
  <2>1. CASE rcv.conn = c
    BY <2>1
  <2>2. CASE rcv.conn \in Conns \ {c} /\ rcv.conn # NoConn
    BY <2>2, FlowFrame DEF StreamInv, SameReceiver
  <2> QED BY <2>1, <2>2 DEF StreamInv
<1> QED BY <1>1, <1>2 DEF StreamInv, Worker

(* A step of the receiver or its widget that leaves the connections alone.  *)
LEMMA StepOffNet ==
  ASSUME StreamInv, \A d \in Conns : SameConn(d), NetShape', served' = served,
         SameReceiver, rcv'.conn = rcv.conn, Worker'
  PROVE  StreamInv'
<1>1. \A d \in Conns : Link(d)'
  BY LinkFrame DEF StreamInv
<1>2. ASSUME NEW d \in Conns, rcv.conn = d, d # NoConn PROVE Flow(d)'
  BY <1>2, FlowFrame DEF StreamInv
<1> QED BY <1>1, <1>2 DEF StreamInv

(* The server's side of the receiver's connection, but for an answer: the   *)
(* token moves from the request to the session or is lost.                  *)
LEMMA FlowKeeps ==
  ASSUME NEW c \in Conns, Flow(c), UNCHANGED <<rcv, got, served>>,
         net'[c].client = net[c].client,
         net'[c].down = net[c].down \/ (~Arriving(c) /\ net'[c].down.type # "batch"),
         Asking(c)' => Asking(c),
         Answering(c)' => Answering(c) \/ (Asking(c) /\ ~Asking(c)'),
         handler[c] = "done" => handler'[c] = "done",
         sender'[c].worker \in {"read", "answer"} =>
           \/ sender[c].worker \in {"read", "answer"} /\ sender'[c].cursor = sender[c].cursor
           \/ handler[c] # "done"
  PROVE  Flow(c)'
<1>1. /\ Arriving(c)' => Arriving(c) /\ net'[c].down = net[c].down
      /\ InFlight(c)' = InFlight(c)
  BY DEF Arriving, InFlight
<1>2. Seen(c)' = Seen(c)
  BY <1>1 DEF Seen
<1>3. OneToken(c) => OneToken(c)'
  BY <1>1 DEF OneToken
<1>4. handler[c] # "done" => Seen(c) = <<>>
  BY DEF Flow, Seen, InFlight, Arriving
<1>5. (net'[c].client = "open" /\ sender'[c].worker \in {"read", "answer"})
        => EndsAt(Seen(c)', sender'[c].cursor)
  BY <1>2, <1>4 DEF Flow, EndsAt
<1> QED BY <1>1, <1>2, <1>3, <1>5 DEF Flow
-----------------------------------------------------------------------------
(* What a step of a server leaves of every other connection. *)
LEMMA OthersRest ==
  ASSUME NEW c \in Conns, NEW cl, NEW sv, NEW up, NEW down, NetShape,
         Touched(net', c, cl, sv, up, down)
  PROVE  /\ NetShape' /\ \A d \in Conns \ {c} : net'[d] = net[d]
         /\ net'[c].client = cl /\ net'[c].up = up /\ net'[c].down = down
  BY DEF Touched, NetShape

(* Before its handler is done a connection has no session at work. *)
LEMMA NotYetAtWork ==
  ASSUME SessionInv, NEW c \in Conns, sender[c].worker \in {"read", "answer"}
  PROVE  handler[c] = "done"
  BY DEF SessionInv, Session, HeldByHandler

LEMMA RequestFlow ==
  ASSUME StreamInv, SessionInv, NEW c \in Conns, ReceiveRequest(c), UNCHANGED <<rcv, got>>
  PROVE  StreamInv'
<1>0. NetShape /\ served \in Nat /\ Link(c) /\ (rcv.conn = c => Flow(c)) /\ DOMAIN handler = Conns
  BY DEF StreamInv, SessionInv, ServerShape, Conns, NoConn
<1>1. /\ handler[c] = "none" /\ net[c] # Unused /\ UNCHANGED <<served, sender>>
      /\ \E to \in {"grant", "done"} : handler' = [handler EXCEPT ![c] = to]
  BY DEF ReceiveRequest, Handles
<1>2. \E msg : /\ msg.type \in {"names", "schema", "error"}
               /\ net' \in {Answered(c, msg), Taken(c, "server"), ClosedAt(c, "server")}
  <2> DEFINE names == Msg("names", srv.reg)
             schema == Msg("schema", <<>>)
             error == Msg("error", <<>>)
  <2>1. names.type = "names" /\ schema.type = "schema" /\ error.type = "error"
    BY DEF Msg
  <2> HIDE DEF names, schema, error
  <2>2. \/ net' \in {Answered(c, names), Answered(c, schema), Answered(c, error)}
        \/ net' \in {Taken(c, "server"), ClosedAt(c, "server")}
    BY DEF ReceiveRequest, names, schema, error
  <2> QED BY <2>1, <2>2
<1>3. PICK sv, down : /\ Touched(net', c, net[c].client, sv, Nothing, down)
                      /\ down = net[c].down \/ down.type \in {"names", "schema", "error"}
  BY <1>0, <1>2, ServerSide
<1>4. /\ NetShape' /\ \A d \in Conns \ {c} : SameConn(d)
      /\ net'[c].client = net[c].client /\ net'[c].up = Nothing /\ net'[c].down = down
  BY <1>0, <1>1, <1>3, OthersRest DEF SameConn, SameSession
<1>5. Nothing.type = "nothing"
  BY DEF Nothing, Msg
<1>6. Link(c)'
  BY <1>0, <1>1, <1>4, <1>5 DEF Link, Asking, Answering
<1>7. rcv.conn = c => Flow(c)'
  <2>1. ASSUME rcv.conn = c PROVE Flow(c)'
    <3>1. ~Arriving(c)
      BY <1>0, <1>1, <2>1 DEF Flow
    <3> QED BY <1>0, <1>1, <1>3, <1>4, <1>5, <2>1, <3>1, FlowKeeps DEF Asking, Answering
  <2> QED BY <2>1
<1> QED BY <1>0, <1>1, <1>4, <1>6, <1>7, StepOnOne

LEMMA GrantFlow ==
  ASSUME StreamInv, SessionInv, NEW c \in Conns, Grant(c), UNCHANGED <<rcv, got>>
  PROVE  StreamInv'
<1>0. NetShape /\ served \in Nat /\ Link(c) /\ (rcv.conn = c => Flow(c)) /\ ServerShape /\ Session(c)
  BY DEF StreamInv, SessionInv, Conns, NoConn
<1>1. /\ handler[c] = "grant" /\ served' = served
      /\ \E to \in {"publish", "done"} : handler' = [handler EXCEPT ![c] = to]
  BY DEF Grant, Handles
<1>2. sender[c].worker = "none"
  BY <1>0, <1>1 DEF Session
<1>3. \E s : /\ sender' \in {sender, [sender EXCEPT ![c] = s]}
             /\ s.worker = "none" /\ s.cursor = served
  <2> DEFINE s == [NoSender EXCEPT !.life = "alive", !.cursor = served]
  <2>1. s.worker = "none" /\ s.cursor = served
    BY DEF NoSender
  <2> HIDE DEF s
  <2>2. sender' \in {sender, [sender EXCEPT ![c] = s]}
    BY DEF Grant, s
  <2> QED BY <2>1, <2>2
<1>4. /\ \A d \in Conns \ {c} : sender'[d] = sender[d]
      /\ sender'[c].worker = "none" /\ sender'[c].cursor \in Nat /\ sender'[c].cursor <= served
  BY <1>0, <1>2, <1>3 DEF ServerShape, Link
<1>5. PICK sv, up, down : /\ Touched(net', c, net[c].client, sv, up, down)
                          /\ up = net[c].up \/ up = Nothing
                          /\ down = net[c].down \/ down.type = "schema"
  <2>1. Msg("schema", <<>>).type = "schema"
    BY DEF Msg
  <2>2. net' \in {Sent(c, "server", Msg("schema", <<>>)), ClosedAt(c, "server")}
    BY DEF Grant
  <2> HIDE DEF Msg
  <2> QED BY <1>0, <2>1, <2>2, ServerSide
<1>6. /\ NetShape' /\ \A d \in Conns \ {c} : SameConn(d)
      /\ net'[c].client = net[c].client /\ net'[c].up = up /\ net'[c].down = down
  BY <1>0, <1>1, <1>4, <1>5, OthersRest DEF SameConn, SameSession, ServerShape
<1>7. Nothing.type = "nothing"
  BY DEF Nothing, Msg
<1>8. Link(c)'
  BY <1>0, <1>1, <1>4, <1>5, <1>6, <1>7 DEF Link, Asking, Answering
<1>9. rcv.conn = c => Flow(c)'
  <2>1. ASSUME rcv.conn = c PROVE Flow(c)'
    <3>1. ~Arriving(c)
      BY <1>0, <1>1, <2>1 DEF Flow
    <3> QED BY <1>0, <1>1, <1>4, <1>5, <1>6, <1>7, <2>1, <3>1, FlowKeeps DEF Asking, Answering
  <2> QED BY <2>1
<1> QED BY <1>0, <1>1, <1>6, <1>8, <1>9, StepOnOne

LEMMA HandlerFlow ==
  ASSUME StreamInv, SessionInv, NEW c \in Conns, HandleClient(c), UNCHANGED <<rcv, got>>
  PROVE  StreamInv'
<1>0. NetShape /\ served \in Nat /\ Link(c) /\ (rcv.conn = c => Flow(c)) /\ ServerShape /\ Session(c)
  BY DEF StreamInv, SessionInv, Conns, NoConn
<1>1. CASE Publish(c) \/ StartSender(c)
  <2>1. /\ handler[c] \in {"publish", "start"} /\ UNCHANGED <<net, served>>
        /\ \E to \in {"start", "done"} : handler' = [handler EXCEPT ![c] = to]
    BY <1>1 DEF Publish, StartSender, Handles
  <2>2. sender[c].worker = "none"
    BY <1>0, <2>1 DEF Session, HeldByHandler
  <2>3. /\ \A d \in Conns \ {c} : sender'[d] = sender[d]
        /\ sender'[c].worker \in {"none", "read"} /\ sender'[c].cursor = sender[c].cursor
    <3>1. CASE Publish(c)
      BY <1>0, <2>2, <3>1 DEF Publish, ServerShape
    <3>2. CASE StartSender(c)
      <4>1. PICK l : sender' = [sender EXCEPT ![c].running = TRUE, ![c].worker = "read", ![c].life = l]
        BY <3>2 DEF StartSender
      <4> QED BY <1>0, <4>1 DEF ServerShape
    <3> QED BY <1>1, <3>1, <3>2
  <2>4. NetShape' /\ \A d \in Conns \ {c} : SameConn(d)
    BY <1>0, <2>1, <2>3 DEF SameConn, SameSession, ServerShape, NetShape
  <2>5. Link(c)'
    BY <1>0, <2>1, <2>3 DEF Link, Asking, Answering
  <2>6. rcv.conn = c => Flow(c)'
    BY <1>0, <2>1, <2>3, FlowKeeps DEF Asking, Answering
  <2> QED BY <1>0, <2>1, <2>4, <2>5, <2>6, StepOnOne
<1> QED BY <1>1, RequestFlow, GrantFlow DEF HandleClient

LEMMA DestroyFlow ==
  ASSUME StreamInv, SessionInv, NEW c \in Conns, DestroySender(c), UNCHANGED <<rcv, got>>
  PROVE  StreamInv'
<1>0. NetShape /\ served \in Nat /\ Link(c) /\ (rcv.conn = c => Flow(c)) /\ ServerShape
  BY DEF StreamInv, SessionInv, Conns, NoConn
<1>1. UNCHANGED <<served, handler>>
  BY DEF DestroySender, DestroyBegin, DestroyJoin
<1>2. /\ \A d \in Conns \ {c} : sender'[d] = sender[d]
      /\ sender'[c].cursor \in Nat /\ sender'[c].cursor <= served
      /\ \/ SameSession(c)
         \/ sender'[c].worker = "none"
  <2>1. CASE DestroyBegin(c)
    <3>1. sender' = [sender EXCEPT ![c].life = "join", ![c].running = FALSE]
      BY <2>1 DEF DestroyBegin
    <3>2. /\ \A d \in Conns \ {c} : sender'[d] = sender[d]
          /\ sender'[c].worker = sender[c].worker /\ sender'[c].cursor = sender[c].cursor
          /\ sender'[c].asked = sender[c].asked
      BY <1>0, <3>1 DEF ServerShape
    <3> QED BY <1>0, <3>2 DEF SameSession, Link
  <2>2. CASE DestroyJoin(c)
    <3> DEFINE s == [NoSender EXCEPT !.life = "gone"]
    <3>1. s.worker = "none" /\ s.cursor = 0
      BY DEF NoSender
    <3> HIDE DEF s
    <3>2. sender' = [sender EXCEPT ![c] = s]
      BY <2>2 DEF DestroyJoin, s
    <3> QED BY <1>0, <3>1, <3>2 DEF ServerShape
  <2> QED BY <2>1, <2>2 DEF DestroySender
<1>3. PICK sv, up : /\ Touched(net', c, net[c].client, sv, up, net[c].down)
                    /\ up = net[c].up \/ up = Nothing
  <2>1. net' \in {net, ClosedAt(c, "server")}
    BY DEF DestroySender, DestroyBegin, DestroyJoin
  <2>2. Touched(net, c, net[c].client, net[c].server, net[c].up, net[c].down)
    BY <1>0 DEF Touched, NetShape
  <2> QED BY <1>0, <2>1, <2>2, ServerSide
<1>4. /\ NetShape' /\ \A d \in Conns \ {c} : SameConn(d)
      /\ net'[c].client = net[c].client /\ net'[c].up = up /\ net'[c].down = net[c].down
  BY <1>0, <1>1, <1>2, <1>3, OthersRest DEF SameConn, SameSession
<1>5. Nothing.type = "nothing"
  BY DEF Nothing, Msg
<1>6. handler[c] # "none"
  BY DEF SessionInv, Session, DestroySender, DestroyBegin, DestroyJoin
<1>7. Link(c)'
  BY <1>0, <1>1, <1>2, <1>3, <1>4, <1>5, <1>6 DEF Link, Asking, Answering, SameSession
<1>8. rcv.conn = c => Flow(c)'
  BY <1>0, <1>1, <1>2, <1>3, <1>4, <1>5, FlowKeeps DEF Asking, Answering, SameSession
<1> QED BY <1>0, <1>1, <1>4, <1>7, <1>8, StepOnOne

LEMMA SenderReadsFlow ==
  ASSUME StreamInv, SessionInv, NEW c \in Conns, SenderReads(c), UNCHANGED <<rcv, got>>
  PROVE  StreamInv'
<1>0. NetShape /\ served \in Nat /\ Link(c) /\ (rcv.conn = c => Flow(c)) /\ ServerShape
  BY DEF StreamInv, SessionInv, Conns, NoConn
<1>1. UNCHANGED <<served, handler>> /\ sender[c].worker = "read" /\ handler[c] = "done"
  BY NotYetAtWork DEF SenderReads
<1>2. Nothing.type = "nothing"
  BY DEF Nothing, Msg
<1>3. /\ net' \in {net, Taken(c, "server")}
      /\ \/ sender' = [sender EXCEPT ![c].worker = "ended"]
         \/ /\ Asking(c) /\ net' = Taken(c, "server")
            /\ sender' = [sender EXCEPT ![c].worker = "answer", ![c].asked = net[c].up.val]
  BY DEF SenderReads, Asking
<1>4. /\ \A d \in Conns \ {c} : sender'[d] = sender[d]
      /\ sender'[c].cursor = sender[c].cursor
      /\ \/ sender'[c].worker = "ended"
         \/ /\ Asking(c) /\ net' = Taken(c, "server")
            /\ sender'[c].worker = "answer" /\ sender'[c].asked = net[c].up.val
  <2>1. CASE sender' = [sender EXCEPT ![c].worker = "ended"]
    BY <1>0, <2>1 DEF ServerShape
  <2>2. CASE sender' = [sender EXCEPT ![c].worker = "answer", ![c].asked = net[c].up.val]
    BY <1>0, <1>3, <2>2 DEF ServerShape
  <2> QED BY <1>3, <2>1, <2>2
<1>5. PICK sv, up : /\ Touched(net', c, net[c].client, sv, up, net[c].down)
                    /\ up = net[c].up \/ up = Nothing
                    /\ net' = Taken(c, "server") => up = Nothing
  <2>1. CASE net' = Taken(c, "server")
    BY <1>0, <2>1, ServerSide
  <2>2. CASE net' # Taken(c, "server")
    BY <1>0, <1>3, <2>2 DEF Touched, NetShape
  <2> QED BY <2>1, <2>2
<1>6. /\ NetShape' /\ \A d \in Conns \ {c} : SameConn(d)
      /\ net'[c].client = net[c].client /\ net'[c].up = up /\ net'[c].down = net[c].down
  BY <1>0, <1>1, <1>4, <1>5, OthersRest DEF SameConn, SameSession
<1>7. Link(c)'
  BY <1>0, <1>1, <1>2, <1>4, <1>5, <1>6 DEF Link, Asking, Answering
<1>8. rcv.conn = c => Flow(c)'
  BY <1>0, <1>1, <1>2, <1>4, <1>5, <1>6, FlowKeeps DEF Asking, Answering
<1> QED BY <1>0, <1>1, <1>6, <1>7, <1>8, StepOnOne

(* The answer: the next records behind the cursor, as many as were asked    *)
(* for at most.                                                              *)
LEMMA SenderAnswersFlow ==
  ASSUME StreamInv, SessionInv, NEW c \in Conns, SenderAnswers(c), UNCHANGED <<rcv, got>>
  PROVE  StreamInv'
<1>0. NetShape /\ served \in Nat /\ Link(c) /\ (rcv.conn = c => Flow(c)) /\ ServerShape
  BY DEF StreamInv, SessionInv, Conns, NoConn
<1>1. UNCHANGED <<served, handler>> /\ Answering(c) /\ handler[c] = "done"
  BY NotYetAtWork DEF SenderAnswers, Answering
<1> DEFINE k == sender[c].cursor
           m == Min({sender[c].asked, served - k})
<1>2. k \in Nat /\ k <= served /\ sender[c].asked = MaxAsked
  BY <1>0, <1>1 DEF Link
<1>3. m \in Int /\ m <= MaxAsked /\ m <= served - k
  <2>1. MaxAsked \in Int /\ served - k \in Int
    BY <1>0, <1>2, ReceiverAssumption
  <2>2. m = Min({MaxAsked, served - k})
    BY <1>2
  <2> HIDE DEF m, k
  <2> QED BY <2>1, <2>2, MinOfTwo
<1> HIDE DEF m
<1>4. PICK n \in 0 .. m, w \in {"read", "ended"} :
        /\ sender' = [sender EXCEPT ![c].cursor = @ + n, ![c].worker = w, ![c].asked = 0]
        /\ \/ w = "ended" /\ net' = net
           \/ net' = Sent(c, "server", Msg("batch", [i \in 1 .. n |-> k + i]))
  BY DEF SenderAnswers, m
<1> DEFINE t == [i \in 1 .. n |-> k + i]
<1>5. /\ n \in Nat /\ n <= MaxAsked /\ k + n <= served
      /\ t \in Seq(Nat) /\ Len(t) = n /\ \A i \in 1 .. Len(t) : t[i] = k + i
  <2> HIDE DEF k
  <2>1. n \in Nat /\ n <= MaxAsked /\ k + n <= served
    BY <1>0, <1>2, <1>3, <1>4, ReceiverAssumption
  <2>2. \A i \in 1 .. n : k + i \in Nat
    BY <1>2, <2>1
  <2>3. t \in Seq(Nat) /\ Len(t) = n
    BY <2>1, <2>2
  <2> QED BY <2>1, <2>3
<1> DEFINE b == Msg("batch", t)
<1>6. b.type = "batch" /\ b.val = t
  BY DEF Msg
<1>7. \/ w = "ended" /\ net' = net
      \/ net' = Sent(c, "server", b)
  BY <1>4
<1>8. /\ \A d \in Conns \ {c} : sender'[d] = sender[d]
      /\ sender'[c].cursor = k + n /\ sender'[c].worker = w
  BY <1>0, <1>4 DEF ServerShape
<1> HIDE DEF t, b, k
<1>9. PICK sv, down :
        /\ Touched(net', c, net[c].client, sv, net[c].up, down)
        /\ \/ down = net[c].down /\ (net[c].client = "open" => w = "ended")
           \/ down = b /\ net[c].client = "open"
  <2>1. CASE net' = net /\ w = "ended"
    BY <1>0, <2>1 DEF Touched, NetShape
  <2>2. CASE net' = Sent(c, "server", b)
    BY <1>0, <2>2, ServerSide DEF IsOpen
  <2> QED BY <1>7, <2>1, <2>2
<1>10. /\ NetShape' /\ \A d \in Conns \ {c} : SameConn(d)
      /\ net'[c].client = net[c].client /\ net'[c].up = net[c].up /\ net'[c].down = down
  BY <1>0, <1>1, <1>8, <1>9, OthersRest DEF SameConn, SameSession
<1>11. Link(c)'
  BY <1>0, <1>1, <1>2, <1>5, <1>8, <1>10 DEF Link, Asking, Answering
<1>12. ASSUME rcv.conn = c PROVE Flow(c)'
  <2>0. Flow(c) /\ rcv' = rcv /\ got' = got
    BY <1>0, <1>12
  <2>1. CASE down = net[c].down /\ (net[c].client = "open" => w = "ended")
    <3>1. Seen(c)' = Seen(c)
      BY <1>10, <2>0, <2>1 DEF Seen, InFlight
    <3> QED BY <1>1, <1>8, <1>10, <2>0, <2>1, <3>1
            DEF Flow, OneToken, Asking, Answering, Arriving
  <2>2. CASE down = b /\ net[c].client = "open"
    <3>1. ~Asking(c) /\ ~Arriving(c) /\ rcv.worker \in {"wait", "leave"}
      BY <1>1, <2>0, <2>2 DEF Flow, OneToken
    <3>2. InFlight(c) = <<>> /\ InFlight(c)' = t
      BY <1>6, <1>10, <2>2, <3>1 DEF InFlight, Arriving
    <3>3. Seen(c) = got \o rcv.batch /\ Seen(c)' = (got \o rcv.batch) \o t
      <4>1. got \in Seq(Nat) /\ rcv.batch \in Seq(Nat)
        BY <2>0 DEF Flow
      <4>2. got \o rcv.batch \in Seq(Nat)
        BY <4>1
      <4>3. (got \o rcv.batch) \o <<>> = got \o rcv.batch
        BY <4>2
      <4> QED BY <2>0, <3>2, <4>3 DEF Seen
    <3>4. Run(Seen(c), served) /\ EndsAt(Seen(c), k) /\ Seen(c) \in Seq(Nat)
      BY <1>1, <2>0, <2>2 DEF Flow, Answering, Run, k
    <3>5. Run(Seen(c)', served) /\ EndsAt(Seen(c)', k + n)
      BY <1>0, <1>2, <1>5, <3>3, <3>4, RunJoins
    <3>6. OneToken(c)'
      BY <1>1, <1>8, <1>10, <2>0, <3>1 DEF OneToken, Asking, Answering, Arriving
    <3>7. Arriving(c)' => net'[c].down.val \in Seq(Nat) /\ Len(net'[c].down.val) <= MaxAsked
      BY <1>5, <1>6, <1>10, <2>2
    <3> QED BY <1>1, <1>8, <1>10, <2>0, <3>5, <3>6, <3>7 DEF Flow
  <2> QED BY <1>9, <2>1, <2>2
<1> QED BY <1>0, <1>1, <1>10, <1>11, <1>12, StepOnOne

(* The source, the application, and the other clients. *)
LEMMA ApplicationFlow ==
  ASSUME StreamInv, SessionInv, UNCHANGED <<rcv, got>>,
         SourceWrites \/ Application \/ Closes
  PROVE  StreamInv'
<1>0. /\ NetShape /\ served \in Nat /\ ServerShape
      /\ (rcv.conn # NoConn => rcv.conn \in Conns /\ Flow(rcv.conn))
      /\ \A c \in Conns : Link(c)
  BY DEF StreamInv, SessionInv
<1>1. CASE SourceWrites \/ RegisterBuffer \/ UnregisterBuffer \/ StartServer \/ Closes
  <2>1. UNCHANGED <<net, handler>> /\ served' \in Nat /\ served <= served'
    BY <1>0, <1>1 DEF SourceWrites, RegisterBuffer, UnregisterBuffer, StartServer, Closes,
                     DropReference, SessionClosed, ApplicationReturns
  <2>2. sender' = sender \/ \E c \in Conns : sender' = [sender EXCEPT ![c].life = "close"]
    BY <1>1 DEF SourceWrites, RegisterBuffer, UnregisterBuffer, StartServer, Closes,
                DropReference, SessionClosed, ApplicationReturns
  <2>3. \A d \in Conns : SameSession(d)
    BY <1>0, <2>2 DEF SameSession, ServerShape
  <2>4. NetShape' /\ \A d \in Conns : SameConn(d)
    BY <1>0, <2>1, <2>3 DEF SameConn, NetShape
  <2>5. \A d \in Conns : Link(d)'
    BY <1>0, <2>1, <2>4, LinkFrame
  <2>6. rcv.conn # NoConn => Flow(rcv.conn)'
    BY <1>0, <2>1, <2>4, FlowFrame DEF SameReceiver
  <2> QED BY <1>0, <2>1, <2>4, <2>5, <2>6 DEF StreamInv, Worker
<1>2. CASE StopServer
  <2>1. UNCHANGED <<served, sender>>
    BY <1>2 DEF StopServer
  <2>2. ASSUME NEW d \in Conns
        PROVE  /\ DOMAIN net'[d] = {"client", "server", "up", "down"}
               /\ net'[d].client = net[d].client /\ net'[d].down = net[d].down
               /\ \/ net'[d] = net[d] /\ handler'[d] = handler[d]
                  \/ net[d] # Unused /\ net'[d].up = Nothing /\ handler'[d] = "done"
    <3> DEFINE waits == handler[d] = "none" /\ net[d] # Unused
    <3>1. /\ net'[d] = IF waits THEN [net[d] EXCEPT !.server = "closed", !.up = Nothing] ELSE net[d]
          /\ handler'[d] = IF waits THEN "done" ELSE handler[d]
      BY <1>2 DEF StopServer
    <3> QED BY <1>0, <3>1 DEF NetShape
  <2>3. NetShape'
    BY <1>2, <2>2 DEF NetShape, StopServer
  <2>4. Nothing.type = "nothing"
    BY DEF Nothing, Msg
  <2>5. ASSUME NEW d \in Conns PROVE Link(d)'
    BY <1>0, <2>1, <2>2, <2>4 DEF Link, Asking, Answering
  <2>6. ASSUME NEW d \in Conns, rcv.conn = d, d # NoConn PROVE Flow(d)'
    <3>1. Flow(d)
      BY <1>0, <2>6
    <3> QED BY <2>1, <2>2, <2>4, <3>1, FlowKeeps DEF Asking, Answering
  <2> QED BY <1>0, <2>1, <2>3, <2>5, <2>6 DEF StreamInv, Worker
<1> QED BY <1>1, <1>2 DEF Application

LEMMA PeerFlow ==
  ASSUME StreamInv, PeerConnects(srv.up) \/ PeerFinishes, UNCHANGED serverVars
  PROVE  StreamInv'
<1>0. /\ NetShape /\ served \in Nat /\ served' = served /\ UNCHANGED <<rcv, got>>
      /\ \A d \in Conns : Link(d) /\ SameSession(d) /\ handler'[d] = handler[d]
      /\ rcv.conn # NoConn => Flow(rcv.conn)
  BY DEF StreamInv, SameSession, serverVars, PeerConnects, PeerFinishes
<1>1. Nothing.type = "nothing" /\ \A t : Msg(t, <<>>).type = t
  BY DEF Nothing, Msg
<1>2. CASE PeerConnects(srv.up)
  <2>1. PICK c \in Conns, type \in {"list", "rule", "stream"} :
          net[c] = Unused /\ net' = Connected(c, Msg(type, <<>>))
    BY <1>2 DEF PeerConnects, Fresh
  <2>2. Touched(net', c, "open", "open", Msg(type, <<>>), Nothing)
    BY <1>0, <2>1, ClientSide
  <2>3. /\ NetShape' /\ \A d \in Conns \ {c} : SameConn(d)
        /\ net'[c].client = "open" /\ net'[c].up = Msg(type, <<>>)
    BY <1>0, <2>2, OthersRest DEF SameConn
  <2>4. Link(c)'
    BY <1>0, <1>1, <2>3 DEF Link, Asking, Answering, SameSession
  <2>5. rcv.conn # c
    <3>1. Unused.client = "none"
      BY DEF Unused
    <3>2. c # NoConn
      BY DEF Conns, NoConn
    <3> QED BY <1>0, <2>1, <3>1, <3>2 DEF Flow
  <2> QED BY <1>0, <2>3, <2>4, <2>5, StepOnOne
<1>3. CASE PeerFinishes
  <2>1. PICK c \in Conns \ {rcv.conn} : IsOpen(c, "client") /\ net' = ClosedAt(c, "client")
    BY <1>3 DEF PeerFinishes
  <2>2. Touched(net', c, "closed", net[c].server, net[c].up, Nothing)
    BY <1>0, <2>1, ClientSide
  <2>3. /\ NetShape' /\ \A d \in Conns \ {c} : SameConn(d)
        /\ net'[c].client = "closed" /\ net'[c].up = net[c].up
    BY <1>0, <2>2, OthersRest DEF SameConn
  <2>4. Link(c)'
    BY <1>0, <2>3 DEF Link, Asking, Answering, SameSession
  <2> QED BY <1>0, <2>1, <2>3, <2>4, StepOnOne
<1> QED BY <1>2, <1>3
-----------------------------------------------------------------------------
(* The receiver's own steps, all on its connection. *)
Receiver == StreamInv /\ SessionInv /\ ReceiverInv

LEMMA OwnStep ==
  ASSUME StreamInv, NEW c \in Conns, NetShape', UNCHANGED <<served, handler, sender>>,
         \A d \in Conns \ {c} : net'[d] = net[d], rcv'.conn = c,
         Link(c)', Flow(c)', Worker'
  PROVE  StreamInv'
<1>1. \A d \in Conns : Link(d)'
  BY LinkFrame DEF StreamInv, SameConn, SameSession
<1> QED BY <1>1 DEF StreamInv

(* Whatever the receiver had on the way is lost, so that what it has seen   *)
(* is shorter by then.                                                      *)
LEMMA HangUpFlow ==
  ASSUME StreamInv, HangUp, UNCHANGED <<served, handler, sender, got>>,
         rcv'.conn = rcv.conn, rcv'.batch = rcv.batch, Worker'
  PROVE  StreamInv'
<1>1. CASE ~SocketOpen
  <2>1. NetShape' /\ net' = net
    BY <1>1 DEF HangUp, StreamInv, NetShape
  <2>2. ASSUME NEW c \in Conns, rcv.conn = c, c # NoConn PROVE Flow(c)'
    <3>1. Flow(c) /\ net[c].client # "open"
      BY <1>1, <2>2 DEF StreamInv, SocketOpen, IsOpen
    <3> QED BY <2>1, <3>1 DEF Flow, Seen, InFlight, Arriving
  <2>3. \A d \in Conns : Link(d)'
    BY <2>1, LinkFrame DEF StreamInv, SameConn, SameSession
  <2> QED BY <2>1, <2>2, <2>3 DEF StreamInv
<1>2. CASE SocketOpen
  <2>0. PICK c \in Conns : c = rcv.conn
    BY <1>2 DEF StreamInv, SocketOpen
  <2>1. Flow(c) /\ Link(c) /\ NetShape /\ served \in Nat /\ net[c].client = "open"
    BY <1>2, <2>0 DEF StreamInv, SocketOpen, IsOpen
  <2>2. Touched(net', c, "closed", net[c].server, net[c].up, Nothing)
    BY <1>2, <2>0, <2>1, ClientSide DEF HangUp
  <2>3. /\ NetShape' /\ \A d \in Conns \ {c} : net'[d] = net[d]
        /\ net'[c].client = "closed" /\ net'[c].up = net[c].up /\ net'[c].down = Nothing
    BY <2>1, <2>2, OthersRest
  <2>4. Link(c)'
    BY <2>1, <2>3 DEF Link, Asking, Answering
  <2>5. Nothing.type = "nothing"
    BY DEF Nothing, Msg
  <2>6. ~Arriving(c)' /\ InFlight(c)' = <<>>
    BY <2>3, <2>5 DEF Arriving, InFlight
  <2>7. Run(Seen(c)', served)
    <3>1. got \o rcv.batch \in Seq(Nat) /\ InFlight(c) \in Seq(Nat)
      BY <2>1 DEF Flow, InFlight, Arriving
    <3>2. Run(got \o rcv.batch, served)
      BY <2>1, <3>1, RunPrefix DEF Flow, Seen
    <3>3. Seen(c)' = (got \o rcv.batch) \o <<>>
      BY <2>6 DEF Seen
    <3>4. (got \o rcv.batch) \o <<>> = got \o rcv.batch
      BY <3>1
    <3> QED BY <3>2, <3>3, <3>4
  <2>8. Flow(c)'
    BY <2>1, <2>3, <2>6, <2>7 DEF Flow
  <2> QED BY <2>0, <2>1, <2>3, <2>4, <2>8, OwnStep
<1> QED BY <1>1, <1>2

LEMMA ConnectFlow ==
  ASSUME Receiver, Connect(srv.up), UNCHANGED serverVars
  PROVE  StreamInv'
<1>0. /\ StreamInv /\ Worker /\ NetShape /\ served \in Nat /\ UNCHANGED <<served, handler, sender>>
      /\ DOMAIN rcv = {"connected", "running", "worker", "joinable", "conn", "batch", "call"}
      /\ rcv.call = "connect"
  BY DEF Receiver, StreamInv, ReceiverInv, serverVars, Connect
<1>1. CASE Goes("refused") /\ UNCHANGED <<net, got>>
  <2>1. SameReceiver /\ rcv'.conn = rcv.conn /\ Worker' /\ NetShape'
    BY <1>0, <1>1 DEF Goes, SameReceiver, Worker, NetShape
  <2> QED BY <1>0, <1>1, <2>1, StepOffNet DEF SameConn, SameSession
<1>2. CASE \E c \in Fresh : /\ net' = Connected(c, Msg("stream", <<>>))
                            /\ rcv' = [rcv EXCEPT !.conn = c, !.call = "handshake"]
                            /\ got' = <<>> /\ ~rcv.running
  <2>1. PICK c \in Conns : /\ net[c] = Unused
                           /\ net' = Connected(c, Msg("stream", <<>>))
                           /\ rcv' = [rcv EXCEPT !.conn = c, !.call = "handshake"]
                           /\ got' = <<>> /\ ~rcv.running
    BY <1>2 DEF Fresh
  <2>2. Touched(net', c, "open", "open", Msg("stream", <<>>), Nothing)
    BY <1>0, <2>1, ClientSide
  <2>3. /\ NetShape' /\ \A d \in Conns \ {c} : net'[d] = net[d]
        /\ net'[c].client = "open" /\ net'[c].up = Msg("stream", <<>>) /\ net'[c].down = Nothing
    BY <1>0, <2>2, OthersRest
  <2>4. Nothing.type = "nothing" /\ Msg("stream", <<>>).type = "stream"
    BY DEF Nothing, Msg
  <2>5. c # NoConn
    BY DEF Conns, NoConn
  <2>6. rcv'.conn = c /\ rcv'.worker = "none" /\ rcv'.batch = <<>> /\ rcv.worker = "none" /\ Worker'
    BY <1>0, <2>1, <2>5 DEF Worker
  <2>7. Link(c) /\ handler[c] = "none" /\ sender[c].worker = "none"
    <3>1. Unused.client = "none"
      BY DEF Unused
    <3> QED BY <1>0, <2>1, <3>1 DEF StreamInv, Link, Receiver, SessionInv, Session
  <2>8. Link(c)'
    BY <1>0, <2>3, <2>4, <2>7 DEF Link, Asking, Answering
  <2>9. Flow(c)'
    <3>1. ~Arriving(c)' /\ ~Asking(c)' /\ ~Answering(c)' /\ InFlight(c)' = <<>>
      BY <1>0, <2>3, <2>4, <2>7 DEF Arriving, Asking, Answering, InFlight
    <3>2. Seen(c)' = <<>>
      BY <2>1, <2>6, <3>1 DEF Seen
    <3>3. Run(<<>>, served)
      BY DEF Run
    <3>4. Run(Seen(c)', served') /\ <<>> \in Seq(Nat)
      BY <1>0, <3>2, <3>3
    <3>5. OneToken(c)'
      BY <3>1 DEF OneToken
    <3>6. got' = <<>> /\ rcv'.batch = <<>> /\ net'[c].client # "none" /\ sender'[c].worker = "none"
      BY <1>0, <2>1, <2>3, <2>6, <2>7
    <3> QED BY <3>1, <3>4, <3>5, <3>6 DEF Flow
  <2> QED BY <1>0, <2>3, <2>6, <2>8, <2>9, OwnStep
<1> QED BY <1>1, <1>2 DEF Connect

LEMMA HandshakeFlow ==
  ASSUME Receiver, Handshake, UNCHANGED serverVars
  PROVE  StreamInv'
<1>1. rcv.conn # NoConn /\ rcv.conn \in Conns
  BY DEF Receiver, StreamInv, Worker, Handshake
<1> PICK c \in Conns : c = rcv.conn
  BY <1>1
<1>2. /\ StreamInv /\ Worker /\ NetShape /\ served \in Nat /\ UNCHANGED <<served, handler, sender, got>>
      /\ DOMAIN rcv = {"connected", "running", "worker", "joinable", "conn", "batch", "call"}
      /\ rcv.call = "handshake" /\ ~rcv.running /\ ~rcv.joinable
      /\ rcv.worker = "none" /\ Flow(c) /\ Link(c)
  BY <1>1 DEF Receiver, StreamInv, Worker, ReceiverInv, serverVars, Handshake
<1>3. CASE HangUp /\ Goes("refused")
  <2>1. rcv'.conn = rcv.conn /\ rcv'.batch = rcv.batch /\ Worker'
    BY <1>2, <1>3 DEF Goes, Worker
  <2> QED BY <1>2, <1>3, <2>1, HangUpFlow
<1>4. CASE /\ CanRead(c, "client") /\ net[c].down.type = "schema"
           /\ net' = Taken(c, "client")
           /\ rcv' = Started([rcv EXCEPT !.connected = TRUE])
  <2>1. /\ rcv'.conn = c /\ rcv'.worker = "loop" /\ rcv'.batch = rcv.batch /\ rcv'.running
    BY <1>2, <1>4 DEF Started
  <2>2. Worker'
    BY <1>2, <2>1 DEF Worker
  <2>3. net[c].client = "open" /\ Touched(net', c, "open", net[c].server, net[c].up, Nothing)
    BY <1>2, <1>4, ClientSide DEF CanRead, IsOpen
  <2>4. /\ NetShape' /\ \A d \in Conns \ {c} : net'[d] = net[d]
        /\ net'[c].client = "open" /\ net'[c].up = net[c].up /\ net'[c].down = Nothing
    BY <1>2, <2>3, OthersRest
  <2>5. Nothing.type = "nothing"
    BY DEF Nothing, Msg
  <2>6. Link(c)'
    BY <1>2, <2>3, <2>4 DEF Link, Asking, Answering
  <2>7. Flow(c)'
    <3>1. ~Arriving(c)' /\ ~Asking(c)' /\ ~Answering(c)' /\ InFlight(c)' = <<>> /\ InFlight(c) = <<>>
      BY <1>2, <1>4, <2>3, <2>4, <2>5 DEF Flow, OneToken, Arriving, Asking, Answering, InFlight
    <3>2. Seen(c)' = Seen(c)
      BY <1>2, <2>1, <3>1 DEF Seen
    <3> QED BY <1>2, <2>1, <2>3, <2>4, <3>1, <3>2 DEF Flow, OneToken
  <2> QED BY <1>2, <2>1, <2>2, <2>4, <2>6, <2>7, OwnStep
<1> QED BY <1>3, <1>4 DEF Handshake

LEMMA StopFlow ==
  ASSUME Receiver, StopBegin \/ StopWorkerJoin \/ WorkerEnds, UNCHANGED serverVars
  PROVE  StreamInv'
<1>0. /\ StreamInv /\ Worker /\ NetShape /\ UNCHANGED <<served, handler, sender, got>>
      /\ DOMAIN rcv = {"connected", "running", "worker", "joinable", "conn", "batch", "call"}
  BY DEF Receiver, StreamInv, ReceiverInv, serverVars, StopBegin, StopWorkerJoin, WorkerEnds
<1>1. CASE StopBegin
  <2>1. rcv'.conn = rcv.conn /\ rcv'.batch = rcv.batch /\ Worker'
    BY <1>0, <1>1 DEF StopBegin, Worker
  <2> QED BY <1>0, <1>1, <2>1, HangUpFlow DEF StopBegin
<1>2. CASE WorkerEnds
  <2>1. rcv'.conn = rcv.conn /\ rcv'.batch = rcv.batch /\ Worker'
    BY <1>0, <1>2 DEF WorkerEnds, Worker
  <2> QED BY <1>0, <1>2, <2>1, HangUpFlow DEF WorkerEnds
<1>3. CASE StopWorkerJoin
  <2>1. /\ SameReceiver /\ rcv'.conn = rcv.conn /\ Worker' /\ NetShape'
        /\ \A d \in Conns : SameConn(d)
    BY <1>0, <1>3 DEF StopWorkerJoin, SameReceiver, Worker, NetShape, SameConn, SameSession
  <2> QED BY <1>0, <2>1, StepOffNet
<1> QED BY <1>1, <1>2, <1>3

(* A worker that goes, having sent or received nothing. *)
LEMMA LeaveFlow ==
  ASSUME Receiver, UNCHANGED <<net, got>>, UNCHANGED serverVars, rcv.worker \in {"loop", "wait"},
         rcv' = [rcv EXCEPT !.worker = "leave"]
  PROVE  StreamInv'
<1>0. /\ StreamInv /\ Worker /\ NetShape /\ UNCHANGED <<served, handler, sender>>
      /\ DOMAIN rcv = {"connected", "running", "worker", "joinable", "conn", "batch", "call"}
  BY DEF Receiver, StreamInv, ReceiverInv, serverVars
<1>1. SameReceiver /\ rcv'.conn = rcv.conn /\ Worker' /\ NetShape' /\ \A d \in Conns : SameConn(d)
  BY <1>0 DEF SameReceiver, Worker, NetShape, SameConn, SameSession
<1> QED BY <1>0, <1>1, StepOffNet

LEMMA AsksFlow ==
  ASSUME Receiver, Asks, UNCHANGED serverVars
  PROVE  StreamInv'
<1>1. rcv.conn # NoConn /\ rcv.conn \in Conns
  BY DEF Receiver, StreamInv, Worker, Asks
<1>2. PICK c \in Conns : c = rcv.conn
  BY <1>1
<1>3. /\ StreamInv /\ Worker /\ NetShape /\ served \in Nat /\ UNCHANGED <<served, handler, sender, got>>
      /\ DOMAIN rcv = {"connected", "running", "worker", "joinable", "conn", "batch", "call"}
      /\ rcv.worker = "loop" /\ Flow(c) /\ Link(c)
  BY <1>1, <1>2 DEF Receiver, StreamInv, ReceiverInv, serverVars, Asks
<1>4. CASE /\ SocketOpen /\ net' = Sent(c, "client", Msg("ask", MaxAsked))
           /\ rcv' = [rcv EXCEPT !.worker = "wait"]
  <2>1. rcv'.conn = c /\ rcv'.worker = "wait" /\ rcv'.batch = rcv.batch /\ Worker'
    BY <1>2, <1>3, <1>4 DEF Worker
  <2>2. net[c].client = "open" /\ Msg("ask", MaxAsked).val = MaxAsked
    BY <1>2, <1>4 DEF SocketOpen, IsOpen, Msg
  <2>3. PICK up : /\ Touched(net', c, net[c].client, net[c].server, up, net[c].down)
                  /\ up \in {net[c].up, Msg("ask", MaxAsked)}
    BY <1>3, <1>4, ClientSide
  <2>4. /\ NetShape' /\ \A d \in Conns \ {c} : net'[d] = net[d]
        /\ net'[c].client = "open" /\ net'[c].up = up /\ net'[c].down = net[c].down
    BY <1>3, <2>2, <2>3, OthersRest
  <2>5. Link(c)'
    BY <1>3, <2>2, <2>3, <2>4 DEF Link, Asking, Answering
  <2>6. ~Answering(c)' /\ ~Arriving(c)' /\ InFlight(c)' = InFlight(c)
    BY <1>3, <2>2, <2>4 DEF Flow, OneToken, Answering, Arriving, InFlight
  <2>7. Seen(c)' = Seen(c)
    BY <1>3, <2>1, <2>6 DEF Seen
  <2>8. OneToken(c)'
    BY <2>1, <2>6 DEF OneToken
  <2>9. Flow(c)'
    BY <1>3, <2>1, <2>2, <2>4, <2>6, <2>7, <2>8 DEF Flow
  <2> QED BY <1>3, <2>1, <2>4, <2>5, <2>9, OwnStep
<1> QED BY <1>2, <1>3, <1>4, LeaveFlow DEF Asks

LEMMA ReceivesFlow ==
  ASSUME Receiver, Receives, UNCHANGED serverVars
  PROVE  StreamInv'
<1>1. rcv.conn # NoConn /\ rcv.conn \in Conns
  BY DEF Receiver, StreamInv, Worker, Receives
<1>2. PICK c \in Conns : c = rcv.conn
  BY <1>1
<1>3. /\ StreamInv /\ Worker /\ NetShape /\ served \in Nat /\ UNCHANGED <<served, handler, sender, got>>
      /\ DOMAIN rcv = {"connected", "running", "worker", "joinable", "conn", "batch", "call"}
      /\ rcv.worker = "wait" /\ rcv.batch = <<>> /\ Flow(c) /\ Link(c)
  BY <1>1, <1>2 DEF Receiver, StreamInv, Worker, ReceiverInv, serverVars, Receives
<1>4. CASE /\ CanRead(c, "client") /\ net' = Taken(c, "client")
           /\ rcv' = IF net[c].down.type # "batch" \/ Len(net[c].down.val) > MaxAsked
                       THEN [rcv EXCEPT !.worker = "leave"]
                       ELSE [rcv EXCEPT !.worker = "push", !.batch = net[c].down.val]
  <2>1. net[c].client = "open" /\ Touched(net', c, "open", net[c].server, net[c].up, Nothing)
    BY <1>3, <1>4, ClientSide DEF CanRead, IsOpen
  <2>2. /\ NetShape' /\ \A d \in Conns \ {c} : net'[d] = net[d]
        /\ net'[c].client = "open" /\ net'[c].up = net[c].up /\ net'[c].down = Nothing
    BY <1>3, <2>1, OthersRest
  <2>3. Nothing.type = "nothing"
    BY DEF Nothing, Msg
  <2>4. Link(c)'
    BY <1>3, <2>1, <2>2 DEF Link, Asking, Answering
  <2>5. ~Arriving(c)' /\ InFlight(c)' = <<>>
    BY <2>2, <2>3 DEF Arriving, InFlight
  <2>6. /\ rcv'.conn = c /\ rcv'.batch = InFlight(c) /\ InFlight(c) \in Seq(Nat)
        /\ IF Arriving(c) THEN rcv'.worker = "push" ELSE rcv'.worker = "leave"
        /\ rcv'.running = rcv.running /\ rcv'.call = rcv.call
    <3>1. CASE Arriving(c)
      <4>1. ~(Len(net[c].down.val) > MaxAsked) /\ net[c].down.val \in Seq(Nat)
        BY <1>3, <3>1, ReceiverAssumption DEF Flow
      <4> QED BY <1>2, <1>3, <1>4, <3>1, <4>1 DEF Arriving, InFlight
    <3>2. CASE ~Arriving(c)
      BY <1>2, <1>3, <1>4, <3>2 DEF Arriving, InFlight
    <3> QED BY <3>1, <3>2
  <2>7. Worker'
    <3>1. Arriving(c) \/ InFlight(c) = <<>>
      BY DEF Arriving, InFlight
    <3> QED BY <1>1, <1>2, <1>3, <2>6, <3>1 DEF Worker
  <2>8. Seen(c)' = Seen(c)
    <3>1. got \in Seq(Nat)
      BY <1>3 DEF Flow
    <3>2. Seen(c) = (got \o <<>>) \o InFlight(c) /\ Seen(c)' = (got \o InFlight(c)) \o <<>>
      BY <1>3, <2>5, <2>6 DEF Seen
    <3>3. got \o InFlight(c) \in Seq(Nat)
      BY <2>6, <3>1
    <3>4. got \o <<>> = got /\ (got \o InFlight(c)) \o <<>> = got \o InFlight(c)
      BY <3>1, <3>3
    <3> QED BY <3>2, <3>4
  <2>9. OneToken(c)'
    BY <1>3, <2>1, <2>2, <2>5, <2>6 DEF Flow, OneToken, Asking, Answering
  <2>10. handler[c] # "done" => InFlight(c) = <<>>
    BY <1>3 DEF Flow, InFlight, Arriving
  <2>11. Flow(c)'
    BY <1>3, <2>1, <2>2, <2>5, <2>6, <2>8, <2>9, <2>10 DEF Flow
  <2> QED BY <1>3, <2>2, <2>4, <2>6, <2>7, <2>11, OwnStep
<1> QED BY <1>2, <1>3, <1>4, LeaveFlow DEF Receives

LEMMA PushesFlow ==
  ASSUME Receiver, Pushes, UNCHANGED serverVars
  PROVE  StreamInv'
<1>1. rcv.conn # NoConn /\ rcv.conn \in Conns
  BY DEF Receiver, StreamInv, Worker, Pushes
<1>2. PICK c \in Conns : c = rcv.conn
  BY <1>1
<1>3. /\ StreamInv /\ Worker /\ NetShape /\ served \in Nat /\ UNCHANGED <<net, served, handler, sender>>
      /\ DOMAIN rcv = {"connected", "running", "worker", "joinable", "conn", "batch", "call"}
      /\ rcv.worker = "push" /\ Flow(c) /\ Link(c) /\ got' = got \o rcv.batch
  BY <1>1, <1>2 DEF Receiver, StreamInv, ReceiverInv, serverVars, Pushes
<1>4. /\ rcv'.conn = c /\ rcv'.worker = "loop" /\ rcv'.batch = <<>> /\ Worker'
      /\ NetShape' /\ Link(c)'
  BY <1>1, <1>2, <1>3 DEF Pushes, Worker, NetShape, Link, Asking, Answering
<1>5. got \o rcv.batch \in Seq(Nat) /\ <<>> \in Seq(Nat)
  BY <1>3 DEF Flow
<1>6. Seen(c)' = Seen(c)
  <2>1. Seen(c)' = ((got \o rcv.batch) \o <<>>) \o InFlight(c)
    BY <1>3, <1>4 DEF Seen, InFlight
  <2>2. (got \o rcv.batch) \o <<>> = got \o rcv.batch
    BY <1>5
  <2> QED BY <2>1, <2>2 DEF Seen
<1>7. handler[c] # "done" => got' = <<>>
  <2>1. <<>> \o <<>> = <<>>
    OBVIOUS
  <2> QED BY <1>3, <2>1 DEF Flow
<1>8. net[c].client = "open" => OneToken(c)'
  BY <1>3, <1>4 DEF Flow, OneToken, Asking, Answering, Arriving
<1>9. Flow(c)'
  BY <1>3, <1>4, <1>5, <1>6, <1>7, <1>8 DEF Flow, Arriving
<1> QED BY <1>3, <1>4, <1>9, OwnStep

(* The widget only calls, and forgets the receiver in the end. *)
LEMMA WidgetFlow ==
  ASSUME Receiver, StartConnection \/ StopConnection \/ WidgetSteps, UNCHANGED serverVars
  PROVE  StreamInv'
<1>0. /\ StreamInv /\ Worker /\ NetShape /\ UNCHANGED <<net, got, served, handler, sender>>
      /\ DOMAIN rcv = {"connected", "running", "worker", "joinable", "conn", "batch", "call"}
  BY DEF Receiver, StreamInv, ReceiverInv, serverVars, StartConnection, StopConnection, WidgetSteps,
         ConnectTimer, ConnectReturns, CheckStatus, ConnectionStopped, GuiOnly
<1>1. NetShape' /\ \A d \in Conns : SameConn(d)
  BY <1>0 DEF NetShape, SameConn, SameSession
<1>2. CASE ConnectionStopped
  <2>1. rcv' = NewReceiver
    BY <1>2 DEF ConnectionStopped
  <2>2. /\ NewReceiver.conn = NoConn /\ NewReceiver.worker = "none" /\ NewReceiver.batch = <<>>
        /\ NewReceiver.call = "idle"
    BY DEF NewReceiver
  <2> HIDE DEF NewReceiver
  <2>3. rcv'.conn = NoConn /\ Worker'
    BY <2>1, <2>2 DEF Worker
  <2>4. \A d \in Conns : Link(d)'
    BY <1>0, <1>1, LinkFrame DEF StreamInv
  <2> QED BY <1>0, <1>1, <2>3, <2>4 DEF StreamInv
<1>3. CASE ~ConnectionStopped
  <2>1. rcv' = rcv \/ (rcv.call \in {"idle", "refused", "accepted"}
                       /\ \E call \in {"connect", "stop", "idle"} : Goes(call))
    BY <1>3 DEF StartConnection, StopConnection, WidgetSteps, ConnectTimer, ConnectReturns, CheckStatus,
                GuiIdle
  <2>2. SameReceiver /\ rcv'.conn = rcv.conn /\ Worker'
    BY <1>0, <2>1 DEF Goes, SameReceiver, Worker
  <2> QED BY <1>0, <1>1, <2>2, StepOffNet
<1> QED BY <1>2, <1>3
-----------------------------------------------------------------------------
LEMMA StreamInit ==
  ASSUME TcpInit
  PROVE  StreamInv
<1>1. /\ net = [c \in Conns |-> Unused] /\ served = 0 /\ handler = [c \in Conns |-> "none"]
      /\ sender = [c \in Conns |-> NoSender] /\ rcv = NewReceiver
  BY DEF TcpInit, InitLink, InitServer, InitReceiver
<1>2. /\ DOMAIN Unused = {"client", "server", "up", "down"} /\ Unused.up.type = "nothing"
      /\ NoSender.worker = "none" /\ NoSender.cursor = 0
      /\ NewReceiver.conn = NoConn /\ NewReceiver.worker = "none" /\ NewReceiver.batch = <<>>
      /\ NewReceiver.call = "idle"
  BY DEF Unused, Nothing, Msg, NoSender, NewReceiver
<1> HIDE DEF Unused, NoSender, NewReceiver
<1>3. NetShape /\ \A c \in Conns : Link(c)
  BY <1>1, <1>2 DEF NetShape, Link, Asking, Answering
<1> QED BY <1>1, <1>2, <1>3 DEF StreamInv, Worker

LEMMA StreamStep ==
  ASSUME Receiver, [TcpNext]_tcpVars
  PROVE  StreamInv'
<1>0. StreamInv /\ SessionInv
  BY DEF Receiver
<1>1. CASE UNCHANGED tcpVars
  <2>1. UNCHANGED <<net, served, handler, sender, rcv, got>>
    BY <1>1 DEF tcpVars, linkVars, serverVars, clientVars
  <2> QED BY <1>0, <2>1 DEF StreamInv, NetShape, Link, Flow, Worker, OneToken, Seen, InFlight,
                            Asking, Answering, Arriving
<1>2. ASSUME SourceWrites \/ Application \/ Closes, UNCHANGED clientVars PROVE StreamInv'
  BY <1>0, <1>2, ApplicationFlow DEF clientVars
<1>3. ASSUME NEW c \in Conns, HandleClient(c) \/ SenderWorks(c) \/ DestroySender(c), UNCHANGED clientVars
      PROVE  StreamInv'
  BY <1>0, <1>3, HandlerFlow, SenderReadsFlow, SenderAnswersFlow, DestroyFlow DEF SenderWorks, clientVars
<1>4. ASSUME ReceiverCalls(srv.up) \/ ReceiverWorks, UNCHANGED serverVars PROVE StreamInv'
  BY <1>4, ConnectFlow, HandshakeFlow, StopFlow, AsksFlow, ReceivesFlow, PushesFlow
     DEF ReceiverCalls, ReceiverWorks
<1>5. ASSUME PeerConnects(srv.up) \/ PeerFinishes, UNCHANGED serverVars PROVE StreamInv'
  BY <1>0, <1>5, PeerFlow
<1> QED BY <1>1, <1>2, <1>3, <1>4, <1>5, WidgetFlow DEF TcpNext

LEMMA StreamInvariant == TcpSpec => []StreamInv
<1>1. TcpInit => StreamInv
  BY StreamInit
<1>2. ASSUME StreamInv, SessionInv, ReceiverInv, [TcpNext]_tcpVars PROVE StreamInv'
  BY <1>2, StreamStep DEF Receiver
<1> QED BY <1>1, <1>2, SessionInvariant, ReceiverInvariant, PTL DEF TcpSpec

(* What a receiver gets over one connection is a run of the source's        *)
(* records without a gap and with none twice, and its end is where the      *)
(* session stands as long as both are at work: whatever fails, whoever      *)
(* closes, however handlers, sessions and calls interleave                  *)
(* (TcpDataSender.cpp:29-89, TcpDataReceiver.cpp:107-168).                   *)
THEOREM ReceivedWithoutGaps == TcpSpec => []StreamIsGapless
<1>1. ASSUME StreamInv PROVE StreamIsGapless
  <2>1. SUFFICES ASSUME rcv.conn # NoConn PROVE StreamIsGapless
    BY DEF StreamIsGapless
  <2>2. PICK c \in Conns : c = rcv.conn /\ Flow(c)
    BY <1>1, <2>1 DEF StreamInv
  <2>3. StreamIsGapless <=>
          /\ \A i \in 1 .. Len(Seen(c)) - 1 : Seen(c)[i + 1] = Seen(c)[i] + 1
          /\ \A i \in DOMAIN Seen(c) : Seen(c)[i] \in 1 .. served
          /\ (Seen(c) # <<>> /\ IsOpen(c, "client") /\ sender[c].worker \in {"read", "answer"})
               => Last(Seen(c)) = sender[c].cursor
    BY <2>1, <2>2 DEF StreamIsGapless, Seen
  <2> QED BY <2>2, <2>3 DEF Flow, Run, EndsAt, IsOpen
<1> QED BY <1>1, StreamInvariant, PTL
=============================================================================
