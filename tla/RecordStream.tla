---------------------------- MODULE RecordStream ----------------------------
(***************************************************************************)
(* What the buffer with its writers and readers promises (README,          *)
(* "Backpressure & overrun behavior"): one log of records to which the     *)
(* writers append, and readers each of which is given runs of the log, in  *)
(* order and never the same record twice; with a lossless stream no record *)
(* is left out either.  Stream is shown to implement it.                   *)
(***************************************************************************)
EXTENDS Integers, Sequences

CONSTANTS Subscribers,    \* the readers
          LateSubscribers,\* readers that join while the log grows; they may be overrun
          Lossless        \* no reader is ever skipped forward

VARIABLES log, delivered

streamVars == <<log, delivered>>

(* The position in the log of the last record a reader was given. *)
Position(s) ==
  IF delivered[s] = <<>> THEN 0
  ELSE CHOOSE i \in 1 .. Len(log) : log[i] = delivered[s][Len(delivered[s])]

Init == log = <<>> /\ delivered = [s \in Subscribers |-> <<>>]

(* Records are distinct: each is appended once. *)
Extends(s, t) ==
  Len(s) <= Len(t) /\ SubSeq(t, 1, Len(s)) = s

AppendRecords ==
  /\ Extends(log, log')
  /\ \A i, j \in 1 .. Len(log') : log'[i] = log'[j] => i = j
  /\ UNCHANGED delivered

MaySkip(s) == ~Lossless \/ s \in LateSubscribers

Deliver(s) ==
  /\ \E skip \in 0 .. Len(log) - Position(s) :
       /\ skip > 0 => MaySkip(s)
       /\ \E n \in 1 .. Len(log) - Position(s) - skip :
            delivered' = [delivered EXCEPT ![s] =
              @ \o SubSeq(log, Position(s) + skip + 1, Position(s) + skip + n)]
  /\ UNCHANGED log

Next == AppendRecords \/ \E s \in Subscribers : Deliver(s)

Spec == Init /\ [][Next]_streamVars
=============================================================================
