---------------------------- MODULE RecordWindow ----------------------------
(***************************************************************************)
(* What the shared storage promises: the newest "Capacity" records of an   *)
(* append-only history, each whole, and a count of all records ever        *)
(* written.  "given" is what was written last.  DynamicChunkBuffer is shown*)
(* to implement it on bytes.                                               *)
(***************************************************************************)
EXTENDS Integers, Sequences

CONSTANTS Payloads, Capacity, MaxPush, MaxWritten

VARIABLES window, written, given

windowVars == <<window, written, given>>

Newest(s) ==
  IF Len(s) <= Capacity THEN s ELSE SubSeq(s, Len(s) - Capacity + 1, Len(s))

Init == window = <<>> /\ written = 0 /\ given = <<>>

Write ==
  /\ given' \in Seq(Payloads) /\ Len(given') \in 1 .. MaxPush
  /\ window' = Newest(window \o given')
  /\ written' = written + Len(given')

Forget == window' = <<>> /\ given' = <<>> /\ UNCHANGED written

Next == \/ Write
        \/ Forget

Spec == Init /\ [][Next]_windowVars
=============================================================================
