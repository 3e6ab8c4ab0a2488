---------------------------- MODULE BoundedDeque ----------------------------
(***************************************************************************)
(* What cyc::CircularBuffer promises its users: a double-ended queue of at *)
(* most "limit" items in which inserting at the back of a full queue drops *)
(* items from the front.  "call" is the last call with its arguments.      *)
(* CircularBufferSpec is shown to implement it.                            *)
(***************************************************************************)
EXTENDS Integers, Sequences

CONSTANTS Items, MaxBulk, MaxLimit

VARIABLES items, limit, call

dequeVars == <<items, limit, call>>

(* The last n items of a sequence that has at least n. *)
LastItems(s, n) == SubSeq(s, Len(s) - n + 1, Len(s))

(* Keep the newest items when there are more than the limit. *)
Trim(s, n) == IF Len(s) <= n THEN s ELSE LastItems(s, n)

Init == items = <<>> /\ limit \in 1 .. MaxLimit /\ call = <<"new">>

AppendAll ==
  /\ call'[1] = "append"
  /\ call'[2] \in Seq(Items) /\ Len(call'[2]) \in 1 .. MaxBulk
  /\ items' = Trim(items \o call'[2], limit)
  /\ UNCHANGED limit

DropFront(n) ==
  /\ n <= Len(items) /\ items' = SubSeq(items, n + 1, Len(items))
  /\ call' = <<"dropFront", n>> /\ UNCHANGED limit

DropBack ==
  /\ items # <<>> /\ items' = SubSeq(items, 1, Len(items) - 1)
  /\ call' = <<"dropBack">> /\ UNCHANGED limit

Empty == items' = <<>> /\ call' = <<"clear">> /\ UNCHANGED limit

Grow(n) ==
  /\ n >= limit /\ limit' = n
  /\ call' = <<"reserve", n>> /\ UNCHANGED items

Next ==
  \/ AppendAll
  \/ \E n \in 1 .. MaxLimit : DropFront(n)
  \/ DropBack
  \/ Empty
  \/ \E n \in 1 .. MaxLimit : Grow(n)

Spec == Init /\ [][Next]_dequeVars
=============================================================================
