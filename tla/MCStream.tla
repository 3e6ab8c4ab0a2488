------------------------------- MODULE MCStream ------------------------------
(***************************************************************************)
(* The instances of Stream for TLC: which methods are called on which      *)
(* reader while the system runs.                                           *)
(***************************************************************************)
EXTENDS StreamProperties

(* Readers that live as long as the system. *)
NoControls == [c \in Clients |-> {}]

(* Readers of which everything is called. *)
AllControls == [c \in Clients |-> {"stop", "finish", "destroy"}]

OnlyStop == [c \in Clients |-> {"stop"}]

(* A RecordReader that is finished or destroyed beside RecordReaderZCs of   *)
(* which everything is called.                                              *)
MixedControls ==
  [c \in Clients |->
     IF c \in Readers THEN {"finish", "destroy"} ELSE {"stop", "finish", "destroy"}]
=============================================================================
