------------------------------- MODULE MCTcp --------------------------------
(* The bounds for TLC.                                                      *)
EXTENDS TcpStream

Budget(records, failures, clients, calls, enables) ==
  [records |-> records, failures |-> failures, clients |-> clients, calls |-> calls,
   enables |-> enables]

(* Failures while the server is stopped or the buffer unregistered, other   *)
(* clients beside the receiver, failures and a user who tries again, and    *)
(* a longer stream.                                                         *)
SmallBudgets ==
  {Budget(0, 1, 0, 2, 1), Budget(0, 0, 1, 1, 1), Budget(2, 1, 0, 0, 2),
   Budget(1, 0, 2, 2, 0), Budget(3, 0, 0, 0, 1)}

(* One failure, nothing else. *)
OneFailure == {Budget(1, 1, 0, 0, 1)}
=============================================================================
