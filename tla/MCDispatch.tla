----------------------------- MODULE MCDispatch -----------------------------
(***************************************************************************)
(* Instances of Dispatch for TLC: deliveries of one service, worked on by  *)
(* one or two replicas.                                                    *)
(***************************************************************************)
EXTENDS Dispatch, TLC

CONSTANTS d1, d2, s1, r1, r2, w1, w2

OneService == [d \in Deliveries |-> s1]

\* Two workers of one process, and one worker in each of two processes.
OneProcess   == [w \in Workers |-> r1]
TwoProcesses == [w \in Workers |-> IF w = w1 THEN r1 ELSE r2]

\* Which delivery, and which process with its worker, is interchangeable.
SameRows == Permutations(Deliveries)
SameProcesses ==
  SameRows \union {(w1 :> w2) @@ (w2 :> w1) @@ (r1 :> r2) @@ (r2 :> r1)}

=============================================================================
