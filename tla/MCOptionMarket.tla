--------------------------- MODULE MCOptionMarket ---------------------------
(* Model checking of OptionMarket without symmetry sets, which liveness    *)
(* does not allow: users, keys and options are interchangeable, so the     *)
(* first request is, without loss of generality, by u1 with k1 on o1.      *)
EXTENDS OptionMarket

CONSTANTS u1, k1, o1, r1

MCWishes ==
  [r \in Requests |->
     IF r = r1 THEN {q \in Submissions : q.user = u1 /\ q.key = k1 /\ q.option = o1}
               ELSE Submissions]
=============================================================================
