------------------------- MODULE MCAlgResourcePool -------------------------
(* Three threads, two algorithms that share a resource and a reentrant one. *)
EXTENDS AlgResourcePool

CONSTANTS a1, a2, a3, r1, r2

MCInstances == [a \in Algs |-> IF a = a1 THEN {1, 2} ELSE {1}]
MCRequires  == [a \in Algs |-> IF a = a1 THEN {r1} ELSE IF a = a2 THEN {r1, r2} ELSE {}]
=============================================================================
