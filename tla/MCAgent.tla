------------------------------ MODULE MCAgent ------------------------------
(* Instances of Agent for TLC. *)
EXTENDS Agent, TLC

\* Enough for a fresh number beside the two on disk.
ThreeStubs == {-1, -2, -3}

\* Two certificates for one domain, one for each other domain.
Serials == [d \in Domain |-> IF d = CHOOSE e \in Domain : TRUE THEN 2 ELSE 1]

=============================================================================
