------------------------------ MODULE Delivery ------------------------------
(***************************************************************************)
(* What is promised of the certificates of a proxy, wherever they are      *)
(* held: at the source serials only grow; a holder takes what the source   *)
(* has by then, never an older certificate than its own, and may lose what *)
(* it holds.  One step may move any number of domains.                     *)
(***************************************************************************)
EXTENDS Integers

CONSTANT Domain

VARIABLES
    source,     \* newest serial of each domain at the source, 0 before the first
    held        \* serial the holder has, 0 for none

Init == source = [d \in Domain |-> 0] /\ held = [d \in Domain |-> 0]

Issue(d) == source'[d] > source[d] /\ held'[d] = held[d]

Deliver(d) == held'[d] \in held[d] + 1 .. source[d] /\ source'[d] = source[d]

Lose(d) == held'[d] = 0 /\ source'[d] = source[d]

Keep(d) == held'[d] = held[d] /\ source'[d] = source[d]

Next == \A d \in Domain : Issue(d) \/ Deliver(d) \/ Lose(d) \/ Keep(d)

Spec == Init /\ [][Next]_<<source, held>>

=============================================================================
