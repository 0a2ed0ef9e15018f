---------------------------- MODULE MCScheduler ----------------------------
(* Instances of Scheduler for TLC. *)
EXTENDS Scheduler, TLC

NoBudget == [k \in Disturbance |-> 0]

\* A crash, a renewal, a CNAME that goes away, and two statements of the
\* database that fail (the second one may hit the write that records the first).
Anything == [NoBudget EXCEPT !["crash"] = 1, !["db"] = 2, !["renew"] = 1, !["cname"] = 1]

RenewOnly == [NoBudget EXCEPT !["renew"] = 1]

StopOnly == [NoBudget EXCEPT !["stop"] = 1]

DomainSymmetry == Permutations(Domain)

=============================================================================
