------------------------------ MODULE MCCentre ------------------------------
(* Instances of Centre for TLC. *)
EXTENDS Centre, TLC

\* A renewal, a crash and a domain dropped by its last proxy.
SomeBudget ==
    [k \in {"renew", "crash", "stop", "db", "cname", "unbind"} |->
        IF k \in {"renew", "crash", "unbind"} THEN 1 ELSE 0]

\* Every certificate the scheduler can save within MaxTime.
AllCerts == [serial : 1 .. 2 * MaxTime, notAfter : 1 .. MaxTime + CertLife, issuedAt : 1 .. MaxTime]

KeySymmetry == Permutations(Key)

=============================================================================
