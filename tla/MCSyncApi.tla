----------------------------- MODULE MCSyncApi -----------------------------
(* Instances of SyncApi for TLC. *)
EXTENDS SyncApi, TLC

OneCert == {[serial |-> 1, notAfter |-> 1, issuedAt |-> 1]}

\* Idle requests name no domain, so that domains are interchangeable too.
ApiSymmetry == Permutations(Slot) \cup Permutations(Account) \cup Permutations(Domain)

=============================================================================
