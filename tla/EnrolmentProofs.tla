-------------------------- MODULE EnrolmentProofs --------------------------
(***************************************************************************)
(* Theorems about Enrolment for any machines, any names among them, and    *)
(* any number of disturbances.                                             *)
(***************************************************************************)
EXTENDS Enrolment, TLAPS

-----------------------------------------------------------------------------
(* The inductive invariant.                                                *)

\* An enrolment the centre works on was made with the present enrolment token,
\* by a machine of that name which still has it.
CallsKnown ==
    /\ \A p \in Proxy : known[p] <= secret
    /\ \A c \in calls : \E p \in Proxy : NameOf[p] = c.name /\ known[p] = secret

\* A banned name has no token, and nobody who could get one for it.
BannedOut ==
    \A n \in banned :
        /\ clients[n] = 0
        /\ \A p \in Proxy : NameOf[p] = n => known[p] # secret

\* t is or was the token of n.
WasSaved(n, t) == t = clients[n] \/ t \in dropped

\* What was answered was saved, and so was what is written or on disk.
Backed ==
    /\ \A c \in calls : c.saved => WasSaved(c.name, c.token)
    /\ \A p \in Proxy : pc[p] = "write" => WasSaved(NameOf[p], tok[p])
    /\ \A p \in Proxy : file[p] # 0 => WasSaved(NameOf[p], file[p])

\* Somebody of that name holds or awaits t, or it was given up.
Accounted(n, t) ==
    t \in orphans \/ \E p \in Proxy : NameOf[p] = n /\ t \in {file[p], tok[p]}

\* No token in the table comes from nowhere, and nobody enrols with a file.
Held ==
    /\ \A n \in Name : clients[n] # 0 => Accounted(n, clients[n])
    /\ \A c \in calls : Accounted(c.name, c.token)
    /\ \A p \in Proxy : file[p] # 0 => tok[p] = 0

IInv == TypeOK /\ CallsKnown /\ BannedOut /\ Backed /\ Held

-----------------------------------------------------------------------------
(* Every step keeps it.                                                    *)

\* The agent of one machine becomes idle.
LEMMA IdleType ==
    ASSUME TypeOK, NEW p \in Proxy,
           pc' = [pc EXCEPT ![p] = "idle"], tok' = [tok EXCEPT ![p] = 0]
    PROVE  /\ pc' \in [Proxy -> {"idle", "wait", "write"}] /\ tok' \in [Proxy -> Nat]
           /\ \A q \in Proxy : pc'[q] = "idle" <=> tok'[q] = 0
BY DEF TypeOK

\* An attempt is given up.
LEMMA AbandonType ==
    ASSUME TypeOK, NEW p \in Proxy, Abandon(p)
    PROVE  /\ pc' \in [Proxy -> {"idle", "wait", "write"}] /\ tok' \in [Proxy -> Nat]
           /\ \A q \in Proxy : pc'[q] = "idle" <=> tok'[q] = 0
           /\ calls' \in SUBSET Call
           /\ orphans' \in SUBSET Nat /\ dropped' \in SUBSET Nat
           /\ clients' \in [Name -> Nat] /\ secret' \in Nat /\ issued' \in Nat
<1>1. pc' = [pc EXCEPT ![p] = "idle"] /\ tok' = [tok EXCEPT ![p] = 0]
  BY DEF Abandon
<1>2. tok[p] \in Nat
  BY DEF TypeOK
<1>3. calls' \subseteq calls /\ orphans' = orphans \cup ({tok[p]} \ {0})
      /\ UNCHANGED <<clients, secret, issued, dropped>>
  BY DEF Abandon
<1> QED
  BY <1>1, <1>2, <1>3, IdleType DEF TypeOK

\* A disturbance is counted.
LEMMA SpendType ==
    ASSUME left \in Nat, Spend
    PROVE  left' \in Nat
BY DEF Spend

\* Types.
LEMMA TypeStep == IInv /\ [Next]_vars => TypeOK'
<1> SUFFICES ASSUME TypeOK, [Next]_vars PROVE TypeOK'
  BY DEF IInv
<1> USE EnrolmentAssumption DEF centre, agent, history
<1>0. left \in Nat /\ calls \subseteq Call
  BY DEF TypeOK
<1>1. ASSUME NEW c \in calls, SaveClient(c) PROVE TypeOK'
  <2>1. c \in Call /\ c.name \in Name /\ c.token \in Nat
    BY <1>0 DEF Call
  <2>2. [c EXCEPT !.saved = TRUE] \in Call
    BY <2>1 DEF Call
  <2>3. calls' \subseteq Call
    BY <1>0, <1>1, <2>2 DEF SaveClient
  <2>4. clients' \in [Name -> Nat] /\ dropped' \in SUBSET Nat
    BY <1>1, <2>1 DEF SaveClient, TypeOK
  <2> QED
    BY <1>1, <2>3, <2>4 DEF SaveClient, TypeOK
<1>2. ASSUME NEW c \in calls, SaveFails(c) PROVE TypeOK'
  <2>1. left' \in Nat
    BY <1>0, <1>2, SpendType DEF SaveFails
  <2> QED
    BY <1>2, <2>1 DEF SaveFails, TypeOK
<1>3. ASSUME NEW p \in Proxy, Present(p) PROVE TypeOK'
  BY <1>3 DEF Present, TypeOK
<1>4. ASSUME NEW p \in Proxy, Enrol(p) PROVE TypeOK'
  <2>1. issued + 1 \in Nat \ {0} /\ NameOf[p] \in Name
    BY DEF TypeOK
  <2>2. [name |-> NameOf[p], token |-> issued + 1, saved |-> FALSE] \in Call
    BY <2>1 DEF Call
  <2>3. calls' \subseteq Call
    BY <1>0, <1>4, <2>2 DEF Enrol
  <2>4. /\ pc' \in [Proxy -> {"idle", "wait", "write"}] /\ tok' \in [Proxy -> Nat]
        /\ \A q \in Proxy : pc'[q] = "idle" <=> tok'[q] = 0
    BY <1>4, <2>1 DEF Enrol, TypeOK
  <2> QED
    BY <1>4, <2>1, <2>3, <2>4 DEF Enrol, TypeOK
<1>5. ASSUME NEW p \in Proxy, Receive(p) PROVE TypeOK'
  BY <1>5 DEF Receive, TypeOK
<1>6. ASSUME NEW p \in Proxy, WriteToken(p) PROVE TypeOK'
  <2>1. CASE Spend /\ Abandon(p) /\ UNCHANGED <<file, mem, banned, known>>
    BY <1>0, <2>1, AbandonType, SpendType DEF TypeOK
  <2>2. CASE /\ file' = [file EXCEPT ![p] = tok[p]] /\ mem' = [mem EXCEPT ![p] = tok[p]]
             /\ pc' = [pc EXCEPT ![p] = "idle"] /\ tok' = [tok EXCEPT ![p] = 0]
             /\ UNCHANGED <<centre, left, history, known>>
    BY <2>2, IdleType DEF TypeOK
  <2> QED
    BY <1>6, <2>1, <2>2 DEF WriteToken
<1>7. ASSUME NEW p \in Proxy, GiveUp(p) PROVE TypeOK'
  <2>1. left' \in Nat
    BY <1>0, <1>7, SpendType DEF GiveUp
  <2>2. Abandon(p) /\ UNCHANGED <<known, file, mem, banned>>
    BY <1>7 DEF GiveUp
  <2> QED
    BY <2>1, <2>2, AbandonType DEF TypeOK
<1>8. ASSUME NEW p \in Proxy, Sync(p) PROVE TypeOK'
  BY <1>8 DEF Sync, vars, TypeOK
<1>9. ASSUME NEW p \in Proxy, Die(p) PROVE TypeOK'
  <2>1. Spend /\ Abandon(p) /\ mem' = [mem EXCEPT ![p] = 0] /\ UNCHANGED <<known, file, banned>>
    BY <1>9 DEF Die
  <2> QED
    BY <1>0, <2>1, AbandonType, SpendType DEF TypeOK
<1>10. ASSUME NEW p \in Proxy, LoseVolume(p) PROVE TypeOK'
  <2>1. pc' = [pc EXCEPT ![p] = "idle"] /\ tok' = [tok EXCEPT ![p] = 0] /\ left' \in Nat
    BY <1>0, <1>10, SpendType DEF LoseVolume
  <2>2. tok[p] \in Nat /\ file[p] \in Nat
    BY DEF TypeOK
  <2>3. /\ calls' \subseteq calls /\ orphans' = orphans \cup ({tok[p], file[p]} \ {0})
        /\ mem' = [mem EXCEPT ![p] = 0] /\ file' = [file EXCEPT ![p] = 0]
        /\ UNCHANGED <<clients, secret, issued, known, dropped, banned>>
    BY <1>10 DEF LoseVolume
  <2> QED
    BY <2>1, <2>2, <2>3, IdleType DEF TypeOK
<1>11. ASSUME NEW p \in Proxy, Configure(p) PROVE TypeOK'
  <2>1. /\ known' = [known EXCEPT ![p] = secret] /\ banned' \subseteq banned
        /\ Abandon(p) /\ mem' = [mem EXCEPT ![p] = 0] /\ UNCHANGED <<file, left>>
    BY <1>11 DEF Configure
  <2> QED
    BY <2>1, AbandonType DEF TypeOK
<1>12. ASSUME NEW n \in Name, Revoke(n) PROVE TypeOK'
  <2>1. left' \in Nat
    BY <1>0, <1>12, SpendType DEF Revoke
  <2>2. clients' \in [Name -> Nat] /\ dropped' \in SUBSET Nat
    BY <1>12 DEF Revoke, TypeOK
  <2>3. banned' \in SUBSET Name
    BY <1>12 DEF Revoke, TypeOK
  <2> QED
    BY <1>12, <2>1, <2>2, <2>3 DEF Revoke, TypeOK
<1>13. CASE Rotate
  BY <1>13 DEF Rotate, Spend, TypeOK
<1>14. CASE Crash
  BY <1>14 DEF Crash, Spend, TypeOK
<1>15. CASE UNCHANGED vars
  BY <1>15 DEF vars, TypeOK
<1> QED
  BY <1>1, <1>2, <1>3, <1>4, <1>5, <1>6, <1>7, <1>8, <1>9, <1>10, <1>11, <1>12, <1>13, <1>14, <1>15
  DEF Next, CentreStep, AgentStep

\* Enrolments under way belong to the present token: a restart ends them all.
LEMMA CallsStep == IInv /\ [Next]_vars => CallsKnown'
<1> SUFFICES ASSUME IInv, [Next]_vars PROVE CallsKnown'
  OBVIOUS
<1> USE EnrolmentAssumption DEF IInv, TypeOK, CallsKnown, Call, centre, agent, history
<1>1. ASSUME NEW c \in calls, SaveClient(c) PROVE CallsKnown'
  BY <1>1 DEF SaveClient, Call
<1>2. ASSUME NEW c \in calls, SaveFails(c) PROVE CallsKnown'
  BY <1>2 DEF SaveFails, Spend
<1>3. ASSUME NEW p \in Proxy, Present(p) PROVE CallsKnown'
  BY <1>3 DEF Present
<1>4. ASSUME NEW p \in Proxy, Enrol(p) PROVE CallsKnown'
  BY <1>4 DEF Enrol, Call
<1>5. ASSUME NEW p \in Proxy, Receive(p) PROVE CallsKnown'
  BY <1>5 DEF Receive, Asked
<1>6. ASSUME NEW p \in Proxy, WriteToken(p) PROVE CallsKnown'
  <2>1. calls' \subseteq calls /\ UNCHANGED <<known, secret>>
    BY <1>6 DEF WriteToken, Abandon
  <2> QED
    BY <2>1
<1>7. ASSUME NEW p \in Proxy, GiveUp(p) PROVE CallsKnown'
  BY <1>7 DEF GiveUp, Abandon, Spend, Asked
<1>8. ASSUME NEW p \in Proxy, Sync(p) PROVE CallsKnown'
  BY <1>8 DEF Sync, vars
<1>9. ASSUME NEW p \in Proxy, Die(p) PROVE CallsKnown'
  BY <1>9 DEF Die, Abandon, Spend, Asked
<1>10. ASSUME NEW p \in Proxy, LoseVolume(p) PROVE CallsKnown'
  BY <1>10 DEF LoseVolume, Spend, Asked
<1>11. ASSUME NEW p \in Proxy, Configure(p) PROVE CallsKnown'
  BY <1>11 DEF Configure, Abandon, Asked
<1>12. ASSUME NEW n \in Name, Revoke(n) PROVE CallsKnown'
  BY <1>12 DEF Revoke, Spend
<1>13. CASE Rotate
  BY <1>13 DEF Rotate, Spend
<1>14. CASE Crash
  BY <1>14 DEF Crash, Spend
<1>15. CASE UNCHANGED vars
  BY <1>15 DEF vars
<1> QED
  BY <1>1, <1>2, <1>3, <1>4, <1>5, <1>6, <1>7, <1>8, <1>9, <1>10, <1>11, <1>12, <1>13, <1>14, <1>15 DEF Next, CentreStep, AgentStep

\* A revocation holds: nothing under way could save a token for that name.
LEMMA BannedStep == IInv /\ [Next]_vars => BannedOut'
<1> SUFFICES ASSUME IInv, [Next]_vars PROVE BannedOut'
  OBVIOUS
<1> USE EnrolmentAssumption DEF IInv, TypeOK, CallsKnown, BannedOut, Call, centre, agent, history
<1>1. ASSUME NEW c \in calls, SaveClient(c) PROVE BannedOut'
  BY <1>1 DEF SaveClient, Call
<1>2. ASSUME NEW c \in calls, SaveFails(c) PROVE BannedOut'
  BY <1>2 DEF SaveFails, Spend
<1>3. ASSUME NEW p \in Proxy, Present(p) PROVE BannedOut'
  BY <1>3 DEF Present
<1>4. ASSUME NEW p \in Proxy, Enrol(p) PROVE BannedOut'
  BY <1>4 DEF Enrol, Call
<1>5. ASSUME NEW p \in Proxy, Receive(p) PROVE BannedOut'
  BY <1>5 DEF Receive, Asked
<1>6. ASSUME NEW p \in Proxy, WriteToken(p) PROVE BannedOut'
  BY <1>6 DEF WriteToken, Abandon, Spend
<1>7. ASSUME NEW p \in Proxy, GiveUp(p) PROVE BannedOut'
  BY <1>7 DEF GiveUp, Abandon, Spend, Asked
<1>8. ASSUME NEW p \in Proxy, Sync(p) PROVE BannedOut'
  BY <1>8 DEF Sync, vars
<1>9. ASSUME NEW p \in Proxy, Die(p) PROVE BannedOut'
  BY <1>9 DEF Die, Abandon, Spend, Asked
<1>10. ASSUME NEW p \in Proxy, LoseVolume(p) PROVE BannedOut'
  BY <1>10 DEF LoseVolume, Spend, Asked
<1>11. ASSUME NEW p \in Proxy, Configure(p) PROVE BannedOut'
  BY <1>11 DEF Configure, Abandon, Asked
<1>12. ASSUME NEW n \in Name, Revoke(n) PROVE BannedOut'
  BY <1>12 DEF Revoke, Spend
<1>13. CASE Rotate
  BY <1>13 DEF Rotate, Spend
<1>14. CASE Crash
  BY <1>14 DEF Crash, Spend
<1>15. CASE UNCHANGED vars
  BY <1>15 DEF vars
<1> QED
  BY <1>1, <1>2, <1>3, <1>4, <1>5, <1>6, <1>7, <1>8, <1>9, <1>10, <1>11, <1>12, <1>13, <1>14, <1>15 DEF Next, CentreStep, AgentStep

\* A token leaves the table only for the set of those dropped.
LEMMA BackedStep == IInv /\ [Next]_vars => Backed'
<1> SUFFICES ASSUME IInv, [Next]_vars PROVE Backed'
  OBVIOUS
<1> USE EnrolmentAssumption DEF IInv, TypeOK, Backed, WasSaved, Call, centre, agent, history
<1>1. ASSUME NEW c \in calls, SaveClient(c) PROVE Backed'
  BY <1>1 DEF SaveClient, Call
<1>2. ASSUME NEW c \in calls, SaveFails(c) PROVE Backed'
  BY <1>2 DEF SaveFails, Spend
<1>3. ASSUME NEW p \in Proxy, Present(p) PROVE Backed'
  BY <1>3 DEF Present
<1>4. ASSUME NEW p \in Proxy, Enrol(p) PROVE Backed'
  BY <1>4 DEF Enrol, Call
<1>5. ASSUME NEW p \in Proxy, Receive(p) PROVE Backed'
  BY <1>5 DEF Receive, Asked
<1>6. ASSUME NEW p \in Proxy, WriteToken(p) PROVE Backed'
  BY <1>6 DEF WriteToken, Abandon, Spend
<1>7. ASSUME NEW p \in Proxy, GiveUp(p) PROVE Backed'
  BY <1>7 DEF GiveUp, Abandon, Spend, Asked
<1>8. ASSUME NEW p \in Proxy, Sync(p) PROVE Backed'
  BY <1>8 DEF Sync, vars
<1>9. ASSUME NEW p \in Proxy, Die(p) PROVE Backed'
  BY <1>9 DEF Die, Abandon, Spend, Asked
<1>10. ASSUME NEW p \in Proxy, LoseVolume(p) PROVE Backed'
  BY <1>10 DEF LoseVolume, Spend, Asked
<1>11. ASSUME NEW p \in Proxy, Configure(p) PROVE Backed'
  BY <1>11 DEF Configure, Abandon, Asked
<1>12. ASSUME NEW n \in Name, Revoke(n) PROVE Backed'
  BY <1>12 DEF Revoke, Spend
<1>13. CASE Rotate
  BY <1>13 DEF Rotate, Spend
<1>14. CASE Crash
  BY <1>14 DEF Crash, Spend
<1>15. CASE UNCHANGED vars
  BY <1>15 DEF vars
<1> QED
  BY <1>1, <1>2, <1>3, <1>4, <1>5, <1>6, <1>7, <1>8, <1>9, <1>10, <1>11, <1>12, <1>13, <1>14, <1>15 DEF Next, CentreStep, AgentStep

\* A token leaves its holder only for the set of orphans.
LEMMA HeldStep == IInv /\ [Next]_vars => Held'
<1> SUFFICES ASSUME IInv, [Next]_vars PROVE Held'
  OBVIOUS
<1> USE EnrolmentAssumption DEF IInv, TypeOK, Held, Accounted, Call, centre, agent, history
<1>1. ASSUME NEW c \in calls, SaveClient(c) PROVE Held'
  BY <1>1 DEF SaveClient, Call
<1>2. ASSUME NEW c \in calls, SaveFails(c) PROVE Held'
  BY <1>2 DEF SaveFails, Spend
<1>3. ASSUME NEW p \in Proxy, Present(p) PROVE Held'
  BY <1>3 DEF Present
<1>4. ASSUME NEW p \in Proxy, Enrol(p) PROVE Held'
  BY <1>4 DEF Enrol, Call
<1>5. ASSUME NEW p \in Proxy, Receive(p) PROVE Held'
  BY <1>5 DEF Receive, Asked
<1>6. ASSUME NEW p \in Proxy, WriteToken(p) PROVE Held'
  <2>1. CASE Abandon(p) /\ UNCHANGED file
    <3>1. \A n \in Name, t \in Nat \ {0} : Accounted(n, t) => Accounted(n, t)'
      BY <2>1 DEF Abandon
    <3>2. calls' \subseteq calls /\ UNCHANGED clients
      BY <2>1 DEF Abandon
    <3>3. \A c \in calls' : Accounted(c.name, c.token)'
      BY <3>1, <3>2
    <3>4. \A n \in Name : clients'[n] # 0 => Accounted(n, clients[n])'
      BY <3>1, <3>2
    <3>5. \A q \in Proxy : file'[q] # 0 => tok'[q] = 0
      BY <2>1 DEF Abandon
    <3> QED
      BY <3>3, <3>4, <3>5
  <2>2. CASE /\ file' = [file EXCEPT ![p] = tok[p]] /\ tok' = [tok EXCEPT ![p] = 0]
             /\ UNCHANGED <<clients, calls, orphans>>
    <3>1. \A n \in Name, t \in Nat \ {0} : Accounted(n, t) => Accounted(n, t)'
      BY <1>6, <2>2 DEF WriteToken
    <3>2. \A q \in Proxy : file'[q] # 0 => tok'[q] = 0
      BY <2>2
    <3> QED
      BY <2>2, <3>1, <3>2
  <2> QED
    BY <1>6, <2>1, <2>2 DEF WriteToken
<1>7. ASSUME NEW p \in Proxy, GiveUp(p) PROVE Held'
  BY <1>7 DEF GiveUp, Abandon, Spend, Asked
<1>8. ASSUME NEW p \in Proxy, Sync(p) PROVE Held'
  BY <1>8 DEF Sync, vars
<1>9. ASSUME NEW p \in Proxy, Die(p) PROVE Held'
  BY <1>9 DEF Die, Abandon, Spend, Asked
<1>10. ASSUME NEW p \in Proxy, LoseVolume(p) PROVE Held'
  BY <1>10 DEF LoseVolume, Spend, Asked
<1>11. ASSUME NEW p \in Proxy, Configure(p) PROVE Held'
  BY <1>11 DEF Configure, Abandon, Asked
<1>12. ASSUME NEW n \in Name, Revoke(n) PROVE Held'
  BY <1>12 DEF Revoke, Spend
<1>13. CASE Rotate
  BY <1>13 DEF Rotate, Spend
<1>14. CASE Crash
  BY <1>14 DEF Crash, Spend
<1>15. CASE UNCHANGED vars
  BY <1>15 DEF vars
<1> QED
  BY <1>1, <1>2, <1>3, <1>4, <1>5, <1>6, <1>7, <1>8, <1>9, <1>10, <1>11, <1>12, <1>13, <1>14, <1>15 DEF Next, CentreStep, AgentStep

\* The invariant holds at the start.
LEMMA InitIInv == Init => IInv
BY EnrolmentAssumption DEF Init, IInv, TypeOK, CallsKnown, BannedOut, Backed, Held, WasSaved, Accounted

-----------------------------------------------------------------------------
(* The theorems.                                                           *)

\* Types, and where tokens and enrolments come from, for any machines and any
\* number of crashes, losses and revocations.
THEOREM InductiveInvariant == Spec => []IInv
<1>1. IInv /\ [Next]_vars => IInv'
  BY TypeStep, CallsStep, BannedStep, BackedStep, HeldStep DEF IInv
<1> QED
  BY InitIInv, <1>1, PTL DEF Spec

\* Tokens, enrolments under way and the agents' files stay well formed (auth.go).
THEOREM TypeCorrect == Spec => []TypeOK
<1>1. IInv => TypeOK
  BY DEF IInv
<1> QED
  BY <1>1, InductiveInvariant, PTL

\* A proxy revoked after the enrolment token was replaced stays out until it is
\* given the new one.
THEOREM RevocationLasts == Spec => []RevokedStaysOut
<1>1. IInv => RevokedStaysOut
  BY DEF IInv, BannedOut, RevokedStaysOut
<1> QED
  BY <1>1, InductiveInvariant, PTL

\* What an agent keeps on disk was saved by the centre.
THEOREM TokensAreBacked == Spec => []FileIsBacked
<1>1. IInv => FileIsBacked
  BY DEF IInv, Backed, WasSaved, FileIsBacked
<1> QED
  BY <1>1, InductiveInvariant, PTL

\* Only another machine of its name, or an attempt that was given up, takes a
\* proxy's access to another token.
THEOREM LockoutNeedsLoss == Spec => []LockedOutByLoss
<1>1. IInv => LockedOutByLoss
  <2> SUFFICES ASSUME IInv, NEW p \in Proxy,
                      file[p] # 0, clients[NameOf[p]] \notin {0, file[p]}
               PROVE  \/ clients[NameOf[p]] \in orphans
                      \/ \E q \in Proxy \ {p} : /\ NameOf[q] = NameOf[p]
                                               /\ clients[NameOf[p]] \in {file[q], tok[q]}
    BY DEF LockedOutByLoss
  <2>1. NameOf[p] \in Name
    BY EnrolmentAssumption
  <2>2. Accounted(NameOf[p], clients[NameOf[p]]) /\ tok[p] = 0
    BY <2>1 DEF IInv, Held
  <2> QED
    BY <2>2 DEF Accounted
<1> QED
  BY <1>1, InductiveInvariant, PTL

=============================================================================
