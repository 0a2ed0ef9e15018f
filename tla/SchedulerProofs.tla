-------------------------- MODULE SchedulerProofs --------------------------
(***************************************************************************)
(* Theorems about Scheduler for every set of domains and proxies, every    *)
(* backoff, lifetime and bound: the type invariant, and the invariants     *)
(* that one inductive invariant IInv carries.                              *)
(***************************************************************************)
EXTENDS Scheduler, StoreProofs

-----------------------------------------------------------------------------
(* The inductive invariant.                                                *)

\* Certificates are saved in the order in which the CA issued them, so that
\* the ordering of LatestCert agrees with the order of the rows.
Chronological ==
    \A d \in Domain : \A i, j \in 1 .. Len(certs[d]) :
        i < j => /\ certs[d][i].issuedAt <= certs[d][j].issuedAt
                 /\ certs[d][i].serial < certs[d][j].serial
                 /\ certs[d][i].notAfter <= certs[d][j].notAfter

\* Nothing stored comes from the future.
NotAhead ==
    \A d \in Domain : \A i \in 1 .. Len(certs[d]) :
        /\ certs[d][i].issuedAt <= now
        /\ certs[d][i].serial <= orders
        /\ certs[d][i].notAfter <= now + CertLife

\* The certificate in hand is newer than all those stored.
InHand ==
    pc = "save" =>
        /\ got.serial <= orders
        /\ got.notAfter <= now + CertLife
        /\ \A d \in Domain : \A i \in 1 .. Len(certs[d]) :
             certs[d][i].serial < got.serial /\ certs[d][i].notAfter <= got.notAfter

\* The copies of a pass stand for rows that exist; the scheduler marks a domain
\* active only after it has saved a certificate for it.
PassOK ==
    /\ at <= now
    /\ \A d \in Domain : snap[d] # NoRow => Exists(d)
    /\ pc \notin {"idle", "pass"} => snap[cur] # NoRow
    /\ pc = "activate" => certs[cur] # <<>>

CertsOK == Chronological /\ NotAhead /\ InHand

IInv == TypeOK /\ CertsOK /\ PassOK /\ ActiveHasCert /\ BackoffConsistent

-----------------------------------------------------------------------------
(* Lemmas about the operators.                                             *)

\* A failure that is recorded is followed by a pause between one unit and the
\* limit, whatever the shift of the base gives.
LEMMA BackoffBounds ==
    ASSUME NEW n \in Nat, n >= 1
    PROVE  backoff(n) \in 1 .. BackoffLimit
BY SchedulerAssumption DEF backoff

\* It is at least the base: what has overflowed is cut to the limit, and what is
\* left after a shift by the whole width is nothing.
LEMMA BackoffAtLeastBase ==
    ASSUME NEW n \in Nat, n >= 1
    PROVE  backoff(n) >= BackoffBase
<1>1. CASE shifted(n - 1) \in 1 .. BackoffLimit
  <2>1. n - 1 < Width
    BY <1>1, SchedulerAssumption DEF shifted
  <2>2. n - 1 \in 0 .. Width - 1
    BY <2>1, SchedulerAssumption
  <2>3. shifted(n - 1) >= BackoffBase
    BY <1>1, <2>2, ShiftAssumption
  <2> QED
    BY <1>1, <2>3 DEF backoff
<1>2. CASE shifted(n - 1) \notin 1 .. BackoffLimit
  <2>1. backoff(n) = BackoffLimit
    BY <1>2 DEF backoff
  <2> QED
    BY <2>1, SchedulerAssumption
<1> QED
  BY <1>1, <1>2

\* The scheduler's certificates are in order for the store.
LEMMA ChronologicalIsInOrder == Chronological => SavedInOrder
BY DEF Chronological, SavedInOrder

\* Spending a disturbance leaves a budget.
LEMMA SpendType ==
    ASSUME left \in [Disturbance -> Nat], NEW k \in Disturbance, NEW n \in Nat, Spend(k, n)
    PROVE  left' \in [Disturbance -> Nat]
BY DEF Spend

\* Leaving a domain drops its copy and what was held for it.
LEMMA FinishOK ==
    ASSUME TypeOK, PassOK, Finish, now' = now,
           \A d \in Domain : Exists(d) => Exists(d)'
    PROVE  /\ pc' = "pass" /\ cur' \in Domain /\ at' \in Nat
           /\ snap' \in [Domain -> Row \cup {NoRow}]
           /\ got' \in [serial : Nat, notAfter : Nat]
           /\ PassOK'
<1>1. cur' \in Domain
  BY SchedulerAssumption DEF Finish
<1>2. snap' \in [Domain -> Row \cup {NoRow}]
  BY DEF Finish, TypeOK
<1>3. at' = 0 /\ now' \in Nat /\ at' \in Nat
  BY DEF Finish, TypeOK
<1>4. got' \in [serial : Nat, notAfter : Nat]
  BY DEF Finish
<1>5. PassOK'
  BY <1>3 DEF Finish, PassOK, TypeOK
<1> QED
  BY <1>1, <1>2, <1>3, <1>4, <1>5 DEF Finish

\* The certificates stay in order as long as none is saved and the clock stands.
LEMMA CertsFrame ==
    ASSUME CertsOK, certs' = certs, now' = now, orders' = orders,
           pc' = "save" => pc = "save" /\ got' = got
    PROVE  CertsOK'
BY DEF CertsOK, Chronological, NotAhead, InHand

\* The rows stay consistent as long as the tables are not written.
LEMMA RowsFrame ==
    ASSUME ActiveHasCert, BackoffConsistent, domains' = domains, certs' = certs, now' = now
    PROVE  ActiveHasCert' /\ BackoffConsistent'
BY DEF ActiveHasCert, BackoffConsistent, Exists

\* A status write keeps the rows consistent when what it writes is.
LEMMA RowWrite ==
    ASSUME TypeOK, ActiveHasCert, BackoffConsistent, now' = now,
           NEW d \in Domain, Exists(d), NEW s \in Status, NEW n \in Nat, NEW t \in Nat,
           SetStatus(d, s, n, t),
           s = "active" => certs[d] # <<>>,
           t > 0 => s = "error",
           t <= now + BackoffLimit,
           s = "error" => n >= 1,
           s \in {"active", "pending_cname"} => n = 0
    PROVE  ActiveHasCert' /\ BackoffConsistent'
<1>1. /\ domains'[d].status = s /\ domains'[d].failCount = n /\ domains'[d].retryAfter = t
      /\ \A e \in Domain \ {d} : domains'[e] = domains[e]
      /\ \A e \in Domain : Exists(e)' <=> Exists(e)
  <2>1. StoreTypeOK
    BY DEF TypeOK
  <2> QED
    BY <2>1, SetStatusType
<1>2. certs' = certs
  BY DEF SetStatus
<1>3. ActiveHasCert'
  BY <1>1, <1>2 DEF ActiveHasCert
<1>4. BackoffConsistent'
  BY <1>1 DEF BackoffConsistent
<1> QED
  BY <1>3, <1>4
-----------------------------------------------------------------------------
(* The invariant holds at the start and every step keeps it.               *)

LEMMA InitIInv == Init => IInv
<1> SUFFICES ASSUME Init PROVE IInv
  OBVIOUS
<1>1. \A d \in Domain : domains[d] = NoRow /\ certs[d] = <<>>
  BY DEF Init, StoreInit
<1>2. TypeOK
  <2>1. StoreTypeOK
    BY DEF Init, StoreInit, StoreTypeOK
  <2>2. cur \in Domain
    BY SchedulerAssumption DEF Init, IdlePass
  <2>3. /\ pc = "idle" /\ at \in Nat
        /\ snap \in [Domain -> Row \cup {NoRow}]
        /\ got \in [serial : Nat, notAfter : Nat]
    BY DEF Init, IdlePass
  <2>4. left \in [Disturbance -> Nat]
    BY SchedulerAssumption DEF Init
  <2>5. now \in Nat \ {0} /\ orders \in Nat
    BY DEF Init
  <2>6. ticked \in BOOLEAN
    BY DEF Init
  <2>7. cname \in SUBSET Domain /\ disturbed \in SUBSET Domain
    <3>1. cname = {} /\ disturbed = {}
      BY DEF Init
    <3> QED
      BY <3>1
  <2>8. asked \in [Domain -> Nat]
    BY DEF Init
  <2> QED
    BY <2>1, <2>2, <2>3, <2>4, <2>5, <2>6, <2>7, <2>8 DEF TypeOK
<1>3. CertsOK
  BY <1>1 DEF Init, IdlePass, CertsOK, Chronological, NotAhead, InHand
<1>4. PassOK
  BY <1>1 DEF Init, IdlePass, PassOK
<1>5. ActiveHasCert /\ BackoffConsistent
  BY <1>1 DEF ActiveHasCert, BackoffConsistent, Exists
<1> QED
  BY <1>2, <1>3, <1>4, <1>5 DEF IInv

\* While a domain is worked on, its copy is a row and its own row is there.
LEMMA CopyIsRow ==
    ASSUME TypeOK, PassOK, pc \notin {"idle", "pass"}
    PROVE  /\ cur \in Domain /\ Exists(cur) /\ snap[cur] \in Row
           /\ snap[cur].failCount \in Nat
<1>1. cur \in Domain /\ snap[cur] # NoRow /\ Exists(cur)
  BY DEF TypeOK, PassOK
<1>2. snap[cur] \in Row
  BY <1>1 DEF TypeOK
<1> QED
  BY <1>1, <1>2 DEF Row

\* A write of a status that ends the work on a domain keeps the invariant.
LEMMA WriteAndFinish ==
    ASSUME IInv, pc \notin {"idle", "pass"}, Finish,
           NEW s \in Status, NEW n \in Nat, NEW t \in Nat, SetStatus(cur, s, n, t),
           left' \in [Disturbance -> Nat],
           UNCHANGED <<now, ticked, cname, orders, history>>,
           s = "active" => certs[cur] # <<>>,
           t > 0 => s = "error",
           t <= now + BackoffLimit,
           s = "error" => n >= 1,
           s \in {"active", "pending_cname"} => n = 0
    PROVE  IInv'
<1> USE DEF history
<1>1. TypeOK /\ CertsOK /\ PassOK /\ ActiveHasCert /\ BackoffConsistent /\ StoreTypeOK
  BY DEF IInv, TypeOK
<1>2. cur \in Domain /\ Exists(cur)
  BY <1>1, CopyIsRow
<1>3. StoreTypeOK' /\ \A e \in Domain : Exists(e)' <=> Exists(e)
  BY <1>1, <1>2, SetStatusType
<1>4. ActiveHasCert' /\ BackoffConsistent'
  BY <1>1, <1>2, RowWrite
<1>5. /\ pc' = "pass" /\ cur' \in Domain /\ at' \in Nat
      /\ snap' \in [Domain -> Row \cup {NoRow}]
      /\ got' \in [serial : Nat, notAfter : Nat]
      /\ PassOK'
  BY <1>1, <1>3, FinishOK
<1>6. TypeOK'
  BY <1>1, <1>3, <1>5 DEF TypeOK
<1>7. CertsOK'
  BY <1>1, <1>5, CertsFrame DEF SetStatus
<1> QED
  BY <1>4, <1>5, <1>6, <1>7 DEF IInv

\* So does giving the domain up because the write failed.
LEMMA LostWriteAndFinish ==
    ASSUME IInv, Finish, UNCHANGED storeVars, left' \in [Disturbance -> Nat],
           UNCHANGED <<now, ticked, cname, orders, history>>
    PROVE  IInv'
<1> USE DEF history, storeVars
<1>1. TypeOK /\ CertsOK /\ PassOK /\ ActiveHasCert /\ BackoffConsistent
  BY DEF IInv
<1>2. StoreTypeOK' /\ \A e \in Domain : Exists(e)' <=> Exists(e)
  BY <1>1 DEF TypeOK, StoreTypeOK, Exists
<1>3. ActiveHasCert' /\ BackoffConsistent'
  BY <1>1, RowsFrame
<1>4. /\ pc' = "pass" /\ cur' \in Domain /\ at' \in Nat
      /\ snap' \in [Domain -> Row \cup {NoRow}]
      /\ got' \in [serial : Nat, notAfter : Nat]
      /\ PassOK'
  BY <1>1, <1>2, FinishOK
<1>5. TypeOK'
  BY <1>1, <1>2, <1>4 DEF TypeOK
<1>6. CertsOK'
  BY <1>1, <1>4, CertsFrame
<1> QED
  BY <1>3, <1>4, <1>5, <1>6 DEF IInv

\* A recorded failure keeps the invariant: it waits between one unit and the
\* limit, counted from a time that is not ahead of the clock.
LEMMA FailureStep ==
    ASSUME IInv, pc \notin {"idle", "pass"}, NEW failed \in Nat, RecordFailure(failed),
           UNCHANGED <<now, ticked, cname, orders, history>>
    PROVE  IInv'
<1> DEFINE n == snap[cur].failCount + 1
           t == at + backoff(n)
<1>1. TypeOK /\ PassOK /\ left \in [Disturbance -> Nat]
  BY DEF IInv, TypeOK
<1>2. snap[cur].failCount \in Nat
  BY <1>1, CopyIsRow
<1>3. n \in Nat /\ n >= 1
  BY <1>2
<1>4. backoff(n) \in 1 .. BackoffLimit
  BY <1>3, BackoffBounds
<1>5. t \in Nat /\ t <= now + BackoffLimit
  <2>1. at \in Nat /\ now \in Nat /\ at <= now
    BY <1>1 DEF TypeOK, PassOK
  <2>2. BackoffLimit \in Nat
    BY SchedulerAssumption
  <2> QED
    BY <1>4, <2>1, <2>2
<1>6. "error" \in Status /\ "db" \in Disturbance
  BY DEF Status, Disturbance
<1>7. \/ SetStatus(cur, "error", n, t) /\ Spend("db", failed)
      \/ Spend("db", failed + 1) /\ UNCHANGED storeVars
  BY DEF RecordFailure
<1>8. Finish /\ left' \in [Disturbance -> Nat]
  BY <1>1, <1>6, <1>7, SpendType DEF RecordFailure
<1> HIDE DEF n, t
<1>9. CASE SetStatus(cur, "error", n, t)
  BY <1>3, <1>5, <1>6, <1>8, <1>9, WriteAndFinish
<1>10. CASE UNCHANGED storeVars
  BY <1>8, <1>10, LostWriteAndFinish
<1> QED
  BY <1>7, <1>9, <1>10

\* So does the failure that carries no backoff.
LEMMA NoCnameStep ==
    ASSUME IInv, pc \notin {"idle", "pass"}, RecordNoCname,
           UNCHANGED <<now, ticked, cname, orders, history>>
    PROVE  IInv'
<1>1. now \in Nat /\ left \in [Disturbance -> Nat]
  BY DEF IInv, TypeOK
<1>2. 0 <= now + BackoffLimit /\ "pending_cname" \in Status /\ "db" \in Disturbance
  BY <1>1, SchedulerAssumption DEF Status, Disturbance
<1>3. Finish /\ left' \in [Disturbance -> Nat]
  BY <1>1, <1>2, SpendType DEF RecordNoCname
<1>4. CASE SetStatus(cur, "pending_cname", 0, 0)
  BY <1>2, <1>3, <1>4, WriteAndFinish
<1>5. CASE UNCHANGED storeVars
  BY <1>3, <1>5, LostWriteAndFinish
<1> QED
  BY <1>4, <1>5 DEF RecordNoCname
\* A step that only reads the tables and starts no "save" keeps the invariant
\* when its variables keep their types and the copies stand for rows.
LEMMA ReadStep ==
    ASSUME IInv, UNCHANGED <<storeVars, now, orders>>,
           pc' = "save" => pc = "save" /\ got' = got,
           TypeOK', PassOK'
    PROVE  IInv'
<1>1. CertsOK'
  BY CertsFrame DEF IInv, storeVars
<1>2. ActiveHasCert' /\ BackoffConsistent'
  BY RowsFrame DEF IInv, storeVars
<1> QED
  BY <1>1, <1>2 DEF IInv

LEMMA NextIInv == IInv /\ [Next]_vars => IInv'
<1> SUFFICES ASSUME IInv, [Next]_vars PROVE IInv'
  OBVIOUS
<1> USE DEF history, passVars
<1>1. TypeOK /\ CertsOK /\ PassOK /\ ActiveHasCert /\ BackoffConsistent /\ StoreTypeOK
  BY DEF IInv, TypeOK
<1>2. "idle" # "pass" /\ {"crash", "stop", "db", "renew", "unbind", "cname"} \subseteq Disturbance
  BY DEF Disturbance
<1>3. (UNCHANGED storeVars) => StoreTypeOK'
  BY <1>1 DEF storeVars, StoreTypeOK
<1>4. CASE Tick
  <2>1. left' \in [Disturbance -> Nat]
    BY <1>1, <1>2, <1>4, SpendType DEF Tick, TypeOK
  <2>2. snap' \in [Domain -> Row \cup {NoRow}] /\ pc' \in {"idle", "pass"}
    BY <1>1, <1>4 DEF Tick, TypeOK, StoreTypeOK
  <2>3. TypeOK'
    BY <1>1, <1>3, <1>4, <2>1, <2>2 DEF Tick, TypeOK
  <2>4. PassOK'
    BY <1>1, <1>4 DEF Tick, PassOK, TypeOK, Served, Exists, storeVars
  <2> QED
    BY <1>1, <1>4, <2>2, <2>3, <2>4, ReadStep DEF Tick
<1>5. CASE EndPass
  <2>1. TypeOK'
    BY <1>1, <1>3, <1>5 DEF EndPass, TypeOK
  <2>2. PassOK'
    BY <1>1, <1>5 DEF EndPass, PassOK, Exists, storeVars
  <2> QED
    BY <1>1, <1>5, <2>1, <2>2, ReadStep DEF EndPass
<1>6. ASSUME NEW d \in Domain, Skip(d)
      PROVE  IInv'
  <2>1. TypeOK'
    BY <1>1, <1>3, <1>6 DEF Skip, TypeOK
  <2>2. PassOK'
    BY <1>1, <1>6 DEF Skip, PassOK, TypeOK, Exists, storeVars
  <2> QED
    BY <1>1, <1>6, <2>1, <2>2, ReadStep DEF Skip
<1>7. ASSUME NEW d \in Domain, Start(d)
      PROVE  IInv'
  <2>1. left' \in [Disturbance -> Nat]
    BY <1>1, <1>2, <1>7, SpendType DEF Start, TypeOK
  <2>2. TypeOK'
    BY <1>1, <1>3, <1>7, <2>1 DEF Start, TypeOK
  <2>3. PassOK'
    BY <1>1, <1>7 DEF Start, PassOK, TypeOK, Exists, storeVars
  <2> QED
    BY <1>1, <1>7, <2>2, <2>3, ReadStep DEF Start
<1>8. CASE VerifyOk
  <2>1. TypeOK'
    BY <1>1, <1>3, <1>8 DEF VerifyOk, TypeOK
  <2>2. PassOK'
    BY <1>1, <1>8 DEF VerifyOk, PassOK, Exists, storeVars
  <2> QED
    BY <1>1, <1>8, <2>1, <2>2, ReadStep DEF VerifyOk
<1>9. CASE VerifyNoCname
  BY <1>9, NoCnameStep DEF VerifyNoCname
<1>10. CASE VerifyFails
  BY <1>10, FailureStep DEF VerifyFails
<1>11. CASE MarkIssuing
  <2>1. CASE SetStatus(cur, "issuing", snap[cur].failCount, 0)
             /\ pc' = "order" /\ UNCHANGED <<cur, at, snap, got, left>>
    <3>1. /\ cur \in Domain /\ Exists(cur) /\ snap[cur].failCount \in Nat
          /\ "issuing" \in Status /\ 0 <= now + BackoffLimit
      BY <1>1, <1>11, CopyIsRow, SchedulerAssumption DEF MarkIssuing, Status, TypeOK
    <3>2. StoreTypeOK' /\ \A e \in Domain : Exists(e)' <=> Exists(e)
      BY <1>1, <2>1, <3>1, SetStatusType
    <3>3. ActiveHasCert' /\ BackoffConsistent'
      BY <1>1, <1>11, <2>1, <3>1, RowWrite DEF MarkIssuing
    <3>4. TypeOK'
      BY <1>1, <1>11, <2>1, <3>2 DEF MarkIssuing, TypeOK
    <3>5. PassOK'
      BY <1>1, <1>11, <2>1, <3>2 DEF MarkIssuing, PassOK
    <3>6. CertsOK'
      BY <1>1, <1>11, <2>1, CertsFrame DEF MarkIssuing, SetStatus
    <3> QED
      BY <3>3, <3>4, <3>5, <3>6 DEF IInv
  <2>2. CASE RecordFailure(1)
    BY <1>11, <2>2, FailureStep DEF MarkIssuing
  <2> QED
    BY <1>11, <2>1, <2>2 DEF MarkIssuing
<1>12. CASE ObtainOk
  <2>1. now + CertLife \in Nat /\ orders \in Nat
    BY <1>1, SchedulerAssumption DEF TypeOK
  <2>2. TypeOK'
    BY <1>1, <1>3, <1>12, <2>1 DEF ObtainOk, TypeOK
  <2>3. PassOK'
    BY <1>1, <1>12 DEF ObtainOk, PassOK, Exists, storeVars
  <2>4. Chronological'
    BY <1>1, <1>12 DEF ObtainOk, CertsOK, Chronological, storeVars
  <2>5. \A d \in Domain : \A i \in 1 .. Len(certs[d]) :
          certs[d][i].serial \in Nat /\ certs[d][i].notAfter \in Nat
    <3> SUFFICES ASSUME NEW d \in Domain, NEW i \in 1 .. Len(certs[d])
                 PROVE  certs[d][i].serial \in Nat /\ certs[d][i].notAfter \in Nat
      OBVIOUS
    <3>1. certs[d] \in Seq(Cert)
      BY <1>1 DEF StoreTypeOK
    <3>2. certs[d][i] \in Cert
      BY <3>1
    <3> QED
      BY <3>2 DEF Cert
  <2>6. NotAhead' /\ InHand'
    BY <1>1, <1>12, <2>1, <2>5 DEF ObtainOk, CertsOK, NotAhead, InHand, storeVars
  <2>7. ActiveHasCert' /\ BackoffConsistent'
    BY <1>1, <1>12, RowsFrame DEF ObtainOk, storeVars
  <2> QED
    BY <2>2, <2>3, <2>4, <2>6, <2>7 DEF IInv, CertsOK
<1>13. CASE ObtainFails
  BY <1>13, FailureStep DEF ObtainFails
<1>14. CASE SaveIssued
  <2>1. CASE /\ SaveCert(cur, [serial |-> got.serial, notAfter |-> got.notAfter, issuedAt |-> now])
             /\ pc' = "activate" /\ UNCHANGED <<cur, at, snap, got, left>>
    <3> DEFINE new == [serial |-> got.serial, notAfter |-> got.notAfter, issuedAt |-> now]
    <3>1. cur \in Domain /\ pc = "save" /\ now' = now /\ orders' = orders
      BY <1>1, <1>14 DEF SaveIssued, TypeOK
    <3>2. new \in Cert
      BY <1>1 DEF TypeOK, Cert
    <3>3. StoreTypeOK /\ SaveCert(cur, new)
      BY <1>1, <2>1 DEF TypeOK
    <3>4. /\ StoreTypeOK' /\ UNCHANGED <<domains, domainClients>>
          /\ certs'[cur] # <<>>
          /\ Len(certs[cur]) \in Nat /\ Len(certs'[cur]) = Len(certs[cur]) + 1
          /\ certs'[cur][Len(certs[cur]) + 1] = new
          /\ \A i \in 1 .. Len(certs[cur]) : certs'[cur][i] = certs[cur][i]
          /\ \A d \in Domain \ {cur} : certs'[d] = certs[d]
      BY <3>1, <3>2, <3>3, SaveCertType
    <3>5. TypeOK'
      BY <1>1, <1>14, <2>1, <3>4 DEF SaveIssued, TypeOK
    <3>7. /\ new.serial = got.serial /\ new.notAfter = got.notAfter /\ new.issuedAt = now
          /\ got.serial \in Nat /\ got.notAfter \in Nat /\ now \in Nat
      BY <1>1 DEF TypeOK
    <3> HIDE DEF new
    <3>8. \A i \in 1 .. Len(certs[cur]) :
            /\ certs[cur][i].serial < new.serial /\ certs[cur][i].notAfter <= new.notAfter
            /\ certs[cur][i].issuedAt <= new.issuedAt
      BY <1>1, <3>1, <3>7 DEF CertsOK, InHand, NotAhead
    <3>9. Chronological'
      <4> SUFFICES ASSUME NEW d \in Domain,
                          NEW i \in 1 .. Len(certs'[d]), NEW j \in 1 .. Len(certs'[d]), i < j
                   PROVE  /\ certs'[d][i].issuedAt <= certs'[d][j].issuedAt
                          /\ certs'[d][i].serial < certs'[d][j].serial
                          /\ certs'[d][i].notAfter <= certs'[d][j].notAfter
        BY DEF Chronological
      <4>1. CASE d = cur /\ j = Len(certs[cur]) + 1
        BY <3>4, <3>8, <4>1
      <4>2. CASE d = cur /\ j # Len(certs[cur]) + 1
        <5>1. i \in 1 .. Len(certs[cur]) /\ j \in 1 .. Len(certs[cur])
          BY <3>4, <4>2
        <5> QED
          BY <1>1, <3>1, <3>4, <4>2, <5>1 DEF CertsOK, Chronological
      <4>3. CASE d # cur
        BY <1>1, <3>4, <4>3 DEF CertsOK, Chronological
      <4> QED
        BY <4>1, <4>2, <4>3
    <3>10. NotAhead'
      <4>1. new.serial <= orders /\ new.notAfter <= now + CertLife /\ new.issuedAt <= now
        BY <1>1, <3>1, <3>7 DEF CertsOK, InHand
      <4> SUFFICES ASSUME NEW d \in Domain, NEW i \in 1 .. Len(certs'[d])
                   PROVE  /\ certs'[d][i].issuedAt <= now
                          /\ certs'[d][i].serial <= orders
                          /\ certs'[d][i].notAfter <= now + CertLife
        BY <3>1 DEF NotAhead
      <4>2. CASE d = cur /\ i = Len(certs[cur]) + 1
        BY <3>4, <4>1, <4>2
      <4>3. CASE d = cur /\ i # Len(certs[cur]) + 1
        <5>1. i \in 1 .. Len(certs[cur])
          BY <3>4, <4>3
        <5> QED
          BY <1>1, <3>1, <3>4, <4>3, <5>1 DEF CertsOK, NotAhead
      <4>4. CASE d # cur
        BY <1>1, <3>4, <4>4 DEF CertsOK, NotAhead
      <4> QED
        BY <4>2, <4>3, <4>4
    <3>11. PassOK' /\ InHand'
      BY <1>1, <1>14, <2>1, <3>4 DEF SaveIssued, PassOK, InHand, Exists
    <3>12. ActiveHasCert' /\ BackoffConsistent'
      BY <1>1, <3>1, <3>4 DEF ActiveHasCert, BackoffConsistent, Exists
    <3> QED
      BY <3>5, <3>9, <3>10, <3>11, <3>12 DEF IInv, CertsOK
  <2>2. CASE RecordFailure(1)
    BY <1>14, <2>2, FailureStep DEF SaveIssued
  <2> QED
    BY <1>14, <2>1, <2>2 DEF SaveIssued
<1>15. CASE Activate
  <2>1. CASE SetStatus(cur, "active", 0, 0) /\ UNCHANGED left /\ Finish
    <3>1. certs[cur] # <<>> /\ "active" \in Status /\ 0 <= now + BackoffLimit
      BY <1>1, <1>15, SchedulerAssumption DEF Activate, PassOK, Status, TypeOK
    <3>2. left' \in [Disturbance -> Nat]
      BY <1>1, <2>1 DEF TypeOK
    <3> QED
      BY <1>15, <2>1, <3>1, <3>2, WriteAndFinish DEF Activate
  <2>2. CASE RecordFailure(1)
    BY <1>15, <2>2, FailureStep DEF Activate
  <2> QED
    BY <1>15, <2>1, <2>2 DEF Activate
<1>16. ASSUME Restart, left' \in [Disturbance -> Nat]
       PROVE  IInv'
  <2>1. cur' \in Domain
    BY <1>16, SchedulerAssumption DEF Restart
  <2>2. /\ pc' = "idle" /\ ticked' = FALSE /\ at' = 0
        /\ snap' = [d \in Domain |-> NoRow]
        /\ got' = [serial |-> 0, notAfter |-> 0]
        /\ UNCHANGED <<storeVars, now, cname, orders, history>>
    BY <1>16 DEF Restart
  <2>3. /\ snap' \in [Domain -> Row \cup {NoRow}]
        /\ got' \in [serial : Nat, notAfter : Nat]
    BY <2>2
  <2>4. TypeOK'
    BY <1>1, <1>3, <1>16, <2>1, <2>2, <2>3 DEF TypeOK
  <2>5. PassOK'
    BY <1>1, <2>2 DEF PassOK, TypeOK
  <2> QED
    BY <2>2, <2>4, <2>5, ReadStep
<1>17. CASE Crash
  BY <1>1, <1>2, <1>16, <1>17, SpendType DEF Crash, TypeOK
<1>18. CASE Stop
  BY <1>1, <1>2, <1>16, <1>18, SpendType DEF Stop, TypeOK
<1>19. ASSUME NEW d \in Domain, Renew(d)
       PROVE  IInv'
  <2>1. /\ Exists(d) /\ SetStatus(d, "pending_cname", 0, 0) /\ "pending_cname" \in Status
        /\ 0 <= now + BackoffLimit
        /\ UNCHANGED <<now, ticked, cname, passVars, orders, disturbed>>
    BY <1>1, <1>19, SchedulerAssumption DEF Renew, Status, TypeOK
  <2>2. StoreTypeOK' /\ \A e \in Domain : Exists(e)' <=> Exists(e)
    BY <1>1, <2>1, SetStatusType
  <2>3. left' \in [Disturbance -> Nat]
    BY <1>1, <1>2, <1>19, SpendType DEF Renew, TypeOK
  <2>4. LatestSerial(d) \in Nat
    BY <1>1, LatestSerialType, ChronologicalIsInOrder DEF CertsOK
  <2>5. asked' \in [Domain -> Nat]
    BY <1>1, <1>19, <2>4 DEF Renew, TypeOK
  <2>6. TypeOK'
    BY <1>1, <2>1, <2>2, <2>3, <2>5 DEF TypeOK
  <2>7. ActiveHasCert' /\ BackoffConsistent'
    BY <1>1, <2>1, RowWrite
  <2>8. CertsOK'
    BY <1>1, <2>1, CertsFrame DEF SetStatus
  <2>9. PassOK'
    BY <1>1, <2>1, <2>2 DEF PassOK, SetStatus
  <2> QED
    BY <2>6, <2>7, <2>8, <2>9 DEF IInv
<1>20. ASSUME NEW d \in Domain, NewDomain(d)
       PROVE  IInv'
  <2>1. PICK w \in Wildcards, a \in Account : CreateDomain(d, w, a)
    BY <1>20 DEF NewDomain
  <2> DEFINE row == [wildcard |-> w, account |-> a, status |-> "pending_cname",
                     failCount |-> 0, retryAfter |-> 0]
  <2>2. row \in Row
    BY StoreAssumption DEF Row, Status
  <2>3. row.status = "pending_cname" /\ row.failCount = 0 /\ row.retryAfter = 0
    OBVIOUS
  <2>4. ~Exists(d) /\ domains' = [domains EXCEPT ![d] = row] /\ UNCHANGED <<certs, domainClients>>
    BY <2>1 DEF CreateDomain
  <2> HIDE DEF row
  <2>5. StoreTypeOK' /\ domains'[d] = row /\ \A e \in Domain \ {d} : domains'[e] = domains[e]
    BY <1>1, <2>2, <2>4 DEF StoreTypeOK
  <2>6. UNCHANGED <<now, ticked, cname, passVars, orders, left, history>>
    BY <1>20 DEF NewDomain
  <2>7. TypeOK'
    BY <1>1, <2>5, <2>6 DEF TypeOK
  <2>8. CertsOK'
    BY <1>1, <2>4, <2>6, CertsFrame
  <2>9. \A e \in Domain : Exists(e) => Exists(e)'
    BY <2>4, <2>5 DEF Exists
  <2>10. PassOK'
    BY <1>1, <2>4, <2>6, <2>9 DEF PassOK
  <2>11. ActiveHasCert'
    BY <1>1, <2>3, <2>4, <2>5 DEF ActiveHasCert, Exists
  <2>12. 0 <= now + BackoffLimit
    BY <1>1, SchedulerAssumption DEF TypeOK
  <2>13. BackoffConsistent'
    BY <1>1, <2>3, <2>5, <2>6, <2>12 DEF BackoffConsistent, Exists
  <2> QED
    BY <2>7, <2>8, <2>10, <2>11, <2>13 DEF IInv
<1>21. ASSUME NEW c \in Client, NEW names \in SUBSET Domain, Bind(c, names)
       PROVE  IInv'
  <2>1. /\ UNCHANGED <<domains, certs>>
        /\ domainClients' = [domainClients EXCEPT ![c] = {d \in names : Exists(d)}]
        /\ UNCHANGED <<now, ticked, cname, passVars, orders, asked>>
        /\ disturbed' = disturbed \cup (Served \ Served')
    BY <1>21 DEF Bind, SetClientDomains
  <2>2. StoreTypeOK' /\ disturbed' \in SUBSET Domain
    BY <1>1, <2>1 DEF StoreTypeOK, TypeOK, Served
  <2>3. left' \in [Disturbance -> Nat]
    BY <1>1, <1>2, <1>21, SpendType DEF Bind, TypeOK
  <2>4. TypeOK'
    BY <1>1, <2>1, <2>2, <2>3 DEF TypeOK
  <2>5. PassOK' /\ CertsOK'
    BY <1>1, <2>1, CertsFrame DEF PassOK, Exists
  <2>6. ActiveHasCert' /\ BackoffConsistent'
    BY <1>1, <2>1, RowsFrame
  <2> QED
    BY <2>4, <2>5, <2>6 DEF IInv
<1>22. ASSUME NEW d \in Domain, AddCname(d)
       PROVE  IInv'
  <2>1. TypeOK'
    BY <1>1, <1>3, <1>22 DEF AddCname, TypeOK
  <2>2. PassOK'
    BY <1>1, <1>22 DEF AddCname, PassOK, Exists, storeVars
  <2> QED
    BY <1>22, <2>1, <2>2, ReadStep DEF AddCname
<1>23. ASSUME NEW d \in Domain, RemoveCname(d)
       PROVE  IInv'
  <2>1. left' \in [Disturbance -> Nat]
    BY <1>1, <1>2, <1>23, SpendType DEF RemoveCname, TypeOK
  <2>2. TypeOK'
    BY <1>1, <1>3, <1>23, <2>1 DEF RemoveCname, TypeOK
  <2>3. PassOK'
    BY <1>1, <1>23 DEF RemoveCname, PassOK, Exists, storeVars
  <2> QED
    BY <1>23, <2>2, <2>3, ReadStep DEF RemoveCname
<1>24. CASE AdvanceTime
  <2>1. /\ now' \in Nat \ {0} /\ now \in Nat /\ now <= now' /\ ticked' = FALSE
        /\ UNCHANGED <<storeVars, cname, passVars, orders, left, history>>
    BY <1>1, <1>24, SchedulerAssumption DEF AdvanceTime, TypeOK
  <2>2. TypeOK'
    BY <1>1, <1>3, <2>1 DEF TypeOK
  <2>3. \A d \in Domain : \A i \in 1 .. Len(certs[d]) :
          certs[d][i].notAfter \in Nat /\ certs[d][i].issuedAt \in Nat
    <3> SUFFICES ASSUME NEW d \in Domain, NEW i \in 1 .. Len(certs[d])
                 PROVE  certs[d][i].notAfter \in Nat /\ certs[d][i].issuedAt \in Nat
      OBVIOUS
    <3>1. certs[d] \in Seq(Cert)
      BY <1>1 DEF StoreTypeOK
    <3>2. certs[d][i] \in Cert
      BY <3>1
    <3> QED
      BY <3>2 DEF Cert
  <2>4. CertsOK'
    <3>1. Chronological'
      BY <1>1, <2>1 DEF CertsOK, Chronological, storeVars
    <3>2. NotAhead'
      <4> SUFFICES ASSUME NEW d \in Domain, NEW i \in 1 .. Len(certs[d])
                   PROVE  /\ certs[d][i].issuedAt <= now'
                          /\ certs[d][i].serial <= orders
                          /\ certs[d][i].notAfter <= now' + CertLife
        BY <2>1 DEF NotAhead, storeVars
      <4>1. /\ certs[d][i].issuedAt <= now
            /\ certs[d][i].serial <= orders
            /\ certs[d][i].notAfter <= now + CertLife
        BY <1>1 DEF CertsOK, NotAhead
      <4>2. now' \in Nat /\ CertLife \in Nat
        BY <2>1, SchedulerAssumption
      <4> QED
        BY <2>1, <2>3, <4>1, <4>2
    <3>3. InHand'
      BY <1>1, <2>1, SchedulerAssumption DEF CertsOK, InHand, storeVars, TypeOK
    <3> QED
      BY <3>1, <3>2, <3>3 DEF CertsOK
  <2>5. PassOK'
    BY <1>1, <2>1 DEF PassOK, TypeOK, Exists, storeVars
  <2>6. ActiveHasCert'
    BY <1>1, <2>1 DEF ActiveHasCert, Exists, storeVars
  <2>7. \A d \in Domain : Exists(d) => domains[d].retryAfter \in Nat
    BY <1>1 DEF StoreTypeOK, Exists, Row
  <2>8. BackoffConsistent'
    BY <1>1, <2>1, <2>7, SchedulerAssumption DEF BackoffConsistent, Exists, storeVars
  <2> QED
    BY <2>2, <2>4, <2>5, <2>6, <2>8 DEF IInv
<1>25. CASE UNCHANGED vars
  <2>1. TypeOK'
    BY <1>1, <1>3, <1>25 DEF TypeOK, vars
  <2>2. PassOK'
    BY <1>1, <1>25 DEF vars, PassOK, Exists, storeVars
  <2> QED
    BY <1>25, <2>1, <2>2, ReadStep DEF vars
<1> QED
  BY <1>4, <1>5, <1>6, <1>7, <1>8, <1>9, <1>10, <1>11, <1>12, <1>13, <1>14, <1>15,
     <1>17, <1>18, <1>19, <1>20, <1>21, <1>22, <1>23, <1>24, <1>25
     DEF Next, Work, Environment

-----------------------------------------------------------------------------
(* Theorems of the specification.                                          *)

\* The invariant behind the theorems: what is stored is in order, what the pass
\* holds copies of exists, and the rows agree with the certificates.
THEOREM InductiveInvariant == Spec => []IInv
BY InitIInv, NextIInv, PTL DEF Spec

\* The tables and the goroutine's variables hold what their types say.
THEOREM TypeCorrect == Spec => []TypeOK
<1>1. IInv => TypeOK
  BY DEF IInv
<1> QED
  BY <1>1, InductiveInvariant, PTL

\* An active domain has a certificate (scheduler.go:134-146), for any number of
\* crashes, renewals and failed statements.
THEOREM ActiveIsBacked == Spec => []ActiveHasCert
<1>1. IInv => ActiveHasCert
  BY DEF IInv
<1> QED
  BY <1>1, InductiveInvariant, PTL

\* The backoff fields agree with the status, and no domain waits longer than the
\* limit (scheduler.go:149-191), for any base, limit and number of failures.
THEOREM BackoffIsBounded == Spec => []BackoffConsistent
<1>1. IInv => BackoffConsistent
  BY DEF IInv
<1> QED
  BY <1>1, InductiveInvariant, PTL

\* What FailureWaits says of one domain.
Waits(d) ==
    Exists(d)' /\ domains'[d].status = "error" /\ domains'[d] # domains[d]
        => domains'[d].retryAfter >= at + BackoffBase

\* A recorded failure waits at least the base, counted from the start of the
\* attempt; it is written to the domain of the attempt alone.
LEMMA FailureIsWaitedFor ==
    ASSUME IInv, pc \notin {"idle", "pass"}, NEW failed \in Nat, RecordFailure(failed),
           NEW d \in Domain
    PROVE  Waits(d)
<1> DEFINE n == snap[cur].failCount + 1
           t == at + backoff(n)
<1>1. TypeOK /\ PassOK /\ StoreTypeOK
  BY DEF IInv, TypeOK
<1>2. cur \in Domain /\ Exists(cur) /\ snap[cur].failCount \in Nat /\ at \in Nat
  BY <1>1, CopyIsRow DEF TypeOK
<1>3. n \in Nat /\ n >= 1
  BY <1>2
<1>4. backoff(n) \in 1 .. BackoffLimit /\ backoff(n) >= BackoffBase
  BY <1>3, BackoffBounds, BackoffAtLeastBase
<1>5. t \in Nat /\ t >= at + BackoffBase
  BY <1>2, <1>4, SchedulerAssumption
<1>6. SetStatus(cur, "error", n, t) \/ UNCHANGED storeVars
  BY DEF RecordFailure
<1> HIDE DEF n, t
<1>7. CASE SetStatus(cur, "error", n, t)
  <2>1. "error" \in Status
    BY DEF Status
  <2>2. StoreTypeOK /\ cur \in Domain /\ Exists(cur) /\ n \in Nat /\ t \in Nat
    BY <1>1, <1>2, <1>3, <1>5
  <2>3. /\ domains'[cur].retryAfter = t
        /\ \A e \in Domain \ {cur} : domains'[e] = domains[e]
    BY <1>7, <2>1, <2>2, SetStatusType
  <2> QED
    BY <1>5, <2>3 DEF Waits
<1>8. CASE UNCHANGED storeVars
  BY <1>8 DEF Waits, storeVars
<1> QED
  BY <1>6, <1>7, <1>8

\* Any other status that is written is none of a failure.
LEMMA OtherStatusWaits ==
    ASSUME StoreTypeOK, NEW c \in Domain, Exists(c), NEW s \in Status, s # "error",
           NEW n \in Nat, SetStatus(c, s, n, 0), NEW d \in Domain
    PROVE  Waits(d)
<1>1. /\ domains'[c].status = s
      /\ \A e \in Domain \ {c} : domains'[e] = domains[e]
  BY SetStatusType
<1> QED
  BY <1>1 DEF Waits

\* A failure that is recorded is followed by a pause of at least the base,
\* through any number of failures and whatever the shift overflows to
\* (scheduler.go:149-191), for every base, limit and width of which no shift
\* overflows into something shorter.
THEOREM FailuresWait == Spec => FailureWaits
<1>1. IInv /\ [Next]_vars => [\A d \in Domain : Waits(d)]_vars
  <2> SUFFICES ASSUME IInv, [Next]_vars, NEW d \in Domain PROVE Waits(d)
    OBVIOUS
  <2>1. TypeOK /\ PassOK /\ StoreTypeOK /\ 0 \in Nat
    BY DEF IInv, TypeOK
  <2>2. ASSUME pc \notin {"idle", "pass"}, NEW failed \in Nat, RecordFailure(failed) PROVE Waits(d)
    BY <2>2, FailureIsWaitedFor
  <2>3. ASSUME pc \notin {"idle", "pass"}, NEW s \in Status, s # "error", NEW n \in Nat,
               SetStatus(cur, s, n, 0)
        PROVE  Waits(d)
    <3>1. cur \in Domain /\ Exists(cur)
      BY <2>1, <2>3, CopyIsRow
    <3> QED
      BY <2>1, <2>3, <3>1, OtherStatusWaits
  <2>4. ASSUME domains' = domains PROVE Waits(d)
    BY <2>4 DEF Waits
  <2>5. "pending_cname" \in Status /\ "issuing" \in Status /\ "active" \in Status
    BY DEF Status
  <2>6. CASE VerifyNoCname
    BY <2>1, <2>3, <2>4, <2>5, <2>6 DEF VerifyNoCname, RecordNoCname, storeVars
  <2>7. CASE VerifyFails \/ ObtainFails
    BY <2>1, <2>2, <2>7 DEF VerifyFails, ObtainFails
  <2>8. CASE MarkIssuing
    <3>1. snap[cur].failCount \in Nat /\ pc \notin {"idle", "pass"} /\ 1 \in Nat
      BY <2>1, <2>8, CopyIsRow DEF MarkIssuing
    <3> QED
      BY <2>2, <2>3, <2>5, <2>8, <3>1 DEF MarkIssuing
  <2>9. CASE SaveIssued \/ Activate
    <3>1. pc \notin {"idle", "pass"} /\ 1 \in Nat
      BY <2>9 DEF SaveIssued, Activate
    <3> QED
      BY <2>1, <2>2, <2>3, <2>4, <2>5, <2>9, <3>1 DEF SaveIssued, Activate, SaveCert
  <2>10. CASE \E c \in Domain : Renew(c)
    <3>1. PICK c \in Domain : Exists(c) /\ SetStatus(c, "pending_cname", 0, 0)
      BY <2>10 DEF Renew
    <3> QED
      BY <2>1, <2>5, <3>1, OtherStatusWaits
  <2>11. CASE \E c \in Domain : NewDomain(c)
    <3>1. PICK c \in Domain, w \in Wildcards, a \in Account : CreateDomain(c, w, a)
      BY <2>11 DEF NewDomain
    <3>2. domains'[c].status = "pending_cname" /\ \A e \in Domain \ {c} : domains'[e] = domains[e]
      BY <2>1, <3>1 DEF CreateDomain, StoreTypeOK
    <3> QED
      BY <3>2 DEF Waits
  <2>12. CASE \/ Tick \/ EndPass \/ VerifyOk \/ ObtainOk \/ Crash \/ Stop \/ AdvanceTime \/ UNCHANGED vars
              \/ \E c \in Domain : Skip(c) \/ Start(c) \/ AddCname(c) \/ RemoveCname(c)
              \/ \E c \in Client, names \in SUBSET Domain : Bind(c, names)
    <3>1. domains' = domains
      BY <2>12 DEF Tick, EndPass, VerifyOk, ObtainOk, Crash, Stop, Restart, AdvanceTime, vars, Skip,
         Start, AddCname, RemoveCname, Bind, SetClientDomains, storeVars
    <3> QED
      BY <2>4, <3>1
  <2> QED
    BY <2>6, <2>7, <2>8, <2>9, <2>10, <2>11, <2>12 DEF Next, Work, Environment
<1>2. (\A d \in Domain : Waits(d)) <=>
        \A d \in Domain :
          Exists(d)' /\ domains'[d].status = "error" /\ domains'[d] # domains[d]
             => domains'[d].retryAfter >= at + BackoffBase
  BY DEF Waits
<1> QED
  BY <1>1, <1>2, InductiveInvariant, PTL DEF Spec, FailureWaits

\* The row LatestCert chooses is the newest certificate of the domain in every
\* respect: nothing a proxy fetches later is older (store.go:277-305).
THEOREM LatestNeverGoesBack == Spec => []LatestIsNewest
<1>1. IInv => LatestIsNewest
  <2> SUFFICES ASSUME IInv, NEW d \in Domain, NEW i \in DOMAIN certs[d]
               PROVE  /\ certs[d][i].serial <= Latest(d).serial
                      /\ certs[d][i].notAfter <= Latest(d).notAfter
    BY DEF LatestIsNewest
  <2>1. StoreTypeOK /\ Chronological /\ certs[d] \in Seq(Cert)
    BY DEF IInv, TypeOK, CertsOK, StoreTypeOK
  <2>2. certs[d] # <<>> /\ i \in 1 .. Len(certs[d])
    BY <2>1
  <2>3. /\ Latest(d) = certs[d][Len(certs[d])] /\ Latest(d) \in Cert
        /\ Len(certs[d]) \in 1 .. Len(certs[d])
    BY <2>1, <2>2, LatestIsLast, ChronologicalIsInOrder
  <2>4. CASE i = Len(certs[d])
    BY <2>3, <2>4 DEF Cert
  <2>5. CASE i # Len(certs[d])
    <3>1. i < Len(certs[d])
      BY <2>1, <2>2, <2>5
    <3> QED
      BY <2>1, <2>2, <2>3, <3>1, CertType DEF Chronological
  <2> QED
    BY <2>4, <2>5
<1> QED
  BY <1>1, InductiveInvariant, PTL

=============================================================================
