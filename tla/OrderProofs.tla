---------------------------- MODULE OrderProofs ----------------------------
(***************************************************************************)
(* Theorems about when the scheduler orders.  While nothing has crashed or *)
(* failed, every certificate it orders has a reason, and no domain is left *)
(* "issuing".  While its passes keep to their interval, no certificate     *)
(* expires through an outage that RENEW_BEFORE has room for.               *)
(***************************************************************************)
EXTENDS SchedulerProofs, WellFoundedInduction

-----------------------------------------------------------------------------
(* The inductive invariant.                                                *)

\* Disturbances are only spent.
BudgetKept == \A k \in Disturbance : left[k] <= Budget[k]

\* A domain that may be issued: it has no certificate, its newest one is due, or
\* the administrator has asked for another since.
Justified(d) ==
    \/ certs[d] = <<>>
    \/ now > Latest(d).notAfter - RenewBefore
    \/ asked[d] = LatestSerial(d)

\* The certificate of the domain in hand is saved and not yet marked.
JustSaved(d) == cur = d /\ pc = "activate"

\* A domain is shown as being issued only while the scheduler works on it.
IssuingIsCurrent ==
    \A d \in Domain : Exists(d) /\ domains[d].status = "issuing"
        => cur = d /\ pc \in {"order", "save", "activate"}

\* What holds of rows, of the pass's copies and of the attempt under way while
\* nothing has crashed or failed.
RowsDue ==
    \A d \in Domain : Exists(d) /\ domains[d].status # "active" => Justified(d) \/ JustSaved(d)

CopiesDue ==
    \A d \in Domain : snap[d] # NoRow /\ snap[d].status # "active" => Justified(d) \/ JustSaved(d)

AttemptDue ==
    pc \in {"verify", "mark", "order"} =>
        \/ certs[cur] = <<>>
        \/ at > Latest(cur).notAfter - RenewBefore
        \/ asked[cur] = LatestSerial(cur)

CertsHaveRows == \A d \in Domain : certs[d] # <<>> => Exists(d)

DueInv ==
    /\ BudgetKept
    /\ Undisturbed => IssuingIsCurrent /\ RowsDue /\ CopiesDue /\ AttemptDue /\ CertsHaveRows

-----------------------------------------------------------------------------
(* The steps that remain when nothing crashes or fails, by what they write. *)

\* Tick: the pass takes copies of the rows of served domains.
TakesCopies ==
    /\ pc = "idle" /\ pc' = "pass"
    /\ \A d \in Domain : snap'[d] \in {domains[d], NoRow}
    /\ UNCHANGED <<domains, certs, now, asked, cur>>

\* Nothing is written but the clock, and the goroutine goes on.
Reads ==
    /\ \/ pc' = pc
       \/ pc = "pass" /\ pc' = "idle"
       \/ pc = "verify" /\ pc' = "mark"
       \/ pc = "order" /\ pc' = "save"
    /\ now' \in Nat /\ now' >= now
    /\ \A d \in Domain : snap'[d] \in {snap[d], NoRow}
    /\ UNCHANGED <<domains, certs, asked, cur, at>>

\* Start without the failing read of the certificate.
Starts ==
    /\ pc = "pass" /\ pc' = "verify"
    /\ cur' \in Domain /\ snap[cur'] # NoRow
    /\ snap[cur'].status # "active" \/ needsRenewal(cur')
    /\ at' = now
    /\ UNCHANGED <<domains, certs, now, asked, snap>>

\* A failure of the checks or of the CA is recorded and ends the attempt.
RecordsFailure ==
    /\ pc \in {"verify", "order"} /\ Finish
    /\ \E s \in {"pending_cname", "error"}, n \in Nat, t \in Nat : SetStatus(cur, s, n, t)
    /\ UNCHANGED <<now, asked>>

MarksIssuing ==
    /\ pc = "mark" /\ pc' = "order"
    /\ \E n \in Nat : SetStatus(cur, "issuing", n, 0)
    /\ UNCHANGED <<now, asked, cur, at, snap>>

SavesCert ==
    /\ pc = "save" /\ pc' = "activate"
    /\ \E cert \in Cert : SaveCert(cur, cert)
    /\ UNCHANGED <<now, asked, cur, at, snap>>

Activates ==
    /\ pc = "activate" /\ Finish
    /\ SetStatus(cur, "active", 0, 0)
    /\ UNCHANGED <<now, asked>>

Renews(d) ==
    /\ Exists(d) /\ SetStatus(d, "pending_cname", 0, 0)
    /\ asked' = [asked EXCEPT ![d] = LatestSerial(d)]
    /\ UNCHANGED <<now, pc, cur, at, snap>>

CreatesRow(d) ==
    /\ \E w \in BOOLEAN, a \in Account : CreateDomain(d, w, a)
    /\ UNCHANGED <<now, asked, pc, cur, at, snap>>

QuietStep ==
    \/ TakesCopies \/ Reads \/ Starts \/ RecordsFailure \/ MarksIssuing \/ SavesCert \/ Activates
    \/ \E d \in Domain : Renews(d) \/ CreatesRow(d)

\* A step that spends something leaves less of it.
LEMMA SpendLess ==
    ASSUME left \in [Disturbance -> Nat], NEW k \in Disturbance, NEW n \in Nat, Spend(k, n)
    PROVE  /\ left'[k] = left[k] - n /\ left' \in [Disturbance -> Nat]
           /\ \A j \in Disturbance : left'[j] <= left[j]
BY DEF Spend

\* No step gives a disturbance back.
LEMMA LeftStep ==
    ASSUME IInv, [Next]_vars
    PROVE  \A k \in Disturbance : left'[k] <= left[k]
<1>1. left \in [Disturbance -> Nat] /\ {"crash", "stop", "db", "renew", "unbind", "cname"} \subseteq Disturbance
  BY DEF IInv, TypeOK, Disturbance
<1>2. CASE UNCHANGED left
  BY <1>1, <1>2
<1>3. CASE \E k \in Disturbance, n \in {0, 1, 2} : Spend(k, n)
  BY <1>1, <1>3, SpendLess
<1>4. /\ RecordNoCname => (UNCHANGED left) \/ Spend("db", 1)
      /\ \A n \in {0, 1} : RecordFailure(n) => Spend("db", n) \/ Spend("db", n + 1)
  BY DEF RecordNoCname, RecordFailure
<1>5. VerifyOk \/ VerifyNoCname \/ VerifyFails => (UNCHANGED left) \/ RecordNoCname \/ RecordFailure(0)
  BY Zenon DEF VerifyOk, VerifyNoCname, VerifyFails
<1>6. \/ UNCHANGED left
      \/ \E k \in Disturbance : Spend(k, 1)
      \/ RecordNoCname \/ RecordFailure(0) \/ RecordFailure(1)
  BY <1>1, <1>5 DEF Next, Work, Environment, Tick, EndPass, Skip, Start, MarkIssuing, ObtainOk,
     ObtainFails, SaveIssued, Activate, Crash, Stop, Renew, NewDomain, Bind, AddCname, RemoveCname,
     AdvanceTime, vars
<1> QED
  BY <1>1, <1>2, <1>3, <1>4, <1>6

\* What has not been disturbed after a step was not before it, and the step was
\* no crash, no stop and no failing statement.
LEMMA NoneSpent ==
    ASSUME IInv, BudgetKept, [Next]_vars, Undisturbed'
    PROVE  /\ Undisturbed
           /\ \A k \in {"crash", "stop", "db"} : \A n \in Nat : Spend(k, n) => n = 0
<1>1. left \in [Disturbance -> Nat] /\ {"crash", "stop", "db"} \subseteq Disturbance
      /\ Budget \in [Disturbance -> Nat]
  BY SchedulerAssumption DEF IInv, TypeOK, Disturbance
<1>2. \A k \in {"crash", "stop", "db"} : left'[k] <= left[k] /\ left[k] <= Budget[k] /\ left'[k] = Budget[k]
  BY <1>1, LeftStep DEF BudgetKept, Undisturbed
<1>3. \A k \in {"crash", "stop", "db"} : left[k] = Budget[k] /\ left[k] \in Nat /\ left'[k] = left[k]
  BY <1>1, <1>2
<1>4. ASSUME NEW k \in {"crash", "stop", "db"}, NEW n \in Nat, Spend(k, n)
      PROVE  n = 0
  <2>1. left'[k] = left[k] - n
    BY <1>1, <1>4, SpendLess
  <2> QED
    BY <1>3, <2>1
<1> QED
  BY <1>3, <1>4 DEF Undisturbed

\* A step that disturbs nothing is of one of these kinds.
LEMMA QuietStepOf ==
    ASSUME IInv, BudgetKept, [Next]_vars, Undisturbed'
    PROVE  QuietStep
<1> USE DEF passVars, history, storeVars
<1>1. TypeOK /\ PassOK /\ now \in Nat /\ at \in Nat /\ snap \in [Domain -> Row \cup {NoRow}]
      /\ left \in [Disturbance -> Nat]
  BY DEF IInv, TypeOK
<1>2. ~Spend("db", 1) /\ ~Spend("crash", 1) /\ ~Spend("stop", 1)
  BY NoneSpent
<1>3. \A d \in Domain : snap[d] = snap[d]
  OBVIOUS
<1>4. CASE Tick
  <2>1. /\ snap' = [d \in Domain |-> IF d \in Served THEN domains[d] ELSE NoRow]
        /\ pc = "idle" /\ pc' = "pass" /\ UNCHANGED <<domains, certs, now, asked, cur>>
    BY <1>2, <1>4 DEF Tick
  <2>2. TakesCopies
    BY <2>1 DEF TakesCopies
  <2> QED
    BY <2>2 DEF QuietStep
<1>5. CASE EndPass \/ VerifyOk \/ ObtainOk
  <2>1. /\ \/ pc = "pass" /\ pc' = "idle"
           \/ pc = "verify" /\ pc' = "mark"
           \/ pc = "order" /\ pc' = "save"
        /\ UNCHANGED <<domains, certs, asked, cur, at, now, snap>>
    BY <1>5, Zenon DEF EndPass, VerifyOk, ObtainOk
  <2>2. Reads
    BY <1>1, <2>1 DEF Reads
  <2> QED
    BY <2>2 DEF QuietStep
<1>6. ASSUME NEW d \in Domain, Skip(d)
      PROVE  QuietStep
  <2>1. Reads
    BY <1>1, <1>6 DEF Skip, Reads
  <2> QED
    BY <2>1 DEF QuietStep
<1>7. ASSUME NEW d \in Domain, Start(d)
      PROVE  QuietStep
  <2>1. Starts
    BY <1>2, <1>7 DEF Start, Starts
  <2> QED
    BY <2>1 DEF QuietStep
<1>8. ASSUME RecordFailure(0), pc \in {"verify", "order"}, UNCHANGED <<now, asked>>
      PROVE  QuietStep
  <2> DEFINE n == snap[cur].failCount + 1
             t == at + backoff(n)
  <2>1. snap[cur].failCount \in Nat
    BY <1>1, <1>8, CopyIsRow
  <2>2. n \in Nat /\ n >= 1
    BY <2>1
  <2>3. backoff(n) \in 1 .. BackoffLimit /\ BackoffLimit \in Nat
    BY <2>2, BackoffBounds, SchedulerAssumption
  <2>4. t \in Nat
    BY <1>1, <2>3
  <2>5. SetStatus(cur, "error", n, t) /\ Finish
    BY <1>2, <1>8 DEF RecordFailure
  <2> HIDE DEF n, t
  <2>6. RecordsFailure
    BY <1>8, <2>2, <2>4, <2>5 DEF RecordsFailure
  <2> QED
    BY <2>6 DEF QuietStep
<1>9. ASSUME RecordFailure(1)
      PROVE  FALSE
  <2>1. \E n \in {1, 2} : Spend("db", n)
    BY <1>9 DEF RecordFailure
  <2> QED
    BY <2>1, NoneSpent
<1>10. CASE VerifyNoCname
  <2>1. SetStatus(cur, "pending_cname", 0, 0) /\ Finish /\ pc = "verify" /\ UNCHANGED <<now, asked>>
    BY <1>2, <1>10 DEF VerifyNoCname, RecordNoCname
  <2>2. RecordsFailure
    BY <2>1 DEF RecordsFailure
  <2> QED
    BY <2>2 DEF QuietStep
<1>11. CASE VerifyFails \/ ObtainFails
  BY <1>8, <1>11 DEF VerifyFails, ObtainFails
<1>12. CASE MarkIssuing
  <2>1. snap[cur].failCount \in Nat
    BY <1>1, <1>12, CopyIsRow DEF MarkIssuing
  <2>2. MarksIssuing
    BY <1>9, <1>12, <2>1 DEF MarkIssuing, MarksIssuing
  <2> QED
    BY <2>2 DEF QuietStep
<1>13. CASE SaveIssued
  <2> DEFINE cert == [serial |-> got.serial, notAfter |-> got.notAfter, issuedAt |-> now]
  <2>1. cert \in Cert
    BY <1>1 DEF TypeOK, Cert
  <2>2. /\ SaveCert(cur, cert) /\ pc = "save" /\ pc' = "activate"
        /\ UNCHANGED <<now, asked, cur, at, snap>>
    BY <1>9, <1>13 DEF SaveIssued
  <2> HIDE DEF cert
  <2>3. SavesCert
    BY <2>1, <2>2 DEF SavesCert
  <2> QED
    BY <2>3 DEF QuietStep
<1>14. CASE Activate
  <2>1. Activates
    BY <1>9, <1>14 DEF Activate, Activates
  <2> QED
    BY <2>1 DEF QuietStep
<1>15. CASE Crash \/ Stop
  BY <1>2, <1>15 DEF Crash, Stop
<1>16. ASSUME NEW d \in Domain, Renew(d)
       PROVE  QuietStep
  <2>1. Renews(d)
    BY <1>16 DEF Renew, Renews
  <2> QED
    BY <2>1 DEF QuietStep
<1>17. ASSUME NEW d \in Domain, NewDomain(d)
       PROVE  QuietStep
  <2>1. CreatesRow(d)
    BY <1>17, StoreAssumption DEF NewDomain, CreatesRow
  <2> QED
    BY <2>1 DEF QuietStep
<1>18. CASE \/ \E d \in Domain : AddCname(d) \/ RemoveCname(d)
            \/ \E c \in Client, names \in SUBSET Domain : Bind(c, names)
            \/ UNCHANGED vars
  <2>1. Reads
    BY <1>1, <1>18 DEF AddCname, RemoveCname, Bind, SetClientDomains, vars, Reads
  <2> QED
    BY <2>1 DEF QuietStep
<1>19. CASE AdvanceTime
  <2>1. now' \in Nat /\ now' >= now
    BY <1>1, <1>19, SchedulerAssumption DEF AdvanceTime
  <2>2. Reads
    BY <1>1, <1>19, <2>1 DEF AdvanceTime, Reads
  <2> QED
    BY <2>2 DEF QuietStep
<1> QED
  BY <1>4, <1>5, <1>6, <1>7, <1>10, <1>11, <1>12, <1>13, <1>14, <1>15, <1>16, <1>17, <1>18, <1>19
  DEF Next, Work, Environment

-----------------------------------------------------------------------------
(* Every step keeps the invariant.                                         *)

\* A reason to issue lasts until a certificate is saved: time only adds to it.
LEMMA ReasonLasts ==
    ASSUME IInv, NEW d \in Domain, Justified(d), certs'[d] = certs[d],
           now' \in Nat, now' >= now,
           asked'[d] = asked[d] \/ asked'[d] = LatestSerial(d)
    PROVE  Justified(d)'
<1>1. Latest(d)' = Latest(d) /\ LatestSerial(d)' = LatestSerial(d)
  BY DEF Latest, LatestSerial
<1>2. StoreTypeOK /\ SavedInOrder /\ now \in Nat /\ RenewBefore \in Nat
  BY ChronologicalIsInOrder, SchedulerAssumption DEF IInv, TypeOK, CertsOK
<1>3. certs[d] # <<>> => Latest(d).notAfter \in Nat
  BY <1>2, LatestIsLast DEF Cert
<1>4. Justified(d)' <=> \/ certs'[d] = <<>>
                        \/ now' > Latest(d)'.notAfter - RenewBefore
                        \/ asked'[d] = LatestSerial(d)'
  BY DEF Justified
<1> QED
  BY <1>1, <1>2, <1>3, <1>4 DEF Justified

\* The attempt under way has a reason as long as it has not saved.
LEMMA AttemptIsJustified ==
    ASSUME IInv, AttemptDue, pc \in {"verify", "mark", "order"}
    PROVE  Justified(cur)
<1>1. /\ StoreTypeOK /\ SavedInOrder /\ now \in Nat /\ at \in Nat /\ at <= now /\ cur \in Domain
      /\ RenewBefore \in Nat
  BY ChronologicalIsInOrder, SchedulerAssumption DEF IInv, TypeOK, CertsOK, PassOK
<1>2. certs[cur] # <<>> => Latest(cur).notAfter \in Nat
  BY <1>1, LatestIsLast DEF Cert
<1> QED
  BY <1>1, <1>2 DEF AttemptDue, Justified

\* What a step of each kind leaves of certificates, clock and requests.
LEMMA QuietFrame ==
    ASSUME IInv, QuietStep
    PROVE  /\ now \in Nat /\ now' \in Nat /\ now' >= now
           /\ \A d \in Domain : asked'[d] = asked[d] \/ asked'[d] = LatestSerial(d)
           /\ \A d \in Domain : certs'[d] = certs[d] \/ (SavesCert /\ d = cur)
           /\ ~SavesCert => certs' = certs
<1>1. now \in Nat /\ asked \in [Domain -> Nat] /\ certs \in [Domain -> Seq(Cert)] /\ cur \in Domain
  BY DEF IInv, TypeOK, StoreTypeOK
<1>2. now' \in Nat /\ now' >= now
  BY <1>1 DEF QuietStep, TakesCopies, Reads, Starts, RecordsFailure, MarksIssuing, SavesCert,
     Activates, Renews, CreatesRow
<1>3. \A d \in Domain : asked'[d] = asked[d] \/ asked'[d] = LatestSerial(d)
  BY <1>1 DEF QuietStep, TakesCopies, Reads, Starts, RecordsFailure, MarksIssuing, SavesCert,
     Activates, Renews, CreatesRow
<1>4. ~SavesCert => certs' = certs
  BY DEF QuietStep, TakesCopies, Reads, Starts, RecordsFailure, MarksIssuing,
     Activates, Renews, CreatesRow, SetStatus, CreateDomain
<1>5. SavesCert => \A d \in Domain \ {cur} : certs'[d] = certs[d]
  BY <1>1 DEF SavesCert, SaveCert
<1> QED
  BY <1>1, <1>2, <1>3, <1>4, <1>5

\* What a status write does to the other rows and to its own.
LEMMA StatusWrite ==
    ASSUME IInv, NEW d \in Domain, Exists(d), NEW s \in Status, NEW n \in Nat,
           NEW t \in Nat, SetStatus(d, s, n, t)
    PROVE  /\ \A e \in Domain : Exists(e)' <=> Exists(e)
           /\ domains'[d].status = s
           /\ \A e \in Domain \ {d} : domains'[e] = domains[e]
           /\ certs' = certs
<1>1. StoreTypeOK
  BY DEF IInv, TypeOK
<1> QED
  BY <1>1, SetStatusType DEF SetStatus

\* A row's status after a quiet step: as before, or what the step wrote.
LEMMA QuietRows ==
    ASSUME IInv, QuietStep, NEW d \in Domain
    PROVE  /\ Exists(d) => Exists(d)'
           /\ RecordsFailure /\ d = cur => domains'[d].status \in {"pending_cname", "error"}
           /\ Activates /\ d = cur => domains'[d].status = "active"
           /\ Renews(d) \/ CreatesRow(d) => domains'[d].status = "pending_cname"
           /\ CreatesRow(d) => ~Exists(d)
           /\ \/ domains'[d] = domains[d]
              \/ RecordsFailure /\ d = cur
              \/ MarksIssuing /\ d = cur
              \/ Activates /\ d = cur
              \/ Renews(d) \/ CreatesRow(d)
<1>1. /\ TypeOK /\ PassOK /\ StoreTypeOK
      /\ {"pending_cname", "error", "issuing", "active"} \subseteq Status
  BY DEF IInv, TypeOK, Status
<1>2. ASSUME pc \notin {"idle", "pass"} PROVE cur \in Domain /\ Exists(cur)
  BY <1>1, <1>2, CopyIsRow
<1>3. ASSUME RecordsFailure
      PROVE  /\ \A e \in Domain : Exists(e)' <=> Exists(e)
             /\ domains'[cur].status \in {"pending_cname", "error"}
             /\ \A e \in Domain \ {cur} : domains'[e] = domains[e]
  <2>1. PICK s \in {"pending_cname", "error"}, n \in Nat, t \in Nat : SetStatus(cur, s, n, t)
    BY <1>3 DEF RecordsFailure
  <2>2. cur \in Domain /\ Exists(cur)
    BY <1>2, <1>3 DEF RecordsFailure
  <2>3. s \in Status
    BY <1>1
  <2> QED
    BY <2>1, <2>2, <2>3, StatusWrite
<1>4. ASSUME MarksIssuing
      PROVE  /\ \A e \in Domain : Exists(e)' <=> Exists(e)
             /\ \A e \in Domain \ {cur} : domains'[e] = domains[e]
  <2>1. PICK n \in Nat : SetStatus(cur, "issuing", n, 0)
    BY <1>4 DEF MarksIssuing
  <2>2. cur \in Domain /\ Exists(cur)
    BY <1>2, <1>4 DEF MarksIssuing
  <2> QED
    BY <1>1, <2>1, <2>2, StatusWrite
<1>5. ASSUME Activates
      PROVE  /\ \A e \in Domain : Exists(e)' <=> Exists(e)
             /\ domains'[cur].status = "active"
             /\ \A e \in Domain \ {cur} : domains'[e] = domains[e]
  <2>1. SetStatus(cur, "active", 0, 0) /\ cur \in Domain /\ Exists(cur)
    BY <1>2, <1>5 DEF Activates
  <2> QED
    BY <1>1, <2>1, StatusWrite
<1>6. ASSUME NEW e \in Domain, Renews(e)
      PROVE  /\ \A f \in Domain : Exists(f)' <=> Exists(f)
             /\ domains'[e].status = "pending_cname" /\ Exists(e)
             /\ \A f \in Domain \ {e} : domains'[f] = domains[f]
  BY <1>1, <1>6, StatusWrite DEF Renews
<1>7. ASSUME NEW e \in Domain, CreatesRow(e)
      PROVE  /\ ~Exists(e) /\ Exists(e)' /\ domains'[e].status = "pending_cname"
             /\ \A f \in Domain \ {e} : domains'[f] = domains[f]
  BY <1>1, <1>7, CreateDomainType DEF CreatesRow
<1>8. \/ UNCHANGED domains \/ RecordsFailure \/ MarksIssuing \/ Activates
      \/ \E e \in Domain : Renews(e) \/ CreatesRow(e)
  BY DEF QuietStep, TakesCopies, Reads, Starts, SavesCert, SaveCert
<1>9. ASSUME NEW e \in Domain, Renews(e) \/ CreatesRow(e)
      PROVE  /\ Exists(d) => Exists(d)'
             /\ domains'[d] = domains[d] \/ Renews(d) \/ CreatesRow(d)
  <2>1. CASE d = e
    BY <1>6, <1>7, <1>9, <2>1
  <2>2. CASE d # e
    BY <1>6, <1>7, <1>9, <2>2 DEF Exists
  <2> QED
    BY <2>1, <2>2
<1>10. Exists(d) => Exists(d)'
  BY <1>3, <1>4, <1>5, <1>8, <1>9 DEF Exists
<1> QED
  BY <1>3, <1>4, <1>5, <1>6, <1>7, <1>8, <1>9, <1>10

\* Where the goroutine can be after a quiet step.
LEMMA QuietPlace ==
    ASSUME IInv, QuietStep
    PROVE  /\ pc \in {"order", "save", "activate"}
              => \/ cur' = cur /\ pc' \in {"order", "save", "activate"}
                 \/ RecordsFailure \/ Activates
           /\ \A d \in Domain : JustSaved(d) => JustSaved(d)' \/ Activates
           /\ \A d \in Domain : SavesCert /\ d = cur => JustSaved(d)'
           /\ MarksIssuing => cur' = cur /\ pc' = "order"
           /\ pc' \in {"verify", "mark", "order"} =>
                \/ Starts
                \/ /\ pc \in {"verify", "mark", "order"}
                   /\ cur' = cur /\ at' = at /\ ~SavesCert
BY DEF QuietStep, TakesCopies, Reads, Starts, RecordsFailure, MarksIssuing, SavesCert, Activates,
       Renews, CreatesRow, Finish, JustSaved

\* A step that disturbs nothing keeps what holds of undisturbed states.
LEMMA QuietDue ==
    ASSUME IInv, IInv', IssuingIsCurrent, RowsDue, CopiesDue, AttemptDue, CertsHaveRows,
           Undisturbed, QuietStep
    PROVE  IssuingIsCurrent' /\ RowsDue' /\ CopiesDue' /\ AttemptDue' /\ CertsHaveRows'
<1>1. /\ TypeOK /\ PassOK /\ cur \in Domain /\ cur' \in Domain
      /\ snap \in [Domain -> Row \cup {NoRow}]
  BY DEF IInv, TypeOK
<1>2. ASSUME NEW d \in Domain, Justified(d)
      PROVE  Justified(d)' \/ JustSaved(d)'
  BY <1>2, QuietFrame, QuietPlace, ReasonLasts
<1>3. pc \notin {"idle", "pass"} => Exists(cur)
  BY <1>1, CopyIsRow
<1>4. CertsHaveRows'
  BY <1>1, <1>3, QuietFrame, QuietRows DEF CertsHaveRows, SavesCert
<1>5. IssuingIsCurrent'
  <2> SUFFICES ASSUME NEW d \in Domain, Exists(d)', domains'[d].status = "issuing"
               PROVE  cur' = d /\ pc' \in {"order", "save", "activate"}
    BY DEF IssuingIsCurrent
  <2>1. CASE domains'[d] = domains[d]
    <3>1. cur = d /\ pc \in {"order", "save", "activate"}
      BY <2>1 DEF IssuingIsCurrent, Exists
    <3> QED
      BY <3>1, QuietPlace, QuietRows
  <2> QED
    BY <2>1, QuietPlace, QuietRows
<1>6. RowsDue'
  <2> SUFFICES ASSUME NEW d \in Domain, Exists(d)', domains'[d].status # "active"
               PROVE  Justified(d)' \/ JustSaved(d)'
    BY DEF RowsDue
  <2>1. CASE domains'[d] = domains[d]
    <3>1. Justified(d) \/ JustSaved(d)
      BY <2>1 DEF RowsDue, Exists
    <3>2. JustSaved(d) => d = cur
      BY DEF JustSaved
    <3> QED
      BY <1>2, <3>1, <3>2, QuietPlace, QuietRows
  <2>2. CASE (RecordsFailure \/ MarksIssuing) /\ d = cur
    <3>1. Justified(cur)
      BY <2>2, AttemptIsJustified DEF RecordsFailure, MarksIssuing
    <3> QED
      BY <1>1, <1>2, <2>2, <3>1
  <2>3. CASE Renews(d)
    <3>1. asked'[d] = LatestSerial(d) /\ certs' = certs
      BY <1>1, <2>3 DEF Renews, SetStatus, TypeOK
    <3>2. LatestSerial(d)' = LatestSerial(d)
      BY <3>1 DEF LatestSerial, Latest
    <3> QED
      BY <3>1, <3>2 DEF Justified
  <2>4. CASE CreatesRow(d)
    <3>1. certs[d] = <<>>
      BY <2>4, QuietRows DEF CertsHaveRows
    <3> QED
      BY <1>2, <3>1 DEF Justified
  <2> QED
    BY <2>1, <2>2, <2>3, <2>4, QuietRows
<1>7. CopiesDue'
  <2> SUFFICES ASSUME NEW d \in Domain, snap'[d] # NoRow, snap'[d].status # "active"
               PROVE  Justified(d)' \/ JustSaved(d)'
    BY DEF CopiesDue
  <2>1. CASE TakesCopies
    <3>1. Exists(d) /\ domains[d].status # "active" /\ ~JustSaved(d)
      BY <2>1 DEF TakesCopies, Exists, JustSaved
    <3> QED
      BY <1>2, <3>1 DEF RowsDue
  <2>2. CASE ~TakesCopies
    <3>1. snap'[d] = snap[d] /\ ~(Activates /\ d = cur)
      BY <1>1, <2>2 DEF QuietStep, Reads, Starts, RecordsFailure, MarksIssuing, SavesCert, Activates,
         Renews, CreatesRow, Finish
    <3>2. Justified(d) \/ JustSaved(d)
      BY <3>1 DEF CopiesDue
    <3>3. JustSaved(d) => d = cur
      BY DEF JustSaved
    <3> QED
      BY <1>2, <3>1, <3>2, <3>3, QuietPlace
  <2> QED
    BY <2>1, <2>2
<1>8. AttemptDue'
  <2> SUFFICES ASSUME pc' \in {"verify", "mark", "order"}
               PROVE  \/ certs'[cur'] = <<>>
                      \/ at' > Latest(cur)'.notAfter - RenewBefore
                      \/ asked'[cur'] = LatestSerial(cur)'
    BY DEF AttemptDue
  <2>1. PICK d \in Domain : d = cur'
    BY <1>1
  <2>2. certs' = certs
    BY QuietFrame, QuietPlace DEF Starts, SavesCert
  <2>3. Latest(cur)' = Latest(d) /\ LatestSerial(cur)' = LatestSerial(d) /\ certs'[cur'] = certs[d]
    BY <2>1, <2>2 DEF Latest, LatestSerial
  <2>4. asked'[d] = asked[d] \/ asked'[d] = LatestSerial(d)
    BY QuietFrame
  <2>5. CASE Starts
    <3>1. /\ at' = now /\ asked' = asked /\ pc = "pass"
          /\ snap[d] # NoRow /\ (snap[d].status # "active" \/ needsRenewal(d))
      <4>1. needsRenewal(cur') => needsRenewal(d)
        BY <2>1
      <4> QED
        BY <2>1, <2>5, <4>1 DEF Starts
    <3>2. Justified(d)
      BY <3>1 DEF CopiesDue, JustSaved, needsRenewal, Justified
    <3> QED
      BY <2>1, <2>3, <3>1, <3>2 DEF Justified
  <2>6. CASE ~Starts
    <3>1. pc \in {"verify", "mark", "order"} /\ cur' = cur /\ at' = at
      BY <2>6, QuietPlace
    <3> QED
      BY <2>1, <2>3, <2>4, <3>1 DEF AttemptDue
  <2> QED
    BY <2>5, <2>6
<1> QED
  BY <1>4, <1>5, <1>6, <1>7, <1>8

LEMMA InitDueInv == Init => DueInv
<1> SUFFICES ASSUME Init PROVE DueInv
  OBVIOUS
<1>1. BudgetKept
  BY SchedulerAssumption DEF Init, BudgetKept
<1>2. \A d \in Domain : domains[d] = NoRow /\ certs[d] = <<>> /\ snap[d] = NoRow
  BY DEF Init, StoreInit, IdlePass
<1>3. pc = "idle"
  BY DEF Init, IdlePass
<1> QED
  BY <1>1, <1>2, <1>3 DEF DueInv, IssuingIsCurrent, RowsDue, CopiesDue, AttemptDue, CertsHaveRows, Exists

LEMMA NextDueInv == IInv /\ IInv' /\ DueInv /\ [Next]_vars => DueInv'
<1> SUFFICES ASSUME IInv, IInv', DueInv, [Next]_vars PROVE DueInv'
  OBVIOUS
<1>1. BudgetKept'
  <2>1. /\ left \in [Disturbance -> Nat] /\ left' \in [Disturbance -> Nat]
        /\ Budget \in [Disturbance -> Nat]
    BY SchedulerAssumption DEF IInv, TypeOK
  <2> QED
    BY <2>1, LeftStep DEF DueInv, BudgetKept
<1>2. CASE Undisturbed'
  <2>1. Undisturbed /\ QuietStep
    BY <1>2, NoneSpent, QuietStepOf DEF DueInv
  <2> QED
    BY <1>1, <2>1, QuietDue DEF DueInv
<1> QED
  BY <1>1, <1>2 DEF DueInv

-----------------------------------------------------------------------------
(* The theorems.                                                           *)

\* Rows, copies and the attempt under way have a reason while nothing has
\* crashed or failed (processDomain, scheduler.go).
THEOREM DueInvariant == Spec => []DueInv
BY InitDueInv, NextDueInv, InductiveInvariant, PTL DEF Spec

\* A domain is shown as being issued only while the scheduler works on it, as
\* long as nothing has crashed or failed (processDomain, scheduler.go).
THEOREM IssuingIsTrue == Spec => [](Undisturbed => IssuingIsCurrent)
<1>1. DueInv => (Undisturbed => IssuingIsCurrent)
  BY DEF DueInv
<1> QED
  BY <1>1, DueInvariant, PTL

\* The CA is asked for a certificate only where one is missing, due or wanted by
\* the administrator (processDomain and needsRenewal, scheduler.go), whatever
\* stale copies a pass works on.
THEOREM OrdersAreJustified == Spec => OrderJustified
<1>1. DueInv /\ [Next]_vars
      => [orders' # orders /\ Undisturbed =>
            \/ certs[cur] = <<>>
            \/ at > Latest(cur).notAfter - RenewBefore
            \/ asked[cur] = LatestSerial(cur)]_vars
  <2> SUFFICES ASSUME DueInv, [Next]_vars, orders' # orders, Undisturbed
               PROVE  \/ certs[cur] = <<>>
                      \/ at > Latest(cur).notAfter - RenewBefore
                      \/ asked[cur] = LatestSerial(cur)
    OBVIOUS
  <2>1. VerifyOk \/ VerifyNoCname \/ VerifyFails => orders' = orders
    BY Zenon DEF VerifyOk, VerifyNoCname, VerifyFails
  <2>2. ObtainOk
    BY <2>1 DEF Next, Work, Environment, Tick, EndPass, Skip, Start, MarkIssuing, ObtainFails,
       SaveIssued, Activate, Crash, Stop, Restart, Renew, NewDomain, Bind, AddCname, RemoveCname,
       AdvanceTime, vars
  <2>3. pc = "order"
    BY <2>2 DEF ObtainOk
  <2> QED
    BY <2>3 DEF DueInv, AttemptDue
<1> QED
  BY <1>1, DueInvariant, PTL DEF Spec, OrderJustified

-----------------------------------------------------------------------------
(* The check before an order.                                              *)

\* A set of natural numbers that is not empty has a least one.
LEMMA HasLeast ==
    ASSUME NEW S, S \subseteq Nat, S # {}
    PROVE  \E x \in S : \A y \in S : x <= y
<1> DEFINE R == {ss \in Nat \X Nat : ss[1] < ss[2]}
<1>1. IsWellFoundedOn(R, Nat)
  BY NatLessThanWellFounded DEF OpToRel
<1>2. PICK x \in S : \A y \in S : ~(<<y, x>> \in R)
  BY <1>1, WFMin
<1>3. ASSUME NEW y \in S PROVE x <= y
  <2>1. x \in Nat /\ y \in Nat /\ ~(<<y, x>> \in R)
    BY <1>2
  <2>2. ~(y < x)
    BY <2>1
  <2> QED
    BY <2>1, <2>2
<1> QED
  BY <1>3

\* When all resolvers that answer say the same, that is what is known.
LEMMA KnownCname ==
    ASSUME NEW x, x # "silent"
    PROVE  knownCname([r \in 1 .. Resolvers |-> IF r \in Mute THEN "silent" ELSE x]) = x
<1> DEFINE answers == [r \in 1 .. Resolvers |-> IF r \in Mute THEN "silent" ELSE x]
           S == {r \in 1 .. Resolvers : r \notin Mute}
<1>1. S # {} /\ S \subseteq Nat /\ Resolvers \in Nat
  <2>1. \E r \in 1 .. Resolvers : r \notin Mute
    BY PrecheckAssumption
  <2> QED
    BY <2>1, PrecheckAssumption
<1>2. \A r \in 1 .. Resolvers : answers[r] = "silent" <=> r \notin S
  OBVIOUS
<1>3. \A r \in S : answers[r] = x
  OBVIOUS
<1>4. PICK r \in S : \A q \in S : r <= q
  BY <1>1, HasLeast
<1> HIDE DEF answers
<1>5. r \in 1 .. Resolvers /\ answers[r] # "silent" /\ \A q \in 1 .. r - 1 : answers[q] = "silent"
  BY <1>1, <1>2, <1>4
<1> DEFINE first == CHOOSE p \in 1 .. Resolvers :
                      answers[p] # "silent" /\ \A q \in 1 .. p - 1 : answers[q] = "silent"
<1>6. first \in 1 .. Resolvers /\ answers[first] # "silent"
  BY <1>5
<1>7. knownCname(answers) = answers[first]
  BY <1>5 DEF knownCname
<1> HIDE DEF first
<1>8. knownCname(answers) = x
  BY <1>2, <1>3, <1>6, <1>7
<1> QED
  BY <1>8 DEF answers

\* Some attempt asks a resolver that answers.
LEMMA SomeAttemptAnswers == \E a \in attempts : askedAt(a) \notin Mute
<1>1. PICK r \in 1 .. Resolvers : r \notin Mute
  BY PrecheckAssumption
<1> DEFINE a == r - 1
<1>2. a \in Nat /\ Resolvers \in Nat \ {0} /\ a < Resolvers /\ Attempts \in Nat
  BY PrecheckAssumption
<1>3. a % Resolvers = a
  BY <1>2
<1>4. askedAt(a) = r
  BY <1>2, <1>3 DEF askedAt
<1>5. a \in attempts
  BY <1>2 DEF attempts
<1> QED
  BY <1>1, <1>4, <1>5

\* Outside an outage the check says what is true: whatever resolvers are mute,
\* a configured CNAME passes and a missing one is reported as missing.
LEMMA CalmOutcomes == TrueOutcome(TRUE) = "ok" /\ TrueOutcome(FALSE) = "no_cname"
<1> DEFINE says(x) == [r \in 1 .. Resolvers |-> IF r \in Mute THEN "silent" ELSE x]
           seen == {a \in attempts : askedAt(a) \notin Mute}
<1>1. knownCname(says("account")) = "account" /\ knownCname(says("other")) = "other"
  <2>1. \A x : x # "silent" => knownCname(says(x)) = x
    BY KnownCname
  <2> HIDE DEF says
  <2> QED
    BY <2>1
<1>2. TrueOutcome(TRUE) = Verify(says("account"), TRUE, seen)
  BY DEF TrueOutcome
<1>3. TrueOutcome(FALSE) = Verify(says("other"), TRUE, {})
  BY DEF TrueOutcome
<1>4. seen # {}
  BY SomeAttemptAnswers
<1> HIDE DEF says, seen
<1> QED
  BY <1>1, <1>2, <1>3, <1>4 DEF Verify

\* Of a domain that keeps its CNAME only an outage makes the check fail.
LEMMA VerifyTells ==
    /\ VerifyOk => cur \in cname \/ Outage
    /\ VerifyNoCname => cur \notin cname \/ Outage
    /\ VerifyFails => Outage
<1>1. CASE Outage
  BY <1>1
<1>2. CASE ~Outage
  <2>1. Outcomes(cur \in cname, Outage) = {TrueOutcome(cur \in cname)}
    BY <1>2 DEF Outcomes
  <2>2. cur \in cname => TrueOutcome(cur \in cname) = "ok"
    <3>1. TrueOutcome(TRUE) = "ok"
      BY CalmOutcomes
    <3> QED
      BY <3>1 DEF TrueOutcome
  <2>3. cur \notin cname => TrueOutcome(cur \in cname) = "no_cname"
    <3>1. TrueOutcome(FALSE) = "no_cname"
      BY CalmOutcomes
    <3> QED
      BY <3>1 DEF TrueOutcome
  <2> QED
    BY <2>1, <2>2, <2>3 DEF VerifyOk, VerifyNoCname, VerifyFails
<1> QED
  BY <1>1, <1>2

-----------------------------------------------------------------------------
(* Certificates are renewed in time, under PunctualSpec.                   *)

\* A domain that has a certificate and has kept its proxies and its CNAME.
Kept(d) == certs[d] # <<>> /\ d \notin disturbed

\* The newest certificate is not due at time t.
NotDue(d, t) == t <= Latest(d).notAfter - RenewBefore

\* The end of the last pause that a failure in the outage can begin.
LastPause == OutageUntil - 1 + BackoffLimit

\* A time at which the outage or a pause after it may keep a domain waiting.
MayWait(t) == OutageFrom <= t /\ t < LastPause

\* A pause is one the outage has begun.
PauseEnds(retryAfter, t) == retryAfter # 0 => OutageFrom <= t /\ retryAfter <= LastPause

\* The pass of this interval has decided about the domain.
Decided(d) == ticked /\ (snap[d] = NoRow \/ (cur = d /\ pc = "activate"))

\* One pass in an interval, all of it at the interval's time.
OnePass ==
    /\ pc # "idle" => ticked
    /\ pc = "idle" => \A d \in Domain : snap[d] = NoRow
    /\ pc \notin {"idle", "pass"} => at = now
    /\ pc = "save" => got.notAfter = now + CertLife

\* Where a certificate is, or is about to be, the CNAME is.
CnameKept ==
    /\ pc \in {"mark", "order"} => cur \in cname \/ cur \in disturbed \/ Outage
    /\ pc = "save" => cur \in cname \/ cur \in disturbed
    /\ \A d \in Domain : certs[d] # <<>> => d \in cname \/ d \in disturbed

\* What a pass has a copy of, and what has a certificate, is served.
ServedKept ==
    \A d \in Domain : certs[d] # <<>> \/ snap[d] # NoRow => d \in Served \/ d \in disturbed

PausesEnd ==
    \A d \in Domain : d \notin disturbed =>
        /\ Exists(d) => PauseEnds(domains[d].retryAfter, now)
        /\ snap[d] # NoRow => PauseEnds(snap[d].retryAfter, now)

\* What the last interval's pass has left, the outage's own start, and what this
\* interval's pass has done so far.
InTime ==
    \A d \in Domain : Kept(d) =>
        /\ NotDue(d, now - 1) \/ MayWait(now - 1)
        /\ now >= OutageFrom => NotDue(d, OutageFrom - 1)
        /\ Decided(d) => NotDue(d, now) \/ MayWait(now)

TimelyInv == left["db"] = 0 /\ OnePass /\ CnameKept /\ ServedKept /\ PausesEnd /\ InTime

LEMMA Numbers ==
    /\ CertLife \in Nat /\ RenewBefore \in Nat /\ BackoffLimit \in Nat /\ BackoffLimit >= 1
    /\ OutageFrom \in Nat /\ OutageUntil \in Nat /\ LastPause \in Int
    /\ OutageUntil <= LastPause
BY SchedulerAssumption DEF LastPause

\* An outage ends before the last pause that it begins.
LEMMA OutageMayWait == ASSUME now \in Nat, Outage PROVE MayWait(now)
BY Numbers DEF Outage, MayWait

\* The notAfter of a newest certificate is a number.
LEMMA LatestNumber ==
    ASSUME IInv, NEW d \in Domain, certs[d] # <<>>
    PROVE  Latest(d).notAfter \in Nat
<1>1. StoreTypeOK /\ SavedInOrder
  BY ChronologicalIsInOrder DEF IInv, TypeOK, CertsOK
<1> QED
  BY <1>1, LatestIsLast DEF Cert

\* No statement fails, so the budget for it stays used up.
LEMMA NoneFails ==
    ASSUME IInv, IInv', left["db"] = 0, [Next]_vars
    PROVE  left'["db"] = 0 /\ \A n \in Nat : Spend("db", n) => n = 0
<1>1. "db" \in Disturbance /\ left \in [Disturbance -> Nat] /\ left' \in [Disturbance -> Nat]
  BY DEF IInv, TypeOK, Disturbance
<1>2. left'["db"] <= left["db"] /\ left'["db"] \in Nat
  BY <1>1, LeftStep
<1>3. \A n \in Nat : Spend("db", n) => left["db"] >= n
  BY DEF Spend
<1> QED
  BY <1>2, <1>3

\* A step that leaves certificates, clock, bindings and CNAMEs alone.
LEMMA TimelyFrame ==
    ASSUME IInv, TimelyInv, left'["db"] = 0, OnePass',
           UNCHANGED <<now, certs, cname, disturbed, domainClients>>,
           \A d \in Domain : Exists(d) => Exists(d)',
           pc' \in {"mark", "order"} => cur' \in cname \/ cur' \in disturbed \/ Outage,
           pc' = "save" => cur' \in cname \/ cur' \in disturbed,
           \A d \in Domain : snap'[d] # NoRow =>
              \/ snap[d] # NoRow /\ snap'[d] = snap[d]
              \/ d \in Served /\ snap'[d] = domains[d],
           \A d \in Domain : d \notin disturbed /\ Exists(d)' =>
              \/ Exists(d) /\ domains'[d] = domains[d]
              \/ PauseEnds(domains'[d].retryAfter, now),
           \A d \in Domain : Kept(d) /\ Decided(d)' => Decided(d) \/ NotDue(d, now) \/ MayWait(now)
    PROVE  TimelyInv'
<1>1. CnameKept'
  BY DEF TimelyInv, CnameKept, Outage
<1>2. \A d \in Domain : d \in Served => d \in Served'
  BY DEF Served
<1>3. ServedKept'
  BY <1>2 DEF TimelyInv, ServedKept
<1>4. PausesEnd'
  BY DEF TimelyInv, PausesEnd, Served
<1>5. ASSUME NEW d \in Domain, Kept(d)'
      PROVE  /\ (NotDue(d, now - 1) \/ MayWait(now - 1))'
             /\ (now >= OutageFrom => NotDue(d, OutageFrom - 1))'
             /\ (Decided(d) => NotDue(d, now) \/ MayWait(now))'
  <2>1. Kept(d)
    BY <1>5 DEF Kept
  <2>2. Latest(d)' = Latest(d)
    BY DEF Latest
  <2> QED
    BY <2>1, <2>2 DEF TimelyInv, InTime, NotDue, MayWait
<1>6. InTime'
  BY <1>5 DEF InTime
<1> QED
  BY <1>1, <1>3, <1>4, <1>6 DEF TimelyInv

\* The pass begins with copies of all served domains.
LEMMA TimelyTick ==
    ASSUME IInv, IInv', TimelyInv, Tick, left'["db"] = 0, ~Spend("db", 1)
    PROVE  TimelyInv'
<1>1. /\ snap' = [d \in Domain |-> IF d \in Served THEN domains[d] ELSE NoRow]
      /\ pc = "idle" /\ pc' = "pass" /\ ticked'
      /\ UNCHANGED <<storeVars, now, cname, cur, disturbed>>
  BY DEF Tick, history
<1>2. OnePass'
  BY <1>1 DEF OnePass
<1>3. \A d \in Domain : snap'[d] # NoRow => d \in Served /\ snap'[d] = domains[d]
  BY <1>1
<1>4. ASSUME NEW d \in Domain, Kept(d) PROVE ~Decided(d)'
  <2>1. d \in Served
    BY <1>4 DEF TimelyInv, ServedKept, Kept
  <2>2. snap'[d] = domains[d] /\ domains[d] # NoRow
    BY <1>1, <2>1 DEF Served, Exists
  <2> QED
    BY <1>1, <2>2 DEF Decided
<1>5. \A d \in Domain : Exists(d) <=> Exists(d)'
  BY <1>1 DEF storeVars, Exists
<1> QED
  BY <1>1, <1>2, <1>3, <1>4, <1>5, TimelyFrame DEF storeVars

\* A domain is passed over: its pause is not over, or it is not due.
LEMMA TimelySkip ==
    ASSUME IInv, IInv', TimelyInv, NEW d \in Domain, Skip(d)
    PROVE  TimelyInv'
<1>1. /\ pc = "pass" /\ pc' = pc /\ snap[d] # NoRow /\ snap' = [snap EXCEPT ![d] = NoRow]
      /\ UNCHANGED <<storeVars, now, ticked, cname, cur, at, got, left, disturbed>>
  BY DEF Skip, history
<1>2. /\ snap \in [Domain -> Row \cup {NoRow}] /\ now \in Nat /\ left["db"] = 0
      /\ snap[d] \in Row /\ snap[d].retryAfter \in Nat
  BY <1>1 DEF IInv, TypeOK, TimelyInv, Row
<1>3. OnePass'
  BY <1>1 DEF TimelyInv, OnePass
<1>4. \A e \in Domain : snap'[e] # NoRow => snap[e] # NoRow /\ snap'[e] = snap[e]
  BY <1>1, <1>2
<1>5. Kept(d) => NotDue(d, now) \/ MayWait(now)
  <2> SUFFICES ASSUME Kept(d) PROVE NotDue(d, now) \/ MayWait(now)
    OBVIOUS
  <2>1. CASE ~Ready(snap[d])
    <3>1. snap[d].retryAfter # 0 /\ now < snap[d].retryAfter
      BY <1>2, <2>1 DEF Ready
    <3>2. OutageFrom <= now /\ snap[d].retryAfter <= LastPause
      BY <1>1, <3>1 DEF TimelyInv, PausesEnd, PauseEnds, Kept
    <3> QED
      BY <1>2, <3>1, <3>2, Numbers DEF MayWait
  <2>2. CASE ~needsRenewal(d)
    <3>1. Latest(d).notAfter \in Nat
      BY LatestNumber DEF Kept
    <3> QED
      BY <1>2, <2>2, <3>1, Numbers DEF needsRenewal, NotDue
  <2> QED
    BY <2>1, <2>2 DEF Skip
<1>6. ASSUME NEW e \in Domain, Kept(e), Decided(e)'
      PROVE  Decided(e) \/ NotDue(e, now) \/ MayWait(now)
  <2>1. CASE e = d
    BY <1>5, <1>6, <2>1
  <2>2. CASE e # d
    BY <1>1, <1>2, <1>6, <2>2 DEF Decided
  <2> QED
    BY <2>1, <2>2
<1>7. \A e \in Domain : Exists(e) <=> Exists(e)'
  BY <1>1 DEF storeVars, Exists
<1> QED
  BY <1>1, <1>2, <1>3, <1>4, <1>6, <1>7, TimelyFrame DEF storeVars

\* The pass ends, or the attempt goes on to its next step.
LEMMA TimelyGoesOn ==
    ASSUME IInv, IInv', TimelyInv, left'["db"] = 0,
           UNCHANGED <<now, ticked, certs, cname, disturbed, domainClients, snap>>,
           pc # "idle", pc' # "activate", OnePass',
           \A d \in Domain : Exists(d) => Exists(d)',
           pc' \in {"mark", "order"} => cur' \in cname \/ cur' \in disturbed \/ Outage,
           pc' = "save" => cur' \in cname \/ cur' \in disturbed,
           \A d \in Domain : Exists(d)' =>
              (Exists(d) /\ domains'[d] = domains[d]) \/ domains'[d].retryAfter = 0
    PROVE  TimelyInv'
<1>1. \A d \in Domain : Decided(d)' => Decided(d)
  BY DEF Decided
<1>2. \A d \in Domain : domains'[d].retryAfter = 0 => PauseEnds(domains'[d].retryAfter, now)
  BY DEF PauseEnds
<1> QED
  BY <1>1, <1>2, TimelyFrame

LEMMA TimelyAttempt ==
    ASSUME IInv, IInv', TimelyInv, left'["db"] = 0, ~RecordFailure(1),
           EndPass \/ (\E d \in Domain : Start(d)) \/ VerifyOk \/ MarkIssuing \/ ObtainOk
    PROVE  TimelyInv'
<1> USE DEF history, storeVars
<1>1. CASE EndPass \/ (\E d \in Domain : Start(d)) \/ VerifyOk \/ ObtainOk
  <2>1. /\ UNCHANGED <<now, ticked, storeVars, cname, disturbed, snap>>
        /\ pc # "idle" /\ pc' # "activate"
    BY <1>1 DEF EndPass, Start, VerifyOk, ObtainOk
  <2>2. \A d \in Domain : Exists(d)' <=> Exists(d)
    BY <2>1 DEF Exists
  <2>3. OnePass'
    BY <1>1 DEF EndPass, Start, VerifyOk, ObtainOk, TimelyInv, OnePass
  <2>4. /\ pc' \in {"mark", "order"} => cur' \in cname \/ cur' \in disturbed \/ Outage
        /\ pc' = "save" => cur' \in cname \/ cur' \in disturbed
    BY <1>1, VerifyTells DEF EndPass, Start, VerifyOk, ObtainOk
  <2> QED
    BY <2>1, <2>2, <2>3, <2>4, TimelyGoesOn
<1>2. CASE MarkIssuing
  <2>1. /\ SetStatus(cur, "issuing", snap[cur].failCount, 0)
        /\ pc = "mark" /\ pc' = "order"
        /\ UNCHANGED <<now, ticked, cname, disturbed, snap, cur, at, got>>
    BY <1>2 DEF MarkIssuing
  <2>2. cur \in Domain /\ Exists(cur) /\ snap[cur].failCount \in Nat /\ StoreTypeOK
        /\ "issuing" \in Status
    BY <2>1, CopyIsRow DEF IInv, TypeOK, Status
  <2>3. /\ \A e \in Domain : Exists(e)' <=> Exists(e)
        /\ domains'[cur].retryAfter = 0
        /\ \A e \in Domain \ {cur} : domains'[e] = domains[e]
    BY <2>1, <2>2, SetStatusType
  <2>4. UNCHANGED <<certs, domainClients>>
    BY <2>1 DEF SetStatus
  <2>5. OnePass'
    BY <2>1 DEF TimelyInv, OnePass
  <2>6. cur' \in cname \/ cur' \in disturbed \/ Outage
    BY <2>1 DEF TimelyInv, CnameKept
  <2> QED
    BY <2>1, <2>3, <2>4, <2>5, <2>6, TimelyGoesOn
<1> QED
  BY <1>1, <1>2

\* An attempt ends with a status.  A pause it begins is one of the outage's, and
\* the pass has decided about the domain.
LEMMA TimelyFinish ==
    ASSUME IInv, IInv', TimelyInv, left'["db"] = 0, pc \notin {"idle", "pass"}, Finish,
           UNCHANGED <<now, ticked, cname, disturbed>>,
           NEW s \in Status, NEW n \in Nat, NEW t \in Nat, SetStatus(cur, s, n, t),
           cur \notin disturbed => PauseEnds(t, now),
           Kept(cur) => NotDue(cur, now) \/ MayWait(now)
    PROVE  TimelyInv'
<1>1. cur \in Domain /\ Exists(cur) /\ StoreTypeOK /\ snap \in [Domain -> Row \cup {NoRow}]
  BY CopyIsRow DEF IInv, TypeOK
<1>2. /\ \A e \in Domain : Exists(e)' <=> Exists(e)
      /\ domains'[cur].retryAfter = t
      /\ \A e \in Domain \ {cur} : domains'[e] = domains[e]
  BY <1>1, SetStatusType
<1>3. UNCHANGED <<certs, domainClients>>
  BY DEF SetStatus
<1>4. pc' = "pass" /\ snap' = [snap EXCEPT ![cur] = NoRow] /\ ticked
  BY DEF Finish, TimelyInv, OnePass
<1>5. OnePass'
  BY <1>4 DEF OnePass
<1>6. \A e \in Domain : snap'[e] # NoRow => snap[e] # NoRow /\ snap'[e] = snap[e]
  BY <1>1, <1>4
<1>7. ASSUME NEW e \in Domain, Kept(e), Decided(e)'
      PROVE  Decided(e) \/ NotDue(e, now) \/ MayWait(now)
  <2>1. CASE e # cur
    BY <1>1, <1>4, <1>7, <2>1 DEF Decided
  <2> QED
    BY <1>7, <2>1
<1>8. \A e \in Domain : e \notin disturbed /\ Exists(e)' =>
        \/ Exists(e) /\ domains'[e] = domains[e]
        \/ PauseEnds(domains'[e].retryAfter, now)
  BY <1>2
<1> QED
  BY <1>2, <1>3, <1>4, <1>5, <1>6, <1>7, <1>8, TimelyFrame

\* A recorded failure: unless the domain lost its CNAME it happens in the outage,
\* and its pause ends before the last one can.
LEMMA TimelyFailure ==
    ASSUME IInv, IInv', TimelyInv, left'["db"] = 0,
           \A n \in Nat : Spend("db", n) => n = 0,
           VerifyNoCname \/ VerifyFails \/ ObtainFails
    PROVE  TimelyInv'
<1> USE DEF history
<1>1. /\ pc \in {"verify", "order"} /\ UNCHANGED <<now, cname, ticked, disturbed>>
      /\ now \in Nat /\ at = now
      /\ cur \in Domain /\ snap[cur].failCount \in Nat
  BY CopyIsRow, Zenon DEF VerifyNoCname, VerifyFails, ObtainFails, IInv, TypeOK, TimelyInv, OnePass
<1>2. Kept(cur) => cur \in cname
  BY <1>1 DEF TimelyInv, CnameKept, Kept
<1>3. Outage => MayWait(now)
  BY <1>1, OutageMayWait
<1>4. Kept(cur) => NotDue(cur, now) \/ MayWait(now)
  BY <1>2, <1>3, VerifyTells DEF ObtainFails
<1>5. CASE VerifyNoCname
  <2>1. SetStatus(cur, "pending_cname", 0, 0) /\ Finish
    BY <1>5 DEF VerifyNoCname, RecordNoCname
  <2>2. "pending_cname" \in Status /\ PauseEnds(0, now)
    BY DEF Status, PauseEnds
  <2> QED
    BY <1>1, <1>4, <2>1, <2>2, TimelyFinish
<1>6. CASE VerifyFails \/ ObtainFails
  <2> DEFINE n == snap[cur].failCount + 1
             t == at + backoff(n)
  <2>1. n \in Nat /\ n >= 1
    BY <1>1
  <2>2. backoff(n) \in 1 .. BackoffLimit
    BY <2>1, BackoffBounds
  <2>3. t \in Nat /\ t <= now + BackoffLimit
    BY <1>1, <2>2, Numbers
  <2>4. RecordFailure(0)
    BY <1>6 DEF VerifyFails, ObtainFails
  <2>5. SetStatus(cur, "error", n, t) /\ Finish
    BY <2>4 DEF RecordFailure
  <2> HIDE DEF n, t
  <2>6. cur \notin disturbed => Outage
    BY <1>1, <1>6, VerifyTells DEF ObtainFails, TimelyInv, CnameKept
  <2>7. Outage => PauseEnds(t, now)
    BY <1>1, <2>3, Numbers DEF Outage, PauseEnds, LastPause
  <2>8. "error" \in Status
    BY DEF Status
  <2> QED
    BY <1>1, <1>4, <2>1, <2>3, <2>5, <2>6, <2>7, <2>8, TimelyFinish
<1> QED
  BY <1>5, <1>6

\* The domain is marked active; the pass has decided about it when it saved the
\* certificate.
LEMMA TimelyActivate ==
    ASSUME IInv, IInv', TimelyInv, left'["db"] = 0, ~RecordFailure(1), Activate
    PROVE  TimelyInv'
<1>1. /\ SetStatus(cur, "active", 0, 0) /\ Finish /\ pc = "activate"
      /\ UNCHANGED <<now, ticked, cname, disturbed>>
  BY DEF Activate, history
<1>2. "active" \in Status /\ PauseEnds(0, now) /\ cur \in Domain /\ ticked
  BY <1>1 DEF Status, PauseEnds, IInv, TypeOK, TimelyInv, OnePass
<1>3. Kept(cur) => NotDue(cur, now) \/ MayWait(now)
  BY <1>1, <1>2 DEF TimelyInv, InTime, Decided
<1> QED
  BY <1>1, <1>2, <1>3, TimelyFinish

\* The new certificate is the newest one and not due for a while.
LEMMA TimelySave ==
    ASSUME IInv, IInv', TimelyInv, OutageHasRoom, left'["db"] = 0, ~RecordFailure(1), SaveIssued
    PROVE  TimelyInv'
<1> DEFINE cert == [serial |-> got.serial, notAfter |-> got.notAfter, issuedAt |-> now]
<1>1. /\ SaveCert(cur, cert) /\ pc = "save" /\ pc' = "activate"
      /\ UNCHANGED <<now, ticked, cname, disturbed, cur, at, snap, got>>
  BY DEF SaveIssued, history
<1>2. /\ StoreTypeOK /\ cur \in Domain /\ now \in Nat /\ now >= 1
      /\ cert \in Cert /\ cert.notAfter = now + CertLife
  BY <1>1 DEF IInv, TypeOK, Cert, TimelyInv, OnePass
<1> HIDE DEF cert
<1>3. /\ UNCHANGED <<domains, domainClients>>
      /\ certs'[cur] # <<>>
      /\ Len(certs[cur]) \in Nat /\ Len(certs'[cur]) = Len(certs[cur]) + 1
      /\ certs'[cur][Len(certs[cur]) + 1] = cert
      /\ \A e \in Domain \ {cur} : certs'[e] = certs[e]
  BY <1>1, <1>2, SaveCertType
<1>4. Latest(cur)' = cert
  <2>1. StoreTypeOK' /\ SavedInOrder'
    <3>1. (Chronological => SavedInOrder)'
      BY DEF Chronological, SavedInOrder
    <3> QED
      BY <3>1 DEF IInv, TypeOK, CertsOK
  <2>2. (certs[cur] # <<>> => Latest(cur) = certs[cur][Len(certs[cur])])'
    <3>1. \A d \in Domain : (certs[d] # <<>> => Latest(d) = certs[d][Len(certs[d])])'
      <4> SUFFICES ASSUME NEW d \in Domain, certs'[d] # <<>>
                   PROVE  Latest(d)' = certs'[d][Len(certs'[d])]
        OBVIOUS
      <4>1. certs'[d] \in Seq(Cert)
        BY <2>1 DEF StoreTypeOK
      <4>2. \A i, j \in 1 .. Len(certs'[d]) : i < j => certs'[d][i].issuedAt <= certs'[d][j].issuedAt
        BY <2>1 DEF SavedInOrder
      <4> QED
        BY <4>1, <4>2, LastIsNewest DEF Latest
    <3> QED
      BY <1>1, <1>2, <3>1
  <2> QED
    BY <1>1, <1>3, <2>2
<1>5. OnePass'
  BY <1>1 DEF TimelyInv, OnePass
<1>6. CnameKept'
  BY <1>1, <1>3 DEF TimelyInv, CnameKept
<1>7. ServedKept'
  <2>1. Served' = Served
    BY <1>3 DEF Served, Exists
  <2>2. snap[cur] # NoRow
    BY <1>1 DEF IInv, PassOK
  <2> QED
    BY <1>1, <1>2, <1>3, <2>1, <2>2 DEF TimelyInv, ServedKept
<1>8. PausesEnd'
  BY <1>1, <1>3 DEF TimelyInv, PausesEnd, Exists
<1>9. ASSUME NEW d \in Domain, Kept(d)'
      PROVE  /\ (NotDue(d, now - 1) \/ MayWait(now - 1))'
             /\ (now >= OutageFrom => NotDue(d, OutageFrom - 1))'
             /\ (Decided(d) => NotDue(d, now) \/ MayWait(now))'
  <2>1. CASE d = cur
    <3>1. Latest(d)'.notAfter = now + CertLife /\ now' = now
      BY <1>1, <1>2, <1>4, <2>1
    <3>2. \A t \in Int : t <= now => NotDue(d, t)'
      BY <1>2, <3>1, Numbers DEF NotDue, OutageHasRoom
    <3>3. NotDue(d, now - 1)' /\ NotDue(d, now)'
      BY <1>1, <1>2, <3>1, Numbers DEF NotDue, OutageHasRoom
    <3>4. now >= OutageFrom => NotDue(d, OutageFrom - 1)'
      BY <1>2, <3>2, Numbers
    <3> QED
      BY <1>1, <3>3, <3>4
  <2>2. CASE d # cur
    <3>1. certs'[d] = certs[d]
      BY <1>3, <2>2
    <3>2. Latest(d)' = Latest(d)
      BY <3>1 DEF Latest
    <3>3. Kept(d) /\ (Decided(d)' => Decided(d))
      BY <1>1, <1>9, <2>2, <3>1 DEF Kept, Decided
    <3> QED
      BY <1>1, <3>2, <3>3 DEF TimelyInv, InTime, NotDue, MayWait
  <2> QED
    BY <2>1, <2>2
<1>10. InTime'
  BY <1>9 DEF InTime
<1> QED
  BY <1>5, <1>6, <1>7, <1>8, <1>10 DEF TimelyInv

\* After a crash or a stop the pass is done again in the same interval.
LEMMA TimelyRestart ==
    ASSUME IInv, IInv', TimelyInv, left'["db"] = 0, Crash \/ Stop
    PROVE  TimelyInv'
<1>1. /\ pc' = "idle" /\ ticked' = FALSE /\ snap' = [d \in Domain |-> NoRow]
      /\ UNCHANGED <<storeVars, now, cname, disturbed>>
  BY DEF Crash, Stop, Restart, history
<1>2. OnePass' /\ \A d \in Domain : snap'[d] = NoRow /\ ~Decided(d)'
  BY <1>1 DEF OnePass, Decided
<1>3. \A d \in Domain : Exists(d)' <=> Exists(d)
  BY <1>1 DEF storeVars, Exists
<1> QED
  BY <1>1, <1>2, <1>3, TimelyFrame DEF storeVars

\* What the administrator, proxies and humans do with rows, bindings and CNAMEs.
LEMMA TimelyEnvironment ==
    ASSUME IInv, IInv', TimelyInv, left'["db"] = 0, Environment
    PROVE  TimelyInv'
<1> USE DEF passVars
<1>1. UNCHANGED <<now, ticked, pc, cur, at, snap, got>> /\ OnePass'
  <2>1. UNCHANGED <<now, ticked, pc, cur, at, snap, got>>
    BY DEF Environment, Renew, NewDomain, Bind, AddCname, RemoveCname
  <2> QED
    BY <2>1 DEF TimelyInv, OnePass
<1>2. StoreTypeOK /\ disturbed \in SUBSET Domain
  BY DEF IInv, TypeOK
<1>3. (UNCHANGED certs) => \A d \in Domain : Latest(d)' = Latest(d)
  BY DEF Latest
<1>4. \A d \in Domain : Decided(d)' <=> Decided(d)
  BY <1>1 DEF Decided
<1>5. ASSUME UNCHANGED certs, disturbed \subseteq disturbed'
      PROVE  InTime'
  BY <1>1, <1>3, <1>4, <1>5 DEF TimelyInv, InTime, NotDue, MayWait, Kept
<1>6. ASSUME NEW d \in Domain, Renew(d) PROVE TimelyInv'
  <2>1. /\ Exists(d) /\ SetStatus(d, "pending_cname", 0, 0) /\ "pending_cname" \in Status
        /\ UNCHANGED <<cname, disturbed>>
    BY <1>6 DEF Renew, Status
  <2>2. /\ \A e \in Domain : Exists(e)' <=> Exists(e)
        /\ domains'[d].retryAfter = 0
        /\ \A e \in Domain \ {d} : domains'[e] = domains[e]
    BY <1>2, <2>1, SetStatusType
  <2>3. UNCHANGED <<certs, domainClients>>
    BY <2>1 DEF SetStatus
  <2>4. \A e \in Domain : e \notin disturbed /\ Exists(e)' =>
          \/ Exists(e) /\ domains'[e] = domains[e]
          \/ PauseEnds(domains'[e].retryAfter, now)
    BY <2>2 DEF PauseEnds
  <2> QED
    BY <1>1, <1>4, <2>1, <2>2, <2>3, <2>4, TimelyFrame DEF TimelyInv, CnameKept
<1>7. ASSUME NEW d \in Domain, NewDomain(d) PROVE TimelyInv'
  <2>1. PICK w \in BOOLEAN, a \in Account : CreateDomain(d, w, a)
    BY <1>7, StoreAssumption DEF NewDomain
  <2>2. /\ Exists(d)' /\ domains'[d].retryAfter = 0
        /\ \A e \in Domain \ {d} : domains'[e] = domains[e]
    BY <1>2, <2>1, CreateDomainType
  <2>3. UNCHANGED <<certs, domainClients, cname, disturbed>>
    BY <1>7, <2>1 DEF CreateDomain, NewDomain, history
  <2>4. \A e \in Domain : Exists(e) => Exists(e)'
    BY <2>2 DEF Exists
  <2>5. \A e \in Domain : e \notin disturbed /\ Exists(e)' =>
          \/ Exists(e) /\ domains'[e] = domains[e]
          \/ PauseEnds(domains'[e].retryAfter, now)
    BY <2>2 DEF PauseEnds, Exists
  <2> QED
    BY <1>1, <1>4, <2>3, <2>4, <2>5, TimelyFrame DEF TimelyInv, CnameKept
<1>8. ASSUME NEW c \in Client, NEW names \in SUBSET Domain, Bind(c, names) PROVE TimelyInv'
  <2>1. disturbed' = disturbed \cup (Served \ Served') /\ UNCHANGED cname
    BY <1>8 DEF Bind
  <2>2. UNCHANGED <<domains, certs>>
    BY <1>8 DEF Bind, SetClientDomains
  <2>3. CnameKept'
    BY <1>1, <2>1, <2>2 DEF TimelyInv, CnameKept, Outage
  <2>4. ServedKept'
    BY <1>1, <2>1, <2>2 DEF TimelyInv, ServedKept
  <2>5. PausesEnd'
    BY <1>1, <2>1, <2>2 DEF TimelyInv, PausesEnd, Exists
  <2> QED
    BY <1>1, <1>5, <2>1, <2>2, <2>3, <2>4, <2>5 DEF TimelyInv
<1>9. ASSUME NEW d \in Domain, AddCname(d) \/ RemoveCname(d) PROVE TimelyInv'
  <2>1. /\ UNCHANGED storeVars
        /\ \/ cname' = cname \cup {d} /\ disturbed' = disturbed
           \/ cname' = cname \ {d} /\ disturbed' = disturbed \cup {d}
    BY <1>9 DEF AddCname, RemoveCname, history
  <2>2. UNCHANGED <<domains, certs, domainClients>>
    BY <2>1 DEF storeVars
  <2>3. CnameKept'
    BY <1>1, <2>1, <2>2 DEF TimelyInv, CnameKept, Outage
  <2>4. ServedKept'
    BY <1>1, <2>1, <2>2 DEF TimelyInv, ServedKept, Served, Exists
  <2>5. PausesEnd'
    BY <1>1, <2>1, <2>2 DEF TimelyInv, PausesEnd, Exists
  <2> QED
    BY <1>1, <1>5, <2>1, <2>2, <2>3, <2>4, <2>5 DEF TimelyInv
<1> QED
  BY <1>6, <1>7, <1>8, <1>9 DEF Environment

\* The next interval begins when the pass of this one has decided about all.
LEMMA TimelyClock ==
    ASSUME IInv, IInv', TimelyInv, left'["db"] = 0, pc = "idle", ticked, AdvanceTime
    PROVE  TimelyInv'
<1>1. /\ UNCHANGED <<domains, certs, domainClients, cname, pc, cur, at, snap, got, disturbed>>
      /\ ticked' = FALSE
  BY DEF AdvanceTime, storeVars, passVars, history
<1>2. now \in Nat /\ (now' = now + 1 \/ now' = now) /\ now' \in Nat /\ now' >= now
  BY DEF AdvanceTime, IInv, TypeOK
<1>3. OnePass' /\ CnameKept'
  BY <1>1 DEF TimelyInv, OnePass, CnameKept
<1>4. ServedKept'
  BY <1>1 DEF TimelyInv, ServedKept, Served, Exists
<1>5. PausesEnd'
  BY <1>1, <1>2, Numbers DEF TimelyInv, PausesEnd, PauseEnds, Exists
<1>6. ASSUME NEW d \in Domain, Kept(d)'
      PROVE  /\ (NotDue(d, now - 1) \/ MayWait(now - 1))'
             /\ (now >= OutageFrom => NotDue(d, OutageFrom - 1))'
             /\ ~Decided(d)'
  <2>1. Kept(d) /\ Latest(d)' = Latest(d) /\ Decided(d)
    BY <1>1, <1>6 DEF Kept, Latest, Decided, TimelyInv, OnePass
  <2>2. /\ NotDue(d, now - 1) \/ MayWait(now - 1)
        /\ now >= OutageFrom => NotDue(d, OutageFrom - 1)
        /\ NotDue(d, now) \/ MayWait(now)
    BY <2>1 DEF TimelyInv, InTime
  <2>3. Latest(d).notAfter \in Nat
    BY <2>1, LatestNumber DEF Kept
  <2>4. ~Decided(d)'
    BY <1>1 DEF Decided
  <2>5. CASE now' = now
    BY <2>1, <2>2, <2>4, <2>5 DEF NotDue, MayWait
  <2>6. CASE now' = now + 1
    <3>1. now' - 1 = now
      BY <1>2, <2>6
    <3>2. now' >= OutageFrom => now >= OutageFrom \/ OutageFrom - 1 = now
      BY <1>2, <2>6, Numbers
    <3>3. OutageFrom - 1 = now => ~MayWait(now)
      BY <1>2, Numbers DEF MayWait
    <3> QED
      BY <2>1, <2>2, <2>4, <3>1, <3>2, <3>3 DEF NotDue, MayWait
  <2> QED
    BY <1>2, <2>5, <2>6
<1>7. InTime'
  BY <1>6 DEF InTime
<1> QED
  BY <1>3, <1>4, <1>5, <1>7 DEF TimelyInv

LEMMA InitTimelyInv == Init /\ OutageHasRoom => TimelyInv
<1> SUFFICES ASSUME Init, OutageHasRoom PROVE TimelyInv
  OBVIOUS
<1>1. \A d \in Domain : certs[d] = <<>> /\ snap[d] = NoRow /\ ~Exists(d)
  BY DEF Init, StoreInit, IdlePass, Exists
<1>2. left["db"] = 0 /\ pc = "idle"
  BY DEF Init, IdlePass, OutageHasRoom
<1> QED
  BY <1>1, <1>2 DEF TimelyInv, OnePass, CnameKept, ServedKept, PausesEnd, InTime, Kept

\* Every step of a punctual centre keeps its renewals in time.
LEMMA NextTimelyInv ==
    OutageHasRoom /\ IInv /\ IInv' /\ TimelyInv /\ [PunctualNext]_vars => TimelyInv'
<1> SUFFICES ASSUME OutageHasRoom, IInv, IInv', TimelyInv, [PunctualNext]_vars PROVE TimelyInv'
  OBVIOUS
<1>1. [Next]_vars
  BY DEF PunctualNext, Next
<1>2. left'["db"] = 0 /\ \A n \in Nat : Spend("db", n) => n = 0
  BY <1>1, NoneFails DEF TimelyInv
<1>3. ~Spend("db", 1) /\ ~RecordFailure(1)
  BY <1>2 DEF RecordFailure
<1>4. CASE Work
  <2>1. CASE Tick
    BY <1>2, <1>3, <2>1, TimelyTick
  <2>2. CASE \E d \in Domain : Skip(d)
    BY <2>2, TimelySkip
  <2>3. CASE EndPass \/ (\E d \in Domain : Start(d)) \/ VerifyOk \/ MarkIssuing \/ ObtainOk
    BY <1>2, <1>3, <2>3, TimelyAttempt
  <2>4. CASE VerifyNoCname \/ VerifyFails \/ ObtainFails
    BY <1>2, <2>4, TimelyFailure
  <2>5. CASE SaveIssued
    BY <1>2, <1>3, <2>5, TimelySave
  <2>6. CASE Activate
    BY <1>2, <1>3, <2>6, TimelyActivate
  <2> QED
    BY <1>4, <2>1, <2>2, <2>3, <2>4, <2>5, <2>6 DEF Work
<1>5. CASE Crash \/ Stop
  BY <1>2, <1>5, TimelyRestart
<1>6. CASE Environment
  BY <1>2, <1>6, TimelyEnvironment
<1>7. CASE pc = "idle" /\ ticked /\ AdvanceTime
  BY <1>2, <1>7, TimelyClock
<1>8. CASE UNCHANGED vars
  <2> USE DEF vars, passVars, storeVars, history
  <2>1. OnePass'
    BY <1>8 DEF TimelyInv, OnePass
  <2>2. \A d \in Domain : (Exists(d)' <=> Exists(d)) /\ (Decided(d)' <=> Decided(d))
    BY <1>8 DEF Exists, Decided
  <2> QED
    BY <1>2, <1>8, <2>1, <2>2, TimelyFrame DEF TimelyInv, CnameKept
<1> QED
  BY <1>4, <1>5, <1>6, <1>7, <1>8 DEF PunctualNext

\* The invariant that a certificate's end never comes near while the centre is
\* punctual: at the end of an interval it is not due, or the outage is the cause.
THEOREM TimelyInvariant == OutageHasRoom => (PunctualSpec => []TimelyInv)
<1> SUFFICES ASSUME OutageHasRoom PROVE PunctualSpec => []TimelyInv
  OBVIOUS
<1>1. [PunctualNext]_vars => [Next]_vars
  BY DEF PunctualNext, Next
<1>2. PunctualSpec => []IInv
  BY <1>1, InitIInv, NextIInv, PTL DEF PunctualSpec
<1>3. Init => TimelyInv
  BY InitTimelyInv
<1>4. IInv /\ IInv' /\ TimelyInv /\ [PunctualNext]_vars => TimelyInv'
  BY NextTimelyInv
<1> QED
  BY <1>2, <1>3, <1>4, PTL DEF PunctualSpec

\* No certificate of a domain that keeps its proxies and its CNAME expires, for
\* any lifetime, RENEW_BEFORE, backoff and outage that RENEW_BEFORE has room for,
\* through any number of crashes, stops and renewals (scheduler.go).
THEOREM CertificatesLast == OutageHasRoom => (PunctualSpec => []NoLapse)
<1> SUFFICES ASSUME OutageHasRoom PROVE PunctualSpec => []NoLapse
  OBVIOUS
<1>1. IInv /\ TimelyInv => NoLapse
  <2> SUFFICES ASSUME IInv, TimelyInv, NEW d \in Domain, Kept(d)
               PROVE  now <= Latest(d).notAfter
    BY DEF NoLapse, Kept
  <2>1. now \in Nat /\ Latest(d).notAfter \in Nat
    BY LatestNumber DEF IInv, TypeOK, Kept
  <2>2. /\ NotDue(d, now - 1) \/ MayWait(now - 1)
        /\ now >= OutageFrom => NotDue(d, OutageFrom - 1)
    BY DEF TimelyInv, InTime
  <2>3. CASE NotDue(d, now - 1)
    BY <2>1, <2>3, Numbers DEF NotDue, OutageHasRoom
  <2>4. CASE MayWait(now - 1)
    <3>1. NotDue(d, OutageFrom - 1) /\ now <= LastPause
      BY <2>1, <2>2, <2>4, Numbers DEF MayWait
    <3> QED
      BY <2>1, <3>1, Numbers DEF NotDue, LastPause, OutageHasRoom
  <2> QED
    BY <2>2, <2>3, <2>4
<1>2. PunctualSpec => []TimelyInv
  BY TimelyInvariant
<1>3. [PunctualNext]_vars => [Next]_vars
  BY DEF PunctualNext, Next
<1>4. PunctualSpec => []IInv
  BY <1>3, InitIInv, NextIInv, PTL DEF PunctualSpec
<1> QED
  BY <1>1, <1>2, <1>4, PTL

=============================================================================
