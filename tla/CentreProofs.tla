---------------------------- MODULE CentreProofs ----------------------------
(***************************************************************************)
(* Theorems about the centre as a whole: its start, and that scheduler and *)
(* API, put together, each find the environment that their own modules     *)
(* assume.  What is proved of the scheduler and of the API by themselves   *)
(* is used here by instance; AP is the API beside a scheduler that may     *)
(* write whatever the tables can hold.                                     *)
(***************************************************************************)
EXTENDS Centre, TLAPS

SP == INSTANCE SchedulerProofs

AP == INSTANCE SyncApiProofs
        WITH Certs <- Sched!Cert, Statuses <- Sched!Status, FailCounts <- Nat, RetryTimes <- Nat

-----------------------------------------------------------------------------
(* The account at the CA.                                                  *)

\* The CA knows the saved key at most, and a start that has gone beyond loading
\* works with it.
AccountOK ==
    /\ acmeAccount \in Start!AcmeRow \cup {NoAccount}
    /\ boot \in {"load", "register", "save", "up"}
    /\ \A k \in caAccounts : acmeAccount # NoAccount /\ acmeAccount.key = k
    /\ boot # "load" =>
         /\ acmeAccount # NoAccount
         /\ user \in Start!AcmeRow /\ user.key = acmeAccount.key
    /\ boot \in {"save", "up"} => user.registered /\ user.key \in caAccounts
    /\ boot = "up" => acmeAccount = user
    /\ acmeAccount # NoAccount /\ acmeAccount.registered => acmeAccount.key \in caAccounts

LEMMA AccountStep == AccountOK /\ [Next]_vars => AccountOK'
<1> SUFFICES ASSUME AccountOK, [Next]_vars PROVE AccountOK'
  OBVIOUS
<1> USE DEF AccountOK, Start!AcmeRow
<1>1. CASE Start!LoadUser
  BY <1>1 DEF Start!LoadUser
<1>2. CASE Start!CreateUser
  <2>1. PICK k \in Key : acmeAccount' = [key |-> k, registered |-> FALSE] /\ user' = acmeAccount'
    BY <1>2 DEF Start!CreateUser
  <2>2. caAccounts' = {} /\ boot' = "register"
    BY <1>2 DEF Start!CreateUser
  <2>3. acmeAccount' \in Start!AcmeRow /\ acmeAccount' # NoAccount /\ acmeAccount'.registered = FALSE
    <3>1. NoAccount \notin Start!AcmeRow
      BY CentreAssumption
    <3>2. [key |-> k, registered |-> FALSE] \in Start!AcmeRow
      OBVIOUS
    <3>3. acmeAccount' = [key |-> k, registered |-> FALSE]
      BY <2>1
    <3>4. acmeAccount'.registered = FALSE
      BY <3>3
    <3> QED
      BY <3>1, <3>2, <3>3, <3>4
  <2> QED
    BY <2>1, <2>2, <2>3
<1>3. CASE Start!Register
  <2>1. /\ user \in Start!AcmeRow
        /\ user' = [key |-> user.key, registered |-> TRUE]
    BY <1>3 DEF Start!Register
  <2> QED
    BY <1>3, <2>1 DEF Start!Register
<1>4. CASE Start!SaveRegistration
  BY <1>4, CentreAssumption DEF Start!SaveRegistration
<1>5. CASE Start!StartAgain
  BY <1>5 DEF Start!StartAgain
<1>6. CASE UNCHANGED accountVars
  BY <1>6 DEF accountVars
<1> QED
  BY <1>1, <1>2, <1>3, <1>4, <1>5, <1>6
     DEF Next, Starting, SchedulerStep, ApiStep, Down, vars, Start!Starting, Start!StartFails

\* However often a start is cut short, the CA is asked for one account only, and
\* a running centre has it saved (user.go:38-76).
THEOREM AccountIsKept == Spec => []AccountKept
<1>1. Init => AccountOK
  BY DEF Init, Start!Init, AccountOK
<1>2. AccountOK => AccountKept
  BY DEF AccountOK, AccountKept, Start!AccountKept
<1> QED
  BY <1>1, <1>2, AccountStep, PTL DEF Spec

-----------------------------------------------------------------------------
(* The instances are the ones the centre is made of.                       *)

LEMMA SameScheduler ==
    (Sched!Init <=> SP!Init) /\ (Sched!Next <=> SP!Next) /\ Sched!vars = SP!vars
<1>1. Sched!Init <=> SP!Init
  BY DEF Sched!Init, SP!Init, Sched!StoreInit, SP!StoreInit, Sched!IdlePass,
         SP!IdlePass
<1>2. Sched!Next <=> SP!Next
  BY DEF Sched!Next, SP!Next, Sched!Work, SP!Work, Sched!Environment,
         SP!Environment, Sched!AdvanceTime, SP!AdvanceTime, Sched!Crash,
         SP!Crash, Sched!Stop, SP!Stop, Sched!Restart, SP!Restart, Sched!Tick,
         SP!Tick, Sched!EndPass, SP!EndPass, Sched!Skip, SP!Skip, Sched!Start,
         SP!Start, Sched!VerifyOk, SP!VerifyOk, Sched!VerifyNoCname,
         SP!VerifyNoCname, Sched!VerifyFails, SP!VerifyFails,
         Sched!MarkIssuing, SP!MarkIssuing, Sched!ObtainOk, SP!ObtainOk,
         Sched!ObtainFails, SP!ObtainFails, Sched!SaveIssued, SP!SaveIssued,
         Sched!Activate, SP!Activate, Sched!Renew, SP!Renew, Sched!NewDomain,
         SP!NewDomain, Sched!Bind, SP!Bind, Sched!AddCname, SP!AddCname,
         Sched!RemoveCname, SP!RemoveCname, Sched!Finish, SP!Finish,
         Sched!RecordNoCname, SP!RecordNoCname, Sched!RecordFailure,
         SP!RecordFailure, Sched!SetStatus, SP!SetStatus, Sched!CreateDomain,
         SP!CreateDomain, Sched!SaveCert, SP!SaveCert, Sched!SetClientDomains,
         SP!SetClientDomains, Sched!Spend, SP!Spend, Sched!Outage, SP!Outage,
         Sched!Outcomes, SP!Outcomes, Sched!AnyOutcome, SP!AnyOutcome,
         Sched!TrueOutcome, SP!TrueOutcome, Sched!Verify, SP!Verify,
         Sched!knownCname, SP!knownCname, Sched!attempts, SP!attempts,
         Sched!askedAt, SP!askedAt, Sched!CnameAnswer, SP!CnameAnswer,
         Sched!backoff, SP!backoff, Sched!shifted, SP!shifted, Sched!Ready,
         SP!Ready, Sched!needsRenewal, SP!needsRenewal, Sched!Latest, SP!Latest, Sched!LatestSerial,
         SP!LatestSerial, Sched!Exists, SP!Exists, Sched!Served, SP!Served,
         Sched!storeVars, SP!storeVars, Sched!passVars, SP!passVars,
         Sched!history, SP!history
<1>3. Sched!vars = SP!vars
  BY DEF Sched!vars, SP!vars, Sched!storeVars, SP!storeVars, Sched!passVars,
         SP!passVars, Sched!history, SP!history
<1> QED
  BY <1>1, <1>2, <1>3

LEMMA SameApi == (Api!Init <=> AP!Init) /\ (Api!ApiStep <=> AP!ApiStep) /\ Api!vars = AP!vars
<1>1. Api!Init <=> AP!Init
  BY DEF Api!Init, AP!Init, Api!StoreInit, AP!StoreInit, Api!Idle, AP!Idle
<1>2. Api!ApiStep <=> AP!ApiStep
  BY DEF Api!ApiStep, AP!ApiStep, Api!BeginAny, AP!BeginAny, Api!Handle,
         AP!Handle, Api!Administer, AP!Administer, Api!Begin, AP!Begin,
         Api!ClaimExisting, AP!ClaimExisting, Api!ClaimConflict,
         AP!ClaimConflict, Api!ClaimNew, AP!ClaimNew, Api!Register,
         AP!Register, Api!Create, AP!Create, Api!CreateLost, AP!CreateLost,
         Api!ReadCert, AP!ReadCert, Api!Commit, AP!Commit, Api!Return,
         AP!Return, Api!Fail, AP!Fail, Api!Enroll, AP!Enroll, Api!Revoke,
         AP!Revoke, Api!Idle, AP!Idle, Api!Identity, AP!Identity,
         Api!LastSaved, AP!LastSaved, Api!Latest, AP!Latest, Api!LatestSerial,
         AP!LatestSerial, Api!Exists, AP!Exists, Api!CreateDomain,
         AP!CreateDomain, Api!SetClientDomains, AP!SetClientDomains,
         Api!storeVars, AP!storeVars, Api!apiVars, AP!apiVars
<1>3. Api!vars = AP!vars
  BY DEF Api!vars, AP!vars, Api!storeVars, AP!storeVars, Api!apiVars,
         AP!apiVars
<1> QED
  BY <1>1, <1>2, <1>3

LEMMA Assumptions ==
    /\ SP!StoreAssumption /\ SP!PrecheckAssumption
    /\ SP!SchedulerAssumption /\ SP!ShiftAssumption
    /\ AP!StoreAssumption /\ AP!ApiAssumption
<1>1. /\ Sched!StoreAssumption /\ Sched!PrecheckAssumption
      /\ Sched!SchedulerAssumption /\ Sched!ShiftAssumption
  BY CentreAssumption
<1>2. SP!StoreAssumption /\ AP!StoreAssumption
  BY <1>1 DEF Sched!StoreAssumption, SP!StoreAssumption, AP!StoreAssumption,
              Sched!Row, SP!Row, AP!Row, Sched!Status, SP!Status, AP!Status
<1>3. SP!PrecheckAssumption
  BY <1>1 DEF Sched!PrecheckAssumption, SP!PrecheckAssumption
<1>4. SP!SchedulerAssumption
  BY <1>1 DEF Sched!SchedulerAssumption, SP!SchedulerAssumption,
              Sched!Disturbance, SP!Disturbance
<1>5. SP!ShiftAssumption
  BY <1>1 DEF Sched!ShiftAssumption, SP!ShiftAssumption, Sched!shifted, SP!shifted
<1>6. Api!ApiAssumption
  BY CentreAssumption
<1>7. AP!ApiAssumption
  <2>1. Client # {} /\ Domain # {} /\ NoItem \notin AP!Item
    BY <1>6 DEF Api!ApiAssumption, Api!Item, AP!Item
  <2>2. Sched!Cert \subseteq AP!Cert /\ Sched!Status \subseteq AP!Status
    BY DEF Sched!Cert, AP!Cert, Sched!Status, AP!Status
  <2> QED
    BY <2>1, <2>2 DEF AP!ApiAssumption
<1> QED
  BY <1>2, <1>3, <1>4, <1>5, <1>7

LEMMA SchedulerInit == Sched!Init => SP!IInv
BY SP!InitIInv, SameScheduler, Assumptions

LEMMA SchedulerKept == SP!IInv /\ [Sched!Next]_(Sched!vars) => SP!IInv'
<1>1. [Sched!Next]_(Sched!vars) => [SP!Next]_(SP!vars)
  BY SameScheduler
     DEF Sched!vars, SP!vars, Sched!storeVars, SP!storeVars, Sched!passVars, SP!passVars,
         Sched!history, SP!history
<1> QED
  BY <1>1, SP!NextIInv, Assumptions

LEMMA ApiInit == Api!Init => AP!IInv
BY AP!InitIInv, SameApi, Assumptions

LEMMA ApiKept == AP!IInv /\ [AP!Next]_(AP!vars) => AP!IInv'
BY AP!NextIInv, Assumptions

-----------------------------------------------------------------------------
(* The API is an environment the scheduler allows.                         *)

\* The flags that requests ask for are flags a proxy may ask for.
FlagsAsked == \A r \in Slot : \A d \in req[r].names : (d \in req[r].wild) \in Wildcards

\* What the types of the API's module say of its requests.
LEMMA Requests ==
    ASSUME AP!IInv, NEW r \in Slot
    PROVE  /\ req \in [Slot -> AP!Request] /\ req[r] \in AP!Request
           /\ req[r].client \in Client /\ req[r].names \in SUBSET Domain
           /\ req[r].phase \in {"register", "create", "latest"}
                => req[r].dom \in req[r].names /\ req[r].dom \in Domain
           /\ req[r].phase = "create" => req[r].account \in Account
BY DEF AP!IInv, AP!TypeOK, AP!RequestsOK, AP!ClaimOK, AP!Request

\* A step of the API writes nothing, or creates a row as a proxy asked, or
\* replaces the bindings of one proxy.
LEMMA ApiWrites ==
    ASSUME AP!IInv, FlagsAsked, Api!ApiStep \/ \E c \in Client : Api!Revoke(c)
    PROVE  \/ UNCHANGED <<domains, certs, domainClients>>
           \/ \E d \in Domain, w \in Wildcards, a \in Account : Sched!CreateDomain(d, w, a)
           \/ \E c \in Client, names \in SUBSET Domain : Sched!SetClientDomains(c, names)
<1>1. ASSUME NEW r \in Slot, Api!BeginAny(r) \/ Api!Fail(r)
      PROVE  UNCHANGED <<domains, certs, domainClients>>
  BY <1>1 DEF Api!BeginAny, Api!Begin, Api!Fail, Api!storeVars
<1>2. ASSUME NEW r \in Slot, Api!Create(r)
      PROVE  \E d \in Domain, w \in Wildcards, a \in Account : Sched!CreateDomain(d, w, a)
  <2>1. /\ req[r].dom \in Domain /\ req[r].dom \in req[r].names
        /\ req[r].account \in Account
    BY <1>2, Requests DEF Api!Create
  <2>2. (req[r].dom \in req[r].wild) \in Wildcards
    BY <2>1, Zenon DEF FlagsAsked
  <2>3. Sched!CreateDomain(req[r].dom, req[r].dom \in req[r].wild, req[r].account)
    BY <1>2, Zenon DEF Api!Create, Api!CreateDomain, Sched!CreateDomain, Api!Exists, Sched!Exists
  <2> QED
    BY <2>1, <2>2, <2>3, Zenon
<1>3. ASSUME NEW r \in Slot, Api!Commit(r)
      PROVE  \E c \in Client, names \in SUBSET Domain : Sched!SetClientDomains(c, names)
  <2>1. req[r].client \in Client /\ req[r].names \in SUBSET Domain
    BY Requests
  <2>2. Sched!SetClientDomains(req[r].client, req[r].names)
    BY <1>3 DEF Api!Commit, Api!SetClientDomains, Sched!SetClientDomains, Api!Exists, Sched!Exists
  <2> QED
    BY <2>1, <2>2
<1>4. ASSUME NEW r \in Slot, Api!Handle(r), ~Api!Create(r), ~Api!Commit(r)
      PROVE  UNCHANGED <<domains, certs, domainClients>>
  BY <1>4 DEF Api!Handle, Api!ClaimExisting, Api!ClaimConflict, Api!ClaimNew, Api!Register,
              Api!CreateLost, Api!ReadCert, Api!Return, Api!storeVars
<1>5. ASSUME NEW c \in Client, Api!Enroll(c)
      PROVE  UNCHANGED <<domains, certs, domainClients>>
  BY <1>5 DEF Api!Enroll, Api!storeVars
<1>6. ASSUME NEW c \in Client, Api!Revoke(c)
      PROVE  Sched!SetClientDomains(c, {})
  <2>1. {d \in {} : Sched!Exists(d)} = {}
    OBVIOUS
  <2> QED
    BY <1>6, <2>1 DEF Api!Revoke, Sched!SetClientDomains
<1> QED
  BY <1>1, <1>2, <1>3, <1>4, <1>5, <1>6 DEF Api!ApiStep, Api!Administer

LEMMA ApiIsEnvironment ==
    ASSUME AP!IInv, FlagsAsked, ApiStep
    PROVE  [Sched!Next]_(Sched!vars)
<1> USE DEF Sched!vars, Sched!storeVars, Sched!passVars, Sched!history
<1>1. /\ UNCHANGED <<now, ticked, cname, Sched!passVars, orders, asked>>
      /\ IF Sched!Served \subseteq Sched!Served' THEN left' = left ELSE Sched!Spend("unbind", 1)
      /\ disturbed' = disturbed \cup (Sched!Served \ Sched!Served')
  BY DEF ApiStep, schedulerOnly
<1>2. ASSUME UNCHANGED <<domains, certs, domainClients>>
      PROVE  UNCHANGED Sched!vars
  <2>1. Sched!Served' = Sched!Served
    BY <1>2 DEF Sched!Served, Sched!Exists
  <2> QED
    BY <1>1, <1>2, <2>1
<1>3. ASSUME NEW d \in Domain, NEW w \in Wildcards, NEW a \in Account, Sched!CreateDomain(d, w, a)
      PROVE  Sched!NewDomain(d)
  <2>1. Sched!Served \subseteq Sched!Served'
    <3>1. DOMAIN domains = Domain
      BY DEF AP!IInv, AP!TypeOK, AP!StoreTypeOK
    <3> QED
      BY <1>3, <3>1 DEF Sched!CreateDomain, Sched!Served, Sched!Exists
  <2>2. disturbed' = disturbed /\ left' = left
    BY <1>1, <2>1
  <2> QED
    BY <1>1, <1>3, <2>2 DEF Sched!NewDomain
<1>4. ASSUME NEW c \in Client, NEW names \in SUBSET Domain, Sched!SetClientDomains(c, names)
      PROVE  Sched!Bind(c, names) \/ UNCHANGED Sched!vars
  <2>1. CASE domainClients' = domainClients
    BY <1>2, <1>4, <2>1 DEF Sched!SetClientDomains
  <2>2. CASE domainClients' # domainClients
    BY <1>1, <1>4, <2>2 DEF Sched!Bind
  <2> QED
    BY <2>1, <2>2
<1>5. Api!ApiStep \/ \E c \in Client : Api!Revoke(c)
  BY DEF ApiStep
<1> QED
  BY <1>2, <1>3, <1>4, <1>5, ApiWrites DEF Sched!Next, Sched!Environment

LEMMA FlagsKept == AP!IInv /\ FlagsAsked /\ [Next]_vars => FlagsAsked'
<1> SUFFICES ASSUME AP!IInv, FlagsAsked, [Next]_vars, NEW s \in Slot
             PROVE  \A d \in req'[s].names : (d \in req'[s].wild) \in Wildcards
  BY DEF FlagsAsked
<1>1. req \in [Slot -> AP!Request] /\ req[s] \in AP!Request
  BY Requests
<1>2. Api!Idle.names = {}
  BY DEF Api!Idle
<1>3. ASSUME req'[s].names = req[s].names, req'[s].wild = req[s].wild
      PROVE  \A d \in req'[s].names : (d \in req'[s].wild) \in Wildcards
  BY <1>3, Zenon DEF FlagsAsked
<1>4. CASE UNCHANGED req
  BY <1>3, <1>4
<1>5. CASE Down
  <2>1. req'[s].names = {}
    BY <1>2, <1>5 DEF Down
  <2> QED
    BY <2>1
<1>6. ASSUME NEW r \in Slot, Api!BeginAny(r)
      PROVE  \A d \in req'[s].names : (d \in req'[s].wild) \in Wildcards
  <2>0. PICK c \in Client, names \in SUBSET Domain : \E wild \in SUBSET names :
               (\A d \in names : (d \in wild) \in Wildcards) /\ Api!Begin(r, c, names, wild)
    BY <1>6, Zenon DEF Api!BeginAny
  <2>1. PICK wild \in SUBSET names :
               (\A d \in names : (d \in wild) \in Wildcards) /\ Api!Begin(r, c, names, wild)
    BY <2>0, Zenon
  <2>2. CASE s # r
    BY <1>1, <1>3, <2>1, <2>2 DEF Api!Begin
  <2>3. CASE s = r
    <3>1. req'[s].names = names /\ req'[s].wild = wild
      BY <1>1, <2>1, <2>3 DEF Api!Begin, Api!Idle
    <3> QED
      BY <2>1, <3>1, Zenon
  <2> QED
    BY <2>2, <2>3
<1>7. ASSUME NEW r \in Slot, Api!Handle(r) \/ Api!Fail(r)
      PROVE  \A d \in req'[s].names : (d \in req'[s].wild) \in Wildcards
  <2>1. \/ req'[s].names = {}
        \/ req'[s].names = req[s].names /\ req'[s].wild = req[s].wild
    <3>1. CASE s # r
      BY <1>1, <1>7, <3>1
         DEF Api!Handle, Api!ClaimExisting, Api!ClaimConflict, Api!ClaimNew, Api!Register,
             Api!Create, Api!CreateLost, Api!ReadCert, Api!Commit, Api!Return, Api!Fail
    <3>2. CASE s = r
      <4>1. CASE Api!Fail(r) \/ Api!Return(r) \/ \E d \in Domain : Api!ClaimConflict(r, d)
        BY <1>1, <1>2, <3>2, <4>1 DEF Api!Fail, Api!Return, Api!ClaimConflict
      <4>2. CASE \E d \in Domain : Api!ClaimExisting(r, d) \/ Api!ClaimNew(r, d)
        BY <1>1, <3>2, <4>2 DEF Api!ClaimExisting, Api!ClaimNew, AP!Request
      <4>3. CASE Api!Register(r) \/ Api!Commit(r)
        BY <1>1, <3>2, <4>3 DEF Api!Register, Api!Commit, AP!Request
      <4>4. CASE Api!Create(r) \/ Api!CreateLost(r)
        BY <1>1, <3>2, <4>4 DEF Api!Create, Api!CreateLost, AP!Request
      <4>5. CASE Api!ReadCert(r)
        <5>1. PICK serial \in {Api!LatestSerial(req[r].dom), 0} :
                 req' = [req EXCEPT
                    ![r].phase = IF req[r].todo \ {req[r].dom} = {} THEN "commit" ELSE "claim",
                    ![r].todo = req[r].todo \ {req[r].dom},
                    ![r].row = NoRow,
                    ![r].answer = [@ EXCEPT ![req[r].dom] =
                        [account |-> req[r].row.account, wildcard |-> req[r].row.wildcard,
                         serial |-> serial]]]
          BY <4>5, Zenon DEF Api!ReadCert
        <5> DEFINE next == IF req[r].todo \ {req[r].dom} = {} THEN "commit" ELSE "claim"
                   rest == req[r].todo \ {req[r].dom}
                   answer == [req[r].answer EXCEPT ![req[r].dom] =
                        [account |-> req[r].row.account, wildcard |-> req[r].row.wildcard,
                         serial |-> serial]]
        <5>2. req' = [req EXCEPT ![r].phase = next, ![r].todo = rest,
                                 ![r].row = NoRow, ![r].answer = answer]
          BY <5>1, Zenon
        <5> HIDE DEF next, rest, answer
        <5> QED
          BY <1>1, <3>2, <5>2 DEF AP!Request
      <4> QED
        BY <1>7, <4>1, <4>2, <4>3, <4>4, <4>5 DEF Api!Handle
    <3> QED
      BY <3>1, <3>2
  <2> QED
    BY <1>3, <2>1
<1>8. CASE ApiStep
  BY <1>4, <1>6, <1>7, <1>8 DEF ApiStep, Api!ApiStep, Api!Administer, Api!Enroll, Api!Revoke
<1>9. CASE Starting \/ SchedulerStep \/ UNCHANGED vars
  BY <1>4, <1>9 DEF Starting, SchedulerStep, vars, apiOnly
<1> QED
  BY <1>5, <1>8, <1>9 DEF Next

-----------------------------------------------------------------------------
(* The scheduler is an environment the API allows.                         *)

\* What the scheduler's invariant says of the domain it works on.
LEMMA Working ==
    ASSUME SP!IInv, pc \notin {"idle", "pass"}
    PROVE  /\ cur \in Domain /\ AP!Exists(cur)
           /\ snap[cur].failCount \in Nat /\ at \in Nat
<1>1. cur \in Domain /\ SP!Exists(cur) /\ snap[cur].failCount \in Nat
  BY SP!CopyIsRow, Assumptions DEF SP!IInv
<1>2. at \in Nat
  BY DEF SP!IInv, SP!TypeOK
<1> QED
  BY <1>1, <1>2 DEF SP!Exists, AP!Exists

\* Statuses are written to rows that exist.
StatusWritten ==
    \E d \in Domain, s \in Sched!Status, n \in Nat, t \in Nat :
        AP!Exists(d) /\ AP!SetStatus(d, s, n, t)

LEMMA FailureWrites ==
    ASSUME SP!IInv, pc \notin {"idle", "pass"}, NEW failed \in Nat, Sched!RecordFailure(failed)
    PROVE  UNCHANGED <<domains, certs, domainClients>> \/ StatusWritten
<1> DEFINE n == snap[cur].failCount + 1
           t == at + Sched!backoff(n)
<1>1. cur \in Domain /\ AP!Exists(cur) /\ snap[cur].failCount \in Nat /\ at \in Nat
  BY Working
<1>2. n \in Nat /\ n >= 1
  BY <1>1
<1> HIDE DEF n
<1>3. Sched!backoff(n) \in 1 .. BackoffLimit
  <2>1. SP!backoff(n) \in 1 .. BackoffLimit
    BY <1>2, SP!BackoffBounds, Assumptions
  <2> QED
    BY <2>1 DEF SP!backoff, Sched!backoff, SP!shifted, Sched!shifted
<1>4. t \in Nat
  BY <1>1, <1>3
<1> HIDE DEF t
<1>5. Sched!SetStatus(cur, "error", n, t) \/ UNCHANGED <<domains, certs, domainClients>>
  BY DEF Sched!RecordFailure, Sched!storeVars, n, t
<1>6. ASSUME Sched!SetStatus(cur, "error", n, t) PROVE StatusWritten
  <2>1. AP!SetStatus(cur, "error", n, t) /\ "error" \in Sched!Status
    BY <1>6 DEF Sched!SetStatus, AP!SetStatus, Sched!Status
  <2> QED
    BY <1>1, <1>2, <1>4, <2>1 DEF StatusWritten
<1> QED
  BY <1>5, <1>6

LEMMA StatusWrites ==
    ASSUME NEW d \in Domain, AP!Exists(d), NEW s \in Sched!Status, NEW n \in Nat,
           Sched!SetStatus(d, s, n, 0)
    PROVE  StatusWritten
<1>1. AP!SetStatus(d, s, n, 0)
  BY DEF Sched!SetStatus, AP!SetStatus
<1> QED
  BY <1>1 DEF StatusWritten

\* Certificates are saved in the order in which the CA issued them.
CertWritten ==
    \E d \in Domain, cert \in Sched!Cert :
        /\ AP!Exists(d)
        /\ \A i \in DOMAIN certs[d] :
             cert.serial > certs[d][i].serial /\ cert.issuedAt >= certs[d][i].issuedAt
        /\ AP!SaveCert(d, cert)

LEMMA SaveWrites ==
    ASSUME SP!IInv, pc = "save",
           Sched!SaveCert(cur, [serial |-> got.serial, notAfter |-> got.notAfter, issuedAt |-> now])
    PROVE  CertWritten
<1> DEFINE new == [serial |-> got.serial, notAfter |-> got.notAfter, issuedAt |-> now]
<1>1. cur \in Domain /\ AP!Exists(cur)
  BY Working
<1>2. new \in Sched!Cert /\ new.serial = got.serial /\ new.issuedAt = now
  BY DEF SP!IInv, SP!TypeOK, Sched!Cert
<1>3. /\ SP!StoreTypeOK /\ SP!InHand /\ SP!NotAhead
      /\ got.serial \in Nat /\ now \in Nat
  BY DEF SP!IInv, SP!TypeOK, SP!CertsOK
<1>4. /\ DOMAIN certs[cur] = 1 .. Len(certs[cur])
      /\ \A i \in DOMAIN certs[cur] : certs[cur][i].serial \in Nat /\ certs[cur][i].issuedAt \in Nat
  BY <1>1, <1>3, SP!CertType, Assumptions
<1>5. AP!SaveCert(cur, new)
  BY DEF Sched!SaveCert, AP!SaveCert
<1> HIDE DEF new
<1>6. \A i \in DOMAIN certs[cur] :
        new.serial > certs[cur][i].serial /\ new.issuedAt >= certs[cur][i].issuedAt
  BY <1>1, <1>2, <1>3, <1>4 DEF SP!InHand, SP!NotAhead
<1> QED
  BY <1>1, <1>2, <1>5, <1>6 DEF CertWritten

LEMMA SchedulerWrites ==
    ASSUME SP!IInv,
           \/ Sched!Work \/ Sched!AdvanceTime \/ Sched!Crash \/ Sched!Stop
           \/ \E d \in Domain : Sched!Renew(d) \/ Sched!AddCname(d) \/ Sched!RemoveCname(d)
    PROVE  UNCHANGED <<domains, certs, domainClients>> \/ StatusWritten \/ CertWritten
<1> DEFINE Goal == UNCHANGED <<domains, certs, domainClients>> \/ StatusWritten \/ CertWritten
<1> USE DEF Sched!storeVars
<1>1. ASSUME \/ Sched!Tick \/ Sched!EndPass \/ (\E d \in Domain : Sched!Skip(d) \/ Sched!Start(d))
             \/ Sched!VerifyOk \/ Sched!ObtainOk \/ Sched!AdvanceTime
             \/ Sched!Crash \/ Sched!Stop
             \/ \E d \in Domain : Sched!AddCname(d) \/ Sched!RemoveCname(d)
      PROVE  UNCHANGED <<domains, certs, domainClients>>
  BY <1>1 DEF Sched!Tick, Sched!EndPass, Sched!Skip, Sched!Start, Sched!VerifyOk, Sched!ObtainOk,
              Sched!AdvanceTime, Sched!Crash, Sched!Stop, Sched!Restart, Sched!AddCname,
              Sched!RemoveCname
<1>2. ASSUME Sched!VerifyNoCname PROVE Goal
  <2>1. cur \in Domain /\ AP!Exists(cur)
    BY <1>2, Working DEF Sched!VerifyNoCname
  <2>2. CASE UNCHANGED <<domains, certs, domainClients>>
    BY <2>2
  <2>3. CASE Sched!SetStatus(cur, "pending_cname", 0, 0)
    BY <2>1, <2>3, StatusWrites DEF Sched!Status
  <2> QED
    BY <1>2, <2>2, <2>3 DEF Sched!VerifyNoCname, Sched!RecordNoCname
<1>3. ASSUME Sched!VerifyFails \/ Sched!ObtainFails PROVE Goal
  <2>1. pc \notin {"idle", "pass"} /\ Sched!RecordFailure(0)
    BY <1>3 DEF Sched!VerifyFails, Sched!ObtainFails
  <2> QED
    BY <2>1, FailureWrites
<1>4. ASSUME pc \notin {"idle", "pass"}, Sched!RecordFailure(1) PROVE Goal
  BY <1>4, FailureWrites
<1>5. ASSUME Sched!MarkIssuing PROVE Goal
  <2>1. cur \in Domain /\ AP!Exists(cur) /\ snap[cur].failCount \in Nat
    BY <1>5, Working DEF Sched!MarkIssuing
  <2>2. CASE Sched!SetStatus(cur, "issuing", snap[cur].failCount, 0)
    BY <2>1, <2>2, StatusWrites DEF Sched!Status
  <2> QED
    BY <1>4, <1>5, <2>2 DEF Sched!MarkIssuing
<1>6. ASSUME Sched!SaveIssued PROVE Goal
  BY <1>4, <1>6, SaveWrites DEF Sched!SaveIssued
<1>7. ASSUME Sched!Activate PROVE Goal
  <2>1. cur \in Domain /\ AP!Exists(cur)
    BY <1>7, Working DEF Sched!Activate
  <2>2. CASE Sched!SetStatus(cur, "active", 0, 0)
    BY <2>1, <2>2, StatusWrites DEF Sched!Status
  <2> QED
    BY <1>4, <1>7, <2>2 DEF Sched!Activate
<1>8. ASSUME NEW d \in Domain, Sched!Renew(d) PROVE Goal
  <2>1. AP!Exists(d) /\ Sched!SetStatus(d, "pending_cname", 0, 0)
    BY <1>8 DEF Sched!Renew, Sched!Exists, AP!Exists
  <2> QED
    BY <2>1, StatusWrites DEF Sched!Status
<1> QED
  BY <1>1, <1>2, <1>3, <1>5, <1>6, <1>7, <1>8 DEF Sched!Work

LEMMA SchedulerIsEnvironment ==
    ASSUME SP!IInv, SchedulerStep
    PROVE  [AP!Next]_(AP!vars)
<1>1. UNCHANGED <<clients, registered, req>>
  BY DEF SchedulerStep, apiOnly
<1>2. UNCHANGED <<domains, certs, domainClients>> \/ StatusWritten \/ CertWritten
  BY SchedulerWrites DEF SchedulerStep
<1>3. CASE UNCHANGED <<domains, certs, domainClients>>
  BY <1>1, <1>3 DEF AP!vars, AP!storeVars, AP!apiVars
<1>4. CASE StatusWritten
  BY <1>1, <1>4 DEF StatusWritten, AP!Next, AP!WriteStatus, AP!apiVars
<1>5. CASE CertWritten
  BY <1>1, <1>5 DEF CertWritten, AP!Next, AP!WriteCert, AP!apiVars
<1> QED
  BY <1>2, <1>3, <1>4, <1>5

-----------------------------------------------------------------------------
(* The whole centre.                                                       *)

\* Each component's own invariant, and the flags.
CentreInv == SP!IInv /\ AP!IInv /\ FlagsAsked

\* Every step of the centre is one that the scheduler's module allows ...
LEMMA StepOfScheduler == CentreInv /\ [Next]_vars => [Sched!Next]_(Sched!vars)
<1> SUFFICES ASSUME CentreInv, [Next]_vars PROVE [Sched!Next]_(Sched!vars)
  OBVIOUS
<1>1. CASE ApiStep
  BY <1>1, ApiIsEnvironment DEF CentreInv
<1>2. CASE SchedulerStep
  BY <1>2 DEF SchedulerStep, Sched!Next, Sched!Environment
<1>3. CASE Down
  BY <1>3 DEF Down, Sched!Next
<1>4. CASE Starting \/ UNCHANGED vars
  BY <1>4 DEF Starting, vars, schedulerOnly, Sched!vars, Sched!storeVars, Sched!passVars,
              Sched!history
<1> QED
  BY <1>1, <1>2, <1>3, <1>4 DEF Next

\* ... and one that the API's module allows.
LEMMA StepOfApi == CentreInv /\ [Next]_vars => [AP!Next]_(AP!vars)
<1> SUFFICES ASSUME CentreInv, [Next]_vars PROVE [AP!Next]_(AP!vars)
  OBVIOUS
<1>1. CASE ApiStep
  <2>1. CASE Api!ApiStep
    BY <2>1, SameApi DEF AP!Next
  <2>2. CASE \E c \in Client : Api!Revoke(c)
    <3>1. Api!ApiStep
      BY <2>2 DEF Api!ApiStep, Api!Administer
    <3> QED
      BY <3>1, SameApi DEF AP!Next
  <2> QED
    BY <1>1, <2>1, <2>2 DEF ApiStep
<1>2. CASE SchedulerStep
  BY <1>2, SchedulerIsEnvironment DEF CentreInv
<1>3. CASE Down
  <2>1. UNCHANGED <<domains, certs, domainClients>>
    BY <1>3 DEF Down, Sched!Crash, Sched!Stop, Sched!Restart, Sched!storeVars
  <2>2. req' = [r \in Slot |-> AP!Idle]
    BY <1>3 DEF Down, Api!Idle, AP!Idle
  <2> QED
    BY <1>3, <2>1, <2>2 DEF Down, AP!Next, AP!Crash, AP!storeVars
<1>4. CASE Starting \/ UNCHANGED vars
  BY <1>4 DEF Starting, vars, apiOnly, AP!vars, AP!storeVars, AP!apiVars
<1> QED
  BY <1>1, <1>2, <1>3, <1>4 DEF Next

\* The invariant of the centre is its components': neither disturbs the other's.
THEOREM InductiveInvariant == Spec => []CentreInv
<1>1. Init => CentreInv
  <2> SUFFICES ASSUME Init PROVE CentreInv
    OBVIOUS
  <2>1. SP!IInv /\ AP!IInv
    BY SchedulerInit, ApiInit DEF Init
  <2>2. FlagsAsked
    BY DEF Init, Api!Init, Api!Idle, FlagsAsked
  <2> QED
    BY <2>1, <2>2 DEF CentreInv
<1>2. CentreInv /\ [Next]_vars => CentreInv'
  BY StepOfScheduler, StepOfApi, SchedulerKept, ApiKept, FlagsKept DEF CentreInv
<1> QED
  BY <1>1, <1>2, PTL DEF Spec

\* The centre implements the scheduler's specification, with any number of
\* requests: all the API does to the database is what the scheduler's
\* environment may do (scheduler.go:51-80 beside http.go:173-225).
THEOREM CentreImplementsScheduler == Spec => ImplementsScheduler
<1>1. Init => Sched!Init
  BY DEF Init
<1> QED
  BY <1>1, InductiveInvariant, StepOfScheduler, PTL DEF Spec, ImplementsScheduler, Sched!Spec

\* What bounds the scheduler's writes in a run of the API's module is no bound.
AllWritten ==
    /\ Sched!Cert \subseteq Certs /\ Sched!Status \subseteq Statuses
    /\ Nat \subseteq FailCounts /\ Nat \subseteq RetryTimes

\* The centre implements the API's specification: all the scheduler and the
\* commands do to the database is what the API's environment may do, and the
\* scheduler saves certificates in the order in which the CA issued them
\* (scheduler.go:134-146).
THEOREM CentreImplementsApi == AllWritten => (Spec => ImplementsApi)
<1> SUFFICES ASSUME AllWritten PROVE Spec => ImplementsApi
  OBVIOUS
<1>1. Init => Api!Init
  BY DEF Init
<1>2. Certs = Sched!Cert /\ Statuses = Sched!Status /\ FailCounts = Nat /\ RetryTimes = Nat
  <2>1. Api!ApiAssumption
    BY CentreAssumption
  <2>2. Certs \subseteq Sched!Cert /\ Statuses \subseteq Sched!Status
    BY <2>1 DEF Api!ApiAssumption, Api!Cert, Sched!Cert, Api!Status, Sched!Status
  <2>3. FailCounts \subseteq Nat /\ RetryTimes \subseteq Nat
    BY <2>1 DEF Api!ApiAssumption
  <2> QED
    BY <2>2, <2>3 DEF AllWritten
<1>3. [AP!Next]_(AP!vars) => [Api!Next]_(Api!vars)
  <2>1. AP!Crash => Api!Crash
    BY DEF AP!Crash, Api!Crash, AP!Idle, Api!Idle, AP!storeVars, Api!storeVars
  <2>2. ASSUME NEW d \in Domain, AP!WriteStatus(d) PROVE Api!WriteStatus(d)
    <3>1. PICK s \in Sched!Status, n \in Nat, t \in Nat : AP!SetStatus(d, s, n, t)
      BY <2>2 DEF AP!WriteStatus
    <3>2. Api!SetStatus(d, s, n, t) /\ s \in Statuses /\ n \in FailCounts /\ t \in RetryTimes
      BY <1>2, <3>1 DEF AP!SetStatus, Api!SetStatus
    <3>3. Api!Exists(d) /\ UNCHANGED Api!apiVars
      BY <2>2 DEF AP!WriteStatus, AP!Exists, Api!Exists, AP!apiVars, Api!apiVars
    <3> QED
      BY <3>2, <3>3 DEF Api!WriteStatus
  <2>3. ASSUME NEW d \in Domain, AP!WriteCert(d) PROVE Api!WriteCert(d)
    <3>1. PICK cert \in Sched!Cert :
            /\ \A i \in DOMAIN certs[d] :
                 cert.serial > certs[d][i].serial /\ cert.issuedAt >= certs[d][i].issuedAt
            /\ AP!SaveCert(d, cert)
      BY <2>3 DEF AP!WriteCert
    <3>2. Api!SaveCert(d, cert) /\ cert \in Certs
      BY <1>2, <3>1 DEF AP!SaveCert, Api!SaveCert
    <3>3. Api!Exists(d) /\ UNCHANGED Api!apiVars
      BY <2>3 DEF AP!WriteCert, AP!Exists, Api!Exists, AP!apiVars, Api!apiVars
    <3> QED
      BY <3>1, <3>2, <3>3 DEF Api!WriteCert
  <2>4. AP!Next => Api!Next
    BY <2>1, <2>2, <2>3, SameApi DEF AP!Next, Api!Next
  <2> QED
    BY <2>4 DEF AP!vars, Api!vars, AP!storeVars, Api!storeVars, AP!apiVars, Api!apiVars
<1> QED
  BY <1>1, <1>3, InductiveInvariant, StepOfApi, PTL DEF Spec, ImplementsApi, Api!Spec

LEMMA OrdersGrow ==
    ASSUME CentreInv, [Next]_vars
    PROVE  orders \in Nat /\ orders' \in Nat /\ orders <= orders'
<1>1. orders \in Nat
  BY DEF CentreInv, SP!IInv, SP!TypeOK
<1>2. orders' = orders \/ orders' = orders + 1
  <2>1. CASE SchedulerStep
    <3>1. CASE Sched!Work
      BY <3>1 DEF Sched!Work, Sched!Tick, Sched!EndPass, Sched!Skip, Sched!Start, Sched!VerifyOk,
                  Sched!VerifyNoCname, Sched!VerifyFails, Sched!MarkIssuing, Sched!ObtainOk,
                  Sched!ObtainFails, Sched!SaveIssued, Sched!Activate
    <3>2. CASE \/ Sched!AdvanceTime
               \/ \E d \in Domain : Sched!Renew(d) \/ Sched!AddCname(d) \/ Sched!RemoveCname(d)
      BY <3>2 DEF Sched!AdvanceTime, Sched!Renew, Sched!AddCname, Sched!RemoveCname
    <3> QED
      BY <2>1, <3>1, <3>2 DEF SchedulerStep
  <2>2. CASE Down
    BY <2>2 DEF Down, Sched!Crash, Sched!Stop, Sched!Restart
  <2>3. CASE Starting \/ ApiStep \/ UNCHANGED vars
    BY <2>3 DEF Starting, ApiStep, vars, schedulerOnly
  <2> QED
    BY <2>1, <2>2, <2>3 DEF Next
<1> QED
  BY <1>1, <1>2

\* What the table's newest certificate is read as was ordered and is stored.
LEMMA ReadIsStored ==
    ASSUME CentreInv, NEW d \in Domain, AP!LatestSerial(d) # 0
    PROVE  /\ AP!LatestSerial(d) <= orders
           /\ \E i \in 1 .. Len(certs[d]) : certs[d][i].serial = AP!LatestSerial(d)
<1>1. /\ AP!StoreTypeOK /\ AP!InOrder /\ SP!NotAhead
  BY DEF CentreInv, AP!IInv, AP!TypeOK, AP!SerialsOK, SP!IInv, SP!CertsOK
<1>2. AP!LatestSerial(d) = AP!LastSaved(d)
  BY <1>1, AP!LatestIsLastSaved, Assumptions
<1>3. Len(certs[d]) \in Nat /\ certs[d] \in Seq(AP!Cert)
  BY <1>1, AP!CertType, Assumptions
<1>4. certs[d] # <<>> /\ AP!LatestSerial(d) = certs[d][Len(certs[d])].serial
  BY <1>2 DEF AP!LastSaved
<1>5. Len(certs[d]) \in 1 .. Len(certs[d])
  BY <1>3, <1>4
<1> QED
  BY <1>1, <1>4, <1>5 DEF SP!NotAhead

LEMMA FromCAStep == CentreInv /\ AnswerFromCA /\ [Next]_vars => AnswerFromCA'
<1> SUFFICES ASSUME CentreInv, AnswerFromCA, [Next]_vars, NEW r \in Slot, NEW d \in Domain,
                    req'[r].answer[d] # NoItem
             PROVE  /\ req'[r].answer[d].serial <= orders'
                    /\ req'[r].answer[d].serial # 0 =>
                         \E i \in DOMAIN certs'[d] : certs'[d][i].serial = req'[r].answer[d].serial
  BY DEF AnswerFromCA
<1> DEFINE old == req[r].answer[d].serial
           new == req'[r].answer[d].serial
<1>1. AP!IInv /\ AP!IInv' /\ [AP!Next]_(AP!vars)
  BY StepOfApi, ApiKept DEF CentreInv
<1>2. /\ Len(certs[d]) \in Nat /\ Len(certs'[d]) \in Nat /\ Len(certs[d]) <= Len(certs'[d])
      /\ \A i \in 1 .. Len(certs[d]) : certs'[d][i] = certs[d][i]
  BY <1>1, AP!CertsAdded, Assumptions
<1>3. DOMAIN certs[d] = 1 .. Len(certs[d])
  BY <1>1, AP!CertType, Assumptions DEF AP!IInv, AP!TypeOK
<1>4. DOMAIN certs'[d] = 1 .. Len(certs'[d])
  <2>1. certs'[d] \in Seq(AP!Cert)
    BY <1>1 DEF AP!IInv, AP!TypeOK, AP!StoreTypeOK
  <2> QED
    BY <2>1
<1>5. orders \in Nat /\ orders' \in Nat /\ orders <= orders'
  BY OrdersGrow
<1>6. ASSUME NEW n \in Nat, n <= orders,
             n # 0 => \E i \in 1 .. Len(certs[d]) : certs[d][i].serial = n
      PROVE  n <= orders' /\ (n # 0 => \E i \in DOMAIN certs'[d] : certs'[d][i].serial = n)
  BY <1>2, <1>4, <1>5, <1>6
<1>7. CASE req'[r].answer[d] = req[r].answer[d]
  <2>1. old \in Nat
    BY <1>1, <1>7 DEF AP!IInv, AP!TypeOK, AP!Request, AP!Item
  <2>2. old <= orders /\ (old # 0 => \E i \in 1 .. Len(certs[d]) : certs[d][i].serial = old)
    BY <1>3, <1>7 DEF AnswerFromCA
  <2> QED
    BY <1>6, <1>7, <2>1, <2>2
<1>8. CASE new \in {AP!LatestSerial(d), 0}
  <2>1. new \in Nat
    BY <1>1 DEF AP!IInv, AP!TypeOK, AP!Request, AP!Item
  <2>2. new <= orders /\ (new # 0 => \E i \in 1 .. Len(certs[d]) : certs[d][i].serial = new)
    BY <1>5, <1>8, ReadIsStored
  <2> QED
    BY <1>6, <2>1, <2>2
<1> QED
  BY <1>1, <1>7, <1>8, AP!ItemStep, Assumptions

\* No request tells a proxy of a certificate that the CA has not issued, nor of
\* one that is stored under another domain (syncDomain, http.go; scheduler.go:134).
THEOREM AnswersComeFromCA == Spec => []AnswerFromCA
<1>1. Init => AnswerFromCA
  <2>1. \A d \in Domain : Api!Idle.answer[d] = NoItem
    BY DEF Api!Idle
  <2> QED
    BY <2>1 DEF Init, Api!Init, AnswerFromCA
<1> QED
  BY <1>1, InductiveInvariant, FromCAStep, PTL DEF Spec

\* The certificate in an answer is no older than what the scheduler had saved
\* when the request came (http.go:268).
THEOREM AnswersAreFresh == Spec => []AnswerFresh
<1>1. CentreInv => AnswerFresh
  <2> SUFFICES ASSUME CentreInv, NEW r \in Slot, NEW d \in Domain,
                      req[r].answer[d] # NoItem, req[r].answer[d].serial # 0
               PROVE  req[r].answer[d].serial >= req[r].seen[d]
    BY DEF AnswerFresh, Api!AnswerFresh
  <2> QED
    BY DEF CentreInv, AP!IInv, AP!RequestsOK, AP!ItemsFresh
<1> QED
  BY <1>1, InductiveInvariant, PTL

=============================================================================
