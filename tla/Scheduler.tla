----------------------------- MODULE Scheduler -----------------------------
(***************************************************************************)
(* The centre's issuing scheduler (internal/server/scheduler.go) over the  *)
(* shared database, with what happens around it: proxies claim and drop    *)
(* domains through the API, a human configures the CNAME, the administrator*)
(* runs "leauth renew" in another process, the CA, acme-dns and the        *)
(* resolvers fail during an outage, a statement of the database fails, the *)
(* centre is killed or stopped at any step.                                *)
(*                                                                         *)
(* One pass reads the rows of all served domains once and then works on    *)
(* these copies, one domain after the other; every write of a status is    *)
(* computed from the copy.  The order of the pass (by name) is left open.  *)
(***************************************************************************)
EXTENDS Store, Precheck

CONSTANTS
    CertLife,       \* lifetime of an issued certificate
    RenewBefore,    \* RENEW_BEFORE
    BackoffBase,    \* five minutes
    BackoffLimit,   \* an hour
    Width,          \* bits of a time.Duration: 64
    MaxTime,        \* the clock stops here (bound)
    OutageFrom, OutageUntil,    \* the services around the centre fail in
                                \* OutageFrom .. OutageUntil - 1 only (bound)
    Budget,         \* how often each kind of disturbance happens (bound)
    CalmFrom        \* no disturbance begins at or after this time (bound)

VARIABLES
    now,        \* wall clock, in intervals of the ticker
    ticked,     \* the pass of the current interval has begun
    cname,      \* domains whose _acme-challenge CNAME points to their account
    pc,         \* where the scheduler's goroutine is
    cur,        \* the domain it works on
    at,         \* the time at which processDomain began
    snap,       \* the rows read by ListServedDomains and not yet processed
    got,        \* the certificate Obtain returned
    orders,     \* certificates the CA has issued; the last one's serial
    left        \* disturbances still to come

(* History, never read by an action. *)
VARIABLES
    asked,      \* the serial that was current at the last "leauth renew"
    disturbed   \* domains that lost their last proxy or their CNAME

passVars == <<pc, cur, at, snap, got>>
history == <<asked, disturbed>>
vars == <<storeVars, now, ticked, cname, passVars, orders, left, history>>

Disturbance == {"renew", "crash", "stop", "db", "cname", "unbind"}

ASSUME SchedulerAssumption ==
    /\ {CertLife, RenewBefore, BackoffBase, BackoffLimit, MaxTime,
      OutageFrom, OutageUntil, CalmFrom, Width} \subseteq Nat
    /\ 1 <= BackoffBase /\ BackoffBase <= BackoffLimit
    /\ Domain # {}
    /\ Budget \in [Disturbance -> Nat]

Spend(k, n) ==
    /\ left[k] >= n
    /\ n > 0 => now < CalmFrom
    /\ left' = [left EXCEPT ![k] = @ - n]

Outage == OutageFrom <= now /\ now < OutageUntil

TypeOK ==
    /\ StoreTypeOK
    /\ now \in Nat \ {0} /\ ticked \in BOOLEAN
    /\ cname \in SUBSET Domain
    /\ pc \in {"idle", "pass", "verify", "mark", "order", "save", "activate"}
    /\ cur \in Domain
    /\ at \in Nat
    /\ snap \in [Domain -> Row \cup {NoRow}]
    /\ got \in [serial : Nat, notAfter : Nat]
    /\ orders \in Nat
    /\ left \in [Disturbance -> Nat]
    /\ asked \in [Domain -> Nat]
    /\ disturbed \in SUBSET Domain

\* What the goroutine's variables hold between two passes.
IdlePass ==
    /\ pc = "idle"
    /\ cur = CHOOSE d \in Domain : TRUE
    /\ at = 0
    /\ snap = [d \in Domain |-> NoRow]
    /\ got = [serial |-> 0, notAfter |-> 0]

Init ==
    /\ StoreInit
    /\ now = 1 /\ ticked = FALSE
    /\ cname = {}
    /\ IdlePass
    /\ orders = 0
    /\ left = Budget
    /\ asked = [d \in Domain |-> 0]
    /\ disturbed = {}

-----------------------------------------------------------------------------
(* Decisions of one attempt.                                               *)

\* base << n as a signed number of Width bits: the upper bits are lost, the one
\* that is left on top is the sign, and a shift by Width leaves nothing.
shifted(n) ==
    IF n >= Width THEN 0
    ELSE ((BackoffBase * 2 ^ n + 2 ^ (Width - 1)) % (2 ^ Width)) - 2 ^ (Width - 1)

\* No shift of five minutes overflows into something shorter: what is within
\* the limit is not below the base.
ASSUME ShiftAssumption ==
    \A n \in 0 .. Width - 1 : shifted(n) \in 1 .. BackoffLimit => shifted(n) >= BackoffBase

\* Mutant of backoff: only what is above the limit is cut.
backoffUnguarded(failCount) ==
    IF failCount < 1 THEN BackoffBase
    ELSE IF shifted(failCount - 1) > BackoffLimit THEN BackoffLimit ELSE shifted(failCount - 1)

\* Five minutes, doubled after every failure, at most an hour; an hour also for
\* what has overflowed to zero or below.
backoff(failCount) ==
    IF failCount < 1 THEN BackoffBase
    ELSE IF shifted(failCount - 1) \in 1 .. BackoffLimit THEN shifted(failCount - 1)
    ELSE BackoffLimit

\* Mutant of Ready: After instead of !Before.
ReadyStrict(row) == row.retryAfter = 0 \/ now > row.retryAfter

\* now.Before(RetryAfter) does not hold.
Ready(row) == row.retryAfter = 0 \/ now >= row.retryAfter

\* An active domain without a certificate is issued again.
needsRenewal(d) == certs[d] # <<>> => now > Latest(d).notAfter - RenewBefore

\* The domain is left, the pass goes on with the next one.
Finish ==
    /\ pc' = "pass"
    /\ snap' = [snap EXCEPT ![cur] = NoRow]
    /\ cur' = CHOOSE d \in Domain : TRUE
    /\ at' = 0
    /\ got' = [serial |-> 0, notAfter |-> 0]

\* Mutant of RecordNoCname: a status that no reader of the table knows.
RecordNoCnameMisspelt ==
    /\ \/ SetStatus(cur, "pending", 0, 0) /\ UNCHANGED left
       \/ Spend("db", 1) /\ UNCHANGED storeVars
    /\ Finish

\* recordFailure for a missing CNAME: no backoff, checked at every tick.  The
\* write itself may fail and is then only logged.
RecordNoCname ==
    /\ \/ SetStatus(cur, "pending_cname", 0, 0) /\ UNCHANGED left
       \/ Spend("db", 1) /\ UNCHANGED storeVars
    /\ Finish

\* recordFailure for any other cause; the count and the copy's row are those
\* read at the start of the pass.  failed statements of the database led here.
RecordFailure(failed) ==
    /\ LET failCount == snap[cur].failCount + 1 IN
       \/ /\ SetStatus(cur, "error", failCount, at + backoff(failCount))
          /\ Spend("db", failed)
       \/ /\ Spend("db", failed + 1)
          /\ UNCHANGED storeVars
    /\ Finish

-----------------------------------------------------------------------------
(* The scheduler's goroutine.                                              *)

\* ListServedDomains; an error skips the whole pass.
Tick ==
    /\ pc = "idle" /\ ~ticked
    /\ ticked' = TRUE
    /\ \/ /\ snap' = [d \in Domain |-> IF d \in Served THEN domains[d] ELSE NoRow]
          /\ pc' = "pass"
          /\ UNCHANGED left
       \/ /\ Spend("db", 1)
          /\ UNCHANGED <<snap, pc>>
    /\ UNCHANGED <<storeVars, now, cname, cur, at, got, orders, history>>

EndPass ==
    /\ pc = "pass"
    /\ \A d \in Domain : snap[d] = NoRow
    /\ pc' = "idle"
    /\ UNCHANGED <<storeVars, now, ticked, cname, cur, at, snap, got, orders, left, history>>

\* Backoff not over, or an active domain whose certificate is not due.
Skip(d) ==
    /\ pc = "pass" /\ snap[d] # NoRow
    /\ \/ ~Ready(snap[d])
       \/ snap[d].status = "active" /\ ~needsRenewal(d)
    /\ snap' = [snap EXCEPT ![d] = NoRow]
    /\ UNCHANGED <<storeVars, now, ticked, cname, pc, cur, at, got, orders, left, history>>

\* Mutant of Start: an active domain is issued at every tick.
StartActive(d) ==
    /\ pc = "pass" /\ snap[d] # NoRow
    /\ Ready(snap[d])
    /\ cur' = d
    /\ at' = now
    /\ pc' = "verify"
    /\ UNCHANGED <<storeVars, now, ticked, cname, snap, got, orders, left, history>>

\* An error of LatestCertMeta counts as "needs renewal".
Start(d) ==
    /\ pc = "pass" /\ snap[d] # NoRow
    /\ Ready(snap[d])
    /\ \/ /\ snap[d].status # "active" \/ needsRenewal(d)
          /\ UNCHANGED left
       \/ snap[d].status = "active" /\ Spend("db", 1)
    /\ cur' = d
    /\ at' = now
    /\ pc' = "verify"
    /\ UNCHANGED <<storeVars, now, ticked, cname, snap, got, orders, history>>

\* precheck.Verify reads no table: it asks the resolvers and acme-dns.
VerifyOk ==
    /\ pc = "verify" /\ "ok" \in Outcomes(cur \in cname, Outage)
    /\ pc' = "mark"
    /\ UNCHANGED <<storeVars, now, ticked, cname, cur, at, snap, got, orders, left, history>>

\* Unreachable resolvers end in the same error as a missing record.
VerifyNoCname ==
    /\ pc = "verify" /\ "no_cname" \in Outcomes(cur \in cname, Outage)
    /\ RecordNoCname
    /\ UNCHANGED <<now, ticked, cname, orders, history>>

VerifyFails ==
    /\ pc = "verify" /\ "failed" \in Outcomes(cur \in cname, Outage)
    /\ RecordFailure(0)
    /\ UNCHANGED <<now, ticked, cname, orders, history>>

MarkIssuing ==
    /\ pc = "mark"
    /\ \/ /\ SetStatus(cur, "issuing", snap[cur].failCount, 0)
          /\ pc' = "order"
          /\ UNCHANGED <<cur, at, snap, got, left>>
       \/ RecordFailure(1)
    /\ UNCHANGED <<now, ticked, cname, orders, history>>

\* Obtain cannot be cancelled; the CA validates the CNAME itself.
ObtainOk ==
    /\ pc = "order" /\ cur \in cname
    /\ orders' = orders + 1
    /\ got' = [serial |-> orders + 1, notAfter |-> now + CertLife]
    /\ pc' = "save"
    /\ UNCHANGED <<storeVars, now, ticked, cname, cur, at, snap, left, history>>

ObtainFails ==
    /\ pc = "order" /\ (cur \notin cname \/ Outage)
    /\ RecordFailure(0)
    /\ UNCHANGED <<now, ticked, cname, orders, history>>

\* Mutant of SaveIssued: an error of SaveCert is only logged.
SaveIssuedAnyway ==
    /\ pc = "save"
    /\ \/ /\ SaveCert(cur, [serial |-> got.serial, notAfter |-> got.notAfter, issuedAt |-> now])
          /\ UNCHANGED left
       \/ Spend("db", 1) /\ UNCHANGED storeVars
    /\ pc' = "activate"
    /\ UNCHANGED <<cur, at, snap, got, now, ticked, cname, orders, history>>

SaveIssued ==
    /\ pc = "save"
    /\ \/ /\ SaveCert(cur, [serial |-> got.serial, notAfter |-> got.notAfter, issuedAt |-> now])
          /\ pc' = "activate"
          /\ UNCHANGED <<cur, at, snap, got, left>>
       \/ RecordFailure(1)
    /\ UNCHANGED <<now, ticked, cname, orders, history>>

\* Mutant of Activate: the count of failures is not cleared.
ActivateKeepingCount ==
    /\ pc = "activate"
    /\ \/ SetStatus(cur, "active", snap[cur].failCount, 0) /\ UNCHANGED left /\ Finish
       \/ RecordFailure(1)
    /\ UNCHANGED <<now, ticked, cname, orders, history>>

Activate ==
    /\ pc = "activate"
    /\ \/ SetStatus(cur, "active", 0, 0) /\ UNCHANGED left /\ Finish
       \/ RecordFailure(1)
    /\ UNCHANGED <<now, ticked, cname, orders, history>>

-----------------------------------------------------------------------------
(* The process: it restarts with an immediate pass.                        *)

Restart ==
    /\ pc' = "idle"
    /\ ticked' = FALSE
    /\ cur' = CHOOSE d \in Domain : TRUE
    /\ at' = 0
    /\ snap' = [d \in Domain |-> NoRow]
    /\ got' = [serial |-> 0, notAfter |-> 0]
    /\ UNCHANGED <<storeVars, now, cname, orders, history>>

Crash == Spend("crash", 1) /\ Restart

\* SIGTERM: server.Run returns once the HTTP server is shut down.  It does not
\* wait for the scheduler, whose context is cancelled: what it writes from
\* then on fails.
Stop == Spend("stop", 1) /\ Restart

(* Around the process.                                                     *)

\* Mutant of Renew: the old certificate is deleted to force a new one.
RenewDeleting(d) ==
    /\ Exists(d)
    /\ Spend("renew", 1)
    /\ domains' = [domains EXCEPT ![d].status = "pending_cname"]
    /\ certs' = [certs EXCEPT ![d] = <<>>]
    /\ asked' = [asked EXCEPT ![d] = LatestSerial(d)]
    /\ UNCHANGED <<domainClients, now, ticked, cname, passVars, orders, disturbed>>

\* leauth renew: another process, at any moment.
Renew(d) ==
    /\ Exists(d)
    /\ Spend("renew", 1)
    /\ SetStatus(d, "pending_cname", 0, 0)
    /\ asked' = [asked EXCEPT ![d] = LatestSerial(d)]
    /\ UNCHANGED <<now, ticked, cname, passVars, orders, disturbed>>

\* A proxy's synchronisation creates the row of a new domain ...
NewDomain(d) ==
    /\ \E w \in Wildcards, a \in Account : CreateDomain(d, w, a)
    /\ UNCHANGED <<now, ticked, cname, passVars, orders, left, history>>

\* ... and replaces the proxy's bindings; a revocation leaves none.
Bind(c, names) ==
    /\ SetClientDomains(c, names)
    /\ domainClients' # domainClients
    /\ IF Served \subseteq Served' THEN UNCHANGED left ELSE Spend("unbind", 1)
    /\ disturbed' = disturbed \cup (Served \ Served')
    /\ UNCHANGED <<now, ticked, cname, passVars, orders, asked>>

AddCname(d) ==
    /\ Exists(d) /\ d \notin cname
    /\ cname' = cname \cup {d}
    /\ UNCHANGED <<storeVars, now, ticked, passVars, orders, left, history>>

RemoveCname(d) ==
    /\ d \in cname /\ Spend("cname", 1)
    /\ cname' = cname \ {d}
    /\ disturbed' = disturbed \cup {d}
    /\ UNCHANGED <<storeVars, now, ticked, passVars, orders, asked>>

\* The next interval of the ticker; the clock itself stops at MaxTime.
AdvanceTime ==
    /\ now' = IF now < MaxTime THEN now + 1 ELSE now
    /\ ticked' = FALSE
    /\ UNCHANGED <<storeVars, cname, passVars, orders, left, history>>

-----------------------------------------------------------------------------

Work ==
    \/ Tick \/ EndPass
    \/ \E d \in Domain : Skip(d) \/ Start(d)
    \/ VerifyOk \/ VerifyNoCname \/ VerifyFails
    \/ MarkIssuing \/ ObtainOk \/ ObtainFails \/ SaveIssued \/ Activate

Environment ==
    \/ \E d \in Domain : Renew(d) \/ NewDomain(d) \/ AddCname(d) \/ RemoveCname(d)
    \/ \E c \in Client, names \in SUBSET Domain : Bind(c, names)

Next == Work \/ Crash \/ Stop \/ Environment \/ AdvanceTime

Spec == Init /\ [][Next]_vars

\* The goroutine keeps running and time passes; nobody is bound to configure a
\* CNAME, to claim a domain or to run a command.
Fairness == WF_vars(Work) /\ WF_vars(AdvanceTime)

FairSpec == Spec /\ Fairness

\* A pass is short against the interval: the next interval begins only after
\* the pass of this one has ended.
PunctualNext ==
    \/ Work \/ Crash \/ Stop \/ Environment
    \/ pc = "idle" /\ ticked /\ AdvanceTime

PunctualSpec == Init /\ [][PunctualNext]_vars

-----------------------------------------------------------------------------
(* Properties.                                                             *)

\* A domain is called active only when the database holds a certificate for
\* it: SaveCert comes before the status (scheduler.go:134-146), through stale
\* copies, renewals, failed statements and crashes.
ActiveHasCert ==
    \A d \in Domain : Exists(d) /\ domains[d].status = "active" => certs[d] # <<>>

\* The backoff fields agree with the status whatever wrote them last: only a
\* failed domain waits, it waits at most BackoffLimit from now, and a domain
\* that is active or waits for its CNAME carries no failures.
BackoffConsistent ==
    \A d \in Domain : Exists(d) =>
        LET row == domains[d] IN
        /\ row.retryAfter > 0 => row.status = "error"
        /\ row.retryAfter <= now + BackoffLimit
        /\ row.status = "error" => row.failCount >= 1
        /\ row.status \in {"active", "pending_cname"} => row.failCount = 0

\* A failure that is recorded is followed by a pause of at least five minutes,
\* counted from the start of the attempt, however many failures came before:
\* the shift of the base overflows in the end (scheduler.go:186-190).
FailureWaits ==
    [][\A d \in Domain :
         Exists(d)' /\ domains'[d].status = "error" /\ domains'[d] # domains[d]
            => domains'[d].retryAfter >= at + BackoffBase]_vars

\* No crash, no stop and no failed statement so far.
Undisturbed == \A k \in {"crash", "stop", "db"} : left[k] = Budget[k]

\* What a proxy is given never goes back to an older certificate, and the
\* newest one is the one the CA issued last for that domain.
LatestIsNewest ==
    \A d \in Domain : \A i \in DOMAIN certs[d] :
        certs[d][i].serial <= Latest(d).serial /\ certs[d][i].notAfter <= Latest(d).notAfter

\* The CA's rate limits: a certificate is ordered only for a domain that has
\* none, whose newest one was due when the attempt began, or that the
\* administrator asked to renew since it was issued.
OrderJustified ==
    [][orders' # orders /\ Undisturbed =>
         \/ certs[cur] = <<>>
         \/ at > Latest(cur).notAfter - RenewBefore
         \/ asked[cur] = LatestSerial(cur)]_vars

\* While a domain keeps its proxies and its CNAME, an outage that RENEW_BEFORE
\* has room for never lets its newest certificate expire, whatever the backoff
\* does (checked of PunctualSpec).
NoLapse ==
    \A d \in Domain : certs[d] # <<>> /\ d \notin disturbed => now <= Latest(d).notAfter

\* What NoLapse needs of the constants: RENEW_BEFORE has room for the outage and
\* the longest pause after it, and no statement of the database fails.
OutageHasRoom ==
    /\ OutageFrom <= OutageUntil
    /\ OutageUntil - OutageFrom + BackoffLimit <= RenewBefore
    /\ RenewBefore <= CertLife
    /\ Budget["db"] = 0

\* After the outage a served domain whose CNAME is in place becomes active and
\* stays so, whatever failed before: no status, count or lost write is a trap.
Recovers ==
    \A d \in Domain :
        <>[](d \in Served /\ d \in cname)
            => <>[](Exists(d) /\ domains[d].status = "active" /\ ~needsRenewal(d))

-----------------------------------------------------------------------------
(* What the documentation says and the code does not do.                   *)

\* Renew takes the domain out of "active" until it has been issued anew.
RenewReplacesCert ==
    \A d \in Domain : Exists(d) /\ domains[d].status = "active" /\ asked[d] # 0
        => LatestSerial(d) # asked[d]

=============================================================================
