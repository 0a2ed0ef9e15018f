# leauth: specifications, model checking and proofs

leauth issues TLS certificates for proxies. A **centre** holds the ACME account and answers the
CA's DNS challenges through acme-dns; **agents** on the proxies ask the centre, over HTTP, for the
certificates their nginx needs. The owner of a zone configures one CNAME per domain and nothing
else. This directory holds TLA+ specifications of that system, written from the source under
`src/`, the TLC configurations that check them on small instances, and proofs that TLAPS checks
for every instance.

## 1. The system

| Component | Source | State | Operations |
|---|---|---|---|
| Store | `internal/server/store/store.go` | SQLite tables `domains`, `certs`, `domain_clients`, `clients`, `acme_account` | one method, one statement or transaction; one connection in the centre, other processes for the commands |
| Scheduler | `internal/server/scheduler.go` | nothing between passes but the tables; in a pass the copies of the rows read at its start | `Tick`: for each served domain backoff, renewal decision, verification, order, two writes |
| Precheck | `internal/server/precheck/` | none | asks resolvers and acme-dns whether the CNAME is in place |
| Issuer, ACME account | `internal/server/issuer/` | the account in the store | `New` at start, `Obtain` |
| acme-dns client, DNS provider | `internal/server/acmedns/` | none here | `Register`, `SetTXT` |
| Sync API, Authenticator | `internal/server/http.go`, `auth.go` | `clients`; each request its own locals | `enroll`, `sync` |
| Status page | `internal/server/status.go` | none | renders the tables |
| Centre process, commands | `internal/server/server.go`, `cmd/leauth` | one process with scheduler and API | `Run`; `leauth renew` and `leauth revoke` as processes of their own |
| Agent | `internal/agent/agent.go` | token file, `CertDir` | `Bootstrap`, enrolment, `Sync` every few minutes |
| CertDir, stubs | `internal/agent/certdir.go`, `selfsigned.go` | two files per certificate | `Usable`, `Serial`, `Write` |
| nginx control | `internal/agent/nginx.go` | the nginx process, its pid file | `Start`, `Reload` |
| OAuth supervision | `internal/agent/oauth.go` | oauth2-proxy processes and their pause | the processes' arguments; restart with a growing pause |
| Configuration, certificates, names | `internal/agent/config.go`, `cert.go`, `nginx.go`, `api/names.go` | none | pure functions from `agent.yaml` to certificates, processes and `nginx.conf` |
| Text and keys | `envsubst`, `crypto.go`, `server/config.go` | none | substitution, parsing, encryption |

How they meet:

* The scheduler and any number of API requests share the three tables. Neither locks: a request
  is five or more separate statements per domain, a pass reads all rows once and writes statuses
  minutes later from those copies.
* `renew` and `revoke` write the same file from other processes, at any moment.
* An agent announces the serial of each chain on its disk; the centre attaches a certificate where
  its newest serial differs. The set of names in a request *is* the proxy's set of bindings, and
  the scheduler works only on domains with a binding.
* nginx reads the two files of a certificate when it starts and when it is told to reload, on its
  own schedule, while the agent replaces them one after the other.

* A browser meets an endpoint through three things computed apart from one file: the certificate
  the server names, the oauth2-proxy process its subrequest asks, and the addresses between which
  the login sends it.

What is hard: the interleavings of the first two points; crashes between any two statements;
failed writes, of which the code logs some and reports others; an outage of the CA, acme-dns or
the resolvers and the backoff after it; answers that are lost; the pair of files; a reload that
races nginx's start; a start of the centre that is cut short between the CA and the database; configurations
nobody wrote a test for. `PROJECT.json` lists each such place with its line under `hazards`.

What would make each component correct:

* **Scheduler**: an active domain has a certificate; the newest certificate is the one given out;
  nothing is ordered without cause; a domain always recovers; renewals do not come too late; a
  renewal asked for takes place.
* **Sync API**: a domain's account and names never change; no two domains share an account; every
  proxy is told the account that will be checked; bindings change as a whole; a revoked proxy
  holds nothing.
* **Enrolment**: a proxy gets a token in the end and keeps it; a revoked one stays out.
* **Agent**: nginx starts only with usable pairs and comes up in the end; what is issued reaches
  the disk and then nginx; nothing goes back to an older certificate.
* **Start**: the centre registers one account at the CA, ever.
* **Configuration**: what is accepted works: a closed endpoint asks a process for its groups, each
  server has a certificate that covers it, a login leads back, a cookie reaches all who share it.

## 2. The modules

| Module | Models | Extends / instantiates |
|---|---|---|
| `Store` | the three tables and every method that writes them | |
| `Precheck` | the decision of `Verify` from what resolvers and acme-dns answer | |
| `Scheduler` | the scheduler's goroutine and everything around it | EXTENDS `Store`, `Precheck` |
| `SyncApi` | concurrent requests, enrolment, revocation | EXTENDS `Store` |
| `AcmeAccount` | the start of the centre up to its account at the CA | |
| `Centre` | start, scheduler and API in one process over one database | INSTANCE `AcmeAccount`, `Scheduler`, `SyncApi` |
| `Delivery` | abstract: what is promised of certificates wherever they are held | |
| `Agent` | bootstrap, synchronisation loop, files, nginx | INSTANCE `Delivery` twice |
| `ProxyConfig` | what follows from `agent.yaml`: acceptance, certificates, processes, servers | |
| `Proxy` | the agent loading it, and the supervision of oauth2-proxy | EXTENDS `ProxyConfig` |
| `Enrolment` | how a proxy gets, keeps and loses its token | |
| `StoreProofs` | lemmas about the tables: which row is the latest, what each write keeps | EXTENDS `Store` |
| `SchedulerProofs` | theorems about the scheduler under any disturbance | EXTENDS `Scheduler`, `StoreProofs` |
| `OrderProofs` | theorems about when it orders, and about timely renewals | EXTENDS `SchedulerProofs` |
| `SyncApiProofs` | theorems about the API | EXTENDS `SyncApi`, `StoreProofs` |
| `CentreProofs` | theorems about the start, and that the parts fit | EXTENDS `Centre`, INSTANCE `SchedulerProofs`, `SyncApiProofs` |
| `AgentProofs`, `EnrolmentProofs`, `ProxyProofs` | theorems about the module of that name | EXTENDS the module |
| `MCScheduler`, `MCSyncApi`, `MCCentre`, `MCAgent`, `MCEnrolment`, `MCProxy` | values of constants for TLC | EXTENDS the module |

Operators whose comment begins with "Mutant of" are not part of the model: each is the changed
form of the definition after it, the way a plausible mistake would change it, and is used to see
that a property can fail.

### Store

A database with one connection makes each statement atomic, so each store method is one operator
on the three tables. `domains[d]` is a row or `NoRow`; `certs[d]` the certificates of a domain in
the order of their ids; `domainClients[c]` the bindings of a proxy. Strings of error messages, DNS
credentials and key material are left out. `Latest` is the query
`ORDER BY issued_at DESC, id DESC LIMIT 1`, and `SetClientDomains` binds only names that have a
row and does not look at `clients`, as the SQL does.

### Precheck

Pure operators: `knownCname` is the first answer that means anything, `attempts` the lookups of the
value (as many as resolvers, at least three), `Verify` the outcome. `Outcomes` is what the scheduler
can meet: outside an outage the resolvers tell the truth, except the ones in `Mute`, which never
answer; in an outage each of them may be silent, out of date or right. It does not depend on the state but
through its two arguments, so that the resolvers cost the runs no states. The runs have four resolvers of which the first three
are mute: the case for which the code makes the number of attempts depend on that of resolvers.

### Scheduler

`pc` is the place in the pass: `idle`, `pass` (between domains), `verify`, `mark` (before
`SetStatus(issuing)`), `order` (inside `Obtain`), `save`, `activate`. `snap` holds the rows read
at the start of the pass that have not been worked on yet; all that is written as a fail count
comes from there. One action stands for each statement of the database and each call that leaves
the process, and a statement may fail: `Tick`, `Start` (a failing read of the certificate counts
as "due"), `MarkIssuing`, `SaveIssued`, `Activate`, and also the write inside `recordFailure`,
whose error is only logged. The rest of the world is in actions of its own: `Renew`, `NewDomain`
and `Bind` (what the API does to the tables), `AddCname`, `RemoveCname`, `Crash`, `Stop`,
`AdvanceTime`. The time that `recordFailure` adds the pause to is the one read when the domain's
turn began (`at`), not the present one. `shifted` is Go's `<<` on a signed number of `Width` bits: it
overflows, and `backoff` cuts what has become too long, zero or negative.

### SyncApi

A request is a slot with a phase: `claim`, `register` (no row was found), `create`, `latest`,
`commit`, `done`. Between any two phases every other request, an enrolment, a revocation or the
scheduler may act. `Fail` ends a request at any step: a failing statement, acme-dns, or the proxy
that hangs up. `seen` is history: the serials when the request came.

### AcmeAccount

`boot` is the place in `server.Run` before the scheduler and the HTTP server exist: `load`
(`loadOrCreateUser`), `register`, `save`, `up`. `StartFails` is every way in which a start ends,
also between the CA's registration and its answer: `Register` followed by it. The CA is modelled by
the keys it knows; it answers a known key with the account it has. The key's encoding and the
e-mail address are left out.

### Centre

The scheduler's actions on its variables and the API's on its own while `boot` is `up`, `Down` for
all at once; the commands, the zone and the clock at any time. The two
component modules each contain a loose environment (`Bind`, `NewDomain` in one, `WriteStatus`,
`WriteCert` in the other). Here that environment is the other component, and the properties
`ImplementsScheduler` and `ImplementsApi` say that it does no more than was assumed, so that what
was checked of each part alone holds of the centre.

### Agent

A file holds a number: a serial of the centre (positive), a self-signed stub (negative), or 0.
`pc` is the place in `Bootstrap` or `Sync`; `nginx` goes from `off` over `booting` and `read`
(certificates read, no pid file yet) to `up` or `dead`. nginx is external and modelled by what the
agent relies on: it ends when a pair does not fit at its start, keeps the old configuration when
one does not fit at a reload, and takes signals once its pid file exists. `nginx -s reload` is a
second process that reads the configuration with its certificates before it signals, so it fails for a pair that does not fit as well. `missed` is history: the last reload failed. An answer of the
centre may leave out a certificate whose row it could not read.

`Disk` and `Serving` are refinement mappings to `Delivery`. On the disk the chain tells which
certificate of the centre is held, also while the key beside it is another one's (a mapping that
took such a pair for none would hide a step back); what nginx has loaded is what it serves until it
ends; a stub is no certificate. Progress is stated of the agent itself (`DiskCatchesUp`), since it
holds of usable pairs.

### Enrolment

`Present`, `Enrol`, `Receive`, `WriteToken` and `GiveUp` are the steps of `ensureToken` with the
call inside it, `SaveClient` and `SaveFails` those of `handleEnroll`. An enrolment is let in and
given a token in one step (`Enrol`), since the enrolment token cannot change while the centre
runs: what arrives later is checked against the same value, and what arrives after a restart is
refused as if it had been sent then. It is saved in another step, which may come after the agent
has given up. Replacing the enrolment token means restarting the centre (`Rotate`), which ends all
that was under way. Machines may share a name, as happens when a proxy moves. `SyncApi` knows of
this only whether a name has a token.

### ProxyConfig and Proxy

A domain name is the sequence of its labels, since everything the code does with names is about
labels: wildcards, suffixes, equality. `ProxyConfig` has one operator for each function of
`config.go`, `cert.go`, `oauth.go` and `nginx.go` that decides something; the maps by domain in
`RenderNginxConfig` keep the last endpoint of a domain, and so does `authPort`, `groupsQuery` and
`serve`. A server of `nginx.conf` is the record of what the template takes from it and a property
is about: certificate, port asked about the session, port of the service addresses, groups, return
address. An `external_url` is its host, its port, what follows and whether it ends in a slash:
`ExternalBase` takes all of it, `returnAddress` only the host and the port, and what is declared if
there are none. `Renders` is the one way in which executing the template fails. What `Validate` checks in
a field by itself is a flag.

`Proxy` starts from every configuration of a set: `LoadConfig`, `WriteConfig`, `StartOAuthProxies`,
then one supervising goroutine for each process. A process that starts while GitLab does not answer
ends at once (external: oauth2-proxy and GitLab). Time goes in ticks; as in the code, the pause
before a restart counts as time the process has run.

## 3. What the runs check

| Run | Question | Answer |
|---|---|---|
| `scheduler` | one domain through a crash, two failed statements, a renewal, a lost CNAME and an outage | the tables stay consistent, nothing is ordered without cause, the domain recovers |
| `punctual` | two domains, passes shorter than the interval, an outage of three intervals, a stop | no certificate expires |
| `sync` | two requests of a proxy over two domains, either flag, revocations, crashes | the row's identity never changes, answers agree with it and are complete, accounts distinct, bindings whole |
| `centre` | start, scheduler and API together | each part is an environment the other was checked against; one account at the CA; answers are fresh |
| `agent` | two domains, a death, a failing write, a failed answer | the disk is repaired and catches up, nginx comes up |
| `enrolment` | two machines of one name, any three disturbances | a revoked name stays out, no token comes from nowhere, everybody is enrolled in the end |
| `proxy` | 61 038 configurations; two of them through three failures of GitLab, a process or the agent | what is accepted fits together, and logging in works again a longest pause after the last failure |
| `renew_lost`, `revoke_race`, `wildcard_race`, `reload_missed`, `cookie_seen` | what the documentation promises | violated, see section 6 |

The properties in words:

* `ActiveHasCert`, `BackoffConsistent` relate the status of a row to the certificates and to the
  backoff, through writes computed from stale copies.
* `LatestIsNewest`: of several certificates, also saved in one second, the one the CA issued last
  is given out. It depends on a clock that does not go back.
* `FailureWaits`: a failure that is recorded is followed by a pause of at least the base, also once
  the shift of the base has overflowed.
* `OrderJustified`: a certificate is ordered only for a domain that had none, one that was due, or
  after `leauth renew`. A failing read of the table orders without cause by design, hence the
  restriction to behaviours without a crash, a stop or a failed statement.
* `Recovers`: from whatever the outage, crashes and lost writes left, a served domain with its
  CNAME becomes active with a certificate that is not due, and stays so.
* `NoLapse`: the backoff never delays a renewal past the end of the certificate, for an outage
  that `RENEW_BEFORE` has room for.
* `IdentityStable`, `AccountsDistinct`, `AnswerMatchesRow`: races to create a domain.
* `BindingsChangeWhole`, `AnswerComplete`: a failure on one domain does not touch the others.
* `AnswerFresh`, `AnswerFromCA`: what a proxy is told against what scheduler and other requests do
  meanwhile.
* `AccountKept`: however often a start is cut short, the CA knows no account whose key is not the
  saved one, and the centre works only with an account whose registration is saved.
* `DiskDelivers`, `NginxDelivers`: the disk and nginx implement `Delivery`: no certificate is
  replaced by an older one or by one the centre has not issued.
* `SerialHonest`, `StartsUsable`: the pair of files. The announced serial is the
  chain's, and the chain is written last, so that a broken pair is never taken for the newest.
* `RevokedStaysOut`: the procedure of `deploy/central/README.md:173` works, also for enrolments
  that were let in before it began. `banned` records the names revoked when no machine of the name
  had the new enrolment token.
* `FileIsBacked`, `LockedOutByLoss`, `EnrolsInTheEnd`: what a proxy has on disk was saved at the
  centre; it is replaced there only by another machine of the name or by an attempt that was given
  up and finished late; from any loss the next synchronisation recovers.
* `DiskCatchesUp`, `ComesUp`, `ServesNewestUnlessMissed`: liveness of a proxy.
* `ClosedIsAsked`: an open endpoint asks nobody; a closed one asks exactly one process, on a port
  nginx does not take, and is limited to the groups of a closed endpoint of its domain: to its own
  unless the domain is declared on several ports (section 6).
* `NamesCovered`, `NoSelfConflict`: a browser accepts the certificate each server names, by a
  definition of matching that is TLS's and not the code's; a proxy never asks for a name with and
  without the wildcard.
* `ReturnsHome`: GitLab returns to the address of a server that hands the answer to the process that
  was asked, and that process accepts the address nginx sends the browser back to. The two are
  computed in different ways from `external_url`, as it is written (`ExternalBase`) and parsed
  (`returnAddress`). Nothing is asked of an `external_url` without a host, which leads nowhere; that
  something in front of nginx takes the path of one away again is up to whoever writes it there.
* `CookieNotTooWide`: the cookie is never set above the longest suffix all names share, against a
  definition that compares every label.
* `LoginReturns`, `AcceptedServes`: a login is possible a longest pause after GitLab is back, and an
  accepted configuration comes up (unless a domain is closed on one port and open on another, see
  section 6).

### Bounds

* `MaxTime` stops the clock, after which the passes go on. It is chosen so that a certificate is
  issued, becomes due, is renewed and due again within the run, with the outage in between.
* `OutageFrom .. OutageUntil - 1` is when services *may* fail; inside it each call may also
  succeed.
* `Budget` bounds each kind of disturbance (`crash`, `stop`, `db` failed statements, `renew`,
  `cname` removed, `unbind`), and none begins at `CalmFrom` or later. In `scheduler` they are all
  spent early, in any order and overlapping with the outage; two failed statements are needed to
  lose the write that records the first failure. In `punctual` the stop may come at any moment.
* `CertLife`, `RenewBefore` and the backoff keep the code's order of magnitudes in `punctual`: a pause
  of 1 interval, at most 2, longer than an interval and no longer than `RENEW_BEFORE`. `scheduler` has a
  pause of 2, at most 3, and a `Width` of 3 bits, so that the second failure already overflows.
* `Slot`: two requests at once are what every race in the code is between. `Account`: one for each
  request that may need one; a request that finds none left waits or fails, as with acme-dns down.
  In `sync` a domain's status has one value, since no step of the API reads it.
* `Certs`, `Statuses`, `FailCounts`, `RetryTimes`: what the scheduler may write beside the API. In
  `centre` they cover all the scheduler can write within `MaxTime`.
* `Key`: two, so that a second account could be registered. Starts are cut short without a bound.
* `Resolvers`, `Mute`, `Attempts`: see Precheck above.
* `Stubs`: three numbers, one more than the files of a pair can hold. `MaxSerial`: two
  certificates for one domain, so that one is issued while the other is written.
* In `enrolment` the budget is one number for all kinds of disturbance: any three, in any order
  and any mixture. `RevokedStaysOut` needs two (a new enrolment token and a revocation), which
  leaves one to hit them.
* `Configs` in `proxy`: up to two endpoints out of names that are a zone, one and two levels below
  it and foreign to it, on ports that nginx may have or that oauth2-proxy takes, and one with an
  external address that has a port, or a path and a slash, or no host; up to three out of
  two levels; with no zone, one, two, one twice, one spelled in two ways; with or without a shared
  login. Two endpoints are enough for every relation the code computes between endpoints, the
  third for a map entry that is replaced twice. `Followed`: for the two ways to log in, what happens
  over time; the other configurations run too, but nothing fails in them.
* `FirstDelay` 1, `MaxDelay` and `Healthy` 3 ticks keep the code's order (a second, a minute, a
  minute) with one doubling that is cut by the limit.
* Symmetry is declared for slots, accounts, domains and keys in runs without liveness properties, where
  no definition tells them apart.

### Fairness

* `WF(Work)`: the goroutine of the scheduler runs; every call in it returns (each has a timeout:
  resolvers and acme-dns through their clients, `Obtain` through `PROPAGATION_TIMEOUT`).
* `WF(AdvanceTime)`: time passes. `AdvanceTime` is enabled always, so it also says that the ticker
  goes on.
* `WF(AgentStep)`, `WF(NginxStep)`: the agent's loop runs (its HTTP client has a timeout) and
  nginx, once started, reads its files and handles its signals.
* `WF(AgentStep(p))`, `WF(CentreStep)` in `Enrolment`: each agent goes on with its loop, whose call
  has a timeout of thirty seconds, and the centre with its requests.
* `WF(Supervise)`, `WF(Tick)`, `WF_stage(AgentGoesOn)` in `Proxy`: the goroutines and the agent go
  on, time passes; `WF(GitlabReturns)`: GitLab comes back, which is the condition under which the
  code promises anything. Docker starts an agent that has ended again.
* Nothing else is fair: nobody has to claim a domain, configure a CNAME, run a command or issue a
  certificate; nothing has to fail, and nothing has to stop failing outside the bounds above.
* `PunctualSpec` assumes more: a pass ends before the next interval begins. `NoLapse` needs it,
  since a pass may otherwise take arbitrarily long, and the code does not guarantee it: `Obtain`
  can take `PROPAGATION_TIMEOUT` for each domain.

## 4. What is proved

Every invariant and every action property of section 3, and every refinement, is a theorem for all
values of the constants; the bounds of the runs are no part of them. The file `PROJECT.json` lists
the theorems with the property each states. What is left to the runs is at the end of this section.

| Module | Theorems (property) | Inductive invariant |
|---|---|---|
| `SchedulerProofs` | `TypeCorrect`, `ActiveIsBacked` (`ActiveHasCert`), `BackoffIsBounded` (`BackoffConsistent`), `FailuresWait` (`FailureWaits`), `LatestNeverGoesBack` (`LatestIsNewest`) | `IInv` |
| `OrderProofs` | `OrdersAreJustified` (`OrderJustified`), `IssuingIsTrue` | `IInv`, `DueInv` |
| | `CertificatesLast` (`NoLapse`) | `IInv`, `TimelyInv` |
| `SyncApiProofs` | `TypeCorrect`, `AccountsNeverShared` (`AccountsDistinct`), `AnswersAreTrue` (`AnswerMatchesRow`), `IdentityNeverChanges` (`IdentityStable`), `BindingsAreWhole` (`BindingsChangeWhole`), `AnswersAreComplete` (`AnswerComplete`), `AnswersAreFresh` | `IInv` |
| `CentreProofs` | `CentreImplementsScheduler`, `CentreImplementsApi`, `AnswersComeFromCA` (`AnswerFromCA`), `AnswersAreFresh` (`AnswerFresh`) | `CentreInv` |
| | `AccountIsKept` (`AccountKept`) | `AccountOK` |
| `AgentProofs` | `TypeCorrect`, `SerialsAreHonest` (`SerialHonest`), `StartIsUsable` (`StartsUsable`), `DiskImplementsDelivery` (`DiskDelivers`), `NginxImplementsDelivery` (`NginxDelivers`) | `IInv` |
| `EnrolmentProofs` | `TypeCorrect`, `RevocationLasts` (`RevokedStaysOut`), `TokensAreBacked` (`FileIsBacked`), `LockoutNeedsLoss` (`LockedOutByLoss`) | `IInv` |
| `ProxyProofs` | `TypeCorrect`, `LoginComesBack` (`LoginReturns`) | `IInv` |
| | `AskedOnce` (`NoSelfConflict`), `EveryNameIsCovered` (`NamesCovered`), `LoginIsAsked` (`ClosedIsAsked`), `LoginGoesHome` (`ReturnsHome`), `CookieStaysNarrow` (`CookieNotTooWide`) | `IInv`, `Arranged` |

None of the properties is inductive alone. What each invariant adds, and why:

* **Scheduler, any disturbance.** `ActiveHasCert` can be broken by `Activate` unless the place
  `activate` implies a saved certificate. `BackoffConsistent` is disturbed by every write computed
  from a stale copy, so a copy stands for an existing row, and the copy and the time `at` are bounded
  by the present. `FailureWaits` rests on `ShiftAssumption`: no shift within the limit is below the
  base. TLC evaluates it for the values of the runs; for the code's (300 s, 3600 s in nanoseconds, 64
  bits) it is arithmetic over 64 shifts. `LatestIsNewest` needs that the rows of `certs` are in the order in which the CA
  issued them, and that the certificate in hand at `save` is newer than all stored ones and no newer
  than the last one issued.
* **Scheduler, while nothing has crashed or failed.** `DueInv` says that whatever is not `active` has
  a reason to be issued, of the rows, of the copies of the pass and of the attempt under way: a
  renewal that arrives between a copy and its use makes a new reason and takes none away. The one
  exception is the certificate in hand, saved and not yet marked. It also says that
  `issuing` is shown only while the scheduler works on the domain (`IssuingIsTrue`).
* **Timely renewals.** `PunctualSpec` has one pass in each interval. `TimelyInv` says that a domain
  that keeps its proxies and its CNAME was not due at the end of the last interval, nor before the
  outage began, except while the outage or a pause that it began may keep the domain waiting
  (`MayWait`); the pass of this interval hands that on, domain by domain (`Decided`). A pause begun in
  the outage ends at most `BackoffLimit` after it, hence the hypothesis `OutageHasRoom`:
  `OutageUntil - OutageFrom + BackoffLimit <= RenewBefore <= CertLife`, and no statement of the
  database fails. The values of the run `punctual` satisfy it with equality. That outside
  an outage the check refuses only a domain without its CNAME is a lemma about `Precheck`
  (`VerifyTells`), for any number of resolvers and mute ones among them.
* **API.** What a request holds of a row is that row (`ClaimOK`), what it has answered agrees with
  the table and is no older than what it had seen (`ItemsOK`, `ItemsFresh`), and the accounts of rows
  and of requests in `create` are registered and pairwise distinct (`AccountsOK`).
* **Centre.** The invariants of scheduler and API are not proved again: `CentreInv` is their
  conjunction over the common tables, and the proofs of both modules are used by instance. What is
  proved here is that each action of one is a step of the other's environment: API steps write only
  rows, bindings and accounts as `Bind` and `NewDomain` do; the scheduler writes statuses to rows that
  exist and certificates in the order of their serials. `CentreImplementsApi` assumes that the
  constants `Certs`, `Statuses`, `FailCounts` and `RetryTimes`, which bound the environment in runs,
  bound nothing (`AllWritten`). For `AccountKept`, a start beyond `load` works with the saved key.
* **Agent.** Nothing the proxy holds is newer than at the centre (`BehindCentre`); outside the boot
  loop a pair that does not fit is older than the centre's certificate, so that it is asked for
  again (`PairsOK`); an answer being applied is newer than the files still to be replaced
  (`ApplyOK`); what nginx has loaded is no newer than the files (`ServingOK`). The last two make each
  step a step of `Delivery` or a stutter.
* **Enrolment.** `RevokedStaysOut`: an enrolment under way could be saved after the revocation.
  `CallsKnown` excludes it, since every such enrolment belongs to a machine that has the present
  enrolment token, and a banned name has no such machine (`BannedOut`). `Backed` and `Held` follow a
  token from the table through the answer and the agent's hands to the file.
* **Proxy.** A pause that is running and the calm already passed make up at most one longest pause
  (`Paused`). The rest is about the configuration: `Arranged` says that what runs is what
  `OAuthInstances` says of an accepted file, and then lemmas about the operators of `ProxyConfig`
  are enough: that an address as it is written and the one parsed out of it agree wherever there is a
  host (`AddressesAgree`), what `closedEndpoints` collects (`ClosedList`), that ports of instances differ
  (`Instances`), which instance a domain's `authPort` is of (`AskedInstance`), that a wildcard or the
  domain's own certificate serves it (`Served`), and that the loop of `commonDomainSuffix` never drops a
  tail that all names share (`CommonTail`, `WithinSuffix`). The loops are recursive functions; what
  holds of them for every length is proved by a least counterexample (`HasLeast`, `UpTo`).

The assumptions are the `...Assumption` of each module. They type the constants; beyond that they say
that the markers `NoRow`, `NoAccount` and `None` are none of the values they are told apart from, that
there is a domain, a resolver that answers and a longest pause of at least one unit, and that stubs
are negative numbers of which there are three. The proofs assume of the code what the model says: a
clock that does not go back, and one scheduler per database.

Only model-checked are the liveness properties (`Recovers`, `DiskCatchesUp`, `ComesUp`,
`ServesNewestUnlessMissed`, `EnrolsInTheEnd`, `AcceptedServes`), since the prover handles neither fairness
nor ENABLED; and the runs of section 6, which show that a property fails.

## 5. Not modelled

* Parsing of `agent.yaml` and of the environment, substitution of variables, the checks of a single
  field, encryption of columns, the encoding of keys and certificates: pure functions of text.
* The status page: it reads the tables and writes nothing.
* Of `nginx.conf`: headers, the backend's credentials, `skip_paths` but for the way they make the
  template fail.
* Hashing and comparison of tokens: a token stands for its own hash.
* The length of the agent's polling pause, on which nothing depends but how soon things happen.
* A clock that goes back: with one, `LatestIsNewest` would fail by the ordering of `store.go:280`;
  nothing in the repository says what should happen.

## 6. What the code does otherwise than documented

1. **A renewal can be lost** (`renew_lost`). `issue` writes `active`, and `recordFailure` writes
   `error`, from the row read at the start of the pass (`scheduler.go:146`, `:170`).
   `leauth renew` in between is overwritten, although `deploy/central/README.md:186` says that the
   domain is issued anew at the next tick.
2. **A revoked proxy can hold domains again** (`revoke_race`). The token is checked before the
   body is read; the bindings are written at the end without a look at `clients`
   (`http.go:197`). `deploy/central/README.md:169` says that the domains are taken out of service.
3. **The loser of a race gets the other flag** (`wildcard_race`). `http.go:229` returns the
   winner's row without the comparison that `http.go:211` makes, and the test
   `http_test.go:152` requires 409.
4. **A reload that fails is not repeated** (`reload_missed`). At the first start the first
   synchronisation follows at once; when its reload finds no pid file, the files on disk agree
   with the centre from then on and nothing reloads (`agent.go:255`), while `README.md:120` says
   nginx is reloaded.
5. **A cookie that not all see** (`cookie_seen`). `commonDomainSuffix` compares the first label of
   the tail only (`oauth.go:241`). `docs.example.com` and `docs.other-company.net`, the very pair
   of which `deploy/proxy/README.md:227` says that the agent refuses it, agree there: the shared
   login is accepted with a cookie for `docs.example.com`.

What was observed beside them: an enrolment that the agent gave up and the centre
finished late replaces the token of the next one, and the proxy is then refused until its token
file is removed (`LockedOutByLoss` says that this, and a second machine of the name, are the only
ways); `leauth renew` also clears the count of failures,
as `admin_test.go:113` wants; a domain nobody serves is marked by it and then never worked on; an
nginx that starts while a pair is being replaced may end and take the container through a restart,
which `ComesUp` covers; a stop of the centre does not wait for `Obtain`, although `issuer.go:111`
says so (`server.go:151` waits only for the HTTP server), and a certificate issued meanwhile is
lost; a process of oauth2-proxy that fails at once after a full-minute pause is started again a
second later, since the pause counts as time it has run (`oauth.go:332`); an `external_url` without a
host, such as `https://`, is accepted (`config.go:243-251`): GitLab is then given an address without a
host, while the address of `domain` and `listen` may be returned to; a domain closed on one port and
open on another is accepted, although `config.go:173` says that `Validate` finds every problem, and
then the template fails at every start (`nginx.conf.tmpl:124`, `Unmixed`); of two closed endpoints of
one domain the later one's process and groups hold for both (`nginx.go:131-141`), although
`deploy/proxy/README.md:214` says that groups are set at each endpoint; a zone spelled in two ways is
accepted and asked for twice in one synchronisation.

## 7. Plan

Done: every module of section 2 with its runs, and the proofs of section 4, which cover every safety
property of the runs. What could follow, in this order:

1. Safety facts that the liveness properties rest on, as theorems of their own: that a pass is never
   without a step it can take, and that no status keeps a domain from the next pass for longer than
   its pause.
2. An abstract specification of what a proxy is promised by the centre as a whole, with `Centre` and
   `Agent` in one module, so that a certificate is followed from the CA to nginx.
