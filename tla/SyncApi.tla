------------------------------ MODULE SyncApi ------------------------------
(***************************************************************************)
(* The centre's API for proxies (internal/server/http.go, auth.go): any    *)
(* number of synchronisations run at once, each in its own goroutine and   *)
(* each in several statements of the database and calls of acme-dns.       *)
(* Enrolment and revocation change the table clients beside them, the      *)
(* scheduler writes statuses and certificates, and a failure or the        *)
(* proxy's disconnection ends a request at any step.                       *)
(*                                                                         *)
(* A request is a slot.  names are the certificates it asks for, wild the  *)
(* ones among them with the wildcard flag; todo are those the loop of      *)
(* handleSync has still to claim (their order in the request is left open).*)
(***************************************************************************)
EXTENDS Store

CONSTANTS
    Slot,       \* requests served at the same time
    Certs,      \* certificates the scheduler may save (bound)
    Statuses, FailCounts, RetryTimes,   \* what the scheduler may write (bound)
    NoItem      \* no answer for a domain yet

VARIABLES
    clients,    \* proxies with a token (table clients)
    registered, \* accounts acme-dns has handed out
    req         \* the requests

apiVars == <<clients, registered, req>>
vars == <<storeVars, apiVars>>

Phase == {"free", "claim", "register", "create", "latest", "commit", "done"}

\* What a request keeps of a row: the columns that make up the answer, without
\* the status, which the proxy only logs.
Identity(row) == [account |-> row.account, wildcard |-> row.wildcard]

\* One domain of the answer (SyncDomain): the row as claim returned it and the
\* serial read after it, 0 when no certificate was found.
Item == [account : Account, wildcard : BOOLEAN, serial : Nat]

Request == [phase : Phase, client : Client,
            names : SUBSET Domain, wild : SUBSET Domain, todo : SUBSET Domain,
            dom : Domain \cup {NoRow},
            row : [account : Account, wildcard : BOOLEAN] \cup {NoRow},
            account : Account \cup {NoRow},
            answer : [Domain -> Item \cup {NoItem}],
            seen : [Domain -> Nat]]

ASSUME ApiAssumption ==
    /\ NoItem \notin Item
    /\ Certs \subseteq Cert
    /\ Statuses \subseteq Status /\ FailCounts \subseteq Nat /\ RetryTimes \subseteq Nat
    /\ Client # {} /\ Domain # {}

TypeOK ==
    /\ StoreTypeOK
    /\ clients \in SUBSET Client
    /\ registered \in SUBSET Account
    /\ req \in [Slot -> Request]

Idle == [phase |-> "free", client |-> CHOOSE c \in Client : TRUE,
         names |-> {}, wild |-> {}, todo |-> {},
         dom |-> NoRow, row |-> NoRow, account |-> NoRow,
         answer |-> [d \in Domain |-> NoItem],
         seen |-> [d \in Domain |-> 0]]

Init ==
    /\ StoreInit
    /\ clients = {} /\ registered = {}
    /\ req = [r \in Slot |-> Idle]

-----------------------------------------------------------------------------
(* handleSync.                                                             *)

\* The serial saved last, whatever the query for the newest one finds.
LastSaved(d) == IF certs[d] = <<>> THEN 0 ELSE certs[d][Len(certs[d])].serial

\* The token is checked once, before the body is read.  An empty set of
\* certificates is refused.  seen is history: the serials saved last by now.
Begin(r, c, names, wild) ==
    /\ req[r].phase = "free"
    /\ c \in clients
    /\ names # {}
    /\ req' = [req EXCEPT ![r] = [Idle EXCEPT !.phase = "claim", !.client = c,
                                              !.names = names, !.wild = wild, !.todo = names,
                                              !.seen = [d \in Domain |-> LastSaved(d)]]]
    /\ UNCHANGED <<storeVars, clients, registered>>

\* claim finds the row with the flag that was asked for ...
ClaimExisting(r, d) ==
    /\ req[r].phase = "claim" /\ d \in req[r].todo
    /\ Exists(d)
    /\ domains[d].wildcard = (d \in req[r].wild)
    /\ req' = [req EXCEPT ![r].phase = "latest", ![r].dom = d, ![r].row = Identity(domains[d])]
    /\ UNCHANGED <<storeVars, clients, registered>>

\* ... with the other flag: 409, the whole synchronisation ends ...
ClaimConflict(r, d) ==
    /\ req[r].phase = "claim" /\ d \in req[r].todo
    /\ Exists(d)
    /\ domains[d].wildcard # (d \in req[r].wild)
    /\ req' = [req EXCEPT ![r] = Idle]
    /\ UNCHANGED <<storeVars, clients, registered>>

\* ... or no row at all.
ClaimNew(r, d) ==
    /\ req[r].phase = "claim" /\ d \in req[r].todo
    /\ ~Exists(d)
    /\ req' = [req EXCEPT ![r].phase = "register", ![r].dom = d]
    /\ UNCHANGED <<storeVars, clients, registered>>

\* Mutant of Register: an account of an earlier request is used again.
RegisterAgain(r) ==
    /\ req[r].phase = "register"
    /\ \E a \in Account :
         /\ registered' = registered \cup {a}
         /\ req' = [req EXCEPT ![r].phase = "create", ![r].account = a]
    /\ UNCHANGED <<storeVars, clients>>

\* Mutant of Register: an error of acme-dns is ignored.
RegisterUnchecked(r) ==
    /\ req[r].phase = "register"
    /\ \E a \in (Account \ registered) \cup {NoRow} :
         /\ registered' = registered \cup ({a} \ {NoRow})
         /\ req' = [req EXCEPT ![r].phase = "create", ![r].account = a]
    /\ UNCHANGED <<storeVars, clients>>

\* acme-dns hands out a new account; it is lost if the request ends here.
Register(r) ==
    /\ req[r].phase = "register"
    /\ \E a \in Account \ registered :
         /\ registered' = registered \cup {a}
         /\ req' = [req EXCEPT ![r].phase = "create", ![r].account = a]
    /\ UNCHANGED <<storeVars, clients>>

Create(r) ==
    LET d == req[r].dom IN
    /\ req[r].phase = "create"
    /\ CreateDomain(d, d \in req[r].wild, req[r].account)
    /\ req' = [req EXCEPT ![r].phase = "latest", ![r].account = NoRow,
                          ![r].row = Identity(domains'[d])]
    /\ UNCHANGED <<clients, registered>>

\* Mutant of CreateLost: the answer names the account of this request.
CreateLostOwn(r) ==
    LET d == req[r].dom IN
    /\ req[r].phase = "create"
    /\ Exists(d)
    /\ req' = [req EXCEPT ![r].phase = "latest", ![r].account = NoRow,
                          ![r].row = [account |-> req[r].account,
                                      wildcard |-> d \in req[r].wild]]
    /\ UNCHANGED <<storeVars, clients, registered>>

\* Another request has created the row meanwhile: it is taken as it is.
CreateLost(r) ==
    LET d == req[r].dom IN
    /\ req[r].phase = "create"
    /\ Exists(d)
    /\ req' = [req EXCEPT ![r].phase = "latest", ![r].account = NoRow,
                          ![r].row = Identity(domains[d])]
    /\ UNCHANGED <<storeVars, clients, registered>>

\* Mutant of ReadCert: a domain without a certificate is left out.
ReadCertSkipping(r) ==
    LET d == req[r].dom
        row == req[r].row
        rest == req[r].todo \ {d}
        next == IF rest = {} THEN "commit" ELSE "claim"
    IN
    /\ req[r].phase = "latest"
    /\ req' = [req EXCEPT ![r].phase = next, ![r].todo = rest, ![r].row = NoRow,
                 ![r].answer[d] =
                    IF LatestSerial(d) = 0 THEN NoItem
                    ELSE [account |-> row.account, wildcard |-> row.wildcard,
                          serial |-> LatestSerial(d)]]
    /\ UNCHANGED <<storeVars, clients, registered>>

\* syncDomain: the newest certificate, read after the row.  A failing read
\* looks like a domain without a certificate.
ReadCert(r) ==
    LET d == req[r].dom
        row == req[r].row
        rest == req[r].todo \ {d}
    IN
    /\ req[r].phase = "latest"
    /\ \E serial \in {LatestSerial(d), 0} :
         req' = [req EXCEPT
            ![r].phase = IF rest = {} THEN "commit" ELSE "claim",
            ![r].todo = rest,
            ![r].row = NoRow,
            ![r].answer = [@ EXCEPT ![d] =
                [account |-> row.account, wildcard |-> row.wildcard, serial |-> serial]]]
    /\ UNCHANGED <<storeVars, clients, registered>>

\* The bindings are replaced only when every domain has been claimed.
Commit(r) ==
    /\ req[r].phase = "commit"
    /\ SetClientDomains(req[r].client, req[r].names)
    /\ req' = [req EXCEPT ![r].phase = "done"]
    /\ UNCHANGED <<clients, registered>>

\* The answer has left; the slot is free again.
Return(r) ==
    /\ req[r].phase = "done"
    /\ req' = [req EXCEPT ![r] = Idle]
    /\ UNCHANGED <<storeVars, clients, registered>>

\* A failing statement (500), acme-dns unreachable (502), or the proxy gone
\* and the request's context cancelled.
Fail(r) ==
    /\ req[r].phase \notin {"free", "done"}
    /\ req' = [req EXCEPT ![r] = Idle]
    /\ UNCHANGED <<storeVars, clients, registered>>

-----------------------------------------------------------------------------
(* Around the requests.                                                    *)

\* Enroll adds the proxy or replaces its token; its bindings stay.
Enroll(c) ==
    /\ c \notin clients
    /\ clients' = clients \cup {c}
    /\ UNCHANGED <<storeVars, registered, req>>

\* Mutant of Revoke: the proxy's domains are deleted with it.
RevokeCascading(c) ==
    /\ c \in clients
    /\ clients' = clients \ {c}
    /\ domains' = [d \in Domain |-> IF d \in domainClients[c] THEN NoRow ELSE domains[d]]
    /\ domainClients' = [domainClients EXCEPT ![c] = {}]
    /\ UNCHANGED <<certs, registered, req>>

\* DeleteClient: one transaction in another process.
Revoke(c) ==
    /\ c \in clients
    /\ clients' = clients \ {c}
    /\ domainClients' = [domainClients EXCEPT ![c] = {}]
    /\ UNCHANGED <<domains, certs, registered, req>>

\* The centre is killed: every request ends where it is.
Crash ==
    /\ req' = [r \in Slot |-> Idle]
    /\ UNCHANGED <<storeVars, clients, registered>>

\* The scheduler and "leauth renew" write the status of existing rows ...
WriteStatus(d) ==
    /\ Exists(d)
    /\ \E status \in Statuses, failCount \in FailCounts, retryAfter \in RetryTimes :
         SetStatus(d, status, failCount, retryAfter)
    /\ UNCHANGED apiVars

\* ... and the scheduler saves certificates, the CA's serials only growing.
WriteCert(d) ==
    /\ Exists(d)
    /\ \E cert \in Certs :
         /\ \A i \in DOMAIN certs[d] :
              cert.serial > certs[d][i].serial /\ cert.issuedAt >= certs[d][i].issuedAt
         /\ SaveCert(d, cert)
    /\ UNCHANGED apiVars

Handle(r) ==
    \/ \E d \in Domain : ClaimExisting(r, d) \/ ClaimConflict(r, d) \/ ClaimNew(r, d)
    \/ Register(r) \/ Create(r) \/ CreateLost(r) \/ ReadCert(r) \/ Commit(r) \/ Return(r)

BeginAny(r) ==
    \E c \in Client, names \in SUBSET Domain :
        \E wild \in SUBSET names :
            /\ \A d \in names : (d \in wild) \in Wildcards
            /\ Begin(r, c, names, wild)

Administer == \E c \in Client : Enroll(c) \/ Revoke(c)

ApiStep == (\E r \in Slot : BeginAny(r) \/ Handle(r) \/ Fail(r)) \/ Administer

Next ==
    \/ ApiStep \/ Crash
    \/ \E d \in Domain : WriteStatus(d) \/ WriteCert(d)

Spec == Init /\ [][Next]_vars

-----------------------------------------------------------------------------
(* Properties.                                                             *)

\* Two domains never share an acme-dns account, or validating one would
\* overwrite the challenge of the other, whatever requests race to create them.
AccountsDistinct ==
    \A d, e \in Domain :
        Exists(d) /\ Exists(e) /\ domains[d].account = domains[e].account => d = e

\* The CNAME a human has configured stays right for ever: no race, retry,
\* revocation or crash changes the account or the names of a domain.
IdentityStable ==
    [][\A d \in Domain : Exists(d) =>
         /\ domains'[d] # NoRow
         /\ domains'[d].account = domains[d].account
         /\ domains'[d].wildcard = domains[d].wildcard]_vars

\* The CNAME target a proxy is told is the one the scheduler will check, also
\* when the request lost the race to create the domain (http.go:227-231).
AnswerMatchesRow ==
    \A r \in Slot, d \in Domain :
        LET item == req[r].answer[d] IN
        item # NoItem => /\ Exists(d)
                         /\ item.account = domains[d].account
                         /\ item.wildcard = domains[d].wildcard

\* A proxy's domains change all at once, to exactly what one of its own
\* synchronisations asked for, or to nothing: a failure on one domain does not
\* take the others out of service (http.go:171-172).
BindingsChangeWhole ==
    [][\A c \in Client : domainClients'[c] # domainClients[c] =>
         \/ c \notin clients' /\ domainClients'[c] = {}
         \/ \E r \in Slot :
              /\ req[r].client = c /\ req'[r].phase = "done"
              /\ domainClients'[c] = req[r].names]_vars

\* An answer is complete and in force: when it is sent every domain asked for
\* is in it and is bound to the proxy at that moment.
AnswerComplete ==
    [][\A r \in Slot : req[r].phase # "done" /\ req'[r].phase = "done" =>
         \A d \in req[r].names :
            req'[r].answer[d] # NoItem /\ d \in domainClients'[req[r].client]]_vars

\* A certificate in an answer is at least as new as the one saved last when the
\* request came (http.go:268), also when several were saved in one second.
AnswerFresh ==
    \A r \in Slot, d \in Domain :
        LET item == req[r].answer[d] IN
        item # NoItem /\ item.serial # 0 => item.serial >= req[r].seen[d]

-----------------------------------------------------------------------------
(* What the documentation says and the code does not do.                   *)

\* A revoked proxy holds no domains.
RevokedHoldsNothing ==
    \A c \in Client : c \notin clients => domainClients[c] = {}

\* A domain that exists with the other wildcard flag is refused.
WildcardAgrees ==
    \A r \in Slot : \A d \in req[r].names :
        req[r].phase = "done" => req[r].answer[d].wildcard = (d \in req[r].wild)

=============================================================================
