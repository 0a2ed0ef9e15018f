------------------------------- MODULE Store -------------------------------
(***************************************************************************)
(* The centre's SQLite database (internal/server/store/store.go), as far   *)
(* as the scheduler and the HTTP API share it: the tables domains, certs   *)
(* and domain_clients.  The centre opens one connection, so that a single  *)
(* statement or a transaction is one atomic step; the maintenance commands *)
(* (revoke, renew) are other processes on the same file.                   *)
(*                                                                         *)
(* The operators below are the store's methods.  An operator that writes   *)
(* gives the next value of all three tables.                               *)
(***************************************************************************)
EXTENDS Integers, Sequences, FiniteSets

CONSTANTS
    Domain,     \* names of domains that proxies may ask for
    Client,     \* names of proxies
    Account,    \* acme-dns accounts (each one is a CNAME target)
    Wildcards,  \* the wildcard flags that proxies ask for
    NoRow       \* the result of a SELECT that finds nothing

VARIABLES
    domains,        \* the row of a domain, NoRow before it is created
    certs,          \* the rows of certs of a domain, in the order of their ids
    domainClients   \* the domains bound to a proxy (table domain_clients)

storeVars == <<domains, certs, domainClients>>

Status == {"pending_cname", "issuing", "active", "error"}

\* failCount and retryAfter are the scheduler's backoff; retryAfter = 0 is
\* the zero time.Time.
Row == [wildcard : BOOLEAN, account : Account, status : Status,
        failCount : Nat, retryAfter : Nat]

Cert == [serial : Nat, notAfter : Nat, issuedAt : Nat]

ASSUME StoreAssumption ==
    /\ NoRow \notin Row
    /\ Wildcards \subseteq BOOLEAN

StoreTypeOK ==
    /\ domains \in [Domain -> Row \cup {NoRow}]
    /\ certs \in [Domain -> Seq(Cert)]
    /\ domainClients \in [Client -> SUBSET Domain]

StoreInit ==
    /\ domains = [d \in Domain |-> NoRow]
    /\ certs = [d \in Domain |-> <<>>]
    /\ domainClients = [c \in Client |-> {}]

-----------------------------------------------------------------------------
(* Reads.                                                                  *)

Exists(d) == domains[d] # NoRow

\* The domains that at least one proxy has claimed (ListServedDomains).
Served == {d \in Domain : Exists(d) /\ \E c \in Client : d \in domainClients[c]}

\* Mutant of Latest: ordered the other way round.
LatestAscending(d) ==
    LET oldest == CHOOSE i \in DOMAIN certs[d] :
                    \A j \in DOMAIN certs[d] :
                        \/ certs[d][j].issuedAt > certs[d][i].issuedAt
                        \/ certs[d][j].issuedAt = certs[d][i].issuedAt /\ j >= i
    IN  certs[d][oldest]

\* LatestCert and LatestCertMeta: ORDER BY issued_at DESC, id DESC LIMIT 1.
Latest(d) ==
    LET newest == CHOOSE i \in DOMAIN certs[d] :
                    \A j \in DOMAIN certs[d] :
                        \/ certs[d][j].issuedAt < certs[d][i].issuedAt
                        \/ certs[d][j].issuedAt = certs[d][i].issuedAt /\ j <= i
    IN  certs[d][newest]

\* The serial the API would report: 0 stands for "no certificate".
LatestSerial(d) == IF certs[d] = <<>> THEN 0 ELSE Latest(d).serial

-----------------------------------------------------------------------------
(* Writes.                                                                 *)

\* Mutant of CreateDomain: INSERT OR REPLACE.
CreateDomainUpsert(d, wildcard, account) ==
    /\ domains' = [domains EXCEPT ![d] =
                     [wildcard |-> wildcard, account |-> account,
                      status |-> "pending_cname", failCount |-> 0, retryAfter |-> 0]]
    /\ UNCHANGED <<certs, domainClients>>

\* INSERT INTO domains: fails on the UNIQUE name when the row is there.
CreateDomain(d, wildcard, account) ==
    /\ ~Exists(d)
    /\ domains' = [domains EXCEPT ![d] =
                     [wildcard |-> wildcard, account |-> account,
                      status |-> "pending_cname", failCount |-> 0, retryAfter |-> 0]]
    /\ UNCHANGED <<certs, domainClients>>

SetStatus(d, status, failCount, retryAfter) ==
    /\ domains' = [domains EXCEPT ![d].status = status,
                                  ![d].failCount = failCount,
                                  ![d].retryAfter = retryAfter]
    /\ UNCHANGED <<certs, domainClients>>

\* Mutant of SaveCert: only the last certificate of a domain is kept.
SaveCertReplacing(d, cert) ==
    /\ certs' = [certs EXCEPT ![d] = <<cert>>]
    /\ UNCHANGED <<domains, domainClients>>

SaveCert(d, cert) ==
    /\ certs' = [certs EXCEPT ![d] = Append(@, cert)]
    /\ UNCHANGED <<domains, domainClients>>

\* Mutant of SetClientDomains: without the DELETE.
SetClientDomainsAdding(c, names) ==
    /\ domainClients' = [domainClients EXCEPT ![c] = @ \cup {d \in names : Exists(d)}]
    /\ UNCHANGED <<domains, certs>>

\* One transaction: drop every binding of the proxy, then bind the names that
\* have a row (INSERT ... SELECT id FROM domains WHERE name = ?).  The table has
\* no reference to clients.
SetClientDomains(c, names) ==
    /\ domainClients' = [domainClients EXCEPT ![c] = {d \in names : Exists(d)}]
    /\ UNCHANGED <<domains, certs>>

=============================================================================
