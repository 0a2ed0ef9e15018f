---------------------------- MODULE StoreProofs ----------------------------
(***************************************************************************)
(* Lemmas about the methods of Store, cited wherever a component that      *)
(* works on the tables is proved about.                                    *)
(***************************************************************************)
EXTENDS Store, TLAPS

\* Certificates are saved by a clock that does not go back.
SavedInOrder ==
    \A d \in Domain : \A i, j \in 1 .. Len(certs[d]) :
        i < j => certs[d][i].issuedAt <= certs[d][j].issuedAt

-----------------------------------------------------------------------------
(* Reads.                                                                  *)

\* A row has the type of its columns, and NoRow is none.
LEMMA RowType ==
    ASSUME StoreTypeOK, NEW d \in Domain, Exists(d)
    PROVE  /\ domains[d] \in Row
           /\ domains[d].account \in Account /\ domains[d].wildcard \in BOOLEAN
BY DEF StoreTypeOK, Exists, Row

\* So has a certificate.
LEMMA CertType ==
    ASSUME StoreTypeOK, NEW d \in Domain
    PROVE  /\ certs[d] \in Seq(Cert) /\ Len(certs[d]) \in Nat
           /\ DOMAIN certs[d] = 1 .. Len(certs[d])
           /\ \A i \in 1 .. Len(certs[d]) :
                /\ certs[d][i] \in Cert
                /\ certs[d][i].serial \in Nat
                /\ certs[d][i].notAfter \in Nat
                /\ certs[d][i].issuedAt \in Nat
<1>1. certs[d] \in Seq(Cert)
  BY DEF StoreTypeOK
<1>2. Len(certs[d]) \in Nat /\ DOMAIN certs[d] = 1 .. Len(certs[d])
  BY <1>1
<1>3. \A i \in 1 .. Len(certs[d]) : certs[d][i] \in Cert
  BY <1>1
<1> QED
  BY <1>1, <1>2, <1>3 DEF Cert

\* Among rows ordered by issuedAt, the query for the newest one finds the last.
LEMMA LastIsNewest ==
    ASSUME NEW s \in Seq(Cert), s # <<>>,
           \A i, j \in 1 .. Len(s) : i < j => s[i].issuedAt <= s[j].issuedAt
    PROVE  Len(s) = CHOOSE i \in DOMAIN s :
                      \A j \in DOMAIN s :
                        \/ s[j].issuedAt < s[i].issuedAt
                        \/ s[j].issuedAt = s[i].issuedAt /\ j <= i
<1> DEFINE n == Len(s)
           Newest(i) == \A j \in DOMAIN s :
                            \/ s[j].issuedAt < s[i].issuedAt
                            \/ s[j].issuedAt = s[i].issuedAt /\ j <= i
<1>1. n \in Nat /\ n >= 1 /\ DOMAIN s = 1 .. n
  OBVIOUS
<1>2. \A i \in 1 .. n : s[i] \in Cert
  OBVIOUS
<1>3. \A i \in 1 .. n : s[i].issuedAt \in Nat
  BY <1>2 DEF Cert
<1>4. \A i \in 1 .. n : i < n => s[i].issuedAt <= s[n].issuedAt
  BY <1>1
<1> HIDE DEF n
<1>5. Newest(n)
  BY <1>1, <1>3, <1>4
<1>6. ASSUME NEW i \in DOMAIN s, Newest(i)
      PROVE  i = n
  BY <1>1, <1>3, <1>4, <1>6
<1> HIDE DEF Newest
<1>7. n = CHOOSE i \in DOMAIN s : Newest(i)
  BY <1>1, <1>5, <1>6
<1> QED
  BY <1>7 DEF n, Newest

\* In chronological order the newest certificate is the last row.
LEMMA LatestIsLast ==
    ASSUME StoreTypeOK, SavedInOrder, NEW d \in Domain, certs[d] # <<>>
    PROVE  /\ Latest(d) = certs[d][Len(certs[d])]
           /\ Latest(d) \in Cert
           /\ Len(certs[d]) \in 1 .. Len(certs[d])
           /\ DOMAIN certs[d] = 1 .. Len(certs[d])
<1>1. certs[d] \in Seq(Cert)
  BY DEF StoreTypeOK
<1>2. \A i, j \in 1 .. Len(certs[d]) : i < j => certs[d][i].issuedAt <= certs[d][j].issuedAt
  BY DEF SavedInOrder
<1>3. Latest(d) = certs[d][Len(certs[d])]
  BY <1>1, <1>2, LastIsNewest DEF Latest
<1>4. Len(certs[d]) \in 1 .. Len(certs[d]) /\ DOMAIN certs[d] = 1 .. Len(certs[d])
  BY <1>1
<1> QED
  BY <1>1, <1>3, <1>4

\* The serial the API reports is a number.
LEMMA LatestSerialType ==
    ASSUME StoreTypeOK, SavedInOrder, NEW d \in Domain
    PROVE  LatestSerial(d) \in Nat
<1>1. CASE certs[d] = <<>>
  BY <1>1 DEF LatestSerial
<1>2. CASE certs[d] # <<>>
  BY <1>2, LatestIsLast DEF LatestSerial, Cert
<1> QED
  BY <1>1, <1>2

-----------------------------------------------------------------------------
(* Writes.                                                                 *)

\* A status write keeps the table well formed.
LEMMA SetStatusType ==
    ASSUME StoreTypeOK, NEW d \in Domain, Exists(d),
           NEW s \in Status, NEW n \in Nat, NEW t \in Nat, SetStatus(d, s, n, t)
    PROVE  /\ StoreTypeOK'
           /\ \A e \in Domain : Exists(e)' <=> Exists(e)
           /\ domains'[d].status = s /\ domains'[d].failCount = n /\ domains'[d].retryAfter = t
           /\ domains'[d].account = domains[d].account
           /\ domains'[d].wildcard = domains[d].wildcard
           /\ \A e \in Domain \ {d} : domains'[e] = domains[e]
<1>1. domains[d] \in Row
  BY DEF StoreTypeOK, Exists
<1>2. [domains[d] EXCEPT !.status = s, !.failCount = n, !.retryAfter = t] \in Row
  BY <1>1 DEF Row
<1>3. domains' = [domains EXCEPT ![d] =
                    [domains[d] EXCEPT !.status = s, !.failCount = n, !.retryAfter = t]]
  BY DEF SetStatus, StoreTypeOK
<1>4. StoreTypeOK'
  BY <1>2, <1>3 DEF SetStatus, StoreTypeOK
<1>5. NoRow \notin Row
  BY StoreAssumption
<1>6. /\ domains'[d].status = s /\ domains'[d].failCount = n /\ domains'[d].retryAfter = t
      /\ domains'[d].account = domains[d].account /\ domains'[d].wildcard = domains[d].wildcard
  BY <1>1, <1>3 DEF StoreTypeOK, Row
<1> QED
  BY <1>2, <1>3, <1>4, <1>5, <1>6 DEF StoreTypeOK, Exists

\* A new row has what it was created with, and no other row changes.
LEMMA CreateDomainType ==
    ASSUME StoreTypeOK, NEW d \in Domain, NEW w \in BOOLEAN, NEW a \in Account,
           CreateDomain(d, w, a)
    PROVE  /\ StoreTypeOK'
           /\ ~Exists(d) /\ Exists(d)'
           /\ domains'[d].status = "pending_cname"
           /\ domains'[d].failCount = 0 /\ domains'[d].retryAfter = 0
           /\ domains'[d].account = a /\ domains'[d].wildcard = w
           /\ \A e \in Domain \ {d} : domains'[e] = domains[e]
           /\ UNCHANGED <<certs, domainClients>>
<1> DEFINE row == [wildcard |-> w, account |-> a, status |-> "pending_cname",
                   failCount |-> 0, retryAfter |-> 0]
<1>1. row \in Row /\ row # NoRow
  BY StoreAssumption DEF Row, Status
<1>2. /\ row.status = "pending_cname" /\ row.failCount = 0 /\ row.retryAfter = 0
      /\ row.account = a /\ row.wildcard = w
  OBVIOUS
<1>3. ~Exists(d) /\ domains' = [domains EXCEPT ![d] = row] /\ UNCHANGED <<certs, domainClients>>
  BY DEF CreateDomain
<1> HIDE DEF row
<1>4. StoreTypeOK' /\ domains'[d] = row /\ \A e \in Domain \ {d} : domains'[e] = domains[e]
  BY <1>1, <1>3 DEF StoreTypeOK
<1> QED
  BY <1>1, <1>2, <1>3, <1>4 DEF Exists

\* A saved certificate is the last row of its domain.
LEMMA SaveCertType ==
    ASSUME StoreTypeOK, NEW d \in Domain, NEW cert \in Cert, SaveCert(d, cert)
    PROVE  /\ StoreTypeOK'
           /\ UNCHANGED <<domains, domainClients>>
           /\ certs'[d] # <<>>
           /\ Len(certs[d]) \in Nat /\ Len(certs'[d]) = Len(certs[d]) + 1
           /\ certs'[d][Len(certs[d]) + 1] = cert
           /\ \A i \in 1 .. Len(certs[d]) : certs'[d][i] = certs[d][i]
           /\ \A e \in Domain \ {d} : certs'[e] = certs[e]
<1>1. certs[d] \in Seq(Cert)
  BY DEF StoreTypeOK
<1>2. /\ certs'[d] = Append(certs[d], cert)
      /\ \A e \in Domain \ {d} : certs'[e] = certs[e]
      /\ certs' \in [Domain -> Seq(Cert)]
      /\ UNCHANGED <<domains, domainClients>>
  BY <1>1 DEF SaveCert, StoreTypeOK
<1>3. StoreTypeOK'
  BY <1>2 DEF StoreTypeOK
<1>4. /\ Len(certs[d]) \in Nat /\ Len(certs'[d]) = Len(certs[d]) + 1
      /\ certs'[d][Len(certs[d]) + 1] = cert
      /\ \A i \in 1 .. Len(certs[d]) : certs'[d][i] = certs[d][i]
  BY <1>1, <1>2
<1>5. certs'[d] # <<>>
  BY <1>4
<1> QED
  BY <1>2, <1>3, <1>4, <1>5

\* Bindings are domains that have a row.
LEMMA SetClientDomainsType ==
    ASSUME StoreTypeOK, NEW c \in Client, NEW names \in SUBSET Domain,
           SetClientDomains(c, names)
    PROVE  /\ StoreTypeOK'
           /\ domainClients'[c] = {d \in names : Exists(d)}
           /\ \A b \in Client \ {c} : domainClients'[b] = domainClients[b]
           /\ UNCHANGED <<domains, certs>>
BY DEF SetClientDomains, StoreTypeOK

=============================================================================
