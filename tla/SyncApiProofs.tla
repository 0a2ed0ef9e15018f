--------------------------- MODULE SyncApiProofs ---------------------------
(***************************************************************************)
(* Theorems about SyncApi for any number of requests, proxies, domains and *)
(* accounts, whatever the scheduler writes beside them.                    *)
(***************************************************************************)
EXTENDS SyncApi, StoreProofs

-----------------------------------------------------------------------------
(* The inductive invariant.                                                *)

\* What a request has come to: it works on a domain it was asked for, the row
\* it holds is that domain's, and the domains it is through with are answered.
ClaimOK(q, rows) ==
    /\ q.todo \subseteq q.names
    /\ q.phase \in {"commit", "done"} => q.todo = {}
    /\ q.phase \in {"register", "create", "latest"} => q.dom \in q.names
    /\ q.phase = "create" => q.account \in Account
    /\ q.phase = "latest" => rows[q.dom] # NoRow /\ q.row = Identity(rows[q.dom])
    /\ \A d \in q.names \ q.todo : q.answer[d] # NoItem

\* Every item of an answer is the row's.
ItemsOK(q, rows) ==
    \A d \in Domain : q.answer[d] # NoItem =>
        /\ rows[d] # NoRow
        /\ q.answer[d].account = rows[d].account
        /\ q.answer[d].wildcard = rows[d].wildcard

\* What is answered is at least as new as what the request has seen.
ItemsFresh(q) ==
    \A d \in Domain : q.answer[d] # NoItem /\ q.answer[d].serial # 0
        => q.answer[d].serial >= q.seen[d]

RequestsOK ==
    \A r \in Slot : ClaimOK(req[r], domains) /\ ItemsOK(req[r], domains) /\ ItemsFresh(req[r])

\* The accounts of the rows, and those that requests have registered and not
\* yet saved, are all different and all known to acme-dns.
AccountsOK ==
    /\ \A d \in Domain : Exists(d) => domains[d].account \in registered
    /\ AccountsDistinct
    /\ \A r \in Slot : req[r].phase = "create" =>
         /\ req[r].account \in registered
         /\ \A d \in Domain : Exists(d) => domains[d].account # req[r].account
         /\ \A s \in Slot : req[s].phase = "create" /\ req[s].account = req[r].account => r = s

\* The serials of a domain grow, and no request has seen more than there is.
InOrder ==
    \A d \in Domain : \A i, j \in 1 .. Len(certs[d]) :
        i < j => /\ certs[d][i].serial < certs[d][j].serial
                 /\ certs[d][i].issuedAt <= certs[d][j].issuedAt

SerialsOK ==
    /\ InOrder
    /\ \A r \in Slot, d \in Domain : req[r].seen[d] <= LastSaved(d)

IInv == TypeOK /\ RequestsOK /\ AccountsOK /\ SerialsOK

-----------------------------------------------------------------------------
(* Lemmas about requests and tables.                                       *)

\* Rows keep what requests and answers know of them.
IdentityKept(old, new) ==
    \A d \in Domain : old[d] # NoRow =>
        /\ new[d] # NoRow
        /\ new[d].account = old[d].account
        /\ new[d].wildcard = old[d].wildcard

\* A request stays in order while rows are added and statuses change.
LEMMA RequestKept ==
    ASSUME NEW q \in Request, NEW old, NEW new, IdentityKept(old, new),
           ClaimOK(q, old), ItemsOK(q, old)
    PROVE  ClaimOK(q, new) /\ ItemsOK(q, new)
<1>1. q.names \subseteq Domain
  BY DEF Request
<1>2. ClaimOK(q, new)
  BY <1>1 DEF ClaimOK, IdentityKept, Identity
<1>3. ItemsOK(q, new)
  BY DEF ItemsOK, IdentityKept
<1> QED
  BY <1>2, <1>3

\* The free request asks for nothing and has been told nothing.
LEMMA IdleOK ==
    /\ Idle \in Request
    /\ Idle.phase = "free" /\ Idle.names = {} /\ Idle.todo = {}
    /\ \A d \in Domain : Idle.answer[d] = NoItem /\ Idle.seen[d] = 0
<1>1. (CHOOSE c \in Client : TRUE) \in Client
  BY ApiAssumption
<1> QED
  BY <1>1 DEF Idle, Request, Phase

LEMMA IdleClaim ==
    ASSUME NEW rows
    PROVE  ClaimOK(Idle, rows) /\ ItemsOK(Idle, rows) /\ ItemsFresh(Idle)
BY IdleOK DEF ClaimOK, ItemsOK, ItemsFresh

\* The serial saved last is a number, and the one the API reports.
LEMMA LatestIsLastSaved ==
    ASSUME StoreTypeOK, InOrder, NEW d \in Domain
    PROVE  LastSaved(d) \in Nat /\ LatestSerial(d) = LastSaved(d)
<1>1. SavedInOrder
  BY DEF InOrder, SavedInOrder
<1>2. CASE certs[d] = <<>>
  BY <1>2 DEF LastSaved, LatestSerial
<1>3. CASE certs[d] # <<>>
  <2>1. /\ Latest(d) = certs[d][Len(certs[d])] /\ Latest(d) \in Cert
    BY <1>1, <1>3, LatestIsLast
  <2> QED
    BY <1>3, <2>1 DEF LastSaved, LatestSerial, Cert
<1> QED
  BY <1>2, <1>3

\* A row's identity has the type requests hold.
LEMMA IdentityType ==
    ASSUME StoreTypeOK, NEW d \in Domain, Exists(d)
    PROVE  Identity(domains[d]) \in [account : Account, wildcard : BOOLEAN]
BY RowType DEF Identity

\* What holds of a request because the invariant does.
LEMMA RequestOf ==
    ASSUME IInv, NEW r \in Slot
    PROVE  /\ req[r] \in Request /\ req \in [Slot -> Request] /\ StoreTypeOK
           /\ req[r].phase \in Phase /\ req[r].client \in Client
           /\ req[r].names \subseteq Domain /\ req[r].wild \subseteq Domain
           /\ req[r].todo \subseteq Domain
           /\ req[r].account \in Account \cup {NoRow}
           /\ req[r].answer \in [Domain -> Item \cup {NoItem}]
           /\ req[r].seen \in [Domain -> Nat]
           /\ ClaimOK(req[r], domains) /\ ItemsOK(req[r], domains) /\ ItemsFresh(req[r])
           /\ \A d \in Domain : req[r].seen[d] <= LastSaved(d)
<1>1. req[r] \in Request /\ req \in [Slot -> Request] /\ StoreTypeOK
  BY DEF IInv, TypeOK
<1> QED
  BY <1>1 DEF IInv, RequestsOK, SerialsOK, Request

-----------------------------------------------------------------------------
(* Steps of one kind.                                                      *)

\* One request goes on to q, which holds no account; rows, certificates and
\* acme-dns stay as they are.
LEMMA SlotStep ==
    ASSUME IInv, NEW r \in Slot, NEW q \in Request,
           req' = [req EXCEPT ![r] = q],
           UNCHANGED <<domains, certs, registered, clients>>, StoreTypeOK',
           q.phase # "create",
           ClaimOK(q, domains), ItemsOK(q, domains), ItemsFresh(q),
           \A d \in Domain : q.seen[d] <= LastSaved(d)
    PROVE  IInv'
<1>1. req \in [Slot -> Request]
  BY DEF IInv, TypeOK
<1>2. req'[r] = q /\ \A s \in Slot \ {r} : req'[s] = req[s]
  BY <1>1
<1>3. TypeOK'
  BY <1>1 DEF IInv, TypeOK
<1>4. RequestsOK'
  BY <1>2 DEF IInv, RequestsOK
<1>5. AccountsOK'
  BY <1>2 DEF IInv, AccountsOK, AccountsDistinct, Exists
<1>6. SerialsOK'
  BY <1>2 DEF IInv, SerialsOK, InOrder, LastSaved
<1> QED
  BY <1>3, <1>4, <1>5, <1>6 DEF IInv

\* The tables change beside the requests: no row comes or goes, certificates
\* are only added.
LEMMA TablesStep ==
    ASSUME IInv, UNCHANGED <<registered, req>>, TypeOK',
           \A d \in Domain : Exists(d)' <=> Exists(d),
           IdentityKept(domains, domains'),
           InOrder', \A d \in Domain : LastSaved(d) <= LastSaved(d)'
    PROVE  IInv'
<1>1. RequestsOK'
  <2> SUFFICES ASSUME NEW r \in Slot
               PROVE  ClaimOK(req[r], domains') /\ ItemsOK(req[r], domains') /\ ItemsFresh(req[r])
    BY DEF RequestsOK
  <2>1. \A q \in Request : ClaimOK(q, domains) /\ ItemsOK(q, domains)
                            => ClaimOK(q, domains') /\ ItemsOK(q, domains')
    BY RequestKept
  <2> QED
    BY <2>1, RequestOf
<1>2. AccountsOK'
  BY DEF IInv, AccountsOK, AccountsDistinct, IdentityKept, Exists
<1>3. SerialsOK'
  <2> SUFFICES ASSUME NEW r \in Slot, NEW d \in Domain
               PROVE  req[r].seen[d] <= LastSaved(d)'
    BY DEF SerialsOK
  <2>1. req[r].seen[d] \in Nat /\ req[r].seen[d] <= LastSaved(d)
    BY RequestOf
  <2>2. LastSaved(d) \in Nat
    BY LatestIsLastSaved DEF IInv, TypeOK, SerialsOK
  <2>3. LastSaved(d)' \in Nat
    <3>1. certs'[d] \in Seq(Cert)
      BY DEF TypeOK, StoreTypeOK
    <3>2. CASE certs'[d] = <<>>
      BY <3>2 DEF LastSaved
    <3>3. CASE certs'[d] # <<>>
      <4>1. certs'[d][Len(certs'[d])] \in Cert
        BY <3>1, <3>3
      <4> QED
        BY <3>3, <4>1 DEF LastSaved, Cert
    <3> QED
      BY <3>2, <3>3
  <2> QED
    BY <2>1, <2>2, <2>3
<1> QED
  BY <1>1, <1>2, <1>3 DEF IInv

-----------------------------------------------------------------------------
(* The invariant holds at the start and every step keeps it.               *)

LEMMA InitIInv == Init => IInv
<1> SUFFICES ASSUME Init PROVE IInv
  OBVIOUS
<1>1. \A d \in Domain : domains[d] = NoRow /\ certs[d] = <<>>
  BY DEF Init, StoreInit
<1>2. \A r \in Slot : req[r] = Idle
  BY DEF Init
<1>3. TypeOK
  BY IdleOK DEF Init, StoreInit, TypeOK, StoreTypeOK
<1>4. RequestsOK
  BY <1>2, IdleClaim DEF RequestsOK
<1>5. AccountsOK
  BY <1>1, <1>2, IdleOK DEF AccountsOK, AccountsDistinct, Exists
<1>6. SerialsOK
  BY <1>1, <1>2, IdleOK DEF SerialsOK, InOrder, LastSaved
<1> QED
  BY <1>3, <1>4, <1>5, <1>6 DEF IInv

\* A request is accepted: it asks for all and has seen what is saved.
LEMMA BeginStep ==
    ASSUME IInv, NEW r \in Slot, NEW c \in Client,
           NEW names \in SUBSET Domain, NEW wild \in SUBSET names,
           Begin(r, c, names, wild)
    PROVE  IInv'
<1> DEFINE seen == [d \in Domain |-> LastSaved(d)]
           q == [Idle EXCEPT !.phase = "claim", !.client = c, !.names = names, !.wild = wild,
                             !.todo = names, !.seen = seen]
<1>1. StoreTypeOK /\ InOrder
  BY DEF IInv, TypeOK, SerialsOK
<1>2. seen \in [Domain -> Nat] /\ \A d \in Domain : seen[d] = LastSaved(d) /\ LastSaved(d) \in Nat
  BY <1>1, LatestIsLastSaved
<1> HIDE DEF seen
<1>3. /\ q.phase = "claim" /\ q.names = names /\ q.todo = names /\ q.seen = seen
      /\ q.answer = Idle.answer
      /\ q \in Request
  BY <1>2, IdleOK DEF Request, Phase
<1>4. /\ req' = [req EXCEPT ![r] = q]
      /\ UNCHANGED <<storeVars, clients, registered>>
  BY DEF Begin, seen
<1> HIDE DEF q
<1>5. ClaimOK(q, domains) /\ ItemsOK(q, domains) /\ ItemsFresh(q)
  BY <1>3, IdleOK DEF ClaimOK, ItemsOK, ItemsFresh
<1>6. \A d \in Domain : q.seen[d] <= LastSaved(d)
  BY <1>2, <1>3
<1>7. StoreTypeOK'
  BY <1>1, <1>4 DEF StoreTypeOK, storeVars
<1> QED
  BY <1>3, <1>4, <1>5, <1>6, <1>7, SlotStep DEF storeVars

\* A request ends, with an answer or without.
LEMMA EndStep ==
    ASSUME IInv, NEW r \in Slot, req' = [req EXCEPT ![r] = Idle],
           UNCHANGED <<storeVars, clients, registered>>
    PROVE  IInv'
<1>1. StoreTypeOK /\ InOrder
  BY DEF IInv, TypeOK, SerialsOK
<1>2. StoreTypeOK'
  BY <1>1 DEF StoreTypeOK, storeVars
<1>3. \A d \in Domain : Idle.seen[d] <= LastSaved(d)
  BY <1>1, IdleOK, LatestIsLastSaved
<1> QED
  BY <1>2, <1>3, IdleOK, IdleClaim, SlotStep DEF storeVars

\* A request takes the row it has found.
LEMMA TakeRowStep ==
    ASSUME IInv, NEW r \in Slot, NEW d \in Domain, Exists(d), d \in req[r].names,
           NEW account \in Account \cup {NoRow},
           req' = [req EXCEPT ![r].phase = "latest", ![r].dom = d, ![r].account = account,
                              ![r].row = Identity(domains[d])],
           UNCHANGED <<storeVars, clients, registered>>,
           req[r].phase \notin {"commit", "done"}
    PROVE  IInv'
<1> DEFINE q == [req[r] EXCEPT !.phase = "latest", !.dom = d, !.account = account,
                               !.row = Identity(domains[d])]
<1>1. req[r] \in Request /\ req \in [Slot -> Request] /\ StoreTypeOK
      /\ ClaimOK(req[r], domains) /\ ItemsOK(req[r], domains) /\ ItemsFresh(req[r])
      /\ \A e \in Domain : req[r].seen[e] <= LastSaved(e)
  BY RequestOf
<1>2. Identity(domains[d]) \in [account : Account, wildcard : BOOLEAN]
  BY <1>1, IdentityType
<1>3. /\ q \in Request /\ q.phase = "latest" /\ q.dom = d /\ q.row = Identity(domains[d])
      /\ q.todo = req[r].todo /\ q.names = req[r].names
      /\ q.answer = req[r].answer /\ q.seen = req[r].seen
  BY <1>1, <1>2 DEF Request, Phase
<1>4. req' = [req EXCEPT ![r] = q]
  BY <1>1
<1> HIDE DEF q
<1>5. ClaimOK(q, domains) /\ ItemsOK(q, domains) /\ ItemsFresh(q)
  BY <1>1, <1>3 DEF ClaimOK, ItemsOK, ItemsFresh, Exists
<1>6. StoreTypeOK'
  BY <1>1 DEF StoreTypeOK, storeVars
<1> QED
  BY <1>1, <1>3, <1>4, <1>5, <1>6, SlotStep DEF storeVars

LEMMA ClaimNewStep ==
    ASSUME IInv, NEW r \in Slot, NEW d \in Domain, ClaimNew(r, d)
    PROVE  IInv'
<1> DEFINE q == [req[r] EXCEPT !.phase = "register", !.dom = d]
<1>1. req[r] \in Request /\ req \in [Slot -> Request] /\ StoreTypeOK
      /\ ClaimOK(req[r], domains) /\ ItemsOK(req[r], domains) /\ ItemsFresh(req[r])
      /\ \A e \in Domain : req[r].seen[e] <= LastSaved(e)
  BY RequestOf
<1>2. /\ q \in Request /\ q.phase = "register" /\ q.dom = d
      /\ q.todo = req[r].todo /\ q.names = req[r].names
      /\ q.answer = req[r].answer /\ q.seen = req[r].seen
  BY <1>1 DEF Request, Phase
<1>3. req' = [req EXCEPT ![r] = q] /\ UNCHANGED <<storeVars, clients, registered>>
  BY <1>1 DEF ClaimNew
<1> HIDE DEF q
<1>4. ClaimOK(q, domains) /\ ItemsOK(q, domains) /\ ItemsFresh(q)
  BY <1>1, <1>2 DEF ClaimOK, ItemsOK, ItemsFresh, ClaimNew
<1>5. StoreTypeOK'
  BY <1>1, <1>3 DEF StoreTypeOK, storeVars
<1> QED
  BY <1>1, <1>2, <1>3, <1>4, <1>5, SlotStep DEF storeVars

\* The answer about a domain is the row's, with the newest serial or none.
LEMMA ReadCertStep ==
    ASSUME IInv, NEW r \in Slot, ReadCert(r)
    PROVE  IInv'
<1> DEFINE d == req[r].dom
           row == req[r].row
           rest == req[r].todo \ {d}
           phase == IF rest = {} THEN "commit" ELSE "claim"
<1>1. req[r] \in Request /\ req \in [Slot -> Request] /\ StoreTypeOK /\ InOrder
      /\ ClaimOK(req[r], domains) /\ ItemsOK(req[r], domains) /\ ItemsFresh(req[r])
      /\ (\A e \in Domain : req[r].seen[e] <= LastSaved(e))
      /\ req[r].names \subseteq Domain
      /\ req[r].answer \in [Domain -> Item \cup {NoItem}] /\ req[r].seen \in [Domain -> Nat]
  BY RequestOf DEF IInv, SerialsOK
<1>2. d \in Domain /\ d \in req[r].names /\ Exists(d) /\ row = Identity(domains[d])
  BY <1>1 DEF ReadCert, ClaimOK, Exists
<1>3. row \in [account : Account, wildcard : BOOLEAN]
      /\ row.account = domains[d].account /\ row.wildcard = domains[d].wildcard
  BY <1>1, <1>2, IdentityType DEF Identity
<1>4. LastSaved(d) \in Nat /\ LatestSerial(d) = LastSaved(d)
  BY <1>1, <1>2, LatestIsLastSaved
<1> DEFINE item(serial) == [account |-> row.account, wildcard |-> row.wildcard, serial |-> serial]
<1>5. PICK serial \in {LatestSerial(d), 0} :
        req' = [req EXCEPT ![r].phase = phase, ![r].todo = rest, ![r].row = NoRow,
                           ![r].answer = [@ EXCEPT ![d] = item(serial)]]
  BY DEF ReadCert
<1>6. /\ item(serial) \in Item /\ item(serial) # NoItem
      /\ item(serial).account = domains[d].account /\ item(serial).wildcard = domains[d].wildcard
      /\ item(serial).serial \in {LastSaved(d), 0}
  BY <1>3, <1>4, ApiAssumption DEF Item
<1> DEFINE told == item(serial)
           answer == [req[r].answer EXCEPT ![d] = told]
           q == [req[r] EXCEPT !.phase = phase, !.todo = rest, !.row = NoRow, !.answer = answer]
<1>7. req' = [req EXCEPT ![r] = q]
  BY <1>1, <1>5
<1> HIDE DEF item
<1>8. /\ answer \in [Domain -> Item \cup {NoItem}] /\ answer[d] = told
      /\ \A e \in Domain \ {d} : answer[e] = req[r].answer[e]
  BY <1>1, <1>2, <1>6
<1> HIDE DEF answer
<1>9. phase \in {"claim", "commit"} /\ (phase = "commit" => rest = {})
  OBVIOUS
<1>10. /\ q.phase = phase /\ q.todo = rest /\ q.names = req[r].names
       /\ q.answer = answer /\ q.seen = req[r].seen
       /\ q \in Request
  BY <1>1, <1>8, <1>9 DEF Request, Phase
<1> HIDE DEF q, phase
<1>11. ClaimOK(q, domains)
  BY <1>1, <1>6, <1>8, <1>9, <1>10 DEF ClaimOK
<1>12. ItemsOK(q, domains)
  BY <1>1, <1>2, <1>6, <1>8, <1>10 DEF ItemsOK, Exists
<1>13. ItemsFresh(q)
  BY <1>1, <1>2, <1>4, <1>6, <1>8, <1>10 DEF ItemsFresh
<1>14. StoreTypeOK' /\ UNCHANGED <<storeVars, clients, registered>>
  BY <1>1 DEF ReadCert, StoreTypeOK, storeVars
<1> QED
  BY <1>1, <1>7, <1>9, <1>10, <1>11, <1>12, <1>13, <1>14, SlotStep DEF storeVars

LEMMA CommitStep ==
    ASSUME IInv, NEW r \in Slot, Commit(r)
    PROVE  IInv'
<1> DEFINE q == [req[r] EXCEPT !.phase = "done"]
<1>1. req[r] \in Request /\ req \in [Slot -> Request] /\ StoreTypeOK
      /\ ClaimOK(req[r], domains) /\ ItemsOK(req[r], domains) /\ ItemsFresh(req[r])
      /\ (\A e \in Domain : req[r].seen[e] <= LastSaved(e))
      /\ req[r].names \subseteq Domain /\ req[r].client \in Client
  BY RequestOf
<1>2. /\ q \in Request /\ q.phase = "done"
      /\ q.todo = req[r].todo /\ q.names = req[r].names
      /\ q.answer = req[r].answer /\ q.seen = req[r].seen
  BY <1>1 DEF Request, Phase
<1>3. req' = [req EXCEPT ![r] = q] /\ UNCHANGED <<clients, registered>>
  BY <1>1 DEF Commit
<1> HIDE DEF q
<1>4. ClaimOK(q, domains) /\ ItemsOK(q, domains) /\ ItemsFresh(q)
  BY <1>1, <1>2 DEF ClaimOK, ItemsOK, ItemsFresh, Commit
<1>5. StoreTypeOK' /\ UNCHANGED <<domains, certs>>
  BY <1>1, SetClientDomainsType DEF Commit
<1> QED
  BY <1>1, <1>2, <1>3, <1>4, <1>5, SlotStep

\* acme-dns hands out an account that nobody has.
LEMMA RegisterStep ==
    ASSUME IInv, NEW r \in Slot, Register(r)
    PROVE  IInv'
<1>1. req[r] \in Request /\ req \in [Slot -> Request] /\ StoreTypeOK
      /\ ClaimOK(req[r], domains) /\ ItemsOK(req[r], domains) /\ ItemsFresh(req[r])
      /\ (\A e \in Domain : req[r].seen[e] <= LastSaved(e))
  BY RequestOf
<1>2. PICK a \in Account \ registered :
        /\ registered' = registered \cup {a}
        /\ req' = [req EXCEPT ![r].phase = "create", ![r].account = a]
  BY DEF Register
<1> DEFINE q == [req[r] EXCEPT !.phase = "create", !.account = a]
<1>3. /\ q \in Request /\ q.phase = "create" /\ q.account = a
      /\ q.dom = req[r].dom /\ q.todo = req[r].todo /\ q.names = req[r].names
      /\ q.answer = req[r].answer /\ q.seen = req[r].seen
  BY <1>1 DEF Request, Phase
<1>4. req' = [req EXCEPT ![r] = q] /\ UNCHANGED <<storeVars, clients>>
  BY <1>1, <1>2 DEF Register
<1> HIDE DEF q
<1>5. req'[r] = q /\ \A s \in Slot \ {r} : req'[s] = req[s]
  BY <1>1, <1>4
<1>6. TypeOK'
  BY <1>1, <1>2, <1>3, <1>4 DEF IInv, TypeOK, StoreTypeOK, storeVars
<1>7. ClaimOK(q, domains) /\ ItemsOK(q, domains) /\ ItemsFresh(q)
  BY <1>1, <1>3 DEF ClaimOK, ItemsOK, ItemsFresh, Register
<1>8. RequestsOK'
  BY <1>4, <1>5, <1>7 DEF IInv, RequestsOK, storeVars
<1>9. AccountsOK'
  <2>1. UNCHANGED domains /\ a \notin registered /\ a \in registered' /\ registered \subseteq registered'
    BY <1>2, <1>4 DEF storeVars
  <2>2. \A d \in Domain : Exists(d) => domains[d].account \in registered
    BY DEF IInv, AccountsOK
  <2>3. AccountsDistinct'
    BY <2>1 DEF IInv, AccountsOK, AccountsDistinct, Exists
  <2>4. ASSUME NEW s \in Slot, req'[s].phase = "create"
        PROVE  /\ req'[s].account \in registered'
               /\ \A d \in Domain : Exists(d) => domains[d].account # req'[s].account
               /\ \A t \in Slot : req'[t].phase = "create" /\ req'[t].account = req'[s].account
                                  => s = t
    <3>1. \A t \in Slot \ {r} : req[t].phase = "create" => req[t].account \in registered
      BY DEF IInv, AccountsOK
    <3>2. CASE s = r
      BY <1>3, <1>5, <2>1, <2>2, <3>1, <3>2
    <3>3. CASE s # r
      BY <1>3, <1>5, <2>1, <2>4, <3>1, <3>3 DEF IInv, AccountsOK
    <3> QED
      BY <3>2, <3>3
  <2> QED
    BY <2>1, <2>2, <2>3, <2>4 DEF AccountsOK, Exists
<1>10. SerialsOK'
  BY <1>1, <1>3, <1>4, <1>5 DEF IInv, SerialsOK, InOrder, LastSaved, storeVars
<1> QED
  BY <1>6, <1>8, <1>9, <1>10 DEF IInv

\* The account a request has registered becomes the new row's.
LEMMA CreateStep ==
    ASSUME IInv, NEW r \in Slot, Create(r)
    PROVE  IInv'
<1>1. req[r] \in Request /\ req \in [Slot -> Request] /\ StoreTypeOK
      /\ ClaimOK(req[r], domains) /\ ItemsOK(req[r], domains) /\ ItemsFresh(req[r])
      /\ (\A e \in Domain : req[r].seen[e] <= LastSaved(e))
      /\ req[r].names \subseteq Domain
  BY RequestOf
<1>2. PICK d \in Domain, a \in Account :
        d = req[r].dom /\ d \in req[r].names /\ a = req[r].account
  <2>1. req[r].dom \in Domain /\ req[r].dom \in req[r].names /\ req[r].account \in Account
    BY <1>1 DEF Create, ClaimOK
  <2> QED
    BY <2>1
<1>3. PICK w \in BOOLEAN : CreateDomain(d, w, a)
  <2>1. (d \in req[r].wild) \in BOOLEAN
    OBVIOUS
  <2>2. CreateDomain(d, d \in req[r].wild, a)
    BY <1>2 DEF Create
  <2> QED
    BY <2>1, <2>2, Zenon
<1>4. /\ StoreTypeOK' /\ ~Exists(d) /\ Exists(d)'
      /\ domains'[d].account = a /\ domains'[d].wildcard = w
      /\ (\A e \in Domain \ {d} : domains'[e] = domains[e])
      /\ UNCHANGED <<certs, domainClients>>
  BY <1>1, <1>2, <1>3, CreateDomainType
<1>5. PICK id \in [account : Account, wildcard : BOOLEAN] : id = Identity(domains'[d])
  BY <1>2, <1>4 DEF Identity
<1> DEFINE q == [req[r] EXCEPT !.phase = "latest", !.account = NoRow, !.row = id]
<1>6. /\ q \in Request /\ q.phase = "latest" /\ q.dom = d /\ q.row = id
      /\ q.todo = req[r].todo /\ q.names = req[r].names
      /\ q.answer = req[r].answer /\ q.seen = req[r].seen
  BY <1>1, <1>2 DEF Request, Phase
<1>7. req' = [req EXCEPT ![r] = q] /\ UNCHANGED <<clients, registered>>
  BY <1>1, <1>2, <1>5 DEF Create
<1> HIDE DEF q
<1>8. req'[r] = q /\ \A s \in Slot \ {r} : req'[s] = req[s]
  BY <1>1, <1>7
<1>9. TypeOK'
  BY <1>1, <1>4, <1>6, <1>7 DEF IInv, TypeOK
<1>10. IdentityKept(domains, domains')
  BY <1>4 DEF IdentityKept, Exists
<1>11. RequestsOK'
  <2>1. ClaimOK(q, domains') /\ ItemsOK(q, domains') /\ ItemsFresh(q)
    <3>1. ClaimOK(req[r], domains') /\ ItemsOK(req[r], domains')
      <4>1. \A p \in Request : ClaimOK(p, domains) /\ ItemsOK(p, domains)
                               => ClaimOK(p, domains') /\ ItemsOK(p, domains')
        BY <1>10, RequestKept
      <4> QED
        BY <1>1, <4>1
    <3> QED
      BY <1>1, <1>2, <1>4, <1>5, <1>6, <3>1 DEF ClaimOK, ItemsOK, ItemsFresh, Exists, Create
  <2>2. ASSUME NEW s \in Slot \ {r}
        PROVE  ClaimOK(req[s], domains') /\ ItemsOK(req[s], domains') /\ ItemsFresh(req[s])
    <3>1. \A p \in Request : ClaimOK(p, domains) /\ ItemsOK(p, domains)
                             => ClaimOK(p, domains') /\ ItemsOK(p, domains')
      BY <1>10, RequestKept
    <3> QED
      BY <3>1, RequestOf
  <2> QED
    BY <1>8, <2>1, <2>2 DEF RequestsOK
<1>12. AccountsOK'
  <2>1. /\ \A e \in Domain : Exists(e) => domains[e].account \in registered /\ domains[e].account # a
        /\ AccountsDistinct /\ a \in registered
        /\ \A s \in Slot \ {r} : req[s].phase = "create" =>
             /\ req[s].account # a /\ req[s].account \in registered
             /\ \A e \in Domain : Exists(e) => domains[e].account # req[s].account
             /\ \A t \in Slot \ {r} : req[t].phase = "create" /\ req[t].account = req[s].account => s = t
    BY <1>2 DEF IInv, AccountsOK, Create
  <2> QED
    BY <1>2, <1>4, <1>6, <1>7, <1>8, <2>1 DEF AccountsOK, AccountsDistinct, Exists
<1>13. SerialsOK'
  BY <1>1, <1>4, <1>6, <1>8 DEF IInv, SerialsOK, InOrder, LastSaved
<1> QED
  BY <1>9, <1>11, <1>12, <1>13 DEF IInv

LEMMA ClaimExistingStep ==
    ASSUME IInv, NEW r \in Slot, NEW d \in Domain, ClaimExisting(r, d)
    PROVE  IInv'
<1>1. /\ req[r] \in Request /\ req \in [Slot -> Request]
      /\ req[r].account \in Account \cup {NoRow}
      /\ ClaimOK(req[r], domains)
  BY RequestOf
<1>2. req' = [req EXCEPT ![r].phase = "latest", ![r].dom = d, ![r].account = req[r].account,
                         ![r].row = Identity(domains[d])]
  <2>1. [req[r] EXCEPT !.phase = "latest", !.dom = d, !.row = Identity(domains[d])]
        = [req[r] EXCEPT !.phase = "latest", !.dom = d, !.account = req[r].account,
                         !.row = Identity(domains[d])]
    BY <1>1 DEF Request
  <2>2. req' = [req EXCEPT ![r] = [req[r] EXCEPT !.phase = "latest", !.dom = d,
                                                 !.row = Identity(domains[d])]]
    BY <1>1 DEF ClaimExisting
  <2> QED
    BY <1>1, <2>1, <2>2
<1>3. /\ Exists(d) /\ d \in req[r].names /\ req[r].phase \notin {"commit", "done"}
      /\ UNCHANGED <<storeVars, clients, registered>>
  BY <1>1 DEF ClaimExisting, ClaimOK
<1> QED
  BY <1>1, <1>2, <1>3, TakeRowStep

\* The account registered for nothing is dropped.
LEMMA CreateLostStep ==
    ASSUME IInv, NEW r \in Slot, CreateLost(r)
    PROVE  IInv'
<1>1. /\ req[r] \in Request /\ req \in [Slot -> Request]
      /\ req[r].names \subseteq Domain
      /\ ClaimOK(req[r], domains)
  BY RequestOf
<1>2. PICK d \in Domain : d = req[r].dom /\ d \in req[r].names
  BY <1>1 DEF CreateLost, ClaimOK
<1>3. /\ Exists(d) /\ req[r].phase \notin {"commit", "done"}
      /\ UNCHANGED <<storeVars, clients, registered>>
  BY <1>2 DEF CreateLost
<1>4. req' = [req EXCEPT ![r].phase = "latest", ![r].dom = d, ![r].account = NoRow,
                         ![r].row = Identity(domains[d])]
  <2>1. [req[r] EXCEPT !.phase = "latest", !.account = NoRow, !.row = Identity(domains[d])]
        = [req[r] EXCEPT !.phase = "latest", !.dom = d, !.account = NoRow,
                         !.row = Identity(domains[d])]
    BY <1>1, <1>2 DEF Request
  <2>2. req' = [req EXCEPT ![r] = [req[r] EXCEPT !.phase = "latest", !.account = NoRow,
                                                 !.row = Identity(domains[d])]]
    BY <1>1, <1>2 DEF CreateLost
  <2> QED
    BY <1>1, <2>1, <2>2
<1> QED
  BY <1>2, <1>3, <1>4, TakeRowStep

LEMMA CrashStep ==
    ASSUME IInv, Crash
    PROVE  IInv'
<1>1. \A r \in Slot : req'[r] = Idle
  BY DEF Crash
<1>2. StoreTypeOK /\ InOrder /\ UNCHANGED <<domains, certs, clients, registered>>
  BY DEF IInv, TypeOK, SerialsOK, Crash, storeVars
<1>3. TypeOK'
  BY IdleOK DEF Crash, IInv, TypeOK, StoreTypeOK, storeVars
<1>4. RequestsOK'
  BY <1>1, IdleClaim DEF RequestsOK
<1>5. AccountsOK'
  BY <1>1, <1>2, IdleOK DEF IInv, AccountsOK, AccountsDistinct, Exists
<1>6. SerialsOK'
  <2>1. \A d \in Domain : LastSaved(d) \in Nat
    BY <1>2, LatestIsLastSaved
  <2> QED
    BY <1>1, <1>2, <2>1, IdleOK DEF SerialsOK, InOrder, LastSaved
<1> QED
  BY <1>3, <1>4, <1>5, <1>6 DEF IInv

LEMMA AdministerStep ==
    ASSUME IInv, NEW c \in Client, Enroll(c) \/ Revoke(c)
    PROVE  IInv'
<1>1. UNCHANGED <<registered, req, domains, certs>>
  BY DEF Enroll, Revoke, storeVars
<1>2. TypeOK'
  BY DEF Enroll, Revoke, IInv, TypeOK, StoreTypeOK, storeVars
<1>3. /\ \A d \in Domain : Exists(d)' <=> Exists(d)
      /\ IdentityKept(domains, domains')
  BY <1>1 DEF Exists, IdentityKept
<1>4. InOrder'
  BY <1>1 DEF IInv, SerialsOK, InOrder
<1>5. \A d \in Domain : LastSaved(d) <= LastSaved(d)'
  <2>1. \A d \in Domain : LastSaved(d) \in Nat
    BY LatestIsLastSaved DEF IInv, TypeOK, SerialsOK
  <2> QED
    BY <1>1, <2>1 DEF LastSaved
<1> QED
  BY <1>1, <1>2, <1>3, <1>4, <1>5, TablesStep

\* A status write leaves what requests know of the row.
LEMMA WriteStatusStep ==
    ASSUME IInv, NEW d \in Domain, WriteStatus(d)
    PROVE  IInv'
<1>1. StoreTypeOK /\ Exists(d) /\ UNCHANGED <<clients, registered, req>>
  BY DEF IInv, TypeOK, WriteStatus, apiVars
<1>2. PICK s \in Status, n \in Nat, t \in Nat : SetStatus(d, s, n, t)
  BY ApiAssumption DEF WriteStatus
<1>3. /\ StoreTypeOK' /\ (\A e \in Domain : Exists(e)' <=> Exists(e))
      /\ domains'[d].account = domains[d].account
      /\ domains'[d].wildcard = domains[d].wildcard
      /\ (\A e \in Domain \ {d} : domains'[e] = domains[e])
  BY <1>1, <1>2, SetStatusType
<1>4. UNCHANGED certs
  BY <1>2 DEF SetStatus
<1>5. TypeOK'
  BY <1>1, <1>3 DEF IInv, TypeOK
<1>6. IdentityKept(domains, domains')
  BY <1>3 DEF IdentityKept, Exists
<1>7. InOrder'
  BY <1>4 DEF IInv, SerialsOK, InOrder
<1>8. \A e \in Domain : LastSaved(e) <= LastSaved(e)'
  <2>1. \A e \in Domain : LastSaved(e) \in Nat
    BY LatestIsLastSaved DEF IInv, TypeOK, SerialsOK
  <2> QED
    BY <1>4, <2>1 DEF LastSaved
<1> QED
  BY <1>1, <1>3, <1>5, <1>6, <1>7, <1>8, TablesStep

\* A saved certificate is newer than those before it.
LEMMA WriteCertStep ==
    ASSUME IInv, NEW d \in Domain, WriteCert(d)
    PROVE  IInv'
<1>1. StoreTypeOK /\ InOrder /\ UNCHANGED <<clients, registered, req>>
  BY DEF IInv, TypeOK, SerialsOK, WriteCert, apiVars
<1>2. PICK cert \in Cert :
        /\ \A i \in DOMAIN certs[d] :
             cert.serial > certs[d][i].serial /\ cert.issuedAt >= certs[d][i].issuedAt
        /\ SaveCert(d, cert)
  BY ApiAssumption DEF WriteCert
<1>3. /\ StoreTypeOK' /\ UNCHANGED <<domains, domainClients>>
      /\ certs'[d] # <<>>
      /\ Len(certs[d]) \in Nat /\ Len(certs'[d]) = Len(certs[d]) + 1
      /\ certs'[d][Len(certs[d]) + 1] = cert
      /\ (\A i \in 1 .. Len(certs[d]) : certs'[d][i] = certs[d][i])
      /\ (\A e \in Domain \ {d} : certs'[e] = certs[e])
  BY <1>1, <1>2, SaveCertType
<1>4. /\ DOMAIN certs[d] = 1 .. Len(certs[d])
      /\ \A i \in 1 .. Len(certs[d]) :
           /\ certs[d][i].serial \in Nat /\ certs[d][i].issuedAt \in Nat
           /\ certs[d][i].serial < cert.serial /\ certs[d][i].issuedAt <= cert.issuedAt
  BY <1>1, <1>2, CertType DEF Cert
<1>5. TypeOK'
  BY <1>1, <1>3 DEF IInv, TypeOK
<1>6. (\A e \in Domain : Exists(e)' <=> Exists(e)) /\ IdentityKept(domains, domains')
  BY <1>3 DEF IdentityKept, Exists
<1>7. InOrder'
  <2> SUFFICES ASSUME NEW e \in Domain, NEW i \in 1 .. Len(certs'[e]),
                      NEW j \in 1 .. Len(certs'[e]), i < j
               PROVE  /\ certs'[e][i].serial < certs'[e][j].serial
                      /\ certs'[e][i].issuedAt <= certs'[e][j].issuedAt
    BY DEF InOrder
  <2>1. CASE e # d
    BY <1>1, <1>3, <2>1 DEF InOrder
  <2>2. CASE e = d /\ j = Len(certs[d]) + 1
    <3>1. i \in 1 .. Len(certs[d])
      BY <1>3, <2>2
    <3> QED
      BY <1>3, <1>4, <2>2, <3>1
  <2>3. CASE e = d /\ j # Len(certs[d]) + 1
    <3>1. i \in 1 .. Len(certs[d]) /\ j \in 1 .. Len(certs[d])
      BY <1>3, <2>3
    <3> QED
      BY <1>1, <1>3, <2>3, <3>1 DEF InOrder
  <2> QED
    BY <2>1, <2>2, <2>3
<1>8. \A e \in Domain : LastSaved(e) <= LastSaved(e)'
  <2>1. \A e \in Domain : LastSaved(e) \in Nat
    BY <1>1, LatestIsLastSaved
  <2>2. \A e \in Domain \ {d} : LastSaved(e)' = LastSaved(e)
    BY <1>3 DEF LastSaved
  <2>3. LastSaved(d)' = cert.serial /\ cert.serial \in Nat
    BY <1>3 DEF LastSaved, Cert
  <2>4. CASE certs[d] = <<>>
    BY <2>1, <2>2, <2>3, <2>4 DEF LastSaved
  <2>5. CASE certs[d] # <<>>
    <3>1. Len(certs[d]) \in 1 .. Len(certs[d])
      BY <1>1, <2>5 DEF StoreTypeOK
    <3>2. LastSaved(d) < cert.serial
      BY <1>4, <2>5, <3>1 DEF LastSaved
    <3> QED
      BY <2>1, <2>2, <2>3, <3>2
  <2> QED
    BY <2>4, <2>5
<1> QED
  BY <1>1, <1>5, <1>6, <1>7, <1>8, TablesStep

LEMMA NextIInv == IInv /\ [Next]_vars => IInv'
<1> SUFFICES ASSUME IInv, [Next]_vars PROVE IInv'
  OBVIOUS
<1>1. CASE UNCHANGED vars
  BY <1>1 DEF vars, apiVars, storeVars, IInv, TypeOK, StoreTypeOK, RequestsOK, AccountsOK,
              AccountsDistinct, Exists, SerialsOK, InOrder, LastSaved
<1>2. CASE Crash
  BY <1>2, CrashStep
<1>3. ASSUME NEW d \in Domain, WriteStatus(d) \/ WriteCert(d) PROVE IInv'
  BY <1>3, WriteStatusStep, WriteCertStep
<1>4. CASE Administer
  BY <1>4, AdministerStep DEF Administer
<1>5. ASSUME NEW r \in Slot, BeginAny(r) PROVE IInv'
  BY <1>5, BeginStep DEF BeginAny
<1>6. ASSUME NEW r \in Slot, Fail(r) PROVE IInv'
  BY <1>6, EndStep DEF Fail
<1>7. ASSUME NEW r \in Slot, Handle(r) PROVE IInv'
  <2>1. ASSUME NEW d \in Domain, ClaimExisting(r, d) PROVE IInv'
    BY <2>1, ClaimExistingStep
  <2>2. ASSUME NEW d \in Domain, ClaimConflict(r, d) PROVE IInv'
    BY <2>2, EndStep DEF ClaimConflict
  <2>3. ASSUME NEW d \in Domain, ClaimNew(r, d) PROVE IInv'
    BY <2>3, ClaimNewStep
  <2>4. CASE Register(r)
    BY <2>4, RegisterStep
  <2>5. CASE Create(r)
    BY <2>5, CreateStep
  <2>6. CASE CreateLost(r)
    BY <2>6, CreateLostStep
  <2>7. CASE ReadCert(r)
    BY <2>7, ReadCertStep
  <2>8. CASE Commit(r)
    BY <2>8, CommitStep
  <2>9. CASE Return(r)
    BY <2>9, EndStep DEF Return
  <2> QED
    BY <1>7, <2>1, <2>2, <2>3, <2>4, <2>5, <2>6, <2>7, <2>8, <2>9 DEF Handle
<1> QED
  BY <1>1, <1>2, <1>3, <1>4, <1>5, <1>6, <1>7 DEF Next, ApiStep

-----------------------------------------------------------------------------
(* What single steps do.                                                   *)

\* Only Create and WriteStatus touch the rows, and neither changes an account.
LEMMA IdentityStep ==
    ASSUME IInv, [Next]_vars
    PROVE  IdentityKept(domains, domains')
<1>1. CASE UNCHANGED domains
  BY <1>1 DEF IdentityKept
<1>2. ASSUME NEW r \in Slot, Create(r)
      PROVE  IdentityKept(domains, domains')
  <2>1. req[r].dom \in Domain /\ ~Exists(req[r].dom) /\ StoreTypeOK
    BY <1>2, RequestOf DEF Create, CreateDomain, ClaimOK
  <2>2. \A e \in Domain : e # req[r].dom => domains'[e] = domains[e]
    BY <1>2, <2>1 DEF Create, CreateDomain, StoreTypeOK
  <2> QED
    BY <2>1, <2>2 DEF IdentityKept, Exists
<1>3. ASSUME NEW d \in Domain, WriteStatus(d)
      PROVE  IdentityKept(domains, domains')
  <2>1. StoreTypeOK /\ Exists(d)
    BY <1>3 DEF IInv, TypeOK, WriteStatus
  <2>2. PICK s \in Status, n \in Nat, t \in Nat : SetStatus(d, s, n, t)
    BY <1>3, ApiAssumption DEF WriteStatus
  <2>3. /\ (\A e \in Domain : Exists(e)' <=> Exists(e))
        /\ domains'[d].account = domains[d].account
        /\ domains'[d].wildcard = domains[d].wildcard
        /\ (\A e \in Domain \ {d} : domains'[e] = domains[e])
    BY <2>1, <2>2, SetStatusType
  <2> QED
    BY <2>3 DEF IdentityKept, Exists
<1>4. \/ UNCHANGED domains
      \/ \E r \in Slot : Create(r)
      \/ \E d \in Domain : WriteStatus(d)
  BY DEF Next, ApiStep, Handle, BeginAny, Begin, Administer, Crash, Fail, Return, Commit, ReadCert,
         CreateLost, Register, ClaimNew, ClaimConflict, ClaimExisting, Enroll, Revoke,
         WriteCert, SaveCert, SetClientDomains, vars, storeVars
<1> QED
  BY <1>1, <1>2, <1>3, <1>4

\* When a request commits, all it was asked for has a row and an answer, and
\* the proxy is bound to exactly that.
LEMMA CommitComplete ==
    ASSUME IInv, NEW r \in Slot, Commit(r)
    PROVE  /\ req[r].client \in Client /\ req[r].names \subseteq Domain
           /\ domainClients'[req[r].client] = req[r].names
           /\ \A c \in Client : c # req[r].client => domainClients'[c] = domainClients[c]
           /\ req'[r].phase = "done" /\ req'[r].answer = req[r].answer
           /\ \A s \in Slot \ {r} : req'[s] = req[s]
           /\ \A d \in req[r].names : req[r].answer[d] # NoItem
<1>1. /\ req[r] \in Request /\ req \in [Slot -> Request] /\ StoreTypeOK
      /\ ClaimOK(req[r], domains) /\ ItemsOK(req[r], domains)
      /\ req[r].names \subseteq Domain /\ req[r].client \in Client
  BY RequestOf
<1>2. \A d \in req[r].names : req[r].answer[d] # NoItem /\ Exists(d)
  BY <1>1 DEF Commit, ClaimOK, ItemsOK, Exists
<1>3. PICK c \in Client, names \in SUBSET Domain : c = req[r].client /\ names = req[r].names
  BY <1>1
<1>4. SetClientDomains(c, names)
  BY <1>3 DEF Commit
<1>5. /\ domainClients'[c] = {d \in names : Exists(d)}
      /\ \A b \in Client \ {c} : domainClients'[b] = domainClients[b]
  BY <1>1, <1>4, SetClientDomainsType
<1>6. {d \in names : Exists(d)} = names
  BY <1>2, <1>3
<1>7. /\ req'[r].phase = "done" /\ req'[r].answer = req[r].answer
      /\ \A s \in Slot \ {r} : req'[s] = req[s]
  BY <1>1 DEF Commit, Request
<1> QED
  BY <1>1, <1>2, <1>3, <1>5, <1>6, <1>7

\* Bindings change where a request commits and where a proxy is revoked.
LEMMA BindingsStep ==
    ASSUME IInv, [Next]_vars
    PROVE  \A c \in Client : domainClients'[c] # domainClients[c] =>
             \/ c \notin clients' /\ domainClients'[c] = {}
             \/ \E r \in Slot :
                  /\ req[r].client = c /\ req'[r].phase = "done"
                  /\ domainClients'[c] = req[r].names
<1>1. CASE UNCHANGED domainClients
  BY <1>1
<1>2. ASSUME NEW r \in Slot, Commit(r), NEW c \in Client, domainClients'[c] # domainClients[c]
      PROVE  req[r].client = c /\ req'[r].phase = "done" /\ domainClients'[c] = req[r].names
  BY <1>2, CommitComplete
<1>3. ASSUME NEW e \in Client, Revoke(e), NEW c \in Client, domainClients'[c] # domainClients[c]
      PROVE  c \notin clients' /\ domainClients'[c] = {}
  BY <1>3 DEF Revoke, IInv, TypeOK, StoreTypeOK
<1>4. \/ UNCHANGED domainClients
      \/ \E r \in Slot : Commit(r)
      \/ \E e \in Client : Revoke(e)
  BY DEF Next, ApiStep, Handle, BeginAny, Begin, Administer, Crash, Fail, Return, Create, ReadCert,
         CreateLost, Register, ClaimNew, ClaimConflict, ClaimExisting, Enroll,
         WriteStatus, WriteCert, SaveCert, SetStatus, CreateDomain, vars, storeVars
<1> QED
  BY <1>1, <1>2, <1>3, <1>4

\* A request is done by committing and by nothing else.
LEMMA AnswerStep ==
    ASSUME IInv, [Next]_vars, NEW r \in Slot, req[r].phase # "done", req'[r].phase = "done"
    PROVE  \A d \in req[r].names :
             req'[r].answer[d] # NoItem /\ d \in domainClients'[req[r].client]
<1>1. req \in [Slot -> Request]
  BY DEF IInv, TypeOK
<1>2. ASSUME NEW s \in Slot, NEW q, q.phase # "done", req' = [req EXCEPT ![s] = q]
      PROVE  FALSE
  BY <1>1, <1>2
<1>3. ASSUME NEW s \in Slot, BeginAny(s) PROVE FALSE
  <2>1. PICK c \in Client, names \in SUBSET Domain, wild \in SUBSET Domain :
          Begin(s, c, names, wild)
    BY <1>3 DEF BeginAny
  <2>2. req'[s].phase = "claim" /\ \A t \in Slot \ {s} : req'[t] = req[t]
    BY <1>1, <2>1, IdleOK DEF Begin, Request
  <2> QED
    BY <2>2
<1>4. ASSUME NEW s \in Slot, Fail(s) \/ Return(s) \/ \E d \in Domain : ClaimConflict(s, d) PROVE FALSE
  BY <1>1, <1>2, <1>4, IdleOK DEF Fail, Return, ClaimConflict
<1>5. ASSUME NEW s \in Slot, NEW d \in Domain, ClaimExisting(s, d) \/ ClaimNew(s, d) PROVE FALSE
  <2>1. CASE ClaimNew(s, d)
    BY <1>1, <2>1 DEF ClaimNew, Request
  <2>2. CASE ClaimExisting(s, d)
    <3>1. PICK id : req' = [req EXCEPT ![s].phase = "latest", ![s].dom = d, ![s].row = id]
      BY <2>2, Zenon DEF ClaimExisting
    <3> QED
      BY <1>1, <3>1 DEF Request
  <2> QED
    BY <1>5, <2>1, <2>2
<1>6. ASSUME NEW s \in Slot, Register(s) PROVE FALSE
  BY <1>1, <1>6 DEF Register, Request
<1>7. ASSUME NEW s \in Slot, Create(s) \/ CreateLost(s) PROVE FALSE
  <2>1. \E id : req' = [req EXCEPT ![s].phase = "latest", ![s].account = NoRow, ![s].row = id]
    BY <1>7 DEF Create, CreateLost
  <2> QED
    BY <1>1, <2>1 DEF Request
<1>8. ASSUME NEW s \in Slot, ReadCert(s) PROVE FALSE
  <2> DEFINE d == req[s].dom
             rest == req[s].todo \ {d}
             phase == IF rest = {} THEN "commit" ELSE "claim"
             item(serial) == [account |-> req[s].row.account, wildcard |-> req[s].row.wildcard,
                              serial |-> serial]
  <2>1. PICK serial \in {LatestSerial(d), 0} :
          req' = [req EXCEPT ![s].phase = phase, ![s].todo = rest, ![s].row = NoRow,
                             ![s].answer = [@ EXCEPT ![d] = item(serial)]]
    BY <1>8 DEF ReadCert
  <2> DEFINE q == [req[s] EXCEPT !.phase = phase, !.todo = rest, !.row = NoRow,
                                 !.answer = [req[s].answer EXCEPT ![d] = item(serial)]]
  <2>2. req' = [req EXCEPT ![s] = q]
    BY <1>1, <2>1
  <2>3. phase # "done"
    OBVIOUS
  <2> HIDE DEF phase, item
  <2>4. q.phase = phase
    BY <1>1 DEF Request
  <2> HIDE DEF q
  <2> QED
    BY <1>2, <2>2, <2>3, <2>4
<1>9. ASSUME NEW s \in Slot, Commit(s)
      PROVE  \A d \in req[r].names :
               req'[r].answer[d] # NoItem /\ d \in domainClients'[req[r].client]
  <2>1. s = r
    BY <1>9, CommitComplete
  <2> QED
    BY <1>9, <2>1, CommitComplete
<1>10. CASE Crash
  BY <1>10, IdleOK DEF Crash
<1>11. CASE UNCHANGED req
  BY <1>11
<1>12. \/ Crash \/ UNCHANGED req
       \/ \E s \in Slot : BeginAny(s) \/ Handle(s) \/ Fail(s)
  BY DEF Next, ApiStep, Administer, Enroll, Revoke, WriteStatus, WriteCert, vars, apiVars
<1> QED
  BY <1>3, <1>4, <1>5, <1>6, <1>7, <1>8, <1>9, <1>10, <1>11, <1>12 DEF Handle

\* An answer for a domain stays, goes with its request, or is read from the table.
LEMMA ItemStep ==
    ASSUME IInv, [Next]_vars, NEW r \in Slot, NEW d \in Domain
    PROVE  \/ req'[r].answer[d] \in {req[r].answer[d], NoItem}
           \/ req'[r].answer[d].serial \in {LatestSerial(d), 0} /\ UNCHANGED certs
<1> DEFINE Kept == req'[r].answer[d] \in {req[r].answer[d], NoItem}
           Read == req'[r].answer[d].serial \in {LatestSerial(d), 0} /\ UNCHANGED certs
<1>1. req \in [Slot -> Request] /\ req[r].answer \in [Domain -> Item \cup {NoItem}]
  BY RequestOf
<1>2. ASSUME NEW s \in Slot, BeginAny(s) PROVE Kept
  <2>1. PICK c \in Client, names \in SUBSET Domain, wild \in SUBSET Domain :
          Begin(s, c, names, wild)
    BY <1>2 DEF BeginAny
  <2>2. req'[s].answer = Idle.answer /\ \A t \in Slot \ {s} : req'[t] = req[t]
    BY <1>1, <2>1, IdleOK DEF Begin, Request
  <2> QED
    BY <2>2, IdleOK
<1>3. ASSUME NEW s \in Slot, Fail(s) \/ Return(s) \/ \E e \in Domain : ClaimConflict(s, e)
      PROVE  Kept
  BY <1>1, <1>3, IdleOK DEF Fail, Return, ClaimConflict
<1>4. ASSUME NEW s \in Slot, NEW e \in Domain, ClaimExisting(s, e) PROVE Kept
  <2>1. PICK id : req' = [req EXCEPT ![s].phase = "latest", ![s].dom = e, ![s].row = id]
    BY <1>4, Zenon DEF ClaimExisting
  <2> QED
    BY <1>1, <2>1 DEF Request
<1>5. ASSUME NEW s \in Slot, Register(s) \/ Commit(s) \/ \E e \in Domain : ClaimNew(s, e)
      PROVE  Kept
  <2>1. CASE Register(s)
    BY <1>1, <2>1 DEF Register, Request
  <2>2. CASE Commit(s)
    BY <1>1, <2>2 DEF Commit, Request
  <2>3. CASE \E e \in Domain : ClaimNew(s, e)
    BY <1>1, <2>3 DEF ClaimNew, Request
  <2> QED
    BY <1>5, <2>1, <2>2, <2>3
<1>6. ASSUME NEW s \in Slot, Create(s) \/ CreateLost(s) PROVE Kept
  <2>1. \E id : req' = [req EXCEPT ![s].phase = "latest", ![s].account = NoRow, ![s].row = id]
    BY <1>6 DEF Create, CreateLost
  <2> QED
    BY <1>1, <2>1 DEF Request
<1>7. ASSUME NEW s \in Slot, ReadCert(s) PROVE Kept \/ Read
  <2> DEFINE e == req[s].dom
             rest == req[s].todo \ {e}
             phase == IF rest = {} THEN "commit" ELSE "claim"
             item(serial) == [account |-> req[s].row.account, wildcard |-> req[s].row.wildcard,
                              serial |-> serial]
  <2>1. PICK serial \in {LatestSerial(e), 0} :
          req' = [req EXCEPT ![s].phase = phase, ![s].todo = rest, ![s].row = NoRow,
                             ![s].answer = [@ EXCEPT ![e] = item(serial)]]
    BY <1>7 DEF ReadCert
  <2>2. UNCHANGED certs /\ item(serial).serial = serial
    BY <1>7 DEF ReadCert, storeVars
  <2> DEFINE told == item(serial)
             answer == [req[s].answer EXCEPT ![e] = told]
  <2>3. req' = [req EXCEPT ![s].phase = phase, ![s].todo = rest, ![s].row = NoRow,
                           ![s].answer = answer]
    BY <2>1
  <2>4. r = s => answer[d] = IF d = e THEN told ELSE req[s].answer[d]
    BY <1>1
  <2>5. told.serial = serial
    BY <2>2
  <2> HIDE DEF phase, answer, item, told
  <2>6. req'[s].answer = answer /\ \A t \in Slot \ {s} : req'[t] = req[t]
    BY <1>1, <2>3 DEF Request
  <2>7. CASE r = s /\ d = e
    BY <2>1, <2>2, <2>4, <2>5, <2>6, <2>7
  <2>8. CASE r # s \/ d # e
    BY <2>4, <2>6, <2>8
  <2> QED
    BY <2>7, <2>8
<1>8. CASE Crash
  BY <1>8, IdleOK DEF Crash
<1>9. CASE UNCHANGED req
  BY <1>9
<1>10. \/ Crash \/ UNCHANGED req
       \/ \E s \in Slot : BeginAny(s) \/ Handle(s) \/ Fail(s)
  BY DEF Next, ApiStep, Administer, Enroll, Revoke, WriteStatus, WriteCert, vars, apiVars
<1> QED
  BY <1>2, <1>3, <1>4, <1>5, <1>6, <1>7, <1>8, <1>9, <1>10 DEF Handle

\* Certificates are added behind those there are.
LEMMA CertsAdded ==
    ASSUME IInv, [Next]_vars, NEW d \in Domain
    PROVE  /\ Len(certs[d]) \in Nat /\ Len(certs'[d]) \in Nat /\ Len(certs[d]) <= Len(certs'[d])
           /\ \A i \in 1 .. Len(certs[d]) : certs'[d][i] = certs[d][i]
<1>1. StoreTypeOK
  BY DEF IInv, TypeOK
<1>2. CASE UNCHANGED certs
  BY <1>1, <1>2, CertType
<1>3. ASSUME NEW e \in Domain, WriteCert(e)
      PROVE  /\ Len(certs[d]) \in Nat /\ Len(certs'[d]) \in Nat /\ Len(certs[d]) <= Len(certs'[d])
             /\ \A i \in 1 .. Len(certs[d]) : certs'[d][i] = certs[d][i]
  <2>1. PICK cert \in Cert : SaveCert(e, cert)
    BY <1>3, ApiAssumption DEF WriteCert
  <2>2. /\ Len(certs[e]) \in Nat /\ Len(certs'[e]) = Len(certs[e]) + 1
        /\ \A i \in 1 .. Len(certs[e]) : certs'[e][i] = certs[e][i]
        /\ \A f \in Domain \ {e} : certs'[f] = certs[f]
    BY <1>1, <2>1, SaveCertType
  <2> QED
    BY <1>1, <2>2, CertType
<1>4. UNCHANGED certs \/ \E e \in Domain : WriteCert(e)
  BY DEF Next, ApiStep, Handle, BeginAny, Begin, Administer, Crash, Fail, Return, Commit, ReadCert,
         CreateLost, Create, Register, ClaimNew, ClaimConflict, ClaimExisting, Enroll, Revoke,
         WriteStatus, SetStatus, CreateDomain, SetClientDomains, vars, storeVars
<1> QED
  BY <1>2, <1>3, <1>4

-----------------------------------------------------------------------------
(* The theorems.                                                           *)

\* Every reachable state of the API satisfies the inductive invariant
\* (handleSync, claim and syncDomain of http.go).
THEOREM InductiveInvariant == Spec => []IInv
BY InitIInv, NextIInv, PTL DEF Spec

\* Every table and every request of the API stays well formed (http.go).
THEOREM TypeCorrect == Spec => []TypeOK
<1>1. IInv => TypeOK
  BY DEF IInv
<1> QED
  BY <1>1, InductiveInvariant, PTL

\* No two domains share an acme-dns account, whatever requests race to create
\* them and wherever they fail (claim, http.go).
THEOREM AccountsNeverShared == Spec => []AccountsDistinct
<1>1. IInv => AccountsDistinct
  BY DEF IInv, AccountsOK
<1> QED
  BY <1>1, InductiveInvariant, PTL

\* The CNAME target and the names a proxy is told are those of the row, also
\* after a lost race to create it (claim and syncDomain, http.go).
THEOREM AnswersAreTrue == Spec => []AnswerMatchesRow
<1>1. IInv => AnswerMatchesRow
  BY DEF IInv, RequestsOK, ItemsOK, AnswerMatchesRow, Exists
<1> QED
  BY <1>1, InductiveInvariant, PTL

\* The serial of an answer is no older than what was saved when the request
\* came (syncDomain, http.go).
THEOREM AnswersAreFresh == Spec => []AnswerFresh
<1>1. IInv => AnswerFresh
  BY DEF IInv, RequestsOK, ItemsFresh, AnswerFresh
<1> QED
  BY <1>1, InductiveInvariant, PTL

\* No step changes the account or the names of a domain once it has a row
\* (claim, http.go; store.go has no statement that does).
THEOREM IdentityNeverChanges == Spec => IdentityStable
<1>1. IInv /\ [Next]_vars
      => [\A d \in Domain : Exists(d) =>
            /\ domains'[d] # NoRow
            /\ domains'[d].account = domains[d].account
            /\ domains'[d].wildcard = domains[d].wildcard]_vars
  BY IdentityStep DEF IdentityKept, Exists
<1> QED
  BY <1>1, InductiveInvariant, PTL DEF Spec, IdentityStable

\* A proxy's bindings are replaced as a whole by all that one of its requests
\* named, or emptied by its revocation (SetClientDomains, DeleteClient).
THEOREM BindingsAreWhole == Spec => BindingsChangeWhole
<1>1. IInv /\ [Next]_vars
      => [\A c \in Client : domainClients'[c] # domainClients[c] =>
            \/ c \notin clients' /\ domainClients'[c] = {}
            \/ \E r \in Slot :
                 /\ req[r].client = c /\ req'[r].phase = "done"
                 /\ domainClients'[c] = req[r].names]_vars
  BY BindingsStep
<1> QED
  BY <1>1, InductiveInvariant, PTL DEF Spec, BindingsChangeWhole

\* When an answer is ready every domain asked for is in it and bound to the
\* proxy (the end of handleSync, http.go).
THEOREM AnswersAreComplete == Spec => AnswerComplete
<1>1. IInv /\ [Next]_vars
      => [\A r \in Slot : req[r].phase # "done" /\ req'[r].phase = "done" =>
            \A d \in req[r].names :
              req'[r].answer[d] # NoItem /\ d \in domainClients'[req[r].client]]_vars
  BY AnswerStep
<1> QED
  BY <1>1, InductiveInvariant, PTL DEF Spec, AnswerComplete

=============================================================================
