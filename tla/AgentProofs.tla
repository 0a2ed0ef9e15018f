---------------------------- MODULE AgentProofs ----------------------------
(***************************************************************************)
(* Theorems about Agent for any set of domains, any number of certificates *)
(* and any number of crashes and failing writes.                           *)
(***************************************************************************)
EXTENDS Agent, TLAPS

-----------------------------------------------------------------------------
(* The inductive invariant.                                                *)

Booting == pc \in {"boot", "bootKey", "bootChain"}

Applying == pc \in {"apply", "key", "chain"}

\* Nothing the proxy holds, or is about to write, is newer than at the centre.
BehindCentre ==
    \A d \in Domain : chain[d] <= centre[d] /\ reply[d] <= centre[d]

\* The domains the boot loop is through with are usable; nginx waits for it.
BootOK ==
    /\ Booting => nginx = "off" /\ \A d \in Domain \ todo : Usable(d)
    /\ pc \in {"bootKey", "bootChain"} => wr \in todo
    /\ pc = "bootChain" => key[wr] = new

\* Afterwards every domain has a chain, and one whose key is another's is
\* older than what the centre has.
PairsOK ==
    ~Booting => \A d \in Domain : chain[d] # 0 /\ (Usable(d) \/ chain[d] < centre[d])

\* The answer is newer than the files that are still to be replaced.
ApplyOK ==
    /\ Applying => \A d \in todo : reply[d] # 0 => chain[d] < reply[d]
    /\ pc \in {"key", "chain"} => wr \in todo /\ reply[wr] # 0 /\ new = reply[wr]
    /\ pc = "chain" => key[wr] = new

\* nginx serves nothing newer than the files, and nothing unless it runs.
ServingOK ==
    /\ nginx \in {"off", "booting", "dead"} => loaded = Nothing
    /\ \A d \in Domain : loaded[d] > 0 => loaded[d] <= chain[d]

IInv == TypeOK /\ BehindCentre /\ BootOK /\ PairsOK /\ ApplyOK /\ ServingOK

-----------------------------------------------------------------------------
(* Numbers of pairs.                                                       *)

\* Certificates are numbered from 1, stubs below 0.
LEMMA PairNumbers ==
    /\ Pair \subseteq Int /\ Serial \subseteq Pair /\ Stubs \subseteq Pair /\ 0 \in Pair
    /\ {0} \cup Serial \subseteq Nat
    /\ \A n \in Serial : n \in Nat /\ n > 0
    /\ \A n \in Stubs : n \in Int /\ n < 0
<1>1. \A d \in Domain : 1 .. MaxSerial[d] \subseteq Nat \ {0}
  BY AgentAssumption
<1>2. \A n \in Serial : n \in Nat /\ n > 0
  BY <1>1 DEF Serial
<1>3. \A n \in Stubs : n \in Int /\ n < 0
  BY AgentAssumption
<1> QED
  BY <1>2, <1>3 DEF Pair

\* What the invariant says of the numbers in use.
LEMMA Numbers ==
    ASSUME TypeOK, NEW d \in Domain
    PROVE  /\ chain[d] \in Int /\ key[d] \in Int /\ loaded[d] \in Int
           /\ reply[d] \in Nat /\ centre[d] \in Nat /\ new \in Int
<1>1. chain[d] \in Pair /\ key[d] \in Pair /\ loaded[d] \in Pair /\ new \in Pair
  BY DEF TypeOK
<1>2. reply[d] \in {0} \cup Serial /\ centre[d] \in {0} \cup Serial
  BY DEF TypeOK
<1>3. reply[d] \in Nat /\ centre[d] \in Nat
  BY <1>2, PairNumbers
<1> QED
  BY <1>1, <1>3, PairNumbers

-----------------------------------------------------------------------------
(* Steps.                                                                  *)

LEMMA InitIInv == Init => IInv
<1> SUFFICES ASSUME Init PROVE IInv
  OBVIOUS
<1>1. (CHOOSE d \in Domain : TRUE) \in Domain
  BY AgentAssumption
<1>2. 0 \in 0 .. MaxCrash /\ 0 \in 0 .. MaxWriteError /\ 0 \in 0 .. MaxSyncError
  BY AgentAssumption
<1>3. TypeOK
  BY <1>1, <1>2, PairNumbers DEF Init, TypeOK, Nothing
<1> QED
  BY <1>3 DEF Init, IInv, BehindCentre, Booting, Applying, BootOK, PairsOK, ApplyOK, ServingOK,
              Nothing

\* The process ends and starts again from the files it has.
Restarts == Restart /\ UNCHANGED files

\* Every step leaves the tables well formed.
LEMMA TypeStep ==
    ASSUME IInv, [Next]_vars
    PROVE  TypeOK'
<1> USE DEF IInv, files, loop, server, faults
<1>1. (CHOOSE d \in Domain : TRUE) \in Domain
  BY AgentAssumption
<1>2. MaxCrash \in Nat /\ MaxWriteError \in Nat /\ MaxSyncError \in Nat
  BY AgentAssumption
<1>3. ASSUME Restart, UNCHANGED files, crashes' \in 0 .. MaxCrash,
             writeErrors' \in 0 .. MaxWriteError, syncErrors' \in 0 .. MaxSyncError
      PROVE  TypeOK'
  BY <1>1, <1>3, PairNumbers DEF TypeOK, Restart, Nothing
<1>4. ASSUME WriteFails
      PROVE  /\ writeErrors' \in 0 .. MaxWriteError
             /\ UNCHANGED <<files, crashes, syncErrors>>
  BY <1>2, <1>4 DEF TypeOK, WriteFails
<1>5. ASSUME NEW d \in Domain, BootKeep(d) \/ BootStub(d)
      PROVE  TypeOK'
  BY <1>5, PairNumbers DEF TypeOK, BootKeep, BootStub
<1>6. CASE BootWriteKey
  <2>1. CASE UNCHANGED faults
    BY <1>6, <2>1 DEF TypeOK, BootWriteKey, WriteFails
  <2> QED
    BY <1>3, <1>4, <1>6, <2>1 DEF TypeOK, BootWriteKey
<1>7. CASE BootWriteChain
  <2>1. CASE UNCHANGED faults
    BY <1>7, <2>1 DEF TypeOK, BootWriteChain, WriteFails
  <2> QED
    BY <1>3, <1>4, <1>7, <2>1 DEF TypeOK, BootWriteChain
<1>8. CASE StartNginx \/ Wake \/ Reload
  BY <1>8 DEF TypeOK, StartNginx, Wake, Reload, Nothing
<1>9. CASE Ask
  <2>1. /\ reply' \in [Domain -> {0} \cup Serial]
        /\ syncErrors' \in 0 .. MaxSyncError
    BY <1>2, <1>9 DEF TypeOK, Ask
  <2> QED
    BY <1>9, <2>1 DEF TypeOK, Ask
<1>10. CASE AskFails
  BY <1>2, <1>10 DEF TypeOK, AskFails
<1>11. ASSUME NEW d \in Domain, Apply(d)
       PROVE  TypeOK'
  BY <1>11, PairNumbers DEF TypeOK, Apply
<1>12. CASE WriteKey \/ WriteChain
  BY <1>4, <1>12 DEF TypeOK, WriteKey, WriteChain
<1>13. CASE Notice
  BY <1>3, <1>13 DEF TypeOK, Notice
<1>14. CASE NginxStep
  BY <1>14 DEF TypeOK, NginxStep, NginxReads, NginxReady, NginxReloads
<1>15. ASSUME Die
       PROVE  crashes' \in 0 .. MaxCrash /\ UNCHANGED <<writeErrors, syncErrors>>
  BY <1>2, <1>15 DEF TypeOK, Die
<1>16. CASE NginxDies
  BY <1>15, <1>16, PairNumbers DEF TypeOK, NginxDies, Nothing
<1>17. CASE AgentDies
  BY <1>3, <1>15, <1>17 DEF TypeOK, AgentDies
<1>18. ASSUME NEW d \in Domain, CentreIssues(d)
       PROVE  TypeOK'
  <2>1. centre[d] \in Nat /\ centre[d] < MaxSerial[d] /\ MaxSerial[d] \in Nat
    BY <1>18, Numbers, AgentAssumption DEF CentreIssues
  <2>2. centre[d] + 1 \in Serial
    BY <2>1 DEF Serial
  <2> QED
    BY <1>18, <2>2 DEF TypeOK, CentreIssues
<1>19. CASE UNCHANGED vars
  BY <1>19 DEF TypeOK, vars
<1> QED
  BY <1>5, <1>6, <1>7, <1>8, <1>9, <1>10, <1>11, <1>12, <1>13, <1>14, <1>16, <1>17, <1>18, <1>19
  DEF Next, AgentStep

\* What each variable can be changed by.
LEMMA WhoWrites ==
    ASSUME [Next]_vars
    PROVE  /\ chain' # chain => BootWriteChain \/ WriteChain
           /\ key' # key => BootWriteKey \/ WriteKey
           /\ reply' # reply => Ask \/ Reload \/ Restarts
           /\ centre' # centre => \E d \in Domain : CentreIssues(d)
           /\ loaded' # loaded => NginxReads \/ NginxReloads \/ NginxDies \/ Restarts
           /\ nginx' # nginx => StartNginx \/ NginxStep \/ NginxDies \/ Restarts
           /\ <<pc, todo, wr, new>>' # <<pc, todo, wr, new>> => AgentStep \/ Restarts
<1> USE DEF files, loop, server, faults, Restarts
<1> QED
  BY DEF Next, vars, AgentStep, NginxStep, BootKeep, BootStub, Apply, BootWriteKey, BootWriteChain,
         StartNginx, Ask, AskFails, WriteKey, WriteChain, Reload, Wake, Notice, NginxReads,
         NginxReady, NginxReloads, NginxDies, AgentDies, CentreIssues, WriteFails, Die, Restart

\* An answer holds what the centre has then, and what is written is from it.
LEMMA BehindCentreStep ==
    ASSUME IInv, [Next]_vars
    PROVE  BehindCentre'
<1> USE DEF BehindCentre
<1>1. TypeOK /\ BehindCentre /\ ApplyOK /\ BootOK
  BY DEF IInv
<1>2. \A d \in Domain : chain[d] \in Int /\ reply[d] \in Nat /\ centre[d] \in Nat
  BY <1>1, Numbers
<1>3. CASE BootWriteChain /\ UNCHANGED reply
  <2>1. new \in Int /\ new < 0
    BY <1>1, <1>3, PairNumbers DEF TypeOK, BootWriteChain
  <2>2. UNCHANGED centre
    BY <1>3 DEF BootWriteChain, Restart, server
  <2> QED
    BY <1>1, <1>2, <1>3, <2>1, <2>2 DEF BootWriteChain, WriteFails, files, TypeOK
<1>4. CASE WriteChain
  BY <1>1, <1>2, <1>4 DEF WriteChain, WriteFails, files, ApplyOK, TypeOK
<1>5. CASE Ask
  BY <1>1, <1>2, <1>5 DEF Ask, files
<1>6. CASE reply' = Nothing /\ UNCHANGED <<chain, centre>>
  BY <1>1, <1>2, <1>6 DEF Nothing
<1>7. ASSUME NEW d \in Domain, CentreIssues(d)
      PROVE  BehindCentre'
  BY <1>1, <1>2, <1>7 DEF CentreIssues, files, loop, TypeOK
<1>8. CASE UNCHANGED <<chain, reply, centre>>
  BY <1>1, <1>8
<1>9. /\ Reload \/ Restarts => reply' = Nothing /\ UNCHANGED <<chain, centre>>
      /\ BootWriteChain => UNCHANGED reply \/ Restarts
  BY DEF Reload, Restarts, Restart, files, BootWriteChain, WriteFails
<1> QED
  BY <1>3, <1>4, <1>5, <1>6, <1>7, <1>8, <1>9, WhoWrites

\* The boot loop leaves usable pairs behind it.
LEMMA BootStep ==
    ASSUME IInv, [Next]_vars
    PROVE  BootOK'
<1> USE DEF BootOK, Booting, Usable, files, loop, server
<1>1. BootOK /\ chain \in [Domain -> Pair] /\ key \in [Domain -> Pair]
      /\ wr \in Domain /\ (pc \in {"bootKey", "bootChain"} => new \in Stubs)
  BY DEF IInv, TypeOK
<1>2. CASE Restarts
  BY <1>2 DEF Restarts, Restart
<1>3. ASSUME NEW d \in Domain, BootKeep(d) \/ BootStub(d)
      PROVE  BootOK'
  BY <1>1, <1>3 DEF BootKeep, BootStub
<1>4. CASE BootWriteKey /\ ~Restarts
  <2>1. /\ pc = "bootKey" /\ pc' = "bootChain" /\ key' = [key EXCEPT ![wr] = new]
        /\ UNCHANGED <<chain, todo, wr, new, nginx>>
    BY <1>4 DEF BootWriteKey, WriteFails, Restarts
  <2>2. key'[wr] = new /\ \A d \in Domain \ todo : key'[d] = key[d]
    BY <1>1, <2>1
  <2> QED
    BY <1>1, <2>1, <2>2
<1>5. CASE BootWriteChain /\ ~Restarts
  BY <1>1, <1>5, PairNumbers DEF BootWriteChain, WriteFails, Restarts
<1>6. CASE ~Booting'
  BY <1>6
<1>7. CASE UNCHANGED <<files, pc, todo, wr, new, nginx>>
  BY <1>1, <1>7
<1>8. \/ Restarts \/ BootWriteKey \/ BootWriteChain \/ ~Booting'
      \/ \E d \in Domain : BootKeep(d) \/ BootStub(d)
      \/ UNCHANGED <<files, pc, todo, wr, new, nginx>>
  <2>1. Booting => nginx = "off"
    BY <1>1
  <2> QED
    BY <2>1 DEF Next, vars, AgentStep, NginxStep, StartNginx, Ask, AskFails, Apply, WriteKey,
       WriteChain, Reload, Wake, Notice, NginxReads, NginxReady, NginxReloads, NginxDies, AgentDies,
       CentreIssues, Restarts
<1> QED
  BY <1>2, <1>3, <1>4, <1>5, <1>6, <1>7, <1>8

\* A pair is mixed only while its chain is older than the centre's.
LEMMA PairsStep ==
    ASSUME IInv, [Next]_vars
    PROVE  PairsOK'
<1> USE DEF PairsOK, Booting, Usable, files, loop, server
<1>1. /\ TypeOK /\ PairsOK /\ BootOK /\ ApplyOK /\ BehindCentre
      /\ chain \in [Domain -> Pair] /\ key \in [Domain -> Pair]
  BY DEF IInv, TypeOK
<1>2. \A d \in Domain : chain[d] \in Int /\ reply[d] \in Nat /\ centre[d] \in Nat
  BY <1>1, Numbers
<1>3. CASE Booting'
  BY <1>3
<1>4. CASE StartNginx
  BY <1>1, <1>4 DEF StartNginx, BootOK
<1>5. CASE WriteKey
  <2>1. \A d \in Domain : chain'[d] = chain[d] /\ (d # wr => key'[d] = key[d])
    BY <1>1, <1>5 DEF WriteKey, WriteFails
  <2>2. centre' = centre /\ chain[wr] < centre[wr] /\ wr \in Domain /\ pc = "key"
    BY <1>1, <1>2, <1>5 DEF WriteKey, ApplyOK, Applying, BehindCentre, TypeOK
  <2> QED
    BY <1>1, <2>1, <2>2
<1>6. CASE WriteChain
  <2>1. new # 0 /\ key[wr] = new /\ pc = "chain" /\ wr \in Domain
    BY <1>1, <1>6, PairNumbers DEF WriteChain, ApplyOK, TypeOK
  <2> QED
    BY <1>1, <1>6, <2>1 DEF WriteChain, WriteFails
<1>7. ASSUME NEW d \in Domain, CentreIssues(d), ~Booting
      PROVE  PairsOK'
  <2>1. \A e \in Domain : centre'[e] \in Int /\ centre'[e] >= centre[e]
    BY <1>1, <1>2, <1>7 DEF CentreIssues, TypeOK
  <2> QED
    BY <1>1, <1>2, <1>7, <2>1 DEF CentreIssues
<1>8. CASE UNCHANGED <<files, centre>> /\ ~Booting
  BY <1>1, <1>8
<1>9. \/ Booting' \/ StartNginx \/ WriteKey \/ WriteChain
      \/ ~Booting /\ \E d \in Domain : CentreIssues(d)
      \/ UNCHANGED <<files, centre>> /\ ~Booting
  BY DEF Next, vars, AgentStep, NginxStep, BootKeep, BootStub, BootWriteKey, BootWriteChain,
         Ask, AskFails, Apply, Reload, Wake, Notice, NginxReads, NginxReady, NginxReloads, NginxDies,
         AgentDies, CentreIssues, Restart
<1> QED
  BY <1>3, <1>4, <1>5, <1>6, <1>7, <1>8, <1>9

\* What is still to be written is newer than what it replaces.
LEMMA ApplyStep ==
    ASSUME IInv, [Next]_vars
    PROVE  ApplyOK'
<1> USE DEF ApplyOK, Applying, files, loop, server
<1>1. /\ TypeOK /\ ApplyOK /\ BehindCentre
      /\ chain \in [Domain -> Pair] /\ key \in [Domain -> Pair]
  BY DEF IInv, TypeOK
<1>2. \A d \in Domain : chain[d] \in Int /\ reply[d] \in Nat /\ centre[d] \in Nat
  BY <1>1, Numbers
<1>3. CASE ~Applying'
  BY <1>3
<1>4. CASE Ask
  BY <1>1, <1>2, <1>4 DEF Ask, BehindCentre
<1>5. ASSUME NEW d \in Domain, Apply(d)
      PROVE  ApplyOK'
  BY <1>1, <1>5 DEF Apply
<1>6. CASE WriteKey
  BY <1>1, <1>6 DEF WriteKey, WriteFails, TypeOK
<1>7. CASE WriteChain
  <2>1. /\ pc = "chain" /\ pc' = "apply" /\ todo' = todo \ {wr} /\ reply' = reply
        /\ todo \subseteq Domain
    BY <1>1, <1>7 DEF WriteChain, TypeOK
  <2>2. \A d \in Domain \ {wr} : chain'[d] = chain[d]
    BY <1>1, <1>7 DEF WriteChain, WriteFails
  <2> QED
    BY <1>1, <2>1, <2>2
<1>8. CASE UNCHANGED <<files, pc, todo, wr, new, reply>>
  BY <1>1, <1>8
<1>9. \/ ~Applying' \/ Ask \/ WriteKey \/ WriteChain
      \/ \E d \in Domain : Apply(d)
      \/ UNCHANGED <<files, pc, todo, wr, new, reply>>
  BY DEF Next, vars, AgentStep, NginxStep, BootKeep, BootStub, BootWriteKey, BootWriteChain,
         StartNginx, AskFails, Reload, Wake, Notice, NginxReads, NginxReady, NginxReloads, NginxDies,
         AgentDies, CentreIssues, Restart
<1> QED
  BY <1>3, <1>4, <1>5, <1>6, <1>7, <1>8, <1>9

\* nginx takes its certificates from the files and forgets them when it ends.
LEMMA ServingStep ==
    ASSUME IInv, [Next]_vars
    PROVE  ServingOK'
<1> USE DEF ServingOK, files, loop, server
<1>1. /\ TypeOK /\ ServingOK /\ BootOK /\ ApplyOK
      /\ chain \in [Domain -> Pair]
  BY DEF IInv, TypeOK
<1>2. \A d \in Domain : chain[d] \in Int /\ loaded[d] \in Int
  BY <1>1, Numbers
<1>3. CASE loaded' = Nothing
  BY <1>3 DEF Nothing
<1>4. CASE NginxReads \/ NginxReloads
  BY <1>1, <1>2, <1>4 DEF NginxReads, NginxReloads
<1>5. CASE StartNginx
  BY <1>1, <1>5 DEF StartNginx, BootOK, Booting
<1>6. CASE BootWriteChain
  <2>1. loaded = Nothing
    BY <1>1, <1>6 DEF BootWriteChain, BootOK, Booting
  <2>2. loaded' = Nothing
    BY <1>6, <2>1 DEF BootWriteChain, Restart
  <2> QED
    BY <1>3, <2>2
<1>7. CASE WriteChain
  <2>1. UNCHANGED <<nginx, loaded>> /\ (chain' = chain \/ chain' = [chain EXCEPT ![wr] = new])
    BY <1>7 DEF WriteChain, WriteFails
  <2>2. new \in Int /\ chain[wr] < new
    BY <1>1, <1>7, PairNumbers DEF WriteChain, ApplyOK, Applying, TypeOK
  <2>3. \A d \in Domain : chain'[d] \in Int /\ chain'[d] >= chain[d]
    BY <1>1, <1>2, <2>1, <2>2
  <2> QED
    BY <1>1, <1>2, <2>1, <2>3
<1>8. CASE UNCHANGED <<chain, loaded>> /\ (nginx' = nginx \/ NginxReady)
  BY <1>1, <1>8 DEF NginxReady
<1>9. Restarts \/ NginxDies => loaded' = Nothing
  BY DEF Restarts, Restart, NginxDies
<1> QED
  BY <1>3, <1>4, <1>5, <1>6, <1>7, <1>8, <1>9, WhoWrites DEF NginxStep

LEMMA NextIInv == IInv /\ [Next]_vars => IInv'
BY TypeStep, BehindCentreStep, BootStep, PairsStep, ApplyStep, ServingStep DEF IInv

-----------------------------------------------------------------------------
(* The theorems.                                                           *)

\* Every reachable state of the proxy satisfies the inductive invariant.
THEOREM InductiveInvariant == Spec => []IInv
BY InitIInv, NextIInv, PTL DEF Spec

\* The agent's loop, the files and nginx stay well formed (agent.go, certdir.go).
THEOREM TypeCorrect == Spec => []TypeOK
<1>1. IInv => TypeOK
  BY DEF IInv
<1> QED
  BY <1>1, InductiveInvariant, PTL

\* A serial the agent announces as the newest stands for a usable pair, after
\* any crashes and failing writes (currentSerials, agent.go; Write, certdir.go).
THEOREM SerialsAreHonest == Spec => []SerialHonest
<1>1. IInv => SerialHonest
  <2> SUFFICES ASSUME IInv, NEW d \in Domain, pc = "sync", ~Usable(d)
               PROVE  chain[d] # centre[d]
    BY DEF SerialHonest
  <2>1. chain[d] < centre[d] /\ chain[d] \in Int /\ centre[d] \in Int
    BY Numbers DEF IInv, PairsOK, Booting
  <2> QED
    BY <2>1
<1> QED
  BY <1>1, InductiveInvariant, PTL

\* nginx is started with pairs it accepts, also from files that an earlier run
\* has left half-written (bootstrap, agent.go).
THEOREM StartIsUsable == Spec => StartsUsable
<1>1. IInv /\ [Next]_vars => [nginx = "off" /\ nginx' = "booting" => AllUsable]_vars
  <2> SUFFICES ASSUME IInv, [Next]_vars, nginx = "off", nginx' = "booting"
               PROVE  AllUsable
    OBVIOUS
  <2>1. StartNginx
    BY WhoWrites DEF NginxStep, NginxReads, NginxReady, NginxReloads, NginxDies, Restarts, Restart
  <2> QED
    BY <2>1 DEF StartNginx, IInv, BootOK, Booting, AllUsable
<1> QED
  BY <1>1, InductiveInvariant, PTL DEF Spec, StartsUsable

-----------------------------------------------------------------------------
(* The disk and nginx hold the centre's certificates as Delivery promises.  *)

\* The serial that a file's number stands for: a stub is none.
Held(numbers) == [d \in Domain |-> IF numbers[d] > 0 THEN numbers[d] ELSE 0]

\* Each domain of the disk takes a Delivery step or none.
LEMMA DiskStep ==
    ASSUME IInv, [Next]_vars, NEW d \in Domain
    PROVE  Disk!Issue(d) \/ Disk!Deliver(d) \/ Disk!Lose(d) \/ Disk!Keep(d)
<1> USE DEF files, loop, server
<1>1. /\ TypeOK /\ BehindCentre /\ ApplyOK /\ BehindCentre'
      /\ chain \in [Domain -> Pair] /\ centre \in [Domain -> {0} \cup Serial]
  BY BehindCentreStep DEF IInv, TypeOK
<1>2. /\ chain[d] \in Int /\ centre[d] \in Nat /\ chain[d] <= centre[d]
      /\ chain'[d] <= centre'[d]
  BY <1>1, Numbers DEF BehindCentre
<1>3. CASE UNCHANGED <<chain, centre>>
  BY <1>3 DEF Disk!Keep
<1>4. ASSUME NEW e \in Domain, CentreIssues(e)
      PROVE  Disk!Issue(d) \/ Disk!Keep(d)
  <2>1. chain' = chain /\ centre' = [centre EXCEPT ![e] = @ + 1]
    BY <1>4 DEF CentreIssues
  <2> QED
    BY <1>1, <1>2, <2>1 DEF Disk!Issue, Disk!Keep
<1>5. CASE BootWriteChain /\ UNCHANGED centre
  <2>1. new \in Int /\ new < 0
    BY <1>1, <1>5, PairNumbers DEF BootWriteChain, TypeOK
  <2>2. chain' = chain \/ chain' = [chain EXCEPT ![wr] = new]
    BY <1>5 DEF BootWriteChain, WriteFails
  <2> QED
    BY <1>1, <1>2, <1>5, <2>1, <2>2 DEF Disk!Lose, Disk!Keep
<1>6. CASE WriteChain
  <2>1. UNCHANGED centre /\ (chain' = chain \/ chain' = [chain EXCEPT ![wr] = new])
    BY <1>6 DEF WriteChain, WriteFails
  <2>2. new \in Nat /\ new > 0 /\ chain[wr] < new
    BY <1>1, <1>6, PairNumbers DEF WriteChain, ApplyOK, Applying, TypeOK
  <2> QED
    BY <1>1, <1>2, <2>1, <2>2 DEF Disk!Deliver, Disk!Keep
<1>7. BootWriteChain => UNCHANGED centre
  BY DEF BootWriteChain, Restart
<1>8. centre' # centre => \E e \in Domain : CentreIssues(e)
  BY WhoWrites
<1>9. chain' # chain => BootWriteChain \/ WriteChain
  BY WhoWrites
<1> QED
  BY <1>3, <1>4, <1>5, <1>6, <1>7, <1>8, <1>9

\* So does each domain of nginx.
LEMMA NginxStepDelivers ==
    ASSUME IInv, [Next]_vars, NEW d \in Domain
    PROVE  Serving!Issue(d) \/ Serving!Deliver(d) \/ Serving!Lose(d) \/ Serving!Keep(d)
<1> USE DEF files, loop, server
<1>1. /\ TypeOK /\ BehindCentre /\ ServingOK /\ centre \in [Domain -> {0} \cup Serial]
  BY DEF IInv, TypeOK
<1>2. /\ chain[d] \in Int /\ loaded[d] \in Int /\ centre[d] \in Nat /\ chain[d] <= centre[d]
      /\ loaded[d] > 0 => loaded[d] <= chain[d]
  BY <1>1, Numbers DEF BehindCentre, ServingOK
<1>3. CASE UNCHANGED <<loaded, centre>>
  BY <1>3 DEF Serving!Keep
<1>4. ASSUME NEW e \in Domain, CentreIssues(e)
      PROVE  Serving!Issue(d) \/ Serving!Keep(d)
  <2>1. loaded' = loaded /\ centre' = [centre EXCEPT ![e] = @ + 1]
    BY <1>4 DEF CentreIssues
  <2> QED
    BY <1>1, <1>2, <2>1 DEF Serving!Issue, Serving!Keep
<1>5. CASE loaded' = Nothing /\ UNCHANGED centre
  BY <1>5 DEF Nothing, Serving!Lose
<1>6. CASE loaded' = chain /\ UNCHANGED centre
  BY <1>2, <1>6 DEF Serving!Deliver, Serving!Keep
<1>7. centre' # centre => \E e \in Domain : CentreIssues(e)
  BY WhoWrites
<1>8. loaded' # loaded => (loaded' = Nothing \/ loaded' = chain) /\ UNCHANGED centre
  BY WhoWrites DEF NginxReads, NginxReloads, NginxDies, Restarts, Restart
<1> QED
  BY <1>3, <1>4, <1>5, <1>6, <1>7, <1>8

\* The proxy's files implement Delivery: no certificate is replaced by an older
\* one or by one the centre has not issued (Sync and apply, agent.go).
THEOREM DiskImplementsDelivery == Spec => DiskDelivers
<1>1. Init => Disk!Init
  BY DEF Init, Disk!Init, Nothing
<1>2. IInv /\ [Next]_vars => [Disk!Next]_<<centre, Held(chain)>>
  BY DiskStep DEF Disk!Next
<1> QED
  BY <1>1, <1>2, InductiveInvariant, PTL DEF Spec, DiskDelivers, Disk!Spec, Held

\* nginx implements Delivery: it moves on with every reload and goes back only
\* by ending (Reload, nginx.go).
THEOREM NginxImplementsDelivery == Spec => NginxDelivers
<1>1. Init => Serving!Init
  BY DEF Init, Serving!Init, Nothing
<1>2. IInv /\ [Next]_vars => [Serving!Next]_<<centre, Held(loaded)>>
  BY NginxStepDelivers DEF Serving!Next
<1> QED
  BY <1>1, <1>2, InductiveInvariant, PTL DEF Spec, NginxDelivers, Serving!Spec, Held

=============================================================================
