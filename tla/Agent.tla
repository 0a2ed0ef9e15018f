------------------------------- MODULE Agent -------------------------------
(***************************************************************************)
(* A proxy (internal/agent/agent.go, certdir.go, nginx.go): the agent      *)
(* prepares a certificate for every domain, starts nginx, and then again   *)
(* and again asks the centre, replaces the files that have changed and     *)
(* reloads nginx.  A certificate is two files, replaced one after the      *)
(* other, each atomically; nginx is a process of its own that reads them   *)
(* when it starts and when it is told to reload.                           *)
(*                                                                         *)
(* A file holds the number of the pair it belongs to: the serial of a      *)
(* certificate from the centre (positive), a self-signed stub (negative)   *)
(* or 0, no readable file.                                                 *)
(***************************************************************************)
EXTENDS Integers, FiniteSets

CONSTANTS
    Domain,         \* the certificates of the proxy's configuration
    Stubs,          \* numbers for self-signed pairs
    MaxSerial,      \* certificates the centre issues for a domain (bound)
    MaxCrash,       \* times the agent or nginx dies by itself (bound)
    MaxWriteError,  \* failing writes (bound)
    MaxSyncError    \* synchronisations that fail (bound)

VARIABLES
    chain, key,     \* fullchain.pem and privkey.pem of each domain
    pc,             \* where the agent is
    todo,           \* domains the current loop has still to visit
    wr, new,        \* domain being written and the number of its new pair
    reply,          \* certificates in the centre's answer, 0 for none
    changed,        \* a file was replaced since the last reload was due
    nginx,          \* the process: off, booting, read (no pid file yet), up, dead
    loaded,         \* the pairs nginx serves
    hup,            \* a reload signal nginx has not handled yet
    centre,         \* newest serial at the centre, 0 before the first issue
    crashes, writeErrors, syncErrors

VARIABLE missed     \* history: the last reload failed

files == <<chain, key>>
loop == <<todo, wr, new, reply, changed>>
server == <<nginx, loaded, hup, missed>>
faults == <<crashes, writeErrors, syncErrors>>
vars == <<files, pc, loop, server, centre, faults>>

\* A configuration without endpoints, and so without a certificate, is refused.
ASSUME AgentAssumption ==
    /\ Domain # {}
    /\ \A s \in Stubs : s \in Int /\ s < 0
    /\ IsFiniteSet(Stubs) /\ Cardinality(Stubs) >= 3
    /\ MaxSerial \in [Domain -> Nat]
    /\ {MaxCrash, MaxWriteError, MaxSyncError} \subseteq Nat

Serial == UNION {1 .. MaxSerial[d] : d \in Domain}

Pair == {0} \cup Stubs \cup Serial

TypeOK ==
    /\ chain \in [Domain -> Pair] /\ key \in [Domain -> Pair]
    /\ pc \in {"boot", "bootKey", "bootChain", "sync", "apply", "key", "chain", "sleep"}
    /\ todo \subseteq Domain
    /\ wr \in Domain /\ new \in Pair
    /\ pc \in {"bootKey", "bootChain"} => new \in Stubs
    /\ pc \in {"key", "chain"} => new \in Serial
    /\ reply \in [Domain -> {0} \cup Serial]
    /\ changed \in BOOLEAN
    /\ nginx \in {"off", "booting", "read", "up", "dead"}
    /\ loaded \in [Domain -> Pair]
    /\ hup \in BOOLEAN /\ missed \in BOOLEAN
    /\ centre \in [Domain -> {0} \cup Serial]
    /\ crashes \in 0 .. MaxCrash
    /\ writeErrors \in 0 .. MaxWriteError
    /\ syncErrors \in 0 .. MaxSyncError

Nothing == [d \in Domain |-> 0]

Init ==
    /\ chain = Nothing /\ key = Nothing
    /\ pc = "boot" /\ todo = Domain
    /\ wr = (CHOOSE d \in Domain : TRUE) /\ new = 0
    /\ reply = Nothing /\ changed = FALSE
    /\ nginx = "off" /\ loaded = Nothing /\ hup = FALSE /\ missed = FALSE
    /\ centre = Nothing
    /\ crashes = 0 /\ writeErrors = 0 /\ syncErrors = 0

\* tls.X509KeyPair accepts the two files.
Usable(d) == chain[d] # 0 /\ key[d] = chain[d]

AllUsable == \A d \in Domain : Usable(d)

\* The process ends, and nginx with it; docker starts the container again.
Restart ==
    /\ pc' = "boot" /\ todo' = Domain
    /\ wr' = (CHOOSE d \in Domain : TRUE) /\ new' = 0
    /\ reply' = Nothing /\ changed' = FALSE
    /\ nginx' = "off" /\ loaded' = Nothing /\ hup' = FALSE /\ missed' = FALSE
    /\ UNCHANGED centre

WriteFails ==
    /\ writeErrors < MaxWriteError
    /\ writeErrors' = writeErrors + 1
    /\ UNCHANGED <<files, crashes, syncErrors>>

-----------------------------------------------------------------------------
(* Bootstrap.                                                              *)

\* Mutant of BootKeep: both files are there, whatever they hold.
BootKeepPresent(d) ==
    /\ pc = "boot" /\ d \in todo /\ chain[d] # 0 /\ key[d] # 0
    /\ todo' = todo \ {d}
    /\ UNCHANGED <<files, pc, wr, new, reply, changed, server, centre, faults>>

BootKeep(d) ==
    /\ pc = "boot" /\ d \in todo /\ Usable(d)
    /\ todo' = todo \ {d}
    /\ UNCHANGED <<files, pc, wr, new, reply, changed, server, centre, faults>>

\* A pair that nginx would not start with is replaced by a fresh stub.
BootStub(d) ==
    /\ pc = "boot" /\ d \in todo /\ ~Usable(d)
    /\ \E s \in Stubs \ {chain[d], key[d]} : new' = s
    /\ wr' = d
    /\ pc' = "bootKey"
    /\ UNCHANGED <<files, todo, reply, changed, server, centre, faults>>

\* Mutant of WriteKey: the chain is written although the key was not.
WriteKeyUnchecked ==
    /\ pc = "key"
    /\ \/ key' = [key EXCEPT ![wr] = new] /\ UNCHANGED <<chain, faults>>
       \/ WriteFails
    /\ pc' = "chain"
    /\ UNCHANGED <<todo, wr, new, reply, changed, server, centre>>

BootWriteKey ==
    /\ pc = "bootKey"
    /\ \/ /\ key' = [key EXCEPT ![wr] = new]
          /\ pc' = "bootChain"
          /\ UNCHANGED <<chain, loop, server, centre, faults>>
       \/ WriteFails /\ Restart

BootWriteChain ==
    /\ pc = "bootChain"
    /\ \/ /\ chain' = [chain EXCEPT ![wr] = new]
          /\ todo' = todo \ {wr}
          /\ pc' = "boot"
          /\ UNCHANGED <<key, wr, new, reply, changed, server, centre, faults>>
       \/ WriteFails /\ Restart

\* Start returns as soon as the process exists.
StartNginx ==
    /\ pc = "boot" /\ todo = {}
    /\ nginx' = "booting"
    /\ pc' = "sync"
    /\ UNCHANGED <<files, loop, loaded, hup, missed, centre, faults>>

-----------------------------------------------------------------------------
(* Sync.                                                                   *)

\* Mutant of Ask: the centre answers with any certificate it has.
AskAny ==
    /\ pc = "sync"
    /\ \E n \in [Domain -> {0} \cup Serial] :
         /\ \A d \in Domain : n[d] <= centre[d] /\ n[d] # chain[d]
         /\ reply' = n
    /\ todo' = Domain
    /\ changed' = FALSE
    /\ pc' = "apply"
    /\ UNCHANGED <<files, wr, new, server, centre, faults>>

\* The agent announces the serial of each chain on disk; the centre answers
\* with the certificates that differ.  A stub's serial never agrees.  A
\* certificate the centre fails to read is left out of the answer.
Ask ==
    /\ pc = "sync"
    /\ \E unread \in SUBSET Domain :
         /\ reply' = [d \in Domain |->
                        IF d \notin unread /\ centre[d] # chain[d] THEN centre[d] ELSE 0]
         /\ IF unread = {} THEN UNCHANGED syncErrors
            ELSE syncErrors < MaxSyncError /\ syncErrors' = syncErrors + 1
    /\ todo' = Domain
    /\ changed' = FALSE
    /\ pc' = "apply"
    /\ UNCHANGED <<files, wr, new, server, centre, crashes, writeErrors>>

\* The centre is unreachable or refuses: nothing changes on the proxy.
AskFails ==
    /\ pc = "sync"
    /\ syncErrors < MaxSyncError
    /\ syncErrors' = syncErrors + 1
    /\ pc' = "sleep"
    /\ UNCHANGED <<files, loop, server, centre, crashes, writeErrors>>

\* Mutant of Apply: an answer without a certificate is written as well.
ApplyEmpty(d) ==
    /\ pc = "apply" /\ d \in todo
    /\ wr' = d /\ new' = reply[d]
    /\ pc' = "key"
    /\ UNCHANGED <<files, todo, reply, changed, server, centre, faults>>

\* Mutant of Apply: the last domain alone decides about the reload.
ApplyForgetting(d) ==
    /\ pc = "apply" /\ d \in todo
    /\ \/ /\ reply[d] = 0
          /\ todo' = todo \ {d}
          /\ changed' = FALSE
          /\ UNCHANGED <<pc, wr, new>>
       \/ /\ reply[d] # 0
          /\ wr' = d /\ new' = reply[d]
          /\ pc' = "key"
          /\ UNCHANGED <<todo, changed>>
    /\ UNCHANGED <<files, reply, server, centre, faults>>

Apply(d) ==
    /\ pc = "apply" /\ d \in todo
    /\ \/ /\ reply[d] = 0
          /\ todo' = todo \ {d}
          /\ UNCHANGED <<pc, wr, new>>
       \/ /\ reply[d] # 0
          /\ wr' = d /\ new' = reply[d]
          /\ pc' = "key"
          /\ UNCHANGED todo
    /\ UNCHANGED <<files, reply, changed, server, centre, faults>>

\* CertDir.Write: the key first, then the chain.  An error is logged and the
\* loop goes on with the next domain.
WriteKey ==
    /\ pc = "key"
    /\ \/ /\ key' = [key EXCEPT ![wr] = new]
          /\ pc' = "chain"
          /\ UNCHANGED <<chain, todo, faults>>
       \/ WriteFails /\ pc' = "apply" /\ todo' = todo \ {wr}
    /\ UNCHANGED <<wr, new, reply, changed, server, centre>>

WriteChain ==
    /\ pc = "chain"
    /\ \/ /\ chain' = [chain EXCEPT ![wr] = new]
          /\ changed' = TRUE
          /\ UNCHANGED <<key, faults>>
       \/ WriteFails /\ UNCHANGED changed
    /\ pc' = "apply" /\ todo' = todo \ {wr}
    /\ UNCHANGED <<wr, new, reply, server, centre>>

\* "nginx -s reload" reads the configuration with its certificates and signals
\* the process named in the pid file; an error of it is logged, no more.
Reload ==
    /\ pc = "apply" /\ todo = {}
    /\ IF ~changed THEN UNCHANGED server
       ELSE IF AllUsable /\ nginx = "up"
            THEN hup' = TRUE /\ UNCHANGED <<nginx, loaded, missed>>
            ELSE missed' = TRUE /\ UNCHANGED <<nginx, loaded, hup>>
    /\ reply' = Nothing /\ changed' = FALSE
    /\ pc' = "sleep"
    /\ UNCHANGED <<files, todo, wr, new, centre, faults>>

\* The timer; a dead nginx has been noticed long before.
Wake ==
    /\ pc = "sleep" /\ nginx # "dead"
    /\ pc' = "sync"
    /\ UNCHANGED <<files, loop, server, centre, faults>>

\* Mutant of Notice: the end of nginx is not watched.
NoticeNever ==
    /\ pc = "sleep" /\ nginx = "dead"
    /\ pc' = "sync"
    /\ UNCHANGED <<files, loop, server, centre, faults>>

\* nginx is gone: the agent returns from Run.
Notice ==
    /\ pc = "sleep" /\ nginx = "dead"
    /\ Restart
    /\ UNCHANGED <<files, faults>>

-----------------------------------------------------------------------------
(* nginx and the world.                                                    *)

\* nginx reads all pairs; one that does not fit ends the process.
NginxReads ==
    /\ nginx = "booting"
    /\ IF AllUsable THEN nginx' = "read" /\ loaded' = chain
                    ELSE nginx' = "dead" /\ UNCHANGED loaded
    /\ UNCHANGED <<files, pc, loop, hup, missed, centre, faults>>

\* The pid file is written: signals reach the process from now on.
NginxReady ==
    /\ nginx = "read"
    /\ nginx' = "up"
    /\ UNCHANGED <<files, pc, loop, loaded, hup, missed, centre, faults>>

\* The signalled process reads the files again and keeps its old configuration
\* when they do not fit.
NginxReloads ==
    /\ nginx = "up" /\ hup
    /\ hup' = FALSE
    /\ IF AllUsable THEN loaded' = chain /\ missed' = FALSE
                    ELSE missed' = TRUE /\ UNCHANGED loaded
    /\ UNCHANGED <<files, pc, loop, nginx, centre, faults>>

Die == crashes < MaxCrash /\ crashes' = crashes + 1 /\ UNCHANGED <<writeErrors, syncErrors>>

NginxDies ==
    /\ nginx \in {"booting", "read", "up"}
    /\ Die
    /\ nginx' = "dead" /\ loaded' = Nothing /\ hup' = FALSE
    /\ UNCHANGED <<files, pc, loop, missed, centre>>

AgentDies == Die /\ Restart /\ UNCHANGED files

CentreIssues(d) ==
    /\ centre[d] < MaxSerial[d]
    /\ centre' = [centre EXCEPT ![d] = @ + 1]
    /\ UNCHANGED <<files, pc, loop, server, faults>>

-----------------------------------------------------------------------------

AgentStep ==
    \/ \E d \in Domain : BootKeep(d) \/ BootStub(d) \/ Apply(d)
    \/ BootWriteKey \/ BootWriteChain \/ StartNginx
    \/ Ask \/ AskFails \/ WriteKey \/ WriteChain \/ Reload \/ Wake \/ Notice

NginxStep == NginxReads \/ NginxReady \/ NginxReloads

Next ==
    \/ AgentStep \/ NginxStep \/ NginxDies \/ AgentDies
    \/ \E d \in Domain : CentreIssues(d)

Spec == Init /\ [][Next]_vars

\* The agent's loop and nginx keep running; nothing has to die, fail or be
\* issued.
FairSpec == Spec /\ WF_vars(AgentStep) /\ WF_vars(NginxStep)

-----------------------------------------------------------------------------
(* The centre's certificates on the disk, where the chain tells which one   *)
(* it is, and in nginx.  A stub is none of them.                            *)

Disk == INSTANCE Delivery WITH
    source <- centre,
    held <- [d \in Domain |-> IF chain[d] > 0 THEN chain[d] ELSE 0]

Serving == INSTANCE Delivery WITH
    source <- centre,
    held <- [d \in Domain |-> IF loaded[d] > 0 THEN loaded[d] ELSE 0]

-----------------------------------------------------------------------------
(* Properties.                                                             *)

\* The serial the agent announces stands for a usable pair: a pair broken by a
\* failed or interrupted write is never taken for the newest one, so that the
\* next answer repairs it (agent.go:263-266; the key is written before the
\* chain for this).
SerialHonest ==
    \A d \in Domain : pc = "sync" /\ ~Usable(d) => chain[d] # centre[d]

\* The proxy's disk holds the centre's certificates as Delivery says:
\* none is replaced by an older one, whatever was issued between the answer and
\* the write, or by one the centre has not issued.
DiskDelivers == Disk!Spec

\* So does nginx, which moves on with every reload and loses what it serves
\* only when it ends.
NginxDelivers == Serving!Spec

\* nginx is only started with pairs it comes up with, also in a directory that
\* an earlier run has left half-written (certdir.go:29-33).
StartsUsable == [][nginx = "off" /\ nginx' = "booting" => AllUsable]_vars

\* Every certificate the centre issues reaches the proxy's disk, usable,
\* through failing writes, crashes between the two files and failed answers.
DiskCatchesUp ==
    \A d \in Domain : \A s \in 1 .. MaxSerial[d] : centre[d] = s ~> Usable(d) /\ chain[d] >= s

\* Whatever died or was half-written, nginx comes up again and stays up.
ComesUp == <>[](nginx = "up")

\* In the end nginx serves the newest certificates of all domains, unless the
\* last reload it was told of has failed.
ServesNewestUnlessMissed ==
    <>[](missed \/ \A d \in Domain : centre[d] # 0 => loaded[d] = centre[d])

-----------------------------------------------------------------------------
(* What the documentation says and the code does not do.                   *)

\* The agent fetches what the centre has issued and reloads nginx.
ServesNewest == <>[](\A d \in Domain : centre[d] # 0 => loaded[d] = centre[d])

=============================================================================
