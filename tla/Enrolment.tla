----------------------------- MODULE Enrolment -----------------------------
(***************************************************************************)
(* How a proxy becomes known to the centre: ensureToken in the agent       *)
(* (internal/agent/agent.go), Enroll and Revoke at the centre              *)
(* (internal/server/auth.go) and the table clients.  A proxy without a     *)
(* token presents the enrolment token of its configuration once, is given  *)
(* a personal token and keeps it in a file on its volume.  The centre      *)
(* keeps one token per name, the one saved last.                           *)
(*                                                                         *)
(* Personal tokens are numbered in the order in which they are made, 0     *)
(* stands for none.  Enrolment tokens are numbered as well: a new one      *)
(* comes with a restart of the centre, and closing enrolment is a new one  *)
(* that nobody configures.                                                 *)
(***************************************************************************)
EXTENDS Integers

CONSTANTS
    Proxy,      \* machines that run an agent
    Name,       \* names in their configurations
    NameOf,     \* which name a machine has; two may share one
    Budget      \* disturbances, of whatever kinds, that happen (bound)

VARIABLES
    clients,    \* the token of a name (table clients)
    secret,     \* the centre's LEAUTH_ENROLL_TOKEN
    issued,     \* personal tokens made
    calls,      \* enrolments the centre works on or has answered
    known,      \* enroll_token in the proxy's configuration
    file,       \* the token file on the proxy's volume
    mem,        \* the token of the running agent's client
    pc,         \* idle, waiting for the centre, or writing the token file
    tok,        \* the token of the enrolment the agent is in
    left        \* disturbances still to come

(* History, never read by an action. *)
VARIABLES
    dropped,    \* tokens that were in the table and no longer are
    orphans,    \* tokens that no proxy holds or waits for any more
    banned      \* names revoked when no machine of that name knew secret

centre == <<clients, secret, issued, calls>>
agent == <<file, mem, pc, tok>>
history == <<dropped, orphans, banned>>
vars == <<centre, known, agent, left, history>>

ASSUME EnrolmentAssumption ==
    /\ NameOf \in [Proxy -> Name]
    /\ Budget \in Nat

Call == [name : Name, token : Nat \ {0}, saved : BOOLEAN]

TypeOK ==
    /\ clients \in [Name -> Nat]
    /\ secret \in Nat /\ issued \in Nat
    /\ calls \in SUBSET Call
    /\ known \in [Proxy -> Nat]
    /\ file \in [Proxy -> Nat] /\ mem \in [Proxy -> Nat]
    /\ pc \in [Proxy -> {"idle", "wait", "write"}]
    /\ tok \in [Proxy -> Nat]
    /\ \A p \in Proxy : pc[p] = "idle" <=> tok[p] = 0
    /\ left \in Nat
    /\ dropped \in SUBSET Nat /\ orphans \in SUBSET Nat
    /\ banned \in SUBSET Name

Init ==
    /\ clients = [n \in Name |-> 0]
    /\ secret = 1 /\ issued = 0 /\ calls = {}
    /\ known = [p \in Proxy |-> 1]
    /\ file = [p \in Proxy |-> 0] /\ mem = [p \in Proxy |-> 0]
    /\ pc = [p \in Proxy |-> "idle"] /\ tok = [p \in Proxy |-> 0]
    /\ left = Budget
    /\ dropped = {} /\ orphans = {} /\ banned = {}

Spend == left > 0 /\ left' = left - 1

\* The enrolment the agent of p waits for, worked on or answered.
Asked(p, saved) == [name |-> NameOf[p], token |-> tok[p], saved |-> saved]

\* The agent stops waiting: an answer has no receiver any more, a request that
\* is still worked on goes on without one.
Abandon(p) ==
    /\ calls' = calls \ {Asked(p, TRUE)}
    /\ orphans' = orphans \cup ({tok[p]} \ {0})
    /\ pc' = [pc EXCEPT ![p] = "idle"]
    /\ tok' = [tok EXCEPT ![p] = 0]
    /\ UNCHANGED <<clients, secret, issued, dropped>>

-----------------------------------------------------------------------------
(* The agent.                                                              *)

\* readToken: the file is read once in the life of the process.
Present(p) ==
    /\ pc[p] = "idle" /\ mem[p] = 0 /\ file[p] # 0
    /\ mem' = [mem EXCEPT ![p] = file[p]]
    /\ UNCHANGED <<centre, known, file, pc, tok, left, history>>

\* Mutant of Enrol: the token file is not looked at.
EnrolAlways(p) ==
    /\ pc[p] = "idle" /\ mem[p] = 0
    /\ known[p] = secret
    /\ issued' = issued + 1
    /\ calls' = calls \cup {[name |-> NameOf[p], token |-> issued + 1, saved |-> FALSE]}
    /\ pc' = [pc EXCEPT ![p] = "wait"]
    /\ tok' = [tok EXCEPT ![p] = issued + 1]
    /\ UNCHANGED <<clients, secret, known, file, mem, left, history>>

\* No file: the request reaches the centre, whose CheckEnroll accepts it (a
\* refusal changes nothing on either side), and a token is made.
Enrol(p) ==
    /\ pc[p] = "idle" /\ mem[p] = 0 /\ file[p] = 0
    /\ known[p] = secret
    /\ issued' = issued + 1
    /\ calls' = calls \cup {[name |-> NameOf[p], token |-> issued + 1, saved |-> FALSE]}
    /\ pc' = [pc EXCEPT ![p] = "wait"]
    /\ tok' = [tok EXCEPT ![p] = issued + 1]
    /\ UNCHANGED <<clients, secret, known, file, mem, left, history>>

\* Mutant of Receive: the centre answers before the token is saved.
ReceiveEarly(p) ==
    /\ pc[p] = "wait"
    /\ Asked(p, TRUE) \in calls \/ Asked(p, FALSE) \in calls
    /\ calls' = calls \ {Asked(p, TRUE)}
    /\ pc' = [pc EXCEPT ![p] = "write"]
    /\ UNCHANGED <<clients, secret, issued, known, file, mem, tok, left, history>>

Receive(p) ==
    /\ pc[p] = "wait" /\ Asked(p, TRUE) \in calls
    /\ calls' = calls \ {Asked(p, TRUE)}
    /\ pc' = [pc EXCEPT ![p] = "write"]
    /\ UNCHANGED <<clients, secret, issued, known, file, mem, tok, left, history>>

\* writeAtomic; when it fails the token is lost and the next synchronisation
\* enrols again.
WriteToken(p) ==
    /\ pc[p] = "write"
    /\ \/ /\ file' = [file EXCEPT ![p] = tok[p]]
          /\ mem' = [mem EXCEPT ![p] = tok[p]]
          /\ pc' = [pc EXCEPT ![p] = "idle"]
          /\ tok' = [tok EXCEPT ![p] = 0]
          /\ UNCHANGED <<centre, left, history>>
       \/ Spend /\ Abandon(p) /\ UNCHANGED <<file, mem, banned>>
    /\ UNCHANGED known

\* Mutant of GiveUp: the client has no timeout.
GiveUpHanging(p) ==
    /\ pc[p] = "wait"
    /\ Asked(p, TRUE) \in calls \/ Asked(p, FALSE) \in calls
    /\ Spend
    /\ Abandon(p)
    /\ UNCHANGED <<known, file, mem, banned>>

\* Mutant of GiveUp: the token of the failed attempt is kept.
GiveUpKeeping(p) ==
    /\ pc[p] = "wait"
    /\ IF Asked(p, TRUE) \in calls \/ Asked(p, FALSE) \in calls
       THEN Spend ELSE UNCHANGED left
    /\ calls' = calls \ {Asked(p, TRUE)}
    /\ pc' = [pc EXCEPT ![p] = "idle"]
    /\ UNCHANGED <<clients, secret, issued, known, file, mem, tok, history>>

\* The client's timeout, a connection that broke, or an answer that is an
\* error.  Losing a call that would have been answered is a disturbance.
GiveUp(p) ==
    /\ pc[p] = "wait"
    /\ IF Asked(p, TRUE) \in calls \/ Asked(p, FALSE) \in calls
       THEN Spend ELSE UNCHANGED left
    /\ Abandon(p)
    /\ UNCHANGED <<known, file, mem, banned>>

\* With a token the agent synchronises, accepted or not; it never enrols again.
Sync(p) == pc[p] = "idle" /\ mem[p] # 0 /\ UNCHANGED vars

\* The container is started again, on the same volume ...
Die(p) ==
    /\ Spend
    /\ Abandon(p)
    /\ mem' = [mem EXCEPT ![p] = 0]
    /\ UNCHANGED <<known, file, banned>>

\* ... on a new one ...
LoseVolume(p) ==
    /\ Spend
    /\ calls' = calls \ {Asked(p, TRUE)}
    /\ orphans' = orphans \cup ({tok[p], file[p]} \ {0})
    /\ pc' = [pc EXCEPT ![p] = "idle"]
    /\ tok' = [tok EXCEPT ![p] = 0]
    /\ mem' = [mem EXCEPT ![p] = 0]
    /\ file' = [file EXCEPT ![p] = 0]
    /\ UNCHANGED <<clients, secret, issued, known, dropped, banned>>

\* ... or with the present enrolment token in its configuration.
Configure(p) ==
    /\ known[p] # secret
    /\ known' = [known EXCEPT ![p] = secret]
    /\ banned' = banned \ {NameOf[p]}
    /\ Abandon(p)
    /\ mem' = [mem EXCEPT ![p] = 0]
    /\ UNCHANGED <<file, left>>

-----------------------------------------------------------------------------
(* The centre and its administrator.                                       *)

\* SaveClient: the new token takes the place of the old one.
SaveClient(c) ==
    /\ c \in calls /\ ~c.saved
    /\ clients' = [clients EXCEPT ![c.name] = c.token]
    /\ dropped' = dropped \cup ({clients[c.name]} \ {0})
    /\ calls' = (calls \ {c}) \cup
         {[c EXCEPT !.saved = TRUE] : q \in {r \in Proxy : tok[r] = c.token}}
    /\ UNCHANGED <<secret, issued, known, agent, left, orphans, banned>>

\* The statement fails, or the caller is gone and its context cancelled.
SaveFails(c) ==
    /\ c \in calls /\ ~c.saved
    /\ IF \E p \in Proxy : tok[p] = c.token THEN Spend ELSE UNCHANGED left
    /\ calls' = calls \ {c}
    /\ UNCHANGED <<clients, secret, issued, known, agent, history>>

\* leauth revoke, in another process.
Revoke(n) ==
    /\ clients[n] # 0
    /\ Spend
    /\ clients' = [clients EXCEPT ![n] = 0]
    /\ dropped' = dropped \cup {clients[n]}
    /\ banned' = IF \E p \in Proxy : NameOf[p] = n /\ known[p] = secret
                 THEN banned ELSE banned \cup {n}
    /\ UNCHANGED <<secret, issued, calls, known, agent, orphans>>

\* Mutant of Rotate: the token is replaced in the running process.
RotateInPlace ==
    /\ Spend
    /\ secret' = secret + 1
    /\ UNCHANGED <<clients, issued, calls, known, agent, history>>

\* A new enrolment token: the centre is restarted with it.
Rotate ==
    /\ Spend
    /\ secret' = secret + 1
    /\ calls' = {}
    /\ UNCHANGED <<clients, issued, known, agent, history>>

Crash ==
    /\ Spend
    /\ calls' = {}
    /\ UNCHANGED <<clients, secret, issued, known, agent, history>>

-----------------------------------------------------------------------------

AgentStep(p) ==
    Present(p) \/ Enrol(p) \/ Receive(p) \/ WriteToken(p) \/ GiveUp(p) \/ Sync(p)

CentreStep == \E c \in calls : SaveClient(c) \/ SaveFails(c)

Next ==
    \/ CentreStep
    \/ \E p \in Proxy : AgentStep(p) \/ Die(p) \/ LoseVolume(p) \/ Configure(p)
    \/ \E n \in Name : Revoke(n)
    \/ Rotate \/ Crash

Spec == Init /\ [][Next]_vars

\* Every agent goes on with its synchronisations and the centre with its
\* requests; no human has to do anything.
FairSpec ==
    /\ Spec
    /\ WF_vars(CentreStep)
    /\ \A p \in Proxy : WF_vars(AgentStep(p))

-----------------------------------------------------------------------------
(* Properties.                                                             *)

\* Replacing the enrolment token and then revoking a proxy keeps it out until
\* somebody gives it the new one (deploy/central/README.md:173-176), whatever
\* enrolments were under way, with or without its volume.
RevokedStaysOut == \A n \in banned : clients[n] = 0

\* A token on a proxy's disk is one the centre has saved: an agent is never
\* left with a token that was lost on the way to the table, by a failed
\* statement or a crash between the answer and the write (auth.go:97).
FileIsBacked ==
    \A p \in Proxy : file[p] # 0 =>
        file[p] = clients[NameOf[p]] \/ file[p] \in dropped

\* A proxy with a token loses its access to another token of its name only when
\* another machine of that name holds or awaits that one, or when the centre
\* finished an attempt late that had been given up.
LockedOutByLoss ==
    \A p \in Proxy : LET valid == clients[NameOf[p]] IN
        file[p] # 0 /\ valid \notin {0, file[p]} =>
            \/ valid \in orphans
            \/ \E q \in Proxy \ {p} : NameOf[q] = NameOf[p] /\ valid \in {file[q], tok[q]}

\* A proxy that is configured with the centre's enrolment token is accepted in
\* the end, through lost answers, crashes, failed writes and a lost volume,
\* unless its token was taken from it.
EnrolsInTheEnd ==
    \A p \in Proxy : <>[](known[p] = secret) =>
        <>[](mem[p] # 0 /\ (clients[NameOf[p]] = mem[p] \/ mem[p] \in dropped))

=============================================================================
