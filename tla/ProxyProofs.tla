---------------------------- MODULE ProxyProofs ----------------------------
(***************************************************************************)
(* Theorems about Proxy for every configuration, every number of processes *)
(* and every choice of pauses.                                             *)
(***************************************************************************)
EXTENDS Proxy, FiniteSetTheorems, WellFoundedInduction, TLAPS

-----------------------------------------------------------------------------
(* Numbers and sequences.                                                  *)

\* A set of natural numbers that is not empty has a least one.
LEMMA HasLeast ==
    ASSUME NEW S, S \subseteq Nat, S # {}
    PROVE  \E x \in S : \A y \in S : x <= y
<1> DEFINE R == {ss \in Nat \X Nat : ss[1] < ss[2]}
<1>1. IsWellFoundedOn(R, Nat)
  BY NatLessThanWellFounded DEF OpToRel
<1>2. PICK x \in S : \A y \in S : ~(<<y, x>> \in R)
  BY <1>1, WFMin
<1>3. ASSUME NEW y \in S PROVE x <= y
  <2>1. x \in Nat /\ y \in Nat /\ ~(<<y, x>> \in R)
    BY <1>2
  <2>2. ~(y < x)
    BY <2>1
  <2> QED
    BY <2>1, <2>2
<1> QED
  BY <1>3

LEMMA LeastIsIn ==
    ASSUME NEW S, S \subseteq Nat, S # {}
    PROVE  Min(S) \in S
BY HasLeast DEF Min

\* A bounded one has a greatest.
LEMMA GreatestIsIn ==
    ASSUME NEW n \in Nat, NEW S, S \subseteq 0 .. n, S # {}
    PROVE  Max(S) \in S /\ \A y \in S : y <= Max(S)
<1> DEFINE T == {n - x : x \in S}
<1>1. T \subseteq Nat /\ T # {}
  <2>1. \A x \in S : n - x \in Nat
    OBVIOUS
  <2> QED
    BY <2>1
<1>2. PICK t \in T : \A u \in T : t <= u
  BY <1>1, HasLeast
<1>3. PICK x \in S : t = n - x
  BY <1>2
<1>4. ASSUME NEW y \in S PROVE x >= y
  <2>1. n - y \in T /\ y \in Int /\ x \in Int
    <3>1. y \in 0 .. n /\ x \in 0 .. n
      OBVIOUS
    <3> QED
      BY <1>4, <3>1
  <2>2. t <= n - y
    BY <1>2, <2>1
  <2> QED
    BY <1>3, <2>1, <2>2
<1>5. \E z \in S : \A y \in S : z >= y
  BY <1>4
<1>6. Max(S) \in S /\ \A y \in S : Max(S) >= y
  BY <1>5 DEF Max
<1>7. \A y \in S : y \in Int
  OBVIOUS
<1> QED
  BY <1>6, <1>7

\* What holds of the first number and is passed on holds of them all.
LEMMA UpTo ==
    ASSUME NEW m \in Nat, NEW n \in Nat, NEW S, m \in S, \A i \in m .. n - 1 : i \in S => i + 1 \in S
    PROVE  \A i \in m .. n : i \in S
<1> DEFINE T == {i \in m .. n : i \notin S}
<1> SUFFICES ASSUME T # {} PROVE FALSE
  OBVIOUS
<1>5. T \subseteq Nat
  OBVIOUS
<1>1. PICK t \in T : \A u \in T : t <= u
  BY <1>5, HasLeast
<1>2. t \in m .. n /\ t \notin S /\ t # m
  BY <1>1
<1>3. t - 1 \in m .. n - 1 /\ t - 1 \notin T
  BY <1>1, <1>2
<1>4. t - 1 \in S /\ (t - 1) + 1 = t
  BY <1>3
<1> QED
  BY <1>2, <1>3, <1>4

-----------------------------------------------------------------------------
(* The supervised processes.                                               *)

\* A pause that is running ends before MaxDelay has passed without a failure;
\* nothing is calm while GitLab cannot be reached.
Paused ==
    /\ ~gitlab => calm = 0
    /\ \A k \in DOMAIN procs :
         /\ procs[k].phase # "pause" => procs[k].wait = 0
         /\ procs[k].phase # "serve" => procs[k].wait + calm <= MaxDelay

IInv == TypeOK /\ procs \in [DOMAIN procs -> Process] /\ Paused

LEMMA Delays ==
    /\ FirstDelay \in Nat /\ MaxDelay \in Nat /\ Healthy \in Nat /\ Budget \in Nat
    /\ 1 <= FirstDelay /\ FirstDelay <= MaxDelay
BY ProxyAssumption

\* One process goes on to p.
LEMMA ProcessStep ==
    ASSUME IInv, NEW k \in DOMAIN procs, NEW p \in Process, procs' = [procs EXCEPT ![k] = p],
           UNCHANGED <<raw, stage, file, gitlab>>, left' \in 0 .. Budget,
           calm' = calm \/ calm' = 0,
           p.phase # "pause" => p.wait = 0,
           p.phase # "serve" => p.wait + calm' <= MaxDelay
    PROVE  IInv'
<1>1. /\ DOMAIN procs' = DOMAIN procs /\ procs'[k] = p
      /\ \A j \in DOMAIN procs \ {k} : procs'[j] = procs[j]
  BY DEF IInv
<1>2. Process' = Process /\ cfg' = cfg
  BY DEF Process, cfg
<1>3. calm \in Nat /\ calm' \in 0 .. MaxDelay + 1 /\ calm' <= calm
  BY Delays DEF IInv, TypeOK
<1>4. procs' \in [DOMAIN procs' -> Process']
  BY <1>1, <1>2 DEF IInv
<1>5. TypeOK'
  BY <1>2, <1>3, <1>4 DEF IInv, TypeOK
<1>6. \A j \in DOMAIN procs : procs[j].wait \in Nat
  BY Delays DEF IInv, TypeOK, Process
<1>7. Paused'
  BY <1>1, <1>3, <1>6, Delays DEF IInv, Paused
<1> QED
  BY <1>4, <1>5, <1>7 DEF IInv

\* The fields of a process; what its arguments are does not matter here.
LEMMA ProcessFields ==
    \E A : Process = [args : A, phase : {"start", "serve", "pause"}, delay : FirstDelay .. MaxDelay,
                      wait : 0 .. MaxDelay, ran : 0 .. Healthy]
BY DEF Process

\* A process that has ended pauses.
LEMMA EndedType ==
    ASSUME NEW p \in Process
    PROVE  /\ Ended(p) \in Process
           /\ Ended(p).phase = "pause" /\ Ended(p).wait \in Nat /\ Ended(p).wait <= MaxDelay
<1>1. PICK A : Process = [args : A, phase : {"start", "serve", "pause"},
                          delay : FirstDelay .. MaxDelay, wait : 0 .. MaxDelay, ran : 0 .. Healthy]
  BY ProcessFields
<1>2. p.delay \in FirstDelay .. MaxDelay
  BY <1>1
<1>3. p.delay \in 0 .. MaxDelay /\ p.delay \in Nat /\ p.delay <= MaxDelay
  BY <1>2, Delays
<1> QED
  BY <1>1, <1>3 DEF Ended

\* The next pause is one of those allowed.
LEMMA NextDelayType ==
    ASSUME NEW p \in Process
    PROVE  NextDelay(p) \in FirstDelay .. MaxDelay
<1>1. p.delay \in FirstDelay .. MaxDelay /\ p.ran \in 0 .. Healthy
  BY DEF Process
<1> QED
  BY <1>1, Delays DEF NextDelay, Least

LEMMA DiscoverStep ==
    ASSUME IInv, NEW k \in DOMAIN procs, Discover(k)
    PROVE  IInv'
<1>1. /\ procs[k] \in Process /\ procs[k].phase = "start" /\ procs[k].wait = 0
      /\ left' \in 0 .. Budget /\ calm' = calm /\ calm \in Nat
      /\ UNCHANGED <<raw, stage, file, gitlab>>
  BY Delays DEF IInv, TypeOK, Paused, Discover
<1>2. CASE gitlab
  <2> DEFINE p == [procs[k] EXCEPT !.phase = "serve"]
  <2>1. p \in Process /\ p.phase = "serve" /\ p.wait = 0
    BY <1>1 DEF Process
  <2>2. procs' = [procs EXCEPT ![k] = p]
    BY <1>2 DEF Discover
  <2> QED
    BY <1>1, <2>1, <2>2, ProcessStep
<1>3. CASE ~gitlab
  <2> DEFINE p == Ended(procs[k])
  <2>1. p \in Process /\ p.phase = "pause" /\ p.wait \in Nat /\ p.wait <= MaxDelay
    BY <1>1, EndedType
  <2>2. procs' = [procs EXCEPT ![k] = p] /\ calm' = 0
    BY <1>1, <1>3 DEF Discover, IInv, Paused
  <2> HIDE DEF p
  <2>3. p.wait + calm' <= MaxDelay
    BY <2>1, <2>2, Delays
  <2> QED
    BY <1>1, <2>1, <2>2, <2>3, ProcessStep
<1> QED
  BY <1>2, <1>3

LEMMA ResumeStep ==
    ASSUME IInv, NEW k \in DOMAIN procs, Resume(k)
    PROVE  IInv'
<1> DEFINE p == [procs[k] EXCEPT !.phase = "start", !.ran = 0, !.delay = NextDelay(procs[k])]
<1>1. /\ procs[k] \in Process /\ procs[k].phase = "pause" /\ procs[k].wait = 0
      /\ procs[k].wait + calm <= MaxDelay
      /\ left' \in 0 .. Budget /\ calm' = calm /\ calm \in Nat
      /\ UNCHANGED <<raw, stage, file, gitlab>>
  BY Delays DEF IInv, TypeOK, Paused, Resume
<1>2. PICK A : Process = [args : A, phase : {"start", "serve", "pause"},
                          delay : FirstDelay .. MaxDelay, wait : 0 .. MaxDelay, ran : 0 .. Healthy]
  BY ProcessFields
<1>4. NextDelay(procs[k]) \in FirstDelay .. MaxDelay /\ 0 \in 0 .. Healthy
  BY <1>1, NextDelayType, Delays
<1>5. p \in Process /\ p.phase = "start" /\ p.wait = 0
  BY <1>1, <1>2, <1>4
<1>3. procs' = [procs EXCEPT ![k] = p]
  BY DEF Resume
<1> HIDE DEF p
<1> QED
  BY <1>1, <1>3, <1>5, ProcessStep

LEMMA ProcessDiesStep ==
    ASSUME IInv, NEW k \in DOMAIN procs, ProcessDies(k)
    PROVE  IInv'
<1> DEFINE p == Ended(procs[k])
<1>1. /\ procs[k] \in Process
      /\ left' \in 0 .. Budget /\ calm' = 0
      /\ UNCHANGED <<raw, stage, file, gitlab>>
  BY Delays DEF IInv, TypeOK, ProcessDies, Fail
<1>2. p \in Process /\ p.phase = "pause" /\ p.wait \in Nat /\ p.wait <= MaxDelay
  BY <1>1, EndedType
<1>3. procs' = [procs EXCEPT ![k] = p]
  BY DEF ProcessDies
<1> HIDE DEF p
<1>4. p.wait + calm' <= MaxDelay
  BY <1>1, <1>2, Delays
<1> QED
  BY <1>1, <1>2, <1>3, <1>4, ProcessStep

\* Time passes only while every process serves or has some of its pause left.
LEMMA TickStep ==
    ASSUME IInv, Tick
    PROVE  IInv'
<1>1. DOMAIN procs' = DOMAIN procs /\ UNCHANGED <<raw, stage, file, gitlab, left>>
  BY DEF Tick
<1>2. Process' = Process /\ cfg' = cfg
  BY <1>1 DEF Process, cfg
<1> USE Delays
<1>8. calm \in 0 .. MaxDelay + 1 /\ calm \in Nat
  BY DEF IInv, TypeOK
<1>9. calm' = IF gitlab THEN Least(calm + 1, MaxDelay + 1) ELSE 0
  BY DEF Tick
<1>3. calm' \in 0 .. MaxDelay + 1 /\ calm' \in Nat /\ calm' <= calm + 1 /\ (~gitlab => calm' = 0)
  BY <1>8, <1>9 DEF Least
<1>4. ASSUME NEW k \in DOMAIN procs
      PROVE  /\ procs'[k] \in Process /\ procs'[k].phase = procs[k].phase
             /\ procs'[k].phase # "pause" => procs'[k].wait = 0
             /\ procs'[k].phase # "serve" => procs'[k].wait + calm' <= MaxDelay
  <2>1. procs[k] \in Process
    BY <1>4 DEF IInv, TypeOK
  <2>2. /\ procs[k].phase \in {"start", "serve", "pause"} /\ procs[k].wait \in 0 .. MaxDelay
        /\ procs[k].ran \in 0 .. Healthy
    BY <2>1 DEF Process
  <2>3. /\ procs[k].phase = "serve" \/ procs[k].wait > 0
        /\ procs[k].phase # "pause" => procs[k].wait = 0
        /\ procs[k].phase # "serve" => procs[k].wait + calm <= MaxDelay
    BY <1>4 DEF Tick, IInv, Paused
  <2> DEFINE ran == Least(procs[k].ran + 1, Healthy)
             wait == IF procs[k].phase = "pause" THEN procs[k].wait - 1 ELSE 0
  <2>4. procs'[k] = [procs[k] EXCEPT !.ran = ran, !.wait = wait]
    BY <1>4 DEF Tick
  <2>5. ran \in 0 .. Healthy
    BY <2>2, Delays DEF Least
  <2>6. /\ wait \in 0 .. MaxDelay
        /\ procs[k].phase # "pause" => wait = 0
        /\ procs[k].phase # "serve" => wait + calm' <= MaxDelay
    <3>1. procs[k].wait \in Nat /\ procs[k].wait <= MaxDelay
      BY <2>2
    <3>2. CASE procs[k].phase = "pause"
      <4>1. wait = procs[k].wait - 1 /\ procs[k].wait > 0 /\ procs[k].wait + calm <= MaxDelay
        BY <2>3, <3>2
      <4> HIDE DEF wait
      <4> QED
        BY <4>1, <1>3, <1>8, <3>1, <3>2
    <3>3. CASE procs[k].phase # "pause"
      <4>1. wait = 0 /\ procs[k].phase = "serve"
        BY <2>3, <3>1, <3>3
      <4> HIDE DEF wait
      <4> QED
        BY <4>1
    <3> QED
      BY <3>2, <3>3
  <2> HIDE DEF ran, wait
  <2>8. PICK A : Process = [args : A, phase : {"start", "serve", "pause"},
                            delay : FirstDelay .. MaxDelay, wait : 0 .. MaxDelay, ran : 0 .. Healthy]
    BY ProcessFields
  <2>7. procs'[k] \in Process /\ procs'[k].phase = procs[k].phase /\ procs'[k].wait = wait
    BY <2>1, <2>4, <2>5, <2>6, <2>8
  <2> QED
    BY <2>6, <2>7
<1>5. procs' \in [DOMAIN procs' -> Process']
  BY <1>1, <1>2, <1>4 DEF Tick
<1>6. TypeOK'
  BY <1>1, <1>2, <1>3, <1>5 DEF IInv, TypeOK
<1>7. Paused'
  BY <1>1, <1>3, <1>4 DEF Paused
<1> QED
  BY <1>5, <1>6, <1>7 DEF IInv

\* A step of the agent leaves the failures, and it starts processes that have
\* all their pause still before them.
LEMMA AgentStepIInv ==
    ASSUME IInv, AgentStep
    PROVE  IInv'
<1> USE Delays
<1>1. raw' = raw /\ gitlab' = gitlab /\ left' = left
  BY DEF AgentStep, LoadConfig, WriteConfig, StartOAuthProxies, Restart
<1>2. Process' = Process /\ cfg' = cfg /\ RenderNginxConfig(cfg)' = RenderNginxConfig(cfg)
  BY <1>1 DEF Process, cfg
<1>3. CASE UNCHANGED <<procs, calm>> /\ (LoadConfig \/ WriteConfig \/ Restart)
  <2>1. stage' \in Stages /\ (stage' \in {"rendered", "up"} => file' = RenderNginxConfig(cfg))
    BY <1>3 DEF LoadConfig, WriteConfig, Restart, Stages
  <2>2. TypeOK'
    BY <1>1, <1>2, <1>3, <2>1 DEF IInv, TypeOK
  <2> QED
    BY <1>1, <1>2, <1>3, <2>2 DEF IInv, Paused
<1>4. CASE StartOAuthProxies
  <2> DEFINE I == OAuthInstances(cfg)
             P == [k \in DOMAIN I |->
                     [args |-> Args(cfg, I[k]),
                      phase |-> "start", delay |-> FirstDelay, wait |-> 0, ran |-> 0]]
  <2>1. stage' = "up" /\ stage = "rendered" /\ procs' = P /\ calm' = 0 /\ file' = file
    BY <1>4 DEF StartOAuthProxies
  <2>2. ASSUME NEW k \in DOMAIN I
        PROVE  P[k] \in Process /\ P[k].wait = 0 /\ P[k].phase = "start"
    <3>1. Args(cfg, I[k]) \in {Args(cfg, I[j]) : j \in DOMAIN I}
      OBVIOUS
    <3>2. FirstDelay \in FirstDelay .. MaxDelay /\ 0 \in 0 .. MaxDelay /\ 0 \in 0 .. Healthy
      OBVIOUS
    <3> HIDE DEF I
    <3> QED
      BY <3>1, <3>2 DEF Process, I
  <2> HIDE DEF I
  <2>3. DOMAIN P = DOMAIN I /\ P \in [DOMAIN P -> Process]
    BY <2>2
  <2> HIDE DEF P
  <2>4. procs' \in [DOMAIN procs' -> Process']
    BY <1>2, <2>1, <2>3
  <2>5. TypeOK'
    BY <1>1, <1>2, <2>1, <2>4 DEF IInv, TypeOK, Stages
  <2>6. Paused'
    BY <2>1, <2>2, <2>3 DEF Paused
  <2> QED
    BY <2>4, <2>5, <2>6 DEF IInv
<1> QED
  BY <1>3, <1>4 DEF AgentStep, LoadConfig, WriteConfig, Restart

\* GitLab fails and returns; the agent ends.
LEMMA WorldStep ==
    ASSUME IInv, GitlabFails \/ GitlabReturns \/ AgentDies
    PROVE  IInv'
<1> USE Delays
<1>1. /\ raw' = raw /\ file' = file
      /\ stage' = stage \/ stage' = "exited"
      /\ procs' = procs \/ procs' = <<>>
      /\ calm' = 0
      /\ left' \in 0 .. Budget /\ gitlab' \in BOOLEAN
  <2>1. left \in Int /\ left <= Budget /\ left \in 0 .. Budget /\ gitlab \in BOOLEAN
    BY DEF IInv, TypeOK
  <2>2. CASE GitlabFails
    <3>1. left > 0 /\ left' = left - 1 /\ calm' = 0 /\ UNCHANGED <<raw, stage, file, procs>>
      BY <2>2 DEF GitlabFails, Fail
    <3>2. gitlab' \in BOOLEAN
      BY <2>2, Zenon DEF GitlabFails
    <3>3. left' \in 0 .. Budget
      BY <2>1, <3>1
    <3> QED
      BY <3>1, <3>2, <3>3
  <2>3. CASE GitlabReturns
    BY <2>1, <2>3 DEF GitlabReturns, IInv, Paused
  <2>4. CASE AgentDies
    BY <2>1, <2>4 DEF AgentDies, Fail
  <2> QED
    BY <2>2, <2>3, <2>4
<1>2. Process' = Process /\ cfg' = cfg /\ RenderNginxConfig(cfg)' = RenderNginxConfig(cfg)
  BY <1>1 DEF Process, cfg
<1>3. procs' \in [DOMAIN procs' -> Process']
  <2>1. CASE procs' = procs
    BY <1>2, <2>1 DEF IInv
  <2>2. CASE procs' = <<>>
    <3>1. DOMAIN procs' = {} /\ procs' = [i \in {} |-> i]
      BY <2>2
    <3> QED
      BY <3>1
  <2> QED
    BY <1>1, <2>1, <2>2
<1>4. TypeOK'
  BY <1>1, <1>2, <1>3 DEF IInv, TypeOK, Stages
<1>5. \A k \in DOMAIN procs : procs[k].wait \in 0 .. MaxDelay
  BY DEF IInv, TypeOK, Process
<1>6. Paused'
  BY <1>1, <1>5 DEF IInv, Paused
<1> QED
  BY <1>3, <1>4, <1>6 DEF IInv

LEMMA InitIInv == Init => IInv
BY Delays DEF Init, IInv, TypeOK, Paused, Stages

LEMMA NextIInv == IInv /\ [Next]_vars => IInv'
<1> SUFFICES ASSUME IInv, [Next]_vars PROVE IInv'
  OBVIOUS
<1>1. CASE AgentStep
  BY <1>1, AgentStepIInv
<1>2. CASE Supervise
  BY <1>2, DiscoverStep, ResumeStep DEF Supervise
<1>3. CASE Tick
  BY <1>3, TickStep
<1>4. CASE GitlabFails \/ GitlabReturns \/ AgentDies
  BY <1>4, WorldStep
<1>5. CASE \E k \in DOMAIN procs : ProcessDies(k)
  BY <1>5, ProcessDiesStep
<1>6. CASE UNCHANGED vars
  <2>1. Process' = Process /\ cfg' = cfg /\ RenderNginxConfig(cfg)' = RenderNginxConfig(cfg)
    BY <1>6 DEF vars, Process, cfg
  <2>2. TypeOK'
    BY <1>6, <2>1 DEF vars, IInv, TypeOK
  <2> QED
    BY <1>6, <2>1, <2>2 DEF vars, IInv, Paused
<1> QED
  BY <1>1, <1>2, <1>3, <1>4, <1>5, <1>6 DEF Next

\* The inductive invariant.  The type alone does not bound a login's absence:
\* what does is that a pause that is running and the time already calm make up
\* at most one longest pause (oauth.go, superviseOAuth).
THEOREM InductiveInvariant == Spec => []IInv
<1> QED
  BY InitIInv, NextIInv, PTL DEF Spec

\* The state of a proxy has its type: the nginx.conf of an agent that is up is
\* the one rendered from its configuration, and every supervised process has
\* the arguments of one of the instances (agent.go, oauth.go).
THEOREM TypeCorrect == Spec => []TypeOK
<1>1. IInv => TypeOK
  BY DEF IInv
<1> QED
  BY <1>1, InductiveInvariant, PTL

-----------------------------------------------------------------------------
(* The login.                                                              *)

\* One can log in again at the latest a longest pause after the last failure,
\* for every doubling of the pauses up to their limit (oauth.go,
\* superviseOAuth).
THEOREM LoginComesBack == Spec => []LoginReturns
<1>1. IInv => LoginReturns
  <2> SUFFICES ASSUME IInv, calm > MaxDelay, NEW k \in DOMAIN procs
               PROVE  procs[k].phase = "serve"
    BY DEF LoginReturns
  <2>1. procs[k].wait \in 0 .. MaxDelay /\ calm \in 0 .. MaxDelay + 1
    BY DEF IInv, TypeOK, Process
  <2>2. procs[k].phase # "serve" => procs[k].wait + calm <= MaxDelay
    BY DEF IInv, Paused
  <2> QED
    BY <2>1, <2>2, Delays
<1> QED
  BY <1>1, InductiveInvariant, PTL

-----------------------------------------------------------------------------
(* The certificates.                                                       *)

\* A domain is asked for at most once: a zone covers the domain of its name, so
\* there is no certificate of its own for it.
LEMMA OneCertificate ==
    ASSUME NEW c, NEW a \in Certificates(c), NEW b \in Certificates(c), a.domain = b.domain
    PROVE  a = b
<1> DEFINE Zone(x) == \E i \in DOMAIN c.zones : x = [domain |-> c.zones[i], wildcard |-> TRUE]
           Own(x) == \E e \in Elements(c.endpoints) :
                        covering(c, e.domain) = {} /\ x = [domain |-> e.domain, wildcard |-> FALSE]
<1>1. (Zone(a) \/ Own(a)) /\ (Zone(b) \/ Own(b))
  BY DEF Certificates
<1>2. ASSUME NEW x, NEW y, Zone(x), Own(y)
      PROVE  x.domain # y.domain
  <2>1. PICK i \in DOMAIN c.zones : x = [domain |-> c.zones[i], wildcard |-> TRUE]
    BY <1>2
  <2>2. PICK e \in Elements(c.endpoints) :
            covering(c, e.domain) = {} /\ y = [domain |-> e.domain, wildcard |-> FALSE]
    BY <1>2
  <2>3. c.zones[i] # e.domain
    BY <2>2 DEF covering, Covers
  <2> QED
    BY <2>1, <2>2, <2>3
<1>3. CASE Zone(a) /\ Zone(b)
  <2>1. PICK i \in DOMAIN c.zones : a = [domain |-> c.zones[i], wildcard |-> TRUE]
    BY <1>3
  <2>2. PICK j \in DOMAIN c.zones : b = [domain |-> c.zones[j], wildcard |-> TRUE]
    BY <1>3
  <2>3. c.zones[i] = c.zones[j]
    BY <2>1, <2>2
  <2> QED
    BY <2>1, <2>2, <2>3
<1>4. CASE Own(a) /\ Own(b)
  <2>1. PICK e \in Elements(c.endpoints) : a = [domain |-> e.domain, wildcard |-> FALSE]
    BY <1>4
  <2>2. PICK f \in Elements(c.endpoints) : b = [domain |-> f.domain, wildcard |-> FALSE]
    BY <1>4
  <2>3. e.domain = f.domain
    BY <2>1, <2>2
  <2> QED
    BY <2>1, <2>2, <2>3
<1> HIDE DEF Zone, Own
<1>5. ~(Zone(a) /\ Own(b)) /\ ~(Zone(b) /\ Own(a))
  BY <1>2
<1> QED
  BY <1>1, <1>3, <1>4, <1>5

\* What the proxy has to know about the names of its configuration.
LEMMA Names ==
    ASSUME IInv
    PROVE  /\ DOMAIN cfg.zones \subseteq Nat /\ \A i \in DOMAIN cfg.zones : cfg.zones[i] \in Name
           /\ DOMAIN cfg.endpoints \subseteq Nat
           /\ \A i \in DOMAIN cfg.endpoints : cfg.endpoints[i] \in Endpoint
<1>1. raw \in Config
  BY ProxyAssumption DEF IInv, TypeOK
<1>2. /\ raw.zones \in Seq([name : Name, plain : BOOLEAN])
      /\ raw.endpoints \in Seq(Endpoint)
  BY <1>1 DEF Config
<1>3. /\ cfg.zones = [i \in DOMAIN raw.zones |-> raw.zones[i].name]
      /\ cfg.endpoints = raw.endpoints
  BY DEF cfg, Normalised
<1>4. /\ DOMAIN raw.zones \subseteq Nat
      /\ \A i \in DOMAIN raw.zones : raw.zones[i].name \in Name
      /\ DOMAIN raw.endpoints \subseteq Nat
      /\ \A i \in DOMAIN raw.endpoints : raw.endpoints[i] \in Endpoint
  <2>1. ASSUME NEW S, NEW s, s \in Seq(S)
        PROVE  DOMAIN s \subseteq Nat /\ \A i \in DOMAIN s : s[i] \in S
    BY <2>1
  <2> DEFINE Z == [name : Name, plain : BOOLEAN]
  <2>2. \A z \in Z : z.name \in Name
    OBVIOUS
  <2>3. raw.zones \in Seq(Z)
    BY <1>2
  <2> HIDE DEF Z
  <2>4. DOMAIN raw.zones \subseteq Nat /\ \A i \in DOMAIN raw.zones : raw.zones[i] \in Z
    BY <2>1, <2>3
  <2>5. DOMAIN raw.endpoints \subseteq Nat /\ \A i \in DOMAIN raw.endpoints : raw.endpoints[i] \in Endpoint
    BY <1>2, <2>1
  <2> QED
    BY <2>2, <2>4, <2>5
<1> QED
  BY <1>3, <1>4

\* The certificate an endpoint is served with is one that is asked for, and one
\* of its names is the endpoint's: the zone's own, its star, or the domain.
LEMMA Served ==
    ASSUME NEW c, NEW e, e \in Elements(c.endpoints), e.domain \in Name,
           DOMAIN c.zones \subseteq Nat, \A i \in DOMAIN c.zones : c.zones[i] \in Name
    PROVE  \E cert \in Certificates(c) :
              /\ cert.domain = certName(c, e)
              /\ \E n \in CertNames(cert) : Matches(n, e.domain)
<1> DEFINE S == covering(c, e.domain)
<1>0. Matches(e.domain, e.domain)
  BY DEF Matches, Name
<1>1. CASE S = {}
  <2> DEFINE cert == [domain |-> e.domain, wildcard |-> FALSE]
  <2>1. cert \in Certificates(c)
    BY <1>1 DEF Certificates
  <2>2. cert.domain = certName(c, e) /\ e.domain \in CertNames(cert)
    BY <1>1 DEF certName, CertNames
  <2> QED
    BY <1>0, <2>1, <2>2
<1>2. CASE S # {}
  <2> DEFINE i == Min(S)
             cert == [domain |-> c.zones[i], wildcard |-> TRUE]
  <2>1. i \in S
    BY <1>2, LeastIsIn DEF covering
  <2>2. i \in DOMAIN c.zones /\ Covers([domain |-> c.zones[i], wildcard |-> TRUE], e.domain)
    BY <2>1 DEF covering
  <2>3. certName(c, e) = c.zones[i]
    BY <1>2 DEF certName
  <2> HIDE DEF i
  <2>4. cert \in Certificates(c) /\ cert.domain = certName(c, e) /\ c.zones[i] \in Name
    BY <2>2, <2>3 DEF Certificates
  <2>5. CASE c.zones[i] = e.domain
    <3>1. e.domain \in CertNames(cert)
      BY <2>5 DEF CertNames
    <3> QED
      BY <1>0, <2>4, <3>1
  <2>6. CASE e.domain # <<>> /\ Tail(e.domain) = c.zones[i]
    <3> DEFINE n == <<"*">> \o c.zones[i]
    <3>1. n \in CertNames(cert)
      BY DEF CertNames
    <3>2. Matches(n, e.domain)
      <4> DEFINE z == c.zones[i]
                 d == e.domain
      <4>1. z \in Seq(STRING) /\ d \in Seq(STRING) /\ d # <<>> /\ z = Tail(d)
        BY <2>4, <2>6 DEF Name
      <4> HIDE DEF z, d
      <4>2. Len(z) = Len(d) - 1 /\ \A j \in 1 .. Len(z) : z[j] = d[j + 1]
        BY <4>1
      <4>3. Len(<<"*">> \o z) = Len(d) /\ (<<"*">> \o z)[1] = "*"
            /\ \A j \in 2 .. Len(d) : (<<"*">> \o z)[j] = z[j - 1]
        BY <4>1, <4>2
      <4>4. \A j \in DOMAIN d : (<<"*">> \o z)[j] \in {"*", d[j]}
        BY <4>1, <4>2, <4>3
      <4>5. Matches(<<"*">> \o z, d)
        BY <4>3, <4>4 DEF Matches
      <4> QED
        BY <4>5 DEF z, d
    <3> QED
      BY <2>4, <3>1, <3>2
  <2> QED
    BY <2>2, <2>5, <2>6 DEF Covers
<1> QED
  BY <1>1, <1>2

\* A proxy never asks for one name twice, with and without the wildcard: the
\* centre would refuse the whole request (cert.go:56-58, api.go).
THEOREM AskedOnce == Spec => []NoSelfConflict
<1>1. NoSelfConflict
  BY OneCertificate DEF NoSelfConflict
<1> QED
  BY <1>1, PTL

\* Every endpoint is served with a certificate the proxy asks for and that is
\* valid for its name, and so is the server for unknown names on every port,
\* whatever zones and endpoints the configuration has (cert.go, nginx.go).
THEOREM EveryNameIsCovered == Spec => []NamesCovered
<1>1. ASSUME IInv PROVE NamesCovered
  <2> SUFFICES ASSUME Running PROVE NamesCovered
    BY DEF NamesCovered
  <2>1. file = RenderNginxConfig(cfg)
    BY <1>1 DEF IInv, TypeOK, Running
  <2>2. /\ DOMAIN cfg.zones \subseteq Nat /\ \A i \in DOMAIN cfg.zones : cfg.zones[i] \in Name
        /\ DOMAIN cfg.endpoints \subseteq Nat
        /\ \A i \in DOMAIN cfg.endpoints : cfg.endpoints[i] \in Endpoint
    BY <1>1, Names
  <2>3. ASSUME NEW i \in DOMAIN cfg.endpoints
        PROVE  \E cert \in Certificates(cfg) :
                  /\ cert.domain = certName(cfg, cfg.endpoints[i])
                  /\ \E n \in CertNames(cert) : Matches(n, cfg.endpoints[i].domain)
    <3>1. cfg.endpoints[i] \in Elements(cfg.endpoints) /\ cfg.endpoints[i].domain \in Name
      BY <2>2, <2>3 DEF Elements, Endpoint
    <3> QED
      BY <2>2, <3>1, Served
  <2>4. ASSUME NEW i \in Declared
        PROVE  file.servers[i].cert = certName(cfg, cfg.endpoints[i])
    BY <2>1 DEF RenderNginxConfig, server, Declared
  <2>5. ASSUME NEW p \in DOMAIN file.defaults
        PROVE  \E cert \in Certificates(cfg) : cert.domain = file.defaults[p]
    <3> DEFINE S == {i \in DOMAIN cfg.endpoints : cfg.endpoints[i].listen = p}
    <3>1. file.defaults = nginxDefaults(cfg)
      BY <2>1 DEF RenderNginxConfig
    <3>2. S # {} /\ file.defaults[p] = certName(cfg, cfg.endpoints[Min(S)])
      BY <2>5, <3>1 DEF nginxDefaults
    <3>3. Min(S) \in DOMAIN cfg.endpoints
      BY <2>2, <3>2, LeastIsIn
    <3> QED
      BY <2>3, <3>2, <3>3
  <2> QED
    BY <2>3, <2>4, <2>5 DEF NamesCovered, Declared
<1> QED
  BY <1>1, InductiveInvariant, PTL

-----------------------------------------------------------------------------
(* The endpoints that ask for a login.                                     *)

\* The loop of closedEndpoints after each endpoint (oauth.go:82-91).
ClosedUpTo(s, n, f) ==
    f = [i \in 0 .. n |->
            IF i = 0 THEN <<>>
            ELSE IF Closed(s[i]) THEN Append(f[i - 1], s[i])
            ELSE f[i - 1]]

LEMMA ClosedUpToExists ==
    ASSUME NEW s, NEW n \in Nat
    PROVE  \E f : ClosedUpTo(s, n, f)
<1> DEFINE S == {m \in 0 .. n : \E f : ClosedUpTo(s, m, f)}
<1>1. 0 \in S
  <2> DEFINE f == [i \in 0 .. 0 |-> <<>>]
  <2>1. ClosedUpTo(s, 0, f)
    BY DEF ClosedUpTo
  <2> QED
    BY <2>1
<1>2. ASSUME NEW m \in 0 .. n - 1, m \in S PROVE m + 1 \in S
  <2>1. PICK f : ClosedUpTo(s, m, f)
    BY <1>2
  <2> DEFINE next == IF Closed(s[m + 1]) THEN Append(f[m], s[m + 1]) ELSE f[m]
             g == [i \in 0 .. m + 1 |-> IF i = m + 1 THEN next ELSE f[i]]
             step(h, i) == IF i = 0 THEN <<>>
                           ELSE IF Closed(s[i]) THEN Append(h[i - 1], s[i]) ELSE h[i - 1]
  <2>2. ASSUME NEW i \in 0 .. m + 1 PROVE g[i] = step(g, i)
    <3>1. CASE i = m + 1
      <4>1. g[i] = next /\ i # 0 /\ i - 1 = m /\ g[m] = f[m]
        BY <3>1
      <4> HIDE DEF g
      <4> QED
        BY <3>1, <4>1
    <3>2. CASE i # m + 1
      <4>1. i \in 0 .. m /\ g[i] = f[i] /\ (i # 0 => g[i - 1] = f[i - 1])
        BY <3>2
      <4>2. f[i] = step(f, i)
        BY <2>1, <4>1 DEF ClosedUpTo
      <4> HIDE DEF g
      <4> QED
        BY <4>1, <4>2
    <3> QED
      BY <3>1, <3>2
  <2>3. g = [i \in 0 .. m + 1 |-> g[i]]
    OBVIOUS
  <2> HIDE DEF g
  <2>4. ClosedUpTo(s, m + 1, g)
    BY <2>2, <2>3 DEF ClosedUpTo
  <2> QED
    BY <2>4
<1> HIDE DEF S
<1>3. \A i \in 0 .. n : i \in S
  BY <1>1, <1>2, UpTo
<1> QED
  BY <1>3 DEF S

\* What closedEndpoints returns: endpoints of the file that ask for a login, and
\* all of them.
LEMMA ClosedList ==
    ASSUME NEW c, c.endpoints \in Seq(Endpoint)
    PROVE  /\ closedEndpoints(c) \in Seq(Endpoint)
           /\ \A k \in DOMAIN closedEndpoints(c) :
                /\ Closed(closedEndpoints(c)[k])
                /\ \E i \in DOMAIN c.endpoints : closedEndpoints(c)[k] = c.endpoints[i]
           /\ \A i \in DOMAIN c.endpoints : Closed(c.endpoints[i])
                => \E k \in DOMAIN closedEndpoints(c) : closedEndpoints(c)[k] = c.endpoints[i]
<1> DEFINE s == c.endpoints
           n == Len(c.endpoints)
           f == CHOOSE f : ClosedUpTo(c.endpoints, Len(c.endpoints), f)
<1>1. n \in Nat /\ DOMAIN s = 1 .. n /\ \A i \in 1 .. n : s[i] \in Endpoint
  OBVIOUS
<1>2. ClosedUpTo(s, n, f)
  BY <1>1, ClosedUpToExists
<1>3. closedEndpoints(c) = f[n]
  BY Zenon DEF closedEndpoints, ClosedUpTo
<1> HIDE DEF s, n, f
<1>4. /\ f[0] = <<>>
      /\ \A i \in 0 .. n - 1 : f[i + 1] = IF Closed(s[i + 1]) THEN Append(f[i], s[i + 1]) ELSE f[i]
  <2>1. \A i \in 0 .. n : f[i] = IF i = 0 THEN <<>>
                               ELSE IF Closed(s[i]) THEN Append(f[i - 1], s[i]) ELSE f[i - 1]
    BY <1>2 DEF ClosedUpTo
  <2>2. \A i \in 0 .. n - 1 : i + 1 \in 0 .. n /\ i + 1 # 0 /\ (i + 1) - 1 = i
    BY <1>1
  <2>3. 0 \in 0 .. n
    BY <1>1
  <2>4. f[0] = <<>>
    BY <2>1, <2>3
  <2>5. ASSUME NEW i \in 0 .. n - 1
        PROVE  f[i + 1] = IF Closed(s[i + 1]) THEN Append(f[i], s[i + 1]) ELSE f[i]
    <3>1. f[i + 1] = IF i + 1 = 0 THEN <<>>
                     ELSE IF Closed(s[i + 1]) THEN Append(f[(i + 1) - 1], s[i + 1]) ELSE f[(i + 1) - 1]
      BY <2>1, <2>2
    <3> QED
      BY <2>2, <3>1
  <2> QED
    BY <2>4, <2>5
<1> DEFINE good(l, i) == /\ l \in Seq(Endpoint)
                         /\ \A k \in DOMAIN l : Closed(l[k]) /\ \E j \in 1 .. i : l[k] = s[j]
                         /\ \A j \in 1 .. i : Closed(s[j]) => \E k \in DOMAIN l : l[k] = s[j]
           S == {i \in 0 .. n : good(f[i], i)}
<1>5. 0 \in S
  <2>1. <<>> \in Seq(Endpoint) /\ DOMAIN <<>> = {} /\ 1 .. 0 = {}
    OBVIOUS
  <2>2. f[0] = <<>> /\ 0 \in 0 .. n
    BY <1>1, <1>4
  <2>3. good(f[0], 0)
    BY <2>1, <2>2
  <2> HIDE DEF good
  <2> QED
    BY <2>2, <2>3
<1>6. ASSUME NEW i \in 0 .. n - 1, i \in S PROVE i + 1 \in S
  <2>1. good(f[i], i) /\ i + 1 \in 1 .. n /\ i + 1 \in 0 .. n /\ s[i + 1] \in Endpoint
    BY <1>1, <1>6
  <2>2. CASE ~Closed(s[i + 1])
    <3>1. f[i + 1] = f[i]
      BY <1>4, <2>2
    <3>2. good(f[i], i + 1)
      <4>1. \A j \in 1 .. i + 1 : j \in 1 .. i \/ j = i + 1
        BY <2>1
      <4> QED
        BY <2>1, <2>2, <4>1
    <3> QED
      BY <2>1, <3>1, <3>2
  <2>3. CASE Closed(s[i + 1])
    <3> DEFINE l == Append(f[i], s[i + 1])
    <3>1. f[i + 1] = l
      BY <1>4, <2>3
    <3>2. /\ l \in Seq(Endpoint) /\ Len(f[i]) \in Nat /\ DOMAIN f[i] = 1 .. Len(f[i])
          /\ DOMAIN l = 1 .. Len(f[i]) + 1
          /\ l[Len(f[i]) + 1] = s[i + 1]
          /\ \A k \in 1 .. Len(f[i]) : l[k] = f[i][k]
      BY <2>1
    <3> HIDE DEF l
    <3>3. ASSUME NEW k \in DOMAIN l PROVE Closed(l[k]) /\ \E j \in 1 .. i + 1 : l[k] = s[j]
      <4>1. CASE k = Len(f[i]) + 1
        BY <2>1, <2>3, <3>2, <4>1
      <4>2. CASE k # Len(f[i]) + 1
        <5>1. k \in DOMAIN f[i] /\ l[k] = f[i][k]
          BY <3>2, <4>2
        <5>2. Closed(f[i][k]) /\ \E j \in 1 .. i : f[i][k] = s[j]
          BY <2>1, <5>1
        <5> QED
          BY <2>1, <5>1, <5>2
      <4> QED
        BY <4>1, <4>2
    <3>4. ASSUME NEW j \in 1 .. i + 1, Closed(s[j]) PROVE \E k \in DOMAIN l : l[k] = s[j]
      <4>1. CASE j = i + 1
        BY <3>2, <4>1
      <4>2. CASE j # i + 1
        <5>1. PICK k \in DOMAIN f[i] : f[i][k] = s[j]
          BY <2>1, <3>4, <4>2
        <5> QED
          BY <3>2, <5>1
      <4> QED
        BY <4>1, <4>2
    <3> QED
      BY <2>1, <3>1, <3>2, <3>3, <3>4
  <2> QED
    BY <2>2, <2>3
<1> HIDE DEF S
<1>7. n \in S
  <2>1. \A i \in 0 .. n : i \in S
    BY <1>1, <1>5, <1>6, UpTo
  <2> QED
    BY <1>1, <2>1
<1>8. good(closedEndpoints(c), n)
  BY <1>3, <1>7 DEF S
<1> QED
  BY <1>1, <1>8 DEF s

\* What OAuthInstances returns: one process at the login, or one for each closed
\* endpoint, each on a port of its own (oauth.go:39-64).
LEMMA Instances ==
    ASSUME NEW c, c.endpoints \in Seq(Endpoint), OAuthAccepted(c)
    PROVE  /\ hasOAuth(c) /\ Shared(c) =>
                OAuthInstances(c) = <<[endpoint |-> endpointFor(c, c.auth),
                                       port |-> OAuthBasePort, shared |-> TRUE]>>
           /\ ~(hasOAuth(c) /\ Shared(c)) =>
                /\ DOMAIN OAuthInstances(c) = 1 .. Len(closedEndpoints(c))
                /\ \A k \in DOMAIN OAuthInstances(c) : OAuthInstances(c)[k] =
                      [endpoint |-> closedEndpoints(c)[k], port |-> OAuthBasePort + k - 1, shared |-> FALSE]
           /\ \A k, l \in DOMAIN OAuthInstances(c) :
                OAuthInstances(c)[k].port = OAuthInstances(c)[l].port => k = l
<1> DEFINE I == OAuthInstances(c)
           cl == closedEndpoints(c)
<1>1. CASE hasOAuth(c) /\ Shared(c)
  <2>1. declared(c, c.auth) # {}
    BY <1>1 DEF OAuthAccepted, SharedAccepted
  <2>2. I = <<[endpoint |-> endpointFor(c, c.auth), port |-> OAuthBasePort, shared |-> TRUE]>>
    BY <1>1, <2>1 DEF OAuthInstances
  <2> HIDE DEF I
  <2>3. DOMAIN I = {1}
    BY <2>2
  <2> QED
    BY <1>1, <2>2, <2>3 DEF I
<1>2. CASE ~(hasOAuth(c) /\ Shared(c))
  <2>1. cl \in Seq(Endpoint)
    BY ClosedList
  <2>2. I = [k \in DOMAIN cl |-> [endpoint |-> cl[k], port |-> OAuthBasePort + k - 1, shared |-> FALSE]]
    BY <1>2 DEF OAuthInstances
  <2> HIDE DEF I, cl
  <2>3. DOMAIN I = 1 .. Len(cl) /\ Len(cl) \in Nat
    BY <2>1, <2>2
  <2>4. \A k \in DOMAIN I :
          I[k] = [endpoint |-> cl[k], port |-> OAuthBasePort + k - 1, shared |-> FALSE]
    BY <2>2
  <2>5. \A k \in DOMAIN I : I[k].port = OAuthBasePort + k - 1
    BY <2>4
  <2>6. \A k, l \in DOMAIN I : I[k].port = I[l].port => k = l
    BY <2>3, <2>5 DEF OAuthBasePort
  <2> QED
    BY <1>2, <2>3, <2>4, <2>6 DEF I, cl
<1> QED
  BY <1>1, <1>2

\* The process that nginx asks for a closed endpoint: the one at the login, or
\* one of an endpoint of the same domain (nginx.go).
LEMMA AskedInstance ==
    ASSUME NEW c, c.endpoints \in Seq(Endpoint), OAuthAccepted(c),
           NEW i \in DOMAIN c.endpoints, Closed(c.endpoints[i])
    PROVE  /\ hasOAuth(c)
           /\ \E k \in DOMAIN OAuthInstances(c) :
                /\ authPort(c, c.endpoints[i].domain) = OAuthInstances(c)[k].port
                /\ ~Shared(c) => /\ ~OAuthInstances(c)[k].shared
                                 /\ \E j \in declared(c, c.endpoints[i].domain) :
                                      /\ Closed(c.endpoints[j])
                                      /\ OAuthInstances(c)[k].endpoint = c.endpoints[j]
<1> DEFINE I == OAuthInstances(c)
           cl == closedEndpoints(c)
           d == c.endpoints[i].domain
           K == {k \in DOMAIN I : I[k].endpoint.domain = d}
<1>1. /\ cl \in Seq(Endpoint)
      /\ \A k \in DOMAIN cl : Closed(cl[k]) /\ \E j \in DOMAIN c.endpoints : cl[k] = c.endpoints[j]
      /\ \E k \in DOMAIN cl : cl[k] = c.endpoints[i]
  BY ClosedList
<1>2. hasOAuth(c)
  <2> HIDE DEF cl
  <2>1. cl # <<>>
    BY <1>1
  <2> QED
    BY <2>1 DEF hasOAuth, cl
<1>3. i \in lastClosed(c, d)
  BY DEF lastClosed, declared
<1>4. CASE Shared(c)
  <2>1. authPort(c, d) = OAuthBasePort
    BY <1>3, <1>4 DEF authPort
  <2>2. I = <<[endpoint |-> endpointFor(c, c.auth), port |-> OAuthBasePort, shared |-> TRUE]>>
    BY <1>2, <1>4, Instances
  <2> HIDE DEF I
  <2>3. 1 \in DOMAIN I /\ I[1].port = OAuthBasePort
    BY <2>2
  <2> QED
    BY <1>2, <1>4, <2>1, <2>3 DEF I
<1>5. CASE ~Shared(c)
  <2>1. /\ DOMAIN I = 1 .. Len(cl)
        /\ \A k \in DOMAIN I :
             I[k] = [endpoint |-> cl[k], port |-> OAuthBasePort + k - 1, shared |-> FALSE]
    BY <1>5, Instances
  <2>2. authPort(c, d) = I[Max(K)].port
    BY <1>3, <1>5 DEF authPort
  <2> HIDE DEF I, cl
  <2>3. DOMAIN cl = 1 .. Len(cl) /\ Len(cl) \in Nat
    BY <1>1
  <2>4. PICK k \in DOMAIN I : cl[k] = c.endpoints[i]
    BY <1>1, <2>1, <2>3
  <2>5. k \in K
    BY <2>1, <2>4
  <2>6. K \subseteq 0 .. Len(cl)
    BY <2>1, <2>3
  <2> DEFINE m == Max(K)
  <2>7. m \in K
    BY <2>3, <2>5, <2>6, GreatestIsIn
  <2> HIDE DEF m
  <2>8. m \in DOMAIN I /\ I[m].endpoint = cl[m] /\ ~I[m].shared /\ cl[m].domain = d
    BY <2>1, <2>7
  <2>9. PICK j \in DOMAIN c.endpoints : cl[m] = c.endpoints[j]
    BY <1>1, <2>1, <2>3, <2>8
  <2>10. j \in declared(c, d) /\ Closed(c.endpoints[j])
    BY <1>1, <2>1, <2>3, <2>8, <2>9 DEF declared
  <2> QED
    BY <1>2, <2>2, <2>8, <2>9, <2>10 DEF I, m
<1> QED
  BY <1>4, <1>5

-----------------------------------------------------------------------------
(* What runs is what the configuration says.                               *)

\* An agent that is up has accepted and rendered its configuration, and runs the
\* processes of it, in their order.
Arranged ==
    /\ stage \in {"loaded", "rendered", "up"} => Validate(raw)
    /\ stage \in {"rendered", "up"} => Renders(cfg)
    /\ stage = "up" =>
         /\ DOMAIN procs = DOMAIN OAuthInstances(cfg)
         /\ \A k \in DOMAIN procs : procs[k].args = Args(cfg, OAuthInstances(cfg)[k])

\* Supervision never changes which processes there are, nor their arguments.
LEMMA ArgsKept ==
    ASSUME IInv, Supervise \/ Tick \/ \E k \in DOMAIN procs : ProcessDies(k)
    PROVE  /\ UNCHANGED <<raw, stage>> /\ DOMAIN procs' = DOMAIN procs
           /\ \A k \in DOMAIN procs : procs'[k].args = procs[k].args
<1>1. PICK A : Process = [args : A, phase : {"start", "serve", "pause"},
                          delay : FirstDelay .. MaxDelay, wait : 0 .. MaxDelay, ran : 0 .. Healthy]
  BY ProcessFields
<1>2. \A k \in DOMAIN procs : procs[k] \in [args : A, phase : {"start", "serve", "pause"},
                          delay : FirstDelay .. MaxDelay, wait : 0 .. MaxDelay, ran : 0 .. Healthy]
  BY <1>1 DEF IInv, TypeOK
<1>3. procs \in [DOMAIN procs -> Process]
  BY DEF IInv
<1>4. CASE Tick
  BY <1>2, <1>4 DEF Tick
<1>5. CASE \E k \in DOMAIN procs : Discover(k) \/ Resume(k) \/ ProcessDies(k)
  <2>1. PICK k \in DOMAIN procs : Discover(k) \/ Resume(k) \/ ProcessDies(k)
    BY <1>5
  <2>2. UNCHANGED <<raw, stage>>
    BY <2>1 DEF Discover, Resume, ProcessDies
  <2>3. PICK p : procs' = [procs EXCEPT ![k] = p] /\ p.args = procs[k].args
    BY <1>2, <2>1 DEF Discover, Resume, ProcessDies, Ended
  <2> QED
    BY <1>3, <2>2, <2>3
<1> QED
  BY <1>4, <1>5 DEF Supervise

LEMMA InitArranged == Init => Arranged
BY DEF Init, Arranged

LEMMA NextArranged == IInv /\ Arranged /\ [Next]_vars => Arranged'
<1> SUFFICES ASSUME IInv, Arranged, [Next]_vars PROVE Arranged'
  OBVIOUS
<1>1. raw' = raw
  BY ArgsKept DEF Next, AgentStep, LoadConfig, WriteConfig, StartOAuthProxies, Restart,
     GitlabFails, GitlabReturns, AgentDies, vars
<1>2. /\ cfg' = cfg /\ Validate(raw)' = Validate(raw) /\ Renders(cfg)' = Renders(cfg)
      /\ OAuthInstances(cfg)' = OAuthInstances(cfg)
      /\ \A k : Args(cfg, OAuthInstances(cfg)[k])' = Args(cfg, OAuthInstances(cfg)[k])
  BY <1>1 DEF cfg
<1>3. CASE AgentStep
  <2>1. CASE StartOAuthProxies
    <3> DEFINE I == OAuthInstances(cfg)
    <3>1. /\ stage = "rendered" /\ stage' = "up"
          /\ procs' = [k \in DOMAIN I |-> [args |-> Args(cfg, I[k]), phase |-> "start",
                                            delay |-> FirstDelay, wait |-> 0, ran |-> 0]]
      BY <2>1 DEF StartOAuthProxies
    <3>2. DOMAIN procs' = DOMAIN I /\ \A k \in DOMAIN procs' : procs'[k].args = Args(cfg, I[k])
      BY <3>1
    <3> HIDE DEF I
    <3>3. Validate(raw) /\ Renders(cfg)
      BY <3>1 DEF Arranged
    <3> QED
      BY <1>1, <1>2, <3>1, <3>2, <3>3 DEF Arranged, I
  <2>2. CASE LoadConfig \/ WriteConfig \/ Restart
    BY <1>1, <1>2, <2>2 DEF LoadConfig, WriteConfig, Restart, Arranged
  <2> QED
    BY <1>3, <2>1, <2>2 DEF AgentStep
<1>4. CASE Supervise \/ Tick \/ \E k \in DOMAIN procs : ProcessDies(k)
  <2>1. /\ stage' = stage /\ DOMAIN procs' = DOMAIN procs
        /\ \A k \in DOMAIN procs : procs'[k].args = procs[k].args
    BY <1>4, ArgsKept
  <2> QED
    BY <1>1, <1>2, <2>1 DEF Arranged
<1>5. CASE GitlabFails \/ GitlabReturns \/ AgentDies \/ UNCHANGED vars
  <2>1. stage' = "exited" \/ (stage' = stage /\ procs' = procs)
    BY <1>5 DEF GitlabFails, GitlabReturns, AgentDies, vars
  <2> QED
    BY <1>1, <1>2, <2>1 DEF Arranged
<1> QED
  BY <1>3, <1>4, <1>5 DEF Next

\* What runs belongs to the configuration, however often processes and the agent
\* ended before (agent.go, oauth.go).
THEOREM ArrangedInvariant == Spec => []Arranged
<1> QED
  BY InitArranged, NextArranged, InductiveInvariant, PTL DEF Spec

\* An agent that is up has a configuration that is accepted, and its file and its
\* processes are the ones of that configuration.
LEMMA Up ==
    ASSUME IInv, Arranged, Running
    PROVE  /\ cfg.endpoints \in Seq(Endpoint)
           /\ \A i \in Declared : cfg.endpoints[i].listen \in Nat
           /\ OAuthAccepted(cfg) /\ Renders(cfg)
           /\ \A i \in Declared : file.servers[i] = server(cfg, cfg.endpoints[i])
           /\ DOMAIN procs = DOMAIN OAuthInstances(cfg)
           /\ \A k \in DOMAIN procs : procs[k].args = Args(cfg, OAuthInstances(cfg)[k])
<1>1. raw \in Config /\ file = RenderNginxConfig(cfg)
  BY ProxyAssumption DEF IInv, TypeOK, Running
<1>2. cfg.endpoints \in Seq(Endpoint)
  BY <1>1 DEF Config, cfg, Normalised
<1>3. Validate(raw) /\ Renders(cfg)
  BY DEF Arranged, Running
<1>4. OAuthAccepted(cfg)
  BY <1>3 DEF Validate, cfg
<1>5. \A i \in Declared : file.servers[i] = server(cfg, cfg.endpoints[i])
  BY <1>1 DEF RenderNginxConfig, Declared
<1>6. \A i \in Declared : cfg.endpoints[i].listen \in Nat
  <2>1. \A i \in DOMAIN raw.endpoints : raw.endpoints[i].listen \in Ports
    BY <1>3 DEF Validate, EndpointsAccepted
  <2>2. Ports \subseteq Nat
    BY DEF Ports
  <2>3. cfg.endpoints = raw.endpoints
    BY DEF cfg, Normalised
  <2> QED
    BY <2>1, <2>2, <2>3 DEF Declared
<1> QED
  BY <1>2, <1>3, <1>4, <1>5, <1>6 DEF Arranged, Running

\* The endpoints of a domain that ask for a login, and the last of them.
LEMMA LastClosedIsIn ==
    ASSUME NEW c, c.endpoints \in Seq(Endpoint), NEW i \in DOMAIN c.endpoints, Closed(c.endpoints[i])
    PROVE  LET S == lastClosed(c, c.endpoints[i].domain)
           IN  i \in S /\ Max(S) \in S
<1> DEFINE S == lastClosed(c, c.endpoints[i].domain)
<1>1. i \in S /\ Len(c.endpoints) \in Nat /\ S \subseteq 0 .. Len(c.endpoints)
  BY DEF lastClosed, declared
<1>2. Max(S) \in S
  BY <1>1, GreatestIsIn
<1> QED
  BY <1>1, <1>2

\* One process of a shared login lets everybody in, so the file asks for the
\* groups; a process of one endpoint asks for them itself (oauth.go, Args).
LEMMA GroupsAsked ==
    ASSUME NEW c, c.endpoints \in Seq(Endpoint), OAuthAccepted(c),
           NEW i \in DOMAIN c.endpoints, Closed(c.endpoints[i]),
           NEW k \in DOMAIN OAuthInstances(c),
           ~Shared(c) => /\ ~OAuthInstances(c)[k].shared
                         /\ \E j \in declared(c, c.endpoints[i].domain) :
                              /\ Closed(c.endpoints[j])
                              /\ OAuthInstances(c)[k].endpoint = c.endpoints[j]
    PROVE  \E j \in declared(c, c.endpoints[i].domain) :
              /\ Closed(c.endpoints[j])
              /\ groupsQuery(c, c.endpoints[i].domain) \cup Args(c, OAuthInstances(c)[k]).groups
                    = c.endpoints[j].oauth
<1> DEFINE d == c.endpoints[i].domain
           inst == OAuthInstances(c)[k]
<1>1. i \in lastClosed(c, d) /\ Max(lastClosed(c, d)) \in lastClosed(c, d)
  BY LastClosedIsIn
<1>2. Max(lastClosed(c, d)) \in declared(c, d) /\ Closed(c.endpoints[Max(lastClosed(c, d))])
  BY <1>1 DEF lastClosed
<1>3. CASE Shared(c)
  <2>1. groupsQuery(c, d) = c.endpoints[Max(lastClosed(c, d))].oauth
    BY <1>1, <1>3 DEF groupsQuery
  <2>2. inst.shared
    <3>1. hasOAuth(c)
      BY AskedInstance
    <3>2. OAuthInstances(c) = <<[endpoint |-> endpointFor(c, c.auth),
                                 port |-> OAuthBasePort, shared |-> TRUE]>>
      BY <1>3, <3>1, Instances
    <3> QED
      BY <3>2
  <2>3. Args(c, inst).groups = {}
    BY <2>2 DEF Args
  <2> QED
    BY <1>2, <2>1, <2>3
<1>4. CASE ~Shared(c)
  <2>1. groupsQuery(c, d) = {}
    BY <1>4 DEF groupsQuery
  <2>2. Args(c, inst).groups = inst.endpoint.oauth
    BY <1>4 DEF Args
  <2>3. PICK j \in declared(c, d) : Closed(c.endpoints[j]) /\ inst.endpoint = c.endpoints[j]
    BY <1>4
  <2> QED
    BY <2>1, <2>2, <2>3
<1> QED
  BY <1>3, <1>4

\* An endpoint that asks for a login asks exactly one process, which answers on
\* a port that nginx does not listen on, and lets in the groups of one closed
\* endpoint of its domain and nobody else; any other endpoint asks nobody, for
\* every configuration that is accepted and rendered (config.go:343-345,
\* nginx.go, oauth.go).
THEOREM LoginIsAsked == Spec => []ClosedIsAsked
<1>1. ASSUME IInv, Arranged PROVE ClosedIsAsked
  <2> DEFINE e(i) == cfg.endpoints[i]
             s(i) == file.servers[i]
             asked(i) == {k \in DOMAIN procs : procs[k].args.port = s(i).authPort}
             I == OAuthInstances(cfg)
  <2> SUFFICES ASSUME Running, NEW i \in Declared
               PROVE  IF Closed(e(i))
                      THEN /\ \A j \in Declared : cfg.endpoints[j].listen # s(i).authPort
                           /\ Cardinality(asked(i)) = 1
                           /\ \A k \in asked(i) : \E j \in declared(cfg, e(i).domain) :
                                /\ Closed(cfg.endpoints[j])
                                /\ s(i).groups \cup procs[k].args.groups = cfg.endpoints[j].oauth
                      ELSE s(i).authPort = 0
    BY DEF ClosedIsAsked
  <2>1. /\ cfg.endpoints \in Seq(Endpoint) /\ OAuthAccepted(cfg) /\ Renders(cfg)
        /\ s(i) = server(cfg, e(i))
        /\ DOMAIN procs = DOMAIN I
        /\ \A k \in DOMAIN procs : procs[k].args = Args(cfg, I[k])
        /\ i \in DOMAIN cfg.endpoints
    BY <1>1, Up DEF Declared
  <2>2. s(i).authPort = authPort(cfg, e(i).domain) /\ s(i).groups = groupsQuery(cfg, e(i).domain)
    BY <2>1 DEF server
  <2>3. CASE ~Closed(e(i))
    BY <2>1, <2>2, <2>3 DEF Renders
  <2>4. CASE Closed(e(i))
    <3>1. /\ hasOAuth(cfg)
          /\ \E k \in DOMAIN I :
               /\ authPort(cfg, e(i).domain) = I[k].port
               /\ ~Shared(cfg) =>
                    /\ ~I[k].shared
                    /\ \E j \in declared(cfg, e(i).domain) : Closed(e(j)) /\ I[k].endpoint = e(j)
      BY <2>1, <2>4, AskedInstance
    <3>2. PICK k \in DOMAIN I :
               /\ authPort(cfg, e(i).domain) = I[k].port
               /\ ~Shared(cfg) =>
                    /\ ~I[k].shared
                    /\ \E j \in declared(cfg, e(i).domain) : Closed(e(j)) /\ I[k].endpoint = e(j)
      BY <3>1
    <3>3. ASSUME NEW l \in DOMAIN procs PROVE procs[l].args.port = I[l].port
      <4>1. Args(cfg, I[l]).port = I[l].port
        BY DEF Args
      <4> QED
        BY <2>1, <4>1
    <3>4. \A l \in DOMAIN I : I[l].port = I[k].port => l = k
      BY <2>1, <3>2, Instances
    <3>5. asked(i) = {k}
      BY <2>1, <2>2, <3>2, <3>3, <3>4
    <3>6. \A j \in Declared : cfg.endpoints[j].listen # s(i).authPort
      BY <2>1, <2>2, <3>1, <3>2 DEF OAuthAccepted, Declared
    <3>7. Cardinality(asked(i)) = 1
      BY <3>5, FS_Singleton
    <3>8. \E j \in declared(cfg, e(i).domain) :
             Closed(e(j)) /\ s(i).groups \cup procs[k].args.groups = e(j).oauth
      <4>1. \E j \in declared(cfg, e(i).domain) :
               /\ Closed(e(j))
               /\ groupsQuery(cfg, e(i).domain) \cup Args(cfg, I[k]).groups = e(j).oauth
        BY <2>1, <2>4, <3>2, GroupsAsked
      <4> QED
        BY <2>1, <2>2, <3>2, <4>1
    <3> QED
      BY <2>4, <3>5, <3>6, <3>7, <3>8
  <2> QED
    BY <2>3, <2>4
<1> QED
  BY <1>1, InductiveInvariant, ArrangedInvariant, PTL

-----------------------------------------------------------------------------
(* The way back.                                                           *)

\* The process an endpoint's login asks (see LoginIsAsked) as an instance of the
\* configuration.
LEMMA AskedProcess ==
    ASSUME IInv, Arranged, Running, NEW i \in Declared, Closed(cfg.endpoints[i]),
           NEW k \in DOMAIN procs, procs[k].args.port = file.servers[i].authPort
    PROVE  /\ hasOAuth(cfg) /\ k \in DOMAIN OAuthInstances(cfg)
           /\ procs[k].args = Args(cfg, OAuthInstances(cfg)[k])
           /\ ~Shared(cfg) =>
                /\ ~OAuthInstances(cfg)[k].shared
                /\ \E j \in declared(cfg, cfg.endpoints[i].domain) :
                     /\ Closed(cfg.endpoints[j])
                     /\ OAuthInstances(cfg)[k].endpoint = cfg.endpoints[j]
<1> DEFINE I == OAuthInstances(cfg)
           d == cfg.endpoints[i].domain
<1>1. /\ cfg.endpoints \in Seq(Endpoint) /\ OAuthAccepted(cfg) /\ i \in DOMAIN cfg.endpoints
      /\ file.servers[i] = server(cfg, cfg.endpoints[i])
      /\ DOMAIN procs = DOMAIN I /\ \A l \in DOMAIN procs : procs[l].args = Args(cfg, I[l])
  BY Up DEF Declared
<1>2. file.servers[i].authPort = authPort(cfg, d)
  BY <1>1 DEF server
<1>3. procs[k].args.port = I[k].port
  <2>1. Args(cfg, I[k]).port = I[k].port
    BY DEF Args
  <2> QED
    BY <1>1, <2>1
<1>4. /\ hasOAuth(cfg)
      /\ \E l \in DOMAIN I :
           /\ authPort(cfg, d) = I[l].port
           /\ ~Shared(cfg) => /\ ~I[l].shared
                              /\ \E j \in declared(cfg, d) :
                                   Closed(cfg.endpoints[j]) /\ I[l].endpoint = cfg.endpoints[j]
  BY <1>1, AskedInstance
<1>5. \A l, m \in DOMAIN I : I[l].port = I[m].port => l = m
  BY <1>1, Instances
<1> HIDE DEF I
<1>6. PICK l \in DOMAIN I :
         /\ authPort(cfg, d) = I[l].port
         /\ ~Shared(cfg) => /\ ~I[l].shared
                            /\ \E j \in declared(cfg, d) :
                                 Closed(cfg.endpoints[j]) /\ I[l].endpoint = cfg.endpoints[j]
  BY <1>4
<1>7. l = k
  BY <1>1, <1>2, <1>3, <1>5, <1>6
<1> QED
  BY <1>1, <1>4, <1>6, <1>7 DEF I

\* The address an endpoint is opened at is one, and the address out of it that a
\* process accepts is its host and port, if it has a host: cutting the slashes
\* off and parsing do not disagree (oauth.go:113-121, 206-216).
LEMMA AddressesAgree ==
    ASSUME NEW e \in Endpoint, e.listen \in Nat
    PROVE  /\ ExternalBase(e) # None
           /\ HasHost(ExternalBase(e)) => Authority(ExternalBase(e)) = returnAddress(e)
<1>1. e.domain \in Name /\ e.external \in {None} \cup Url /\ shownPort(e) \in Nat
  BY DEF Endpoint, shownPort
<1>2. CASE e.external # None
  <2>1. ExternalBase(e) = [e.external EXCEPT !.slash = FALSE] /\ e.external \in Url
    BY <1>1, <1>2 DEF ExternalBase
  <2>2. /\ ExternalBase(e) \in Url
        /\ ExternalBase(e).host = e.external.host /\ ExternalBase(e).port = e.external.port
    BY <2>1 DEF Url
  <2>3. ExternalBase(e) # None
    BY <2>2, ProxyAssumption
  <2> QED
    BY <1>2, <2>2, <2>3 DEF HasHost, Authority, returnAddress
<1>3. CASE e.external = None
  <2>1. ExternalBase(e) = [host |-> e.domain, port |-> shownPort(e), rest |-> <<>>, slash |-> FALSE]
    BY <1>3 DEF ExternalBase
  <2>2. /\ ExternalBase(e).host = e.domain /\ ExternalBase(e).port = shownPort(e)
        /\ ExternalBase(e).rest = <<>> /\ ExternalBase(e).slash = FALSE
    BY <2>1
  <2>3. <<>> \in Seq(STRING)
    OBVIOUS
  <2>4. ExternalBase(e) \in Url
    BY <1>1, <2>1, <2>3 DEF Url
  <2>5. ExternalBase(e) # None
    BY <2>4, ProxyAssumption
  <2>6. returnAddress(e) = [host |-> e.domain, port |-> shownPort(e)]
    BY <1>3 DEF returnAddress
  <2> QED
    BY <2>2, <2>5, <2>6 DEF Authority
<1> QED
  BY <1>2, <1>3

\* A set of positions with one element has no other.
LEMMA OnlyOne ==
    ASSUME NEW n \in Nat, NEW S, S \subseteq 1 .. n, Cardinality(S) = 1, NEW i \in S, NEW j \in S
    PROVE  i = j
<1>1. IsFiniteSet(S)
  <2>1. IsFiniteSet(1 .. n)
    BY FS_Interval
  <2> QED
    BY <2>1, FS_Subset
<1>2. \E x : S = {x}
  BY <1>1, FS_Singleton
<1> QED
  BY <1>2

\* The login at one domain: GitLab returns to the first endpoint there, which
\* hands the answer to the one process, and that one knows every closed address.
LEMMA SharedReturns ==
    ASSUME IInv, Arranged, Running, Shared(cfg), NEW i \in Declared, Closed(cfg.endpoints[i]),
           NEW k \in DOMAIN procs, procs[k].args.port = file.servers[i].authPort
    PROVE  /\ \E j \in Declared : /\ ExternalBase(cfg.endpoints[j]) = procs[k].args.redirect
                                  /\ file.servers[j].servePort = file.servers[i].authPort
           /\ file.servers[i].redirect = ExternalBase(cfg.endpoints[i])
           /\ returnAddress(cfg.endpoints[i]) \in procs[k].args.whitelist
<1> DEFINE e == cfg.endpoints[i]
           inst == OAuthInstances(cfg)[k]
           j == Min(declared(cfg, cfg.auth))
<1>1. /\ cfg.endpoints \in Seq(Endpoint) /\ OAuthAccepted(cfg)
      /\ \A m \in Declared : file.servers[m] = server(cfg, cfg.endpoints[m])
  BY Up
<1>2. /\ hasOAuth(cfg) /\ k \in DOMAIN OAuthInstances(cfg)
      /\ procs[k].args = Args(cfg, inst)
  BY AskedProcess
<1>3. inst = [endpoint |-> endpointFor(cfg, cfg.auth), port |-> OAuthBasePort, shared |-> TRUE]
  BY <1>1, <1>2, Instances
<1>4. j \in declared(cfg, cfg.auth)
  <2>1. declared(cfg, cfg.auth) # {}
    BY <1>1, <1>2 DEF OAuthAccepted, SharedAccepted
  <2>2. declared(cfg, cfg.auth) \subseteq Nat
    BY <1>1 DEF declared
  <2> QED
    BY <2>1, <2>2, LeastIsIn
<1>5. endpointFor(cfg, cfg.auth) = cfg.endpoints[j]
  BY DEF endpointFor
<1> HIDE DEF j
<1>6. j \in Declared /\ cfg.endpoints[j].domain = cfg.auth
  BY <1>4 DEF declared, Declared
<1>7. file.servers[i].authPort = OAuthBasePort
  <2>1. i \in lastClosed(cfg, e.domain)
    BY DEF lastClosed, declared, Declared
  <2>2. authPort(cfg, e.domain) = OAuthBasePort
    BY <2>1 DEF authPort
  <2>3. server(cfg, e).authPort = authPort(cfg, e.domain)
    BY DEF server
  <2> QED
    BY <1>1, <2>2, <2>3
<1>8. procs[k].args.redirect = ExternalBase(cfg.endpoints[j]) /\ procs[k].args.whitelist = returnAddresses(cfg)
  BY <1>2, <1>3, <1>5 DEF Args
<1>9. file.servers[j].servePort = OAuthBasePort
  <2>1. serve(cfg, cfg.auth) = OAuthBasePort
    BY <1>2 DEF serve
  <2>2. server(cfg, cfg.endpoints[j]).servePort = serve(cfg, cfg.endpoints[j].domain)
    BY DEF server
  <2> QED
    BY <1>1, <1>6, <2>1, <2>2
<1>10. file.servers[i].redirect = ExternalBase(e)
  <2>1. server(cfg, e).authPort = authPort(cfg, e.domain)
    BY DEF server
  <2>2. authPort(cfg, e.domain) = OAuthBasePort
    BY <1>1, <1>7, <2>1
  <2>3. serve(cfg, e.domain) # 0
    BY <2>2 DEF serve, OAuthBasePort
  <2>4. server(cfg, e).redirect = ExternalBase(e)
    BY <2>3 DEF server
  <2> QED
    BY <1>1, <2>4
<1>11. returnAddress(e) \in returnAddresses(cfg)
  <2>1. PICK m \in DOMAIN closedEndpoints(cfg) : closedEndpoints(cfg)[m] = e
    BY <1>1, ClosedList DEF Declared
  <2> QED
    BY <2>1 DEF returnAddresses, Elements
<1> QED
  BY <1>6, <1>7, <1>8, <1>9, <1>10, <1>11

\* A login of its own: GitLab returns to an endpoint of the same domain, whose
\* paths go to the same process.
LEMMA OwnReturns ==
    ASSUME IInv, Arranged, Running, ~Shared(cfg), NEW i \in Declared, Closed(cfg.endpoints[i]),
           NEW k \in DOMAIN procs, procs[k].args.port = file.servers[i].authPort
    PROVE  /\ \E j \in Declared : /\ ExternalBase(cfg.endpoints[j]) = procs[k].args.redirect
                                  /\ file.servers[j].servePort = file.servers[i].authPort
           /\ file.servers[i].redirect = None
           /\ Cardinality(declared(cfg, cfg.endpoints[i].domain)) = 1
                => procs[k].args.redirect = ExternalBase(cfg.endpoints[i])
<1> DEFINE e == cfg.endpoints[i]
           inst == OAuthInstances(cfg)[k]
<1>1. /\ cfg.endpoints \in Seq(Endpoint)
      /\ \A m \in Declared : file.servers[m] = server(cfg, cfg.endpoints[m])
  BY Up
<1>2. PICK j \in declared(cfg, e.domain) : inst.endpoint = cfg.endpoints[j]
  BY AskedProcess
<1>3. procs[k].args = Args(cfg, inst)
  BY AskedProcess
<1>4. procs[k].args.redirect = ExternalBase(cfg.endpoints[j])
  <2>1. Args(cfg, inst).redirect = ExternalBase(inst.endpoint)
    BY DEF Args
  <2> QED
    BY <1>2, <1>3, <2>1
<1>5. j \in Declared /\ cfg.endpoints[j].domain = e.domain
  BY DEF declared, Declared
<1>6. \A m \in Declared : /\ file.servers[m].servePort = authPort(cfg, cfg.endpoints[m].domain)
                           /\ file.servers[m].authPort = authPort(cfg, cfg.endpoints[m].domain)
                           /\ file.servers[m].redirect = None
  <2>1. ASSUME NEW m \in Declared
        PROVE  /\ server(cfg, cfg.endpoints[m]).servePort = authPort(cfg, cfg.endpoints[m].domain)
               /\ server(cfg, cfg.endpoints[m]).authPort = authPort(cfg, cfg.endpoints[m].domain)
               /\ server(cfg, cfg.endpoints[m]).redirect = None
    BY DEF server, serve
  <2> QED
    BY <1>1, <2>1
<1>7. file.servers[j].servePort = file.servers[i].authPort
  BY <1>5, <1>6
<1>8. ASSUME Cardinality(declared(cfg, e.domain)) = 1 PROVE i = j
  <2> DEFINE S == declared(cfg, e.domain)
  <2>1. i \in S /\ S \subseteq 1 .. Len(cfg.endpoints) /\ Len(cfg.endpoints) \in Nat
    BY <1>1 DEF declared, Declared
  <2> QED
    BY <1>8, <2>1, OnlyOne
<1> QED
  BY <1>4, <1>5, <1>6, <1>7, <1>8

\* After the login one is back where one came from: GitLab returns to the address
\* of a server that hands the answer to the process that was asked, and that
\* process accepts the address nginx sends the browser back to, unless it has no
\* host, for every configuration that is accepted and rendered and whatever its
\* external addresses (oauth.go, nginx.go).
THEOREM LoginGoesHome == Spec => []ReturnsHome
<1>1. ASSUME IInv, Arranged PROVE ReturnsHome
  <2> SUFFICES ASSUME Running, NEW i \in Declared, Closed(cfg.endpoints[i]),
                      NEW k \in DOMAIN procs, procs[k].args.port = file.servers[i].authPort
               PROVE  /\ \E j \in Declared : /\ ExternalBase(cfg.endpoints[j]) = procs[k].args.redirect
                                             /\ file.servers[j].servePort = file.servers[i].authPort
                      /\ IF file.servers[i].redirect # None
                         THEN /\ file.servers[i].redirect = ExternalBase(cfg.endpoints[i])
                              /\ HasHost(file.servers[i].redirect)
                                   => Authority(file.servers[i].redirect) \in procs[k].args.whitelist
                         ELSE Cardinality(declared(cfg, cfg.endpoints[i].domain)) = 1
                                => procs[k].args.redirect = ExternalBase(cfg.endpoints[i])
    BY DEF ReturnsHome
  <2>1. CASE Shared(cfg)
    <3>1. cfg.endpoints[i] \in Endpoint /\ cfg.endpoints[i].listen \in Nat
      BY <1>1, Up DEF Declared
    <3>2. /\ ExternalBase(cfg.endpoints[i]) # None
          /\ HasHost(ExternalBase(cfg.endpoints[i]))
               => Authority(ExternalBase(cfg.endpoints[i])) = returnAddress(cfg.endpoints[i])
      BY <3>1, AddressesAgree
    <3> QED
      BY <1>1, <2>1, <3>2, SharedReturns
  <2>2. CASE ~Shared(cfg)
    BY <1>1, <2>2, OwnReturns
  <2> QED
    BY <2>1, <2>2
<1> QED
  BY <1>1, InductiveInvariant, ArrangedInvariant, PTL

-----------------------------------------------------------------------------
(* The cookie of a shared session.                                         *)

\* The last labels of a name.
LEMMA LastLabels ==
    ASSUME NEW s \in Name, NEW n \in 0 .. Len(s)
    PROVE  /\ lastLabels(s, n) \in Name /\ Len(lastLabels(s, n)) = n
           /\ \A j \in 1 .. n : lastLabels(s, n)[j] = s[Len(s) - n + j]
<1>1. s \in Seq(STRING) /\ Len(s) \in Nat /\ n \in Nat /\ n <= Len(s)
  BY DEF Name
<1>2. lastLabels(s, n) = [j \in 1 .. n |-> s[Len(s) - n + j]]
  <2>1. /\ Len(s) - (Len(s) - n + 1) + 1 = n
        /\ \A j \in 1 .. n : (Len(s) - n + 1) + j - 1 = Len(s) - n + j
    BY <1>1
  <2>2. SubSeq(s, Len(s) - n + 1, Len(s))
           = [j \in 1 .. Len(s) - (Len(s) - n + 1) + 1 |-> s[(Len(s) - n + 1) + j - 1]]
    BY <1>1
  <2> QED
    BY <1>1, <2>1, <2>2 DEF lastLabels
<1>3. \A j \in 1 .. n : s[Len(s) - n + j] \in STRING
  BY <1>1
<1> QED
  BY <1>1, <1>2, <1>3 DEF Name

\* Names with the same labels are the same.
LEMMA SameName ==
    ASSUME NEW s \in Name, NEW t \in Name, Len(s) = Len(t), \A j \in 1 .. Len(s) : s[j] = t[j]
    PROVE  s = t
BY DEF Name

\* The tail two names share is at least as long as any tail they agree on
\* (oauth.go, commonTail).
LEMMA CommonTail ==
    ASSUME NEW a \in Name, NEW b \in Name, NEW n \in Nat, 1 <= n, n <= Len(a), n <= Len(b),
           lastLabels(a, n) = lastLabels(b, n)
    PROVE  /\ commonTail(a, b) \in Name
           /\ n <= Len(commonTail(a, b))
           /\ lastLabels(commonTail(a, b), n) = lastLabels(a, n)
<1> DEFINE P == Min({Len(a), Len(b)})
           K == {0} \cup {k \in 1 .. P : a[Len(a) - k + 1] = b[Len(b) - k + 1]}
           m == Max(K)
           r == lastLabels(a, m)
<1>1. Len(a) \in Nat /\ Len(b) \in Nat
  BY DEF Name
<1>2. P \in {Len(a), Len(b)} /\ P <= Len(a)
  <2>1. {Len(a), Len(b)} \subseteq Nat /\ {Len(a), Len(b)} # {}
    BY <1>1
  <2>2. PICK x \in {Len(a), Len(b)} : \A y \in {Len(a), Len(b)} : x <= y
    BY <2>1, HasLeast
  <2>3. P \in {Len(a), Len(b)} /\ \A y \in {Len(a), Len(b)} : P <= y
    BY <2>2 DEF Min
  <2> QED
    BY <2>3
<1>3. a[Len(a) - n + 1] = b[Len(b) - n + 1]
  <2>1. n \in 0 .. Len(a) /\ n \in 0 .. Len(b) /\ 1 \in 1 .. n
    BY <1>1
  <2>2. lastLabels(a, n)[1] = a[Len(a) - n + 1] /\ lastLabels(b, n)[1] = b[Len(b) - n + 1]
    BY <2>1, LastLabels
  <2> QED
    BY <2>2
<1>4. commonTail(a, b) = r
  BY DEF commonTail
<1>5. n \in K /\ K \subseteq 0 .. Len(a)
  <2>1. P \in Nat /\ P <= Len(a) /\ n <= P
    BY <1>1, <1>2
  <2> HIDE DEF P
  <2>2. n \in 1 .. P /\ 1 .. P \subseteq 0 .. Len(a) /\ 0 \in 0 .. Len(a)
    BY <1>1, <2>1
  <2> QED
    BY <1>3, <2>2
<1> HIDE DEF K, P
<1>6. m \in 0 .. Len(a) /\ n <= m
  BY <1>1, <1>5, GreatestIsIn
<1> HIDE DEF m
<1>7. r \in Name /\ Len(r) = m /\ \A j \in 1 .. m : r[j] = a[Len(a) - m + j]
  BY <1>6, LastLabels
<1> HIDE DEF r
<1>8. m \in Nat /\ n \in 0 .. m /\ n \in 0 .. Len(a)
  BY <1>1, <1>6
<1>9. /\ lastLabels(r, n) \in Name /\ Len(lastLabels(r, n)) = n
      /\ \A j \in 1 .. n : lastLabels(r, n)[j] = r[m - n + j]
  BY <1>7, <1>8, LastLabels
<1>10. /\ lastLabels(a, n) \in Name /\ Len(lastLabels(a, n)) = n
       /\ \A j \in 1 .. n : lastLabels(a, n)[j] = a[Len(a) - n + j]
  BY <1>8, LastLabels
<1>11. ASSUME NEW j \in 1 .. n PROVE lastLabels(r, n)[j] = lastLabels(a, n)[j]
  <2>1. m - n + j \in 1 .. m /\ Len(a) - m + (m - n + j) = Len(a) - n + j
    BY <1>1, <1>6, <1>8
  <2>2. r[m - n + j] = a[Len(a) - m + (m - n + j)]
    BY <1>7, <2>1
  <2> QED
    BY <1>9, <1>10, <2>1, <2>2
<1>12. lastLabels(r, n) = lastLabels(a, n)
  BY <1>9, <1>10, <1>11, SameName
<1> QED
  BY <1>4, <1>6, <1>7, <1>12

\* The loop of commonDomainSuffix after each name (oauth.go:225-236).
SuffixUpTo(names, dom, f) ==
    f = [i \in dom |-> IF i = 1 THEN names[1] ELSE commonTail(f[i - 1], names[i])]

LEMMA SuffixUpToExists ==
    ASSUME NEW names, NEW n \in Nat, 1 <= n
    PROVE  \E f : SuffixUpTo(names, 1 .. n, f)
<1> DEFINE S == {m \in 1 .. n : \E f : SuffixUpTo(names, 1 .. m, f)}
<1>1. 1 \in S
  <2> DEFINE f == [i \in 1 .. 1 |-> names[1]]
  <2>1. SuffixUpTo(names, 1 .. 1, f)
    BY DEF SuffixUpTo
  <2> QED
    BY <2>1
<1>2. ASSUME NEW m \in 1 .. n - 1, m \in S PROVE m + 1 \in S
  <2>1. PICK f : SuffixUpTo(names, 1 .. m, f)
    BY <1>2
  <2> DEFINE next == commonTail(f[m], names[m + 1])
             g == [i \in 1 .. m + 1 |-> IF i = m + 1 THEN next ELSE f[i]]
             step(h, i) == IF i = 1 THEN names[1] ELSE commonTail(h[i - 1], names[i])
  <2>2. ASSUME NEW i \in 1 .. m + 1 PROVE g[i] = step(g, i)
    <3>1. CASE i = m + 1
      <4>1. g[i] = next /\ i # 1 /\ i - 1 = m /\ g[m] = f[m]
        BY <3>1
      <4> HIDE DEF g
      <4> QED
        BY <3>1, <4>1
    <3>2. CASE i # m + 1
      <4>1. i \in 1 .. m /\ g[i] = f[i] /\ (i # 1 => g[i - 1] = f[i - 1])
        BY <3>2
      <4>2. f[i] = step(f, i)
        BY <2>1, <4>1 DEF SuffixUpTo
      <4> HIDE DEF g
      <4> QED
        BY <4>1, <4>2
    <3> QED
      BY <3>1, <3>2
  <2>3. g = [i \in 1 .. m + 1 |-> g[i]]
    OBVIOUS
  <2> HIDE DEF g
  <2>4. SuffixUpTo(names, 1 .. m + 1, g)
    BY <2>2, <2>3 DEF SuffixUpTo
  <2> QED
    BY <2>4
<1> HIDE DEF S
<1>3. \A i \in 1 .. n : i \in S
  BY <1>1, <1>2, UpTo
<1> QED
  BY <1>3 DEF S

\* A tail of the first name that all names have is within what
\* commonDomainSuffix finds, unless it finds too little to set a cookie for.
LEMMA WithinSuffix ==
    ASSUME NEW names \in Seq(Name), names # <<>>,
           NEW n \in Nat, 1 <= n, n <= Len(names[1]),
           CommonToAll(lastLabels(names[1], n), names),
           commonDomainSuffix(names) # <<>>
    PROVE  n <= Len(commonDomainSuffix(names))
<1> DEFINE N == Len(names)
           tail == lastLabels(names[1], n)
           f == CHOOSE f : SuffixUpTo(names, DOMAIN names, f)
<1>1. N \in Nat /\ 1 <= N /\ DOMAIN names = 1 .. N /\ \A i \in 1 .. N : names[i] \in Name
  OBVIOUS
<1>2. SuffixUpTo(names, 1 .. N, f)
  <2>1. \E g : SuffixUpTo(names, DOMAIN names, g)
    BY <1>1, SuffixUpToExists
  <2>2. SuffixUpTo(names, DOMAIN names, f)
    BY <2>1, Zenon
  <2> QED
    BY <1>1, <2>2
<1>3. commonDomainSuffix(names) = IF Len(f[N]) < 2 THEN <<>> ELSE f[N]
  BY Zenon DEF commonDomainSuffix, SuffixUpTo
<1>4. Len(tail) = n
  <2>1. n \in 0 .. Len(names[1]) /\ names[1] \in Name
    BY <1>1 DEF Name
  <2> QED
    BY <2>1, LastLabels
<1>5. \A i \in 1 .. N : n <= Len(names[i]) /\ lastLabels(names[i], n) = tail
  <2> HIDE DEF tail
  <2>1. \A i \in DOMAIN names : Len(names[i]) >= Len(tail) /\ lastLabels(names[i], Len(tail)) = tail
    BY DEF CommonToAll, tail
  <2>2. \A i \in 1 .. N : Len(names[i]) \in Nat
    BY <1>1 DEF Name
  <2> QED
    BY <1>1, <1>4, <2>1, <2>2
<1> HIDE DEF N, tail, f
<1>6. f[1] = names[1] /\ \A i \in 1 .. N - 1 : f[i + 1] = commonTail(f[i], names[i + 1])
  <2>1. \A i \in 1 .. N : f[i] = IF i = 1 THEN names[1] ELSE commonTail(f[i - 1], names[i])
    BY <1>2 DEF SuffixUpTo
  <2>2. 1 \in 1 .. N
    BY <1>1
  <2>3. ASSUME NEW i \in 1 .. N - 1 PROVE f[i + 1] = commonTail(f[i], names[i + 1])
    <3>1. i + 1 \in 1 .. N /\ i + 1 # 1 /\ (i + 1) - 1 = i
      BY <1>1
    <3>2. f[i + 1] = IF i + 1 = 1 THEN names[1] ELSE commonTail(f[(i + 1) - 1], names[i + 1])
      BY <2>1, <3>1
    <3> QED
      BY <3>1, <3>2
  <2> QED
    BY <2>1, <2>2, <2>3
<1> DEFINE S == {i \in 1 .. N : f[i] \in Name /\ n <= Len(f[i]) /\ lastLabels(f[i], n) = tail}
<1>7. 1 \in S
  BY <1>1, <1>5, <1>6
<1>8. ASSUME NEW i \in 1 .. N - 1, i \in S PROVE i + 1 \in S
  <2>1. i + 1 \in 1 .. N
    BY <1>1
  <2>2. f[i] \in Name /\ n <= Len(f[i]) /\ lastLabels(f[i], n) = tail
    BY <1>8
  <2>3. names[i + 1] \in Name /\ n <= Len(names[i + 1]) /\ lastLabels(names[i + 1], n) = tail
    BY <1>1, <1>5, <2>1
  <2>4. LET t == commonTail(f[i], names[i + 1])
        IN  t \in Name /\ n <= Len(t) /\ lastLabels(t, n) = lastLabels(f[i], n)
    BY <2>2, <2>3, CommonTail
  <2> QED
    BY <1>6, <2>1, <2>2, <2>4
<1> HIDE DEF S
<1>9. N \in S
  <2>1. \A i \in 1 .. N : i \in S
    BY <1>1, <1>7, <1>8, UpTo
  <2> QED
    BY <1>1, <2>1
<1> QED
  BY <1>3, <1>9 DEF S

\* The cookie of a shared session is never set for a domain above the longest
\* one that all closed names have in common, for every configuration that is
\* accepted (oauth.go:218-236).
THEOREM CookieStaysNarrow == Spec => []CookieNotTooWide
<1>1. ASSUME IInv, Arranged PROVE CookieNotTooWide
  <2> DEFINE names == sessionNames(cfg)
             closed == closedEndpoints(cfg)
  <2> SUFFICES ASSUME Running, NEW k \in DOMAIN procs, Shared(cfg), NEW n \in 1 .. Len(cfg.auth),
                      CommonToAll(lastLabels(cfg.auth, n), names)
               PROVE  n <= Len(procs[k].args.cookie)
    BY DEF CookieNotTooWide
  <2>1. /\ cfg.endpoints \in Seq(Endpoint) /\ OAuthAccepted(cfg)
        /\ k \in DOMAIN OAuthInstances(cfg)
        /\ procs[k].args = Args(cfg, OAuthInstances(cfg)[k])
    BY <1>1, Up
  <2>2. hasOAuth(cfg)
    <3> SUFFICES ASSUME closed = <<>> PROVE FALSE
      BY DEF hasOAuth
    <3>1. DOMAIN OAuthInstances(cfg) = 1 .. Len(closed)
      BY <2>1, Instances DEF hasOAuth
    <3> HIDE DEF closed
    <3> QED
      BY <2>1, <3>1
  <2>3. OAuthInstances(cfg)[k].shared
    <3>1. OAuthInstances(cfg) = <<[endpoint |-> endpointFor(cfg, cfg.auth),
                                   port |-> OAuthBasePort, shared |-> TRUE]>>
      BY <2>1, <2>2, Instances
    <3> QED
      BY <2>1, <3>1
  <2>4. procs[k].args.cookie = cookieDomain(cfg) /\ cookieDomain(cfg) # <<>>
    <3>1. Args(cfg, OAuthInstances(cfg)[k]).cookie = cookieDomain(cfg)
      BY <2>3 DEF Args
    <3> QED
      BY <2>1, <2>2, <3>1 DEF OAuthAccepted, SharedAccepted
  <2>5. cfg.auth \in Name
    BY <1>1, ProxyAssumption DEF IInv, TypeOK, Config, cfg, Normalised
  <2>6. names \in Seq(Name) /\ names # <<>> /\ names[1] = cfg.auth
    <3> DEFINE rest == [i \in DOMAIN closed |-> closed[i].domain]
    <3>1. closed \in Seq(Endpoint)
      BY <2>1, ClosedList
    <3> HIDE DEF closed
    <3>2. \A i \in DOMAIN closed : closed[i].domain \in Name
      <4>1. \A e \in Endpoint : e.domain \in Name
        BY DEF Endpoint
      <4>2. \A i \in DOMAIN closed : closed[i] \in Endpoint
        BY <3>1
      <4> QED
        BY <4>1, <4>2
    <3>3. rest \in Seq(Name)
      BY <3>1, <3>2
    <3> HIDE DEF rest
    <3>4. names = <<cfg.auth>> \o rest
      BY DEF sessionNames, rest, closed
    <3> HIDE DEF names
    <3> QED
      BY <2>5, <3>3, <3>4
  <2>7. n \in Nat /\ 1 <= n /\ n <= Len(cfg.auth)
    BY <2>5 DEF Name
  <2> HIDE DEF names
  <2>8. n <= Len(commonDomainSuffix(names))
    BY <2>4, <2>6, <2>7, WithinSuffix DEF cookieDomain, names
  <2> QED
    BY <2>4, <2>8 DEF cookieDomain, names
<1> QED
  BY <1>1, InductiveInvariant, ArrangedInvariant, PTL

=============================================================================
