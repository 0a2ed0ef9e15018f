------------------------------- MODULE Proxy -------------------------------
(***************************************************************************)
(* A proxy from its configuration to its running oauth2-proxy processes    *)
(* (internal/agent/config.go, nginx.go, oauth.go): the agent loads the     *)
(* file, exits or writes nginx.conf, and supervises the processes, each in *)
(* a goroutine of its own.  A process that starts while GitLab cannot be   *)
(* reached ends at once; it is started again after a pause.  What the      *)
(* agent does meanwhile to certificates and to nginx is in Agent.          *)
(*                                                                         *)
(* Time goes on in units of a tick.  A started process takes less than a   *)
(* tick to serve or to fail, but more than nothing.                        *)
(***************************************************************************)
EXTENDS ProxyConfig

CONSTANTS
    Configs,    \* the files a human may have written
    Followed,   \* those in which something fails (bound)
    FirstDelay, MaxDelay, Healthy,  \* a second, a minute, a minute
    Budget      \* how often GitLab, a process or the agent fails (bound)

VARIABLES
    raw,        \* agent.yaml
    stage,      \* where the agent is
    file,       \* nginx.conf
    procs,      \* the supervised processes
    gitlab,     \* GitLab answers
    left,       \* failures still to come
    calm        \* history: ticks since the last failure or start of the agent

vars == <<raw, stage, file, procs, gitlab, left, calm>>

Stages == {"off", "loaded", "rendered", "up", "exited"}

ASSUME ProxyAssumption ==
    /\ Configs \subseteq Config /\ Followed \subseteq Configs
    /\ {FirstDelay, MaxDelay, Healthy, Budget} \subseteq Nat
    /\ 1 <= FirstDelay /\ FirstDelay <= MaxDelay
    /\ None \notin Url

cfg == Normalised(raw)

Process == [args : {Args(cfg, OAuthInstances(cfg)[k]) : k \in DOMAIN OAuthInstances(cfg)},
            phase : {"start", "serve", "pause"},
            delay : FirstDelay .. MaxDelay, wait : 0 .. MaxDelay, ran : 0 .. Healthy]

TypeOK ==
    /\ raw \in Configs
    /\ stage \in Stages
    /\ stage \in {"rendered", "up"} => file = RenderNginxConfig(cfg)
    /\ \A k \in DOMAIN procs : procs[k] \in Process
    /\ gitlab \in BOOLEAN
    /\ left \in 0 .. Budget
    /\ calm \in 0 .. MaxDelay + 1

Init ==
    /\ raw \in Configs
    /\ stage = "off" /\ file = None /\ procs = <<>>
    /\ gitlab = TRUE
    /\ left = Budget /\ calm = 0

Least(a, b) == IF a < b THEN a ELSE b

-----------------------------------------------------------------------------
(* The agent.                                                              *)

\* A file that is not accepted ends the agent.
LoadConfig ==
    /\ stage = "off"
    /\ stage' = IF Validate(raw) THEN "loaded" ELSE "exited"
    /\ UNCHANGED <<raw, file, procs, gitlab, left, calm>>

\* nginx.conf is replaced as a whole, or the agent ends with the old one.
WriteConfig ==
    /\ stage = "loaded"
    /\ IF Renders(cfg) THEN stage' = "rendered" /\ file' = RenderNginxConfig(cfg)
                       ELSE stage' = "exited" /\ UNCHANGED file
    /\ UNCHANGED <<raw, procs, gitlab, left, calm>>

StartOAuthProxies ==
    /\ stage = "rendered"
    /\ stage' = "up"
    /\ procs' = [k \in DOMAIN OAuthInstances(cfg) |->
                    [args |-> Args(cfg, OAuthInstances(cfg)[k]),
                     phase |-> "start", delay |-> FirstDelay, wait |-> 0, ran |-> 0]]
    /\ calm' = 0
    /\ UNCHANGED <<raw, file, gitlab, left>>

\* docker starts the container again.
Restart ==
    /\ stage = "exited"
    /\ stage' = "off"
    /\ UNCHANGED <<raw, file, procs, gitlab, left, calm>>

-----------------------------------------------------------------------------
(* superviseOAuth, one goroutine for each process.                         *)

\* The process has ended: the goroutine waits.
Ended(p) == [p EXCEPT !.phase = "pause", !.wait = p.delay]

\* Discovery at GitLab decides whether a started process stays.
Discover(k) ==
    /\ procs[k].phase = "start"
    /\ procs' = [procs EXCEPT ![k] =
                    IF gitlab THEN [@ EXCEPT !.phase = "serve"] ELSE Ended(@)]
    /\ UNCHANGED <<raw, stage, file, gitlab, left, calm>>

\* Mutant of NextDelay: the pause is doubled without a limit.
NextDelayUnlimited(p) ==
    IF p.ran >= Healthy THEN FirstDelay ELSE 2 * p.delay

\* Mutant of NextDelay: the pause before the first restart is left out.
NextDelayReset(p) ==
    IF p.ran >= Healthy THEN 0 ELSE Least(2 * p.delay, MaxDelay)

\* The time since the start, pause included, decides about the next pause;
\* the process itself has taken a moment more than the ticks counted here.
NextDelay(p) ==
    IF p.ran >= Healthy THEN FirstDelay ELSE Least(2 * p.delay, MaxDelay)

\* Mutant of Resume: only a process that has served is started again.
ResumeServed(k) ==
    /\ procs[k].phase = "pause" /\ procs[k].wait = 0
    /\ procs[k].ran > procs[k].delay
    /\ procs' = [procs EXCEPT ![k] = [@ EXCEPT !.phase = "start", !.ran = 0,
                                               !.delay = NextDelay(procs[k])]]
    /\ UNCHANGED <<raw, stage, file, gitlab, left, calm>>

Resume(k) ==
    /\ procs[k].phase = "pause" /\ procs[k].wait = 0
    /\ procs' = [procs EXCEPT ![k] = [@ EXCEPT !.phase = "start", !.ran = 0,
                                               !.delay = NextDelay(procs[k])]]
    /\ UNCHANGED <<raw, stage, file, gitlab, left, calm>>

-----------------------------------------------------------------------------
(* The world.                                                              *)

\* Time does not pass a start or the end of a pause by.
Tick ==
    /\ stage = "up"
    /\ \A k \in DOMAIN procs :
        procs[k].phase = "serve" \/ procs[k].wait > 0
    /\ procs' = [k \in DOMAIN procs |->
                    [procs[k] EXCEPT !.ran = Least(@ + 1, Healthy),
                                     !.wait = IF procs[k].phase = "pause" THEN @ - 1 ELSE 0]]
    /\ calm' = IF gitlab THEN Least(calm + 1, MaxDelay + 1) ELSE 0
    /\ UNCHANGED <<raw, stage, file, gitlab, left>>

Fail ==
    /\ raw \in Followed /\ left > 0
    /\ left' = left - 1
    /\ calm' = 0

\* A process that serves does not ask GitLab again until it is restarted.
GitlabFails ==
    /\ gitlab /\ Fail
    /\ gitlab' = FALSE
    /\ UNCHANGED <<raw, stage, file, procs>>

GitlabReturns ==
    /\ ~gitlab
    /\ gitlab' = TRUE
    /\ UNCHANGED <<raw, stage, file, procs, left, calm>>

ProcessDies(k) ==
    /\ procs[k].phase = "serve" /\ Fail
    /\ procs' = [procs EXCEPT ![k] = Ended(@)]
    /\ UNCHANGED <<raw, stage, file, gitlab>>

\* The agent ends, with it the processes.
AgentDies ==
    /\ stage = "up" /\ Fail
    /\ stage' = "exited" /\ procs' = <<>>
    /\ UNCHANGED <<raw, file, gitlab>>

-----------------------------------------------------------------------------

AgentStep == LoadConfig \/ WriteConfig \/ StartOAuthProxies \/ Restart

Supervise == \E k \in DOMAIN procs : Discover(k) \/ Resume(k)

Next ==
    \/ AgentStep \/ Supervise \/ Tick
    \/ GitlabFails \/ GitlabReturns \/ AgentDies
    \/ \E k \in DOMAIN procs : ProcessDies(k)

Spec == Init /\ [][Next]_vars

\* Only AgentStep changes the stage of an agent that is not up.  Its fairness is
\* stated so that ENABLED does not render the configuration.
AgentGoesOn == stage # "up" /\ stage' \in Stages \ {stage}

\* The agent and its goroutines go on, time passes, GitLab comes back.
FairSpec ==
    /\ Spec
    /\ WF_stage(AgentGoesOn) /\ WF_vars(Supervise) /\ WF_vars(Tick) /\ WF_vars(GitlabReturns)

-----------------------------------------------------------------------------
(* Properties.                                                             *)

Running == stage = "up"

Declared == DOMAIN cfg.endpoints

\* An open endpoint asks nobody.  A closed one asks exactly one process, on a
\* port that nginx does not listen on (config.go:343-345), and is limited, there
\* or on the subrequest, to the groups of a closed endpoint of its domain: its
\* own unless the domain is declared on several ports, where a later endpoint
\* replaces what an earlier one wrote (nginx.go:131-141).
ClosedIsAsked ==
    Running => \A i \in Declared :
        LET e == cfg.endpoints[i]
            s == file.servers[i]
            asked == {k \in DOMAIN procs : procs[k].args.port = s.authPort}
        IN  IF Closed(e)
            THEN /\ \A j \in Declared : cfg.endpoints[j].listen # s.authPort
                 /\ Cardinality(asked) = 1
                 /\ \A k \in asked : \E j \in declared(cfg, e.domain) :
                      /\ Closed(cfg.endpoints[j])
                      /\ s.groups \cup procs[k].args.groups = cfg.endpoints[j].oauth
            ELSE s.authPort = 0

\* Two names match as TLS matches them: "*" stands for one label.
Matches(pattern, name) ==
    /\ Len(pattern) = Len(name)
    /\ \A i \in DOMAIN name : pattern[i] \in {"*", name[i]}

\* Every server, the one for unknown names included, has a certificate the
\* proxy asks the centre for, and a browser that comes to an endpoint accepts
\* one of the names in it (cert.go:37-40).
NamesCovered ==
    Running =>
        /\ \A i \in Declared : \E cert \in Certificates(cfg) :
             /\ cert.domain = file.servers[i].cert
             /\ \E n \in CertNames(cert) : Matches(n, cfg.endpoints[i].domain)
        /\ \A p \in DOMAIN file.defaults :
             \E cert \in Certificates(cfg) : cert.domain = file.defaults[p]

\* A synchronisation never asks for one name with and without the wildcard: the
\* centre would refuse all of it, every time (cert.go:56-58).
NoSelfConflict ==
    Running => \A a, b \in Certificates(cfg) : a.domain = b.domain => a = b

Authority(url) == [host |-> url.host, port |-> url.port]

\* After the login one is back at the endpoint one came from: GitLab returns
\* to the address of a server that hands the answer to the process that was
\* asked, and that process accepts the endpoint's own address, which nginx.go
\* takes from external_url as it is written and oauth.go:206-216 parsed.  An
\* external_url without a host leads nowhere, so none is asked for it.
ReturnsHome ==
    Running => \A i \in Declared :
        LET e == cfg.endpoints[i]
            s == file.servers[i]
        IN  Closed(e) => \A k \in DOMAIN procs : procs[k].args.port = s.authPort =>
                /\ \E j \in Declared : /\ ExternalBase(cfg.endpoints[j]) = procs[k].args.redirect
                                       /\ file.servers[j].servePort = s.authPort
                /\ IF s.redirect # None
                   THEN /\ s.redirect = ExternalBase(e)
                        /\ HasHost(s.redirect) => Authority(s.redirect) \in procs[k].args.whitelist
                   ELSE Cardinality(declared(cfg, e.domain)) = 1
                            => procs[k].args.redirect = ExternalBase(e)

\* All labels of the tail agree: the definition commonDomainSuffix is meant to
\* compute.
CommonToAll(tail, names) ==
    \A i \in DOMAIN names :
        Len(names[i]) >= Len(tail) /\ lastLabels(names[i], Len(tail)) = tail

\* The session's cookie is never set for a domain above the longest one that
\* all closed names share, where others would get it (oauth.go:218-220).
CookieNotTooWide ==
    Running => \A k \in DOMAIN procs :
        LET cookie == procs[k].args.cookie IN
        Shared(cfg) => \A n \in 1 .. Len(cfg.auth) :
            CommonToAll(lastLabels(cfg.auth, n), sessionNames(cfg)) => n <= Len(cookie)

\* One can log in again at the latest a longest pause after GitLab came back or
\* anything else failed (deploy/proxy/README.md:317-319), whatever the pauses
\* have grown to.
LoginReturns ==
    Running /\ calm > MaxDelay => \A k \in DOMAIN procs : procs[k].phase = "serve"

\* No domain is closed on one port and open on another.
Unmixed ==
    \A i, j \in Declared :
        cfg.endpoints[i].domain = cfg.endpoints[j].domain
            => Closed(cfg.endpoints[i]) = Closed(cfg.endpoints[j])

\* A proxy whose configuration is accepted and unmixed comes up, and once
\* nothing fails any more every process serves and goes on serving.
AcceptedServes ==
    <>[](Validate(raw) /\ Unmixed => Running /\ \A k \in DOMAIN procs : procs[k].phase = "serve")

-----------------------------------------------------------------------------
(* What the documentation says and the code does not do.                   *)

\* With a shared login every closed endpoint sees the cookie of the session.
CookieSeen ==
    Running => \A k \in DOMAIN procs :
        Shared(cfg) => CommonToAll(procs[k].args.cookie, sessionNames(cfg))

=============================================================================
