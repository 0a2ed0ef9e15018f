------------------------------- MODULE Centre -------------------------------
(***************************************************************************)
(* The whole centre (internal/server/server.go): a start that ends with an *)
(* account at the CA, then the scheduler's goroutine and the goroutines of *)
(* the API over one database, in one process that is killed or stopped as  *)
(* a whole, beside the commands "leauth renew" and "leauth revoke".  Each  *)
(* component is an instance of its own module; its steps are taken from    *)
(* there, and what that module assumes of its environment is here done by  *)
(* the other component.                                                    *)
(***************************************************************************)
EXTENDS Integers, Sequences

CONSTANTS
    Domain, Client, Account, Wildcards, NoRow,
    Resolvers, Mute, Attempts,
    CertLife, RenewBefore, BackoffBase, BackoffLimit, Width,
    MaxTime, OutageFrom, OutageUntil, Budget, CalmFrom,
    Slot, Certs, Statuses, FailCounts, RetryTimes, NoItem,
    Key, NoAccount

VARIABLES
    domains, certs, domainClients,
    now, ticked, cname, pc, cur, at, snap, got, orders, left,
    asked, disturbed,
    clients, registered, req,
    acmeAccount, caAccounts, boot, user

Sched == INSTANCE Scheduler

Api == INSTANCE SyncApi

Start == INSTANCE AcmeAccount

ASSUME CentreAssumption ==
    /\ Sched!StoreAssumption /\ Sched!PrecheckAssumption /\ Sched!SchedulerAssumption
    /\ Sched!ShiftAssumption
    /\ Api!ApiAssumption
    /\ NoAccount \notin Start!AcmeRow

schedulerOnly == <<now, ticked, cname, pc, cur, at, snap, got, orders, asked>>

apiOnly == <<clients, registered, req>>

accountVars == <<acmeAccount, caAccounts, boot, user>>

vars == <<domains, certs, domainClients, schedulerOnly, left, disturbed, apiOnly, accountVars>>

Init == Sched!Init /\ Api!Init /\ Start!Init

\* server.Run before the scheduler and the HTTP server exist.
Starting ==
    /\ Start!Starting
    /\ UNCHANGED <<domains, certs, domainClients, schedulerOnly, left, disturbed, apiOnly>>

\* The scheduler of a running centre; the clock, the zone and "leauth renew"
\* whether it runs or not.
SchedulerStep ==
    /\ \/ boot = "up" /\ Sched!Work
       \/ Sched!AdvanceTime
       \/ \E d \in Domain : Sched!Renew(d) \/ Sched!AddCname(d) \/ Sched!RemoveCname(d)
    /\ UNCHANGED <<apiOnly, accountVars>>

\* The API of a running centre, and "leauth revoke"; a domain that loses its
\* last proxy is what the scheduler's module calls disturbed.
ApiStep ==
    /\ \/ boot = "up" /\ Api!ApiStep
       \/ \E c \in Client : Api!Revoke(c)
    /\ IF Sched!Served \subseteq Sched!Served' THEN UNCHANGED left ELSE Sched!Spend("unbind", 1)
    /\ disturbed' = disturbed \cup (Sched!Served \ Sched!Served')
    /\ UNCHANGED <<schedulerOnly, accountVars>>

\* The process ends with everything that runs in it.  server.Run waits for
\* requests that are being served, at most ten seconds, but not for the pass.
Down ==
    /\ boot = "up"
    /\ Sched!Crash \/ Sched!Stop
    /\ Start!StartAgain
    /\ req' = [r \in Slot |-> Api!Idle]
    /\ UNCHANGED <<clients, registered>>

Next == Starting \/ SchedulerStep \/ ApiStep \/ Down

Spec == Init /\ [][Next]_vars

-----------------------------------------------------------------------------
(* Properties.                                                             *)

\* The centre implements the scheduler's specification: all the API does to
\* the database is what the scheduler's environment may do.
ImplementsScheduler == Sched!Spec

\* The centre implements the API's specification: all the scheduler and the
\* commands do to the database is what the API's environment may do.
ImplementsApi == Api!Spec

\* A request never tells a proxy of a certificate that the CA has not issued, and
\* the certificate it tells of is stored under that domain, whatever the
\* scheduler, a renewal or a crash did since it was read.
AnswerFromCA ==
    \A r \in Slot, d \in Domain :
        LET item == req[r].answer[d] IN
        item # NoItem =>
            /\ item.serial <= orders
            /\ item.serial # 0 => \E i \in DOMAIN certs[d] : certs[d][i].serial = item.serial

\* A certificate in an answer is at least as new as the one the scheduler saved
\* last when the request came (http.go:268), also when several were saved in
\* one second.
AnswerFresh == Api!AnswerFresh

\* No interrupted start costs the centre its account at the CA.
AccountKept == Start!AccountKept

=============================================================================
