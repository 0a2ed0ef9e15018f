------------------------------ MODULE Precheck ------------------------------
(***************************************************************************)
(* The check before an order (internal/server/precheck/precheck.go): a     *)
(* random value is written to acme-dns and must be seen under the domain's *)
(* name by one of the configured public resolvers.  The resolvers are      *)
(* asked in turn so that one that is down does not stop the issuing; the   *)
(* ones in Mute never answer.                                              *)
(***************************************************************************)
EXTENDS Naturals

CONSTANTS
    Resolvers,  \* how many resolvers are configured, in order of preference
    Mute,       \* the ones among 1 .. Resolvers that never answer
    Attempts    \* lookups of the value; three in the code

ASSUME PrecheckAssumption ==
    /\ Resolvers \in Nat \ {0}
    /\ Attempts \in Nat
    /\ Mute \subseteq 1 .. Resolvers /\ Mute # 1 .. Resolvers

\* What a resolver says of the CNAME: the name of the domain's account,
\* another name or none, or no answer that means anything.
CnameAnswer == {"account", "other", "silent"}

\* The first answer that means anything.
knownCname(answers) ==
    IF \A r \in 1 .. Resolvers : answers[r] = "silent" THEN "silent"
    ELSE answers[CHOOSE r \in 1 .. Resolvers :
                    /\ answers[r] # "silent"
                    /\ \A q \in 1 .. r - 1 : answers[q] = "silent"]

\* Mutant of attempts: three, however many resolvers there are.
attemptsFixed == 0 .. Attempts - 1

\* As many as there are resolvers, at least.
attempts == 0 .. (IF Attempts > Resolvers THEN Attempts ELSE Resolvers) - 1

askedAt(attempt) == (attempt % Resolvers) + 1

\* The outcome from the answers about the CNAME, whether acme-dns took the
\* value, and the attempts that saw it.
Verify(answers, written, seen) ==
    IF knownCname(answers) = "other" THEN "no_cname"
    ELSE IF ~written THEN "failed"
    ELSE IF seen # {} THEN "ok" ELSE "no_cname"

\* In an outage a resolver may say anything, from an old cache also.
AnyOutcome ==
    {Verify(answers, written, seen) :
        answers \in [1 .. Resolvers -> CnameAnswer],
        written \in BOOLEAN, seen \in {{}, attempts}}

\* Otherwise those that answer say what is true.
TrueOutcome(configured) ==
    Verify([r \in 1 .. Resolvers |-> IF r \in Mute THEN "silent"
                                     ELSE IF configured THEN "account" ELSE "other"],
           TRUE,
           {a \in attempts : configured /\ askedAt(a) \notin Mute})

Outcomes(configured, outage) == IF outage THEN AnyOutcome ELSE {TrueOutcome(configured)}

=============================================================================
