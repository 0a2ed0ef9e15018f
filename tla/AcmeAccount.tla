---------------------------- MODULE AcmeAccount ----------------------------
(***************************************************************************)
(* How the centre comes to its account at the CA when it starts            *)
(* (internal/server/issuer, called by server.Run before anything else      *)
(* runs): the key is made and saved first, the account is registered, the  *)
(* registration is saved over the row.  The process may end anywhere in    *)
(* between, also while the CA's answer is on its way, and starts again.    *)
(***************************************************************************)

CONSTANTS
    Key,        \* private keys (bound)
    NoAccount   \* no row, no user

VARIABLES
    acmeAccount,    \* the row of table acme_account
    caAccounts,     \* the keys the CA knows an account of
    boot,           \* how far server.Run has come
    user            \* the acmeUser lego works with

accountVars == <<acmeAccount, caAccounts, boot, user>>

AcmeRow == [key : Key, registered : BOOLEAN]

Init ==
    /\ acmeAccount = NoAccount /\ caAccounts = {}
    /\ boot = "load" /\ user = NoAccount

\* loadOrCreateUser finds the row: the account is registered unless the last
\* start ended before its registration was saved.
LoadUser ==
    /\ boot = "load" /\ acmeAccount # NoAccount
    /\ user' = acmeAccount
    /\ boot' = IF acmeAccount.registered THEN "up" ELSE "register"
    /\ UNCHANGED <<acmeAccount, caAccounts>>

\* Mutant of CreateUser: the key is saved with the registration only.
CreateUserUnsaved ==
    /\ boot = "load" /\ acmeAccount = NoAccount
    /\ \E k \in Key \ caAccounts : user' = [key |-> k, registered |-> FALSE]
    /\ boot' = "register"
    /\ UNCHANGED <<acmeAccount, caAccounts>>

\* loadOrCreateUser makes a key that nobody has seen and saves it.
CreateUser ==
    /\ boot = "load" /\ acmeAccount = NoAccount
    /\ \E k \in Key \ caAccounts :
         /\ acmeAccount' = [key |-> k, registered |-> FALSE]
         /\ user' = acmeAccount'
    /\ boot' = "register"
    /\ UNCHANGED caAccounts

\* The CA answers a key it knows with the account it has.
Register ==
    /\ boot = "register"
    /\ caAccounts' = caAccounts \cup {user.key}
    /\ user' = [user EXCEPT !.registered = TRUE]
    /\ boot' = "save"
    /\ UNCHANGED acmeAccount

\* SaveACMEAccount; the scheduler and the API start after it.
SaveRegistration ==
    /\ boot = "save"
    /\ acmeAccount' = user
    /\ boot' = "up"
    /\ UNCHANGED <<caAccounts, user>>

\* The process ends, by an error of the start, a signal or a crash, and is
\* started again.
StartAgain ==
    /\ boot' = "load"
    /\ user' = NoAccount
    /\ UNCHANGED <<acmeAccount, caAccounts>>

StartFails == boot # "up" /\ StartAgain

Starting == LoadUser \/ CreateUser \/ Register \/ SaveRegistration \/ StartFails

-----------------------------------------------------------------------------

\* However often a start is cut short, the centre asks for one account only:
\* the CA knows no account whose key is not the saved one (user.go:38-76), and
\* the centre works only with an account whose registration is saved.
AccountKept ==
    /\ \A k \in caAccounts : acmeAccount # NoAccount /\ acmeAccount.key = k
    /\ boot = "up" =>
         /\ acmeAccount = user /\ user.registered
         /\ caAccounts = {acmeAccount.key}

=============================================================================
