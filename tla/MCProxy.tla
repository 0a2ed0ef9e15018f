------------------------------ MODULE MCProxy ------------------------------
(* Instances of Proxy for TLC. *)
EXTENDS Proxy, TLC

Zone == <<"example", "com">>

Docs == <<"docs", "example", "com">>

Wiki == <<"wiki", "example", "com">>

Deep == <<"a", "docs", "example", "com">>

\* Agrees with Docs at its first label alone.
Foreign == <<"docs", "other-company", "net">>

Endpoints(names, ports, oauths) ==
    [domain : names, listen : ports, oauth : oauths, external : {None}]

\* Behind a balancer that adds a path, behind one that does not, an address
\* without a host, and a port that does not exist.
Special ==
    {[domain |-> Docs, listen |-> 8443, oauth |-> {}, external |-> u] :
        u \in {[host |-> Wiki, port |-> 0, rest |-> <<"docs">>, slash |-> TRUE],
               [host |-> Wiki, port |-> 444, rest |-> <<>>, slash |-> FALSE],
               [host |-> <<>>, port |-> 0, rest |-> <<>>, slash |-> TRUE]}}
    \cup {[domain |-> Docs, listen |-> 0, oauth |-> None, external |-> None]}

Lists ==
    LET one == Endpoints({Zone, Docs, Deep, Foreign}, {443, OAuthBasePort + 1}, {None, {}, {"devs"}})
                    \cup Special
        few == Endpoints({Docs, Wiki, Zone}, {443, 8443}, {None, {"ops"}})
    IN  {<<>>} \cup {<<e>> : e \in one \cup Endpoints({<<"localhost">>, Docs}, {OAuthBasePort}, {{}})}
        \cup one \X one
        \cup {t \o <<e>> : t \in few \X few, e \in few}

Spelled(name) == [name |-> name, plain |-> TRUE]

ZoneLists ==
    {<<>>, <<Spelled(Zone)>>, <<Spelled(<<"*">> \o Zone)>>,
     <<Spelled(Zone), Spelled(Zone)>>,
     <<Spelled(Zone), [name |-> Zone, plain |-> FALSE]>>,
     <<Spelled(Docs), Spelled(Zone)>>}

Logins == {<<>>, Docs, Foreign, <<"localhost">>}

AllConfigs ==
    [zones : ZoneLists, auth : Logins, endpoints : Lists, formed : {TRUE}, gitlab : {TRUE}]
        \cup [zones : {<<>>}, auth : {<<>>}, endpoints : {<<e>> : e \in Endpoints({Docs}, {443}, {None, {}})},
              formed : BOOLEAN, gitlab : BOOLEAN]

\* A shared login, and a process for each of two endpoints.
SomeFollowed ==
    [zones : {<<Spelled(Zone)>>}, auth : {<<>>, Docs}, formed : {TRUE}, gitlab : {TRUE},
     endpoints : {<<[domain |-> Docs, listen |-> 443, oauth |-> {"devs"}, external |-> None],
                    [domain |-> Zone, listen |-> 443, oauth |-> {}, external |-> None]>>}]

=============================================================================
