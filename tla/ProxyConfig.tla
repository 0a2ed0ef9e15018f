---------------------------- MODULE ProxyConfig ----------------------------
(***************************************************************************)
(* What a proxy derives from agent.yaml (internal/agent/config.go, cert.go,*)
(* oauth.go, nginx.go): whether the configuration is accepted, which       *)
(* certificates it asks the centre for, which oauth2-proxy processes it    *)
(* runs with which arguments, and the servers of nginx.conf.               *)
(*                                                                         *)
(* A domain name is the sequence of its labels.  In the file a name may be *)
(* spelled otherwise (capitals, blanks, a dot at its end); such a spelling *)
(* is a record of the name and a mark.  What Validate looks at in a field  *)
(* by itself is a flag of the configuration: formed for server, name,      *)
(* upstreams, external addresses and skip_paths, gitlab for the issuer and *)
(* the credentials of oauth.                                               *)
(***************************************************************************)
EXTENDS Integers, Sequences, FiniteSets, FiniteSetsExt

CONSTANT None   \* no oauth block, no external_url

Name == Seq(STRING)

\* An external_url that Validate lets through: https://, the host, 0 for no
\* port, what follows them but for the slashes at the end, whether there are any.
Url == [host : Name, port : Nat, rest : Seq(STRING), slash : BOOLEAN]

Endpoint == [domain : Name, listen : Int, oauth : {None} \cup SUBSET STRING,
             external : {None} \cup Url]

\* agent.yaml as it is unmarshalled; plain is the mark of a zone's spelling.
Config == [zones : Seq([name : Name, plain : BOOLEAN]), auth : Name,
           endpoints : Seq(Endpoint), formed : BOOLEAN, gitlab : BOOLEAN]

Elements(seq) == {seq[i] : i \in DOMAIN seq}

OAuthBasePort == 4180

HttpsPort == 443

Ports == 1 .. 65535

\* ValidateDomain: at least two labels, no star; the result is the name itself
\* whatever its spelling.
ValidDomain(name) == Len(name) >= 2 /\ \A i \in DOMAIN name : name[i] # "*"

\* The configuration as Validate leaves it, names in their normal form.
Normalised(raw) ==
    [zones |-> [i \in DOMAIN raw.zones |-> raw.zones[i].name],
     auth |-> raw.auth,
     endpoints |-> raw.endpoints,
     gitlab |-> raw.gitlab]

-----------------------------------------------------------------------------
(* oauth.go: the processes.                                                *)

\* An empty auth_domain: every closed endpoint has a process of its own.
Shared(c) == c.auth # <<>>

Closed(e) == e.oauth # None

closedEndpoints(c) ==
    LET upTo[i \in 0 .. Len(c.endpoints)] ==
            IF i = 0 THEN <<>>
            ELSE IF Closed(c.endpoints[i]) THEN Append(upTo[i - 1], c.endpoints[i])
            ELSE upTo[i - 1]
    IN  upTo[Len(c.endpoints)]

hasOAuth(c) == closedEndpoints(c) # <<>>

declared(c, domain) == {i \in DOMAIN c.endpoints : c.endpoints[i].domain = domain}

\* The first endpoint of a declared domain.
endpointFor(c, domain) == c.endpoints[Min(declared(c, domain))]

\* One process for all endpoints at the domain where one logs in, or one for
\* each closed endpoint, on consecutive ports.
OAuthInstances(c) ==
    LET closed == closedEndpoints(c) IN
    IF hasOAuth(c) /\ Shared(c)
    THEN IF declared(c, c.auth) = {} THEN <<>>
         ELSE <<[endpoint |-> endpointFor(c, c.auth), port |-> OAuthBasePort, shared |-> TRUE]>>
    ELSE [k \in DOMAIN closed |->
            [endpoint |-> closed[k], port |-> OAuthBasePort + k - 1, shared |-> FALSE]]

\* 0 stands for the port a browser leaves out.
shownPort(e) == IF e.listen = HttpsPort THEN 0 ELSE e.listen

\* The address an endpoint is opened at, the whole external_url but for the
\* slashes at its end; RedirectURL and nginx.conf append a path to it.
ExternalBase(e) ==
    IF e.external # None THEN [e.external EXCEPT !.slash = FALSE]
    ELSE [host |-> e.domain, port |-> shownPort(e), rest |-> <<>>, slash |-> FALSE]

\* url.Parse accepts "https://" and "https:///docs".
HasHost(url) == url.host # <<>> \/ url.port # 0

\* Mutant of returnAddress: the address that is declared, external_url or not.
returnAddressDeclared(e) == [host |-> e.domain, port |-> shownPort(e)]

\* The host and port out of external_url, if it has any.
returnAddress(e) ==
    IF e.external # None /\ HasHost(e.external)
    THEN [host |-> e.external.host, port |-> e.external.port]
    ELSE [host |-> e.domain, port |-> shownPort(e)]

returnAddresses(c) ==
    {returnAddress(e) : e \in Elements(closedEndpoints(c)) \cup {endpointFor(c, c.auth)}}

lastLabels(name, n) == SubSeq(name, Len(name) - n + 1, Len(name))

\* Mutant of commonTail: starts one label below the shorter name.
commonTailShort(common, labels) ==
    LET n == Max({0} \cup {k \in 1 .. Min({Len(common), Len(labels)}) - 1 :
                    common[Len(common) - k + 1] = labels[Len(labels) - k + 1]})
    IN  lastLabels(common, n)

\* The longest tail of common whose FIRST label agrees with the label of the
\* other name at that place; the labels behind it are not compared.
commonTail(common, labels) ==
    LET n == Max({0} \cup {k \in 1 .. Min({Len(common), Len(labels)}) :
                    common[Len(common) - k + 1] = labels[Len(labels) - k + 1]})
    IN  lastLabels(common, n)

\* <<>> when fewer than two labels are left.
commonDomainSuffix(names) ==
    LET upTo[i \in DOMAIN names] ==
            IF i = 1 THEN names[1] ELSE commonTail(upTo[i - 1], names[i])
        common == upTo[Len(names)]
    IN  IF Len(common) < 2 THEN <<>> ELSE common

\* The names that share a session: the login's and those of closed endpoints.
sessionNames(c) ==
    <<c.auth>> \o [i \in DOMAIN closedEndpoints(c) |-> closedEndpoints(c)[i].domain]

cookieDomain(c) == commonDomainSuffix(sessionNames(c))

\* Args: the arguments that differ from process to process.  Without
\* --cookie-domain the cookie is one of the host alone.
Args(c, inst) ==
    [port |-> inst.port,
     redirect |-> ExternalBase(inst.endpoint),
     groups |-> IF inst.shared THEN {} ELSE inst.endpoint.oauth,
     cookie |-> IF inst.shared THEN cookieDomain(c) ELSE <<>>,
     whitelist |-> IF inst.shared THEN returnAddresses(c) ELSE {}]

-----------------------------------------------------------------------------
(* config.go: Validate.                                                    *)

\* Zones are compared as they are spelled.
ZonesAccepted(raw) ==
    \A i \in DOMAIN raw.zones :
        /\ ValidDomain(raw.zones[i].name)
        /\ \A j \in 1 .. i - 1 : raw.zones[j] # raw.zones[i]

\* A domain may be declared on several ports, a port may have many domains.
EndpointsAccepted(raw) ==
    /\ raw.endpoints # <<>>
    /\ \A i \in DOMAIN raw.endpoints :
        LET e == raw.endpoints[i] IN
        /\ ValidDomain(e.domain)
        /\ e.listen \in Ports
        /\ \A j \in 1 .. i - 1 :
             <<raw.endpoints[j].domain, raw.endpoints[j].listen>> # <<e.domain, e.listen>>

\* sharedOAuthProblems: the login's domain is an endpoint, and there is a
\* domain a cookie of all can be set for.
SharedAccepted(c) ==
    Shared(c) =>
        /\ ValidDomain(c.auth)
        /\ declared(c, c.auth) # {}
        /\ cookieDomain(c) # <<>>

\* oauthProblems: the credentials are there, and nginx listens on none of the
\* ports of the processes.
OAuthAccepted(c) ==
    hasOAuth(c) =>
        /\ SharedAccepted(c)
        /\ c.gitlab
        /\ \A k \in DOMAIN OAuthInstances(c), i \in DOMAIN c.endpoints :
             c.endpoints[i].listen # OAuthInstances(c)[k].port

Validate(raw) ==
    /\ raw.formed
    /\ ZonesAccepted(raw)
    /\ EndpointsAccepted(raw)
    /\ OAuthAccepted(Normalised(raw))

-----------------------------------------------------------------------------
(* cert.go: the certificates.                                              *)

\* Mutant of Covers: a wildcard covers any depth.
CoversDeep(cert, domain) ==
    \/ cert.domain = domain
    \/ /\ cert.wildcard /\ Len(domain) > Len(cert.domain)
       /\ lastLabels(domain, Len(cert.domain)) = cert.domain

\* Mutant of Covers: a wildcard does not cover the zone itself.
CoversStrict(cert, domain) ==
    IF cert.wildcard THEN domain # <<>> /\ Tail(domain) = cert.domain ELSE cert.domain = domain

\* A wildcard covers its zone and exactly one label more.
Covers(cert, domain) ==
    \/ cert.domain = domain
    \/ cert.wildcard /\ domain # <<>> /\ Tail(domain) = cert.domain

covering(c, domain) ==
    {i \in DOMAIN c.zones : Covers([domain |-> c.zones[i], wildcard |-> TRUE], domain)}

\* certFor, certNames: the directory of the certificate an endpoint is served
\* with.  The zones come first in the list; behind them only the domain's own
\* certificate covers it.
certName(c, e) ==
    IF covering(c, e.domain) = {} THEN e.domain ELSE c.zones[Min(covering(c, e.domain))]

\* The zones, and a certificate of its own for every domain outside of them.
Certificates(c) ==
    {[domain |-> c.zones[i], wildcard |-> TRUE] : i \in DOMAIN c.zones}
    \cup {[domain |-> e.domain, wildcard |-> FALSE] :
            e \in {f \in Elements(c.endpoints) : covering(c, f.domain) = {}}}

\* The names the centre puts into a certificate.
CertNames(cert) ==
    {cert.domain} \cup (IF cert.wildcard THEN {<<"*">> \o cert.domain} ELSE {})

-----------------------------------------------------------------------------
(* nginx.go: the configuration of nginx.                                   *)

\* authPort, serve and groups are maps by domain, filled in the order of the
\* endpoints; a later endpoint of a domain replaces what an earlier one wrote.
lastClosed(c, domain) == {i \in declared(c, domain) : Closed(c.endpoints[i])}

authPort(c, domain) ==
    IF lastClosed(c, domain) = {} THEN 0
    ELSE IF Shared(c) THEN OAuthBasePort
    ELSE LET k == Max({k \in DOMAIN OAuthInstances(c) :
                        OAuthInstances(c)[k].endpoint.domain = domain})
         IN  OAuthInstances(c)[k].port

\* The service addresses are also on the domain where one logs in.
serve(c, domain) ==
    IF hasOAuth(c) /\ Shared(c) /\ domain = c.auth THEN OAuthBasePort ELSE authPort(c, domain)

\* Mutant of groupsQuery: groups are left to the process.
groupsQueryNone(c, domain) == {}

\* The groups on the subrequest; {} lets in everybody who has logged in.
groupsQuery(c, domain) ==
    IF Shared(c) /\ lastClosed(c, domain) # {}
    THEN c.endpoints[Max(lastClosed(c, domain))].oauth
    ELSE {}

\* One server of the file.  redirect is where one returns after the login: the
\* full address with a shared login, else (None) the path on the same host.
server(c, e) ==
    [cert |-> certName(c, e),
     authPort |-> authPort(c, e.domain),
     servePort |-> serve(c, e.domain),
     groups |-> groupsQuery(c, e.domain),
     redirect |-> IF Shared(c) /\ serve(c, e.domain) # 0 THEN ExternalBase(e) ELSE None]

\* nginxDefaults: one server for unknown names on each port, with the
\* certificate of the first endpoint there.
nginxDefaults(c) ==
    LET ports == {c.endpoints[i].listen : i \in DOMAIN c.endpoints} IN
    [p \in ports |->
        certName(c, c.endpoints[Min({i \in DOMAIN c.endpoints : c.endpoints[i].listen = p})])]

\* The template reads the skip_paths of every server that has an authPort: it
\* fails on one that has no oauth block.
Renders(c) ==
    \A i \in DOMAIN c.endpoints :
        authPort(c, c.endpoints[i].domain) # 0 => Closed(c.endpoints[i])

RenderNginxConfig(c) ==
    [servers |-> [i \in DOMAIN c.endpoints |-> server(c, c.endpoints[i])],
     defaults |-> nginxDefaults(c)]

=============================================================================
