------------------------------- MODULE Wizard -------------------------------
(***************************************************************************)
(* A generated configuration in service: the virtual hosts that Generator  *)
(* writes, as Routing serves connections with them.                        *)
(***************************************************************************)
EXTENDS Routing, Generator

CONSTANTS
    Requests,  \* of the API: a domain, a token and a sequence of services
    Wizards,   \* of the wizard with rules
    Forms      \* of the wizard with a form

ASSUME RequestsAssumption ==
    Requests \subseteq
        [domain : Name, token : STRING,
         services : Seq([subdomain : Name, type : STRING, address : STRING, port : Int])]

ASSUME WizardsAssumption ==
    Wizards \subseteq
        [domain : Name, token : STRING,
         rules : Seq([subdomain : Name, protocol : STRING, address : STRING, port : STRING])]

FromServices == {Answer(r) : r \in Requests}

FromRules == {AnswerToWizard(w) : w \in Wizards}

FromForms == {AnswerToForm(f) : f \in Forms}

Generated == {c \in FromServices \cup FromRules \cup FromForms : Saveable(c)}

(* What Routing looks at in a virtual host.                                *)
Shape(host) ==
    [tls |-> TRUE, http |-> host.http # Nowhere, http2 |-> host.http2 # Nowhere,
     trojan |-> host.trojan # Nowhere,
     rules |-> [i \in DOMAIN host.rules |->
                   [path |-> host.rules[i].path, trim |-> host.rules[i].trim]]]

ASSUME GeneratedAssumption ==
    \A c \in Generated : \A n \in Hosts(c) : Shape(HostNamed(c, n)) \in VHosts

(* Where the handler that Routing chose sends the connection.              *)
Destination(host) ==
    CASE handler = "rule"    -> host.rules[rule].to
      [] handler = "http"    -> host.http
      [] handler = "http2"   -> host.http2
      [] handler = "trojan"  -> host.trojan
      [] handler = "default" -> host.default

-----------------------------------------------------------------------------
(* Of several entries with one name, the last counts.                      *)
LastOf(names) == {i \in DOMAIN names : \A j \in DOMAIN names : names[j] = names[i] => j <= i}

(* What was asked for: that the connections to a name, or those that speak *)
(* HTTP, go to a backend.                                                  *)
Promised(conf, name, http, to) == [host |-> HostNamed(conf, name), http |-> http, to |-> to]

ServicesAskFor(r) ==
    LET names == [i \in Taken(r.services) |-> Lower(r.services[i].subdomain \o r.domain)]
    IN  {Promised(Answer(r), names[i], r.services[i].type = "http", BackendOf(r.services[i])) :
            i \in LastOf(names)}

RulesAskFor(w) ==
    LET names == [i \in {j \in DOMAIN w.rules : Usable(w.rules[j])} |->
                     Lower(w.rules[i].subdomain \o w.domain)]
        port(i) == IF PortOf[w.rules[i].port] <= 0 THEN 8080 ELSE PortOf[w.rules[i].port]
    IN  {Promised(AnswerToWizard(w), names[i],
                  w.rules[i].protocol \in {"http", "https"},
                  Backend(w.rules[i].address, port(i))) :
            i \in LastOf(names)}

Promises ==
    (UNION {ServicesAskFor(r) : r \in {q \in Requests : Saveable(Answer(q))}})
    \cup (UNION {RulesAskFor(w) : w \in {v \in Wizards : Saveable(AnswerToWizard(v))}})

(* From the form to the backend, through generator.go, the save, the load  *)
(* and main.go: however its stream is cut, a connection to a WebSocket or  *)
(* TCP service reaches its backend, even if it looks like HTTP, and one to *)
(* an HTTP service does when the sniffer takes it for HTTP.                *)
GeneratedServiceIsReached ==
    at = "serve" =>
        \A p \in Promises :
            vh = Shape(p.host) /\ (p.http => class \in {"http", "http2"}) =>
                Destination(p.host) = p.to

FormHosts == {[host |-> FormHost(f), form |-> f] : f \in {g \in Forms : Saveable(AnswerToForm(g))}}

PortsOf(form) == {form.httpPort, form.http2Port, form.trojanPort, form.defaultPort} \ {0}

(* A connection to the host of the form always ends up at a port or with   *)
(* the files that the form names, if it names a default port.              *)
FormIsServed ==
    at = "serve" =>
        \A f \in FormHosts :
            vh = Shape(f.host) /\ f.form.defaultPort # 0 =>
                Destination(f.host) \in
                    {Backend("127.0.0.1", p) : p \in PortsOf(f.form)} \cup {<<f.form.files>>}

Answers ==
    {[domain |-> r.domain, conf |-> Answer(r)] : r \in Requests \cup {RequestOf(w) : w \in Wizards}}

(* config.go does without a certificate of the host's own when a wildcard  *)
(* matches.  With a domain in lower case and one label in front of it,     *)
(* that is what happens to a generated host, and its clients are answered. *)
WildcardServesGenerated ==
    at = "handshake" =>
        \A a \in Answers : Saveable(a.conf) =>
            \A n \in Hosts(a.conf) :
                LET host == HostNamed(a.conf, n)
                IN  vh = Shape(host) /\ host.name = n /\ Len(n) = Len(a.domain) + 1 =>
                        ReliesOnWildcard(a.conf, host) /\ WildcardAnswers(a.conf, n)
=============================================================================
