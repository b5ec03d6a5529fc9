------------------------------ MODULE Generator ------------------------------
(***************************************************************************)
(* The configurations the Web UI writes for those who do not write their   *)
(* own: GenerateFullConfig and its strategies (config/generator.go), the   *)
(* two wizards that fill it in (webui/server.go), and what saving and      *)
(* loading make of the result.                                             *)
(*                                                                         *)
(* A name is the sequence of its labels; the empty string has one, "".     *)
(* What the generator makes of a list keeps the positions of the list, and *)
(* leaves out those that it passes over.                                   *)
(* Of a configuration the model keeps its wildcards, its virtual hosts and *)
(* where their handlers send a connection; it is written as YAML and read  *)
(* back unchanged.                                                         *)
(***************************************************************************)
EXTENDS Integers, Sequences

CONSTANTS
    Labels,      \* what may stand between two dots
    GoodLabels,  \* letters, digits and inner hyphens, 63 of them at most
    LowerCase,   \* strings.ToLower of each label
    MaxLabels,   \* the length of a name, 253 characters
    GoodTokens,  \* the Cloudflare tokens of 1 to 255 characters
    PortOf       \* what Sscanf reads of the text of a port, or 0

ASSUME LabelsAssumption == GoodLabels \subseteq Labels \ {"", "*"}
ASSUME LowerCaseAssumption == LowerCase \in [Labels -> Labels]
ASSUME MaxLabelsAssumption == MaxLabels \in Nat
ASSUME TokensAssumption == "" \notin GoodTokens
ASSUME PortsAssumption == PortOf[""] = 0

Empty == <<"">>

Name == Seq(Labels) \ {<<>>}

Nowhere == <<"noop">>   \* newHandler("", ""), and no handler for HTTP/2

Backend(address, port) == <<address, port>>

(* isValidDomain, which config and webui both have.                        *)
IsValidDomain(name) ==
    /\ Len(name) \in 2..MaxLabels
    /\ \A i \in DOMAIN name : name[i] \in GoodLabels

Lower(name) == [i \in DOMAIN name |-> LowerCase[name[i]]]

-----------------------------------------------------------------------------
(* GenerateFullConfig.                                                     *)

Refused == [wildcards |-> {}, vhosts |-> <<>>, ok |-> FALSE]

(* Mutant: the certificate is asked for the domain itself.                 *)
BareDomain(request) == {request.domain}

(* WildcardCertStrategy, one of the two of the generator, if it has an     *)
(* error left to report: it does not validate a request without a domain   *)
(* or a token, and is then passed over.                                    *)
WildcardsOf(request) ==
    IF request.domain # Empty /\ request.token # "" THEN {<<"*">> \o request.domain} ELSE {}

WildcardsFail(request) ==
    /\ WildcardsOf(request) # {}
    /\ request.token \notin GoodTokens \/ ~IsValidDomain(request.domain)

(* A virtual host of generateCommonVHostConfig, with no handler yet.       *)
PlainHost(name) ==
    [name |-> name, rules |-> <<>>, http |-> Nowhere, http2 |-> Nowhere,
     trojan |-> Nowhere, default |-> Nowhere]

BackendOf(service) ==
    Backend(IF service.address = "" THEN "127.0.0.1" ELSE service.address, service.port)

(* Mutant: WebSocket, which begins as HTTP, is given the HTTP handler.     *)
HostWebSocketAsHttp(service, domain) ==
    LET host == PlainHost(service.subdomain \o domain)
    IN  IF service.type \in {"http", "websocket"}
        THEN [host EXCEPT !.http = BackendOf(service)]
        ELSE [host EXCEPT !.default = BackendOf(service)]

(* HTTPProxyStrategy; WebSocketStrategy and TCPProxyStrategy.              *)
HostOf(service, domain) ==
    LET host == PlainHost(service.subdomain \o domain)
    IN  IF service.type = "http"
        THEN [host EXCEPT !.http = BackendOf(service)]
        ELSE [host EXCEPT !.default = BackendOf(service)]

Known(service) == service.type \in {"http", "websocket", "tcp"}

(* A service of another type is passed over.                               *)
Taken(services) == {i \in DOMAIN services : Known(services[i])}

GenerateFullConfig(request) ==
    LET taken == Taken(request.services)
    IN  IF \/ WildcardsFail(request)
           \/ \E i \in taken : request.services[i].subdomain = Empty
        THEN Refused
        ELSE [wildcards |-> WildcardsOf(request),
              vhosts |-> [i \in taken |-> HostOf(request.services[i], request.domain)],
              ok |-> TRUE]

-----------------------------------------------------------------------------
(* The wizard with rules (/api/generate-wizard-config).                    *)

TypeOfProtocol ==
    [p \in {"http", "https", "ws", "wss", "tcp"} |->
        CASE p \in {"http", "https"} -> "http"
          [] p \in {"ws", "wss"}     -> "websocket"
          [] p = "tcp"               -> "tcp"]

(* A rule that lacks something, or has a protocol the wizard does not      *)
(* know, is passed over without an error.                                  *)
Usable(rule) ==
    /\ rule.subdomain # Empty
    /\ rule.address # ""
    /\ rule.port # ""
    /\ rule.protocol \in DOMAIN TypeOfProtocol

ServiceOf(rule) ==
    [subdomain |-> rule.subdomain, type |-> TypeOfProtocol[rule.protocol],
     address |-> rule.address,
     port |-> IF PortOf[rule.port] <= 0 THEN 8080 ELSE PortOf[rule.port]]

(* Both handlers refuse a request without a domain or a token themselves.  *)
Answer(request) ==
    IF request.domain = Empty \/ request.token = "" THEN Refused
    ELSE GenerateFullConfig(request)

RequestOf(wizard) ==
    [domain |-> wizard.domain, token |-> wizard.token,
     services |-> [i \in {j \in DOMAIN wizard.rules : Usable(wizard.rules[j])} |->
                      ServiceOf(wizard.rules[i])]]

AnswerToWizard(wizard) == Answer(RequestOf(wizard))

-----------------------------------------------------------------------------
(* The wizard with a form (/api/generate-config).                          *)

When(condition, rule) == IF condition THEN <<rule>> ELSE <<>>

HereWhen(condition, port) == IF condition THEN Backend("127.0.0.1", port) ELSE Nowhere

(* Mutant: the test of the port is left out.                               *)
FormTrojanWithoutPort(form) == HereWhen(form.trojan, form.trojanPort)

FormTrojan(form) == HereWhen(form.trojan /\ form.trojanPort > 0, form.trojanPort)

(* generateConfigFromWizard: everything under "/" is the backend's before  *)
(* the files come to their turn.                                           *)
FormHost(form) ==
    [PlainHost(form.domain) EXCEPT
        !.rules =
            When(form.http /\ form.httpPort > 0,
                 [path |-> <<"/">>, trim |-> <<>>, to |-> Backend("127.0.0.1", form.httpPort)])
            \o When(form.http /\ form.files # "",
                 [path |-> <<"/", "static", "/">>, trim |-> <<"/", "static">>,
                  to |-> <<form.files>>]),
        !.http2 = HereWhen(form.http2 /\ form.http2Port > 0, form.http2Port),
        !.trojan = FormTrojan(form),
        !.default = Backend("127.0.0.1", form.defaultPort)]

AnswerToForm(form) == [wildcards |-> {}, vhosts |-> <<FormHost(form)>>, ok |-> TRUE]

-----------------------------------------------------------------------------
(* What becomes of a configuration.                                        *)

(* validateConfigBusinessLogic, of a listening address that is in order.   *)
Saveable(conf) ==
    /\ conf.ok
    /\ \A i \in DOMAIN conf.vhosts : IsValidDomain(conf.vhosts[i].name)

(* ReadConfig makes a map of the virtual hosts: of two with one name the   *)
(* second stays.                                                           *)
Hosts(conf) == {Lower(conf.vhosts[i].name) : i \in DOMAIN conf.vhosts}

HostNamed(conf, name) ==
    LET of == {i \in DOMAIN conf.vhosts : Lower(conf.vhosts[i].name) = name}
    IN  conf.vhosts[CHOOSE i \in of : \A j \in of : j <= i]

(* matchWildcard: as the letters are, and any number of labels.            *)
MatchWildcard(wildcard, name) ==
    LET suffix == Tail(wildcard)
    IN  /\ Head(wildcard) = "*"
        /\ Len(name) > Len(suffix)
        /\ SubSeq(name, Len(name) - Len(suffix) + 1, Len(name)) = suffix

(* The host is left to the wildcards, and has no certificate of its own.   *)
ReliesOnWildcard(conf, host) == \E w \in conf.wildcards : MatchWildcard(w, host.name)

(* The handshake asks with the name as the client wrote it, and certmagic  *)
(* answers for one label.                                                  *)
WildcardAnswers(conf, name) ==
    \E w \in conf.wildcards : MatchWildcard(w, name) /\ Len(name) = Len(w)
=============================================================================
