----------------------------- MODULE MCRouting -----------------------------
(***************************************************************************)
(* Routing for TLC: requests of each type, some longer than what is        *)
(* peeked, one that begins like the preface; rules whose paths are         *)
(* prefixes of one another, that trim a part of the path, all of it or     *)
(* more than the rule matches.                                             *)
(***************************************************************************)
EXTENDS Wizard, TLC

MCStreams ==
    {MethodHead \o <<"/a", "/b", Sp, "HTTP/1.1", "body">>,
     MethodHead \o <<"/a", Sp, "HTTP/1.1">>,
     Preface \o <<"frame">>,
     TrojanHead \o <<"addr", "port">>,
     MethodHead \o <<"/", "static", "/", "a", Sp, "HTTP/1.1">>,
     <<"PRI", "other">>}

ARule(p, t) == [path |-> p, trim |-> t]

MCRules ==
    {<<>>,
     <<ARule(<<"/a", "/b">>, <<"/a">>), ARule(<<"/a">>, <<>>)>>,
     <<ARule(<<"/a">>, <<"/a", "/b">>), ARule(<<"/a", "/b">>, <<"/a", "/b">>)>>,
     <<ARule(<<"/a", "/b">>, <<"/a", "/b">>), ARule(<<"*">>, <<>>)>>}

MCVHosts ==
    [tls : {TRUE}, http : BOOLEAN, http2 : BOOLEAN, trojan : {TRUE}, rules : MCRules]
    \cup [tls : {FALSE}, http : {FALSE}, http2 : {FALSE}, trojan : {FALSE}, rules : {<<>>}]
    \cup [tls : {TRUE}, http : {FALSE}, http2 : {FALSE}, trojan : {FALSE}, rules : {<<>>}]
    \cup {Shape(HostNamed(q[1], q[2])) : q \in UNION {{c} \X Hosts(c) : c \in Generated}}

-----------------------------------------------------------------------------
(* What the wizards are asked: names with a capital, two labels and a bad  *)
(* character; two services of one name; what is missing or unknown.        *)

MCLabels == {"", "*", "a", "A", "b", "x_", "example", "Example", "com"}

MCLowerCase ==
    [l \in MCLabels |-> CASE l = "A" -> "a" [] l = "Example" -> "example" [] OTHER -> l]

MCPortOf == "80" :> 80 @@ "none" :> 0 @@ "" :> 0

Domains == {<<"example", "com">>, <<"Example", "com">>, Empty}

AService(s, t, a) == [subdomain |-> s, type |-> t, address |-> a, port |-> 80]

MCServices ==
    {AService(s, t, "") : s \in {<<"a">>, <<"A">>, <<"a", "b">>, <<"x_">>, Empty},
                          t \in {"http", "tcp", "grpc"}}
    \cup {AService(<<"a">>, "websocket", "10.0.0.1")}

MCRequests ==
    [domain : Domains, token : {"token", "long", ""},
     services : {<<s>> : s \in MCServices}
                \cup {<<AService(<<"a">>, "tcp", ""), s>> : s \in MCServices}]

AWizardRule(s, p, a, port) == [subdomain |-> s, protocol |-> p, address |-> a, port |-> port]

MCWizardRules ==
    {AWizardRule(<<"a">>, p, "10.0.0.2", port) : p \in {"https", "wss", "tcp", "udp"}, port \in {"80", "none", ""}}
    \cup {AWizardRule(Empty, "tcp", "10.0.0.2", "80"), AWizardRule(<<"b">>, "ws", "", "80")}

MCWizards ==
    [domain : Domains, token : {"token"},
     rules : {<<r, AWizardRule(<<"b">>, "http", "10.0.0.3", "80")>> : r \in MCWizardRules}]

MCForms ==
    [domain : {<<"a", "example", "com">>, <<"com">>}, http : BOOLEAN, http2 : BOOLEAN,
     trojan : BOOLEAN, httpPort : {0, 81}, http2Port : {82}, trojanPort : {0, 83},
     defaultPort : {84}, files : {"", "/srv"}]
=============================================================================
