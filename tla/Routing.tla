------------------------------ MODULE Routing ------------------------------
(***************************************************************************)
(* From an accepted connection to the handler that serves it: handle and   *)
(* handleWithServerName of main.go, and the SniffConn that peeks at the    *)
(* first bytes (sniffer/sniff_conn.go).  The client writes its stream as   *)
(* it likes; the sniffer looks only at what its one Read returns.  It      *)
(* replays it to the handler, with the path changed if a rule trims it.    *)
(*                                                                         *)
(* A stream is a sequence of tokens, each of them bytes that the code      *)
(* compares as one.  The parsing of the ClientHello and the handshake are  *)
(* external; what a handler that gets the raw connection reads is not      *)
(* followed.                                                               *)
(***************************************************************************)
EXTENDS Integers, Sequences

CONSTANTS
    Streams,   \* what clients may write after the handshake
    VHosts,    \* the virtual hosts of the configuration
    PeekMax    \* how much the sniffer reads at most (64 bytes)

Sp == " "

(* One method for the seven of httpMethods, with the space after it.       *)
MethodHead == <<"GE", "T", Sp>>

Preface == <<"PRI", Sp, "*", Sp, "HTTP/2.0">>

(* The hash of the password, CRLF, and the command and address type.       *)
TrojanHead == <<"hash", "crlf", "command", "atyp">>

(* rules: the paths of http, from top to bottom; http, http2 and trojan    *)
(* say whether there is such a handler.                                    *)
VHost == [tls : BOOLEAN, http : BOOLEAN, http2 : BOOLEAN, trojan : BOOLEAN,
          rules : Seq([path : Seq(STRING), trim : Seq(STRING)])]

ASSUME StreamsAssumption == Streams \subseteq Seq(STRING)
ASSUME VHostsAssumption == VHosts \subseteq VHost
ASSUME PeekAssumption == PeekMax \in Nat \ {0}

VARIABLES
    vh,       \* the virtual host the client names
    fallback, \* a fallback is configured
    stream,   \* what the client is going to write
    arrived,  \* how much of it has arrived
    at,       \* where handle() is
    taken,    \* how much of it has been read from the connection
    preData,  \* SniffConn.preData
    class,    \* SniffConn.Type
    path,     \* SniffConn.path
    handler,  \* the handler that was chosen
    rule,     \* the number of its rule, if handler is "rule"
    got       \* what the handler has read

vars == <<vh, fallback, stream, arrived, at, taken, preData, class, path, handler, rule, got>>

request == <<vh, fallback, stream>>

sniff == <<preData, class, path>>

choice == <<handler, rule>>

Unrouted == "unrouted"

Init ==
    /\ vh \in VHosts
    /\ fallback \in BOOLEAN
    /\ stream \in Streams
    /\ arrived = 0
    /\ at = "hello"
    /\ taken = 0
    /\ preData = <<>>
    /\ class = "unknown"
    /\ path = <<>>
    /\ handler = Unrouted
    /\ rule = 0
    /\ got = <<>>

-----------------------------------------------------------------------------
(* The sniffer.                                                            *)

StartsWith(s, p) == Len(p) <= Len(s) /\ SubSeq(s, 1, Len(p)) = p

SniffHttp(s) == StartsWith(s, MethodHead)

(* Mutant: the preface is compared with as much as has come.               *)
SniffHttp2Eager(s) == StartsWith(s, Preface) \/ (s # <<>> /\ StartsWith(Preface, s))

SniffHttp2(s) == StartsWith(s, Preface)

(* It wants more than 60 bytes, one more than it looks at.                 *)
SniffTrojan(s) == StartsWith(s, TrojanHead) /\ Len(s) > Len(TrojanHead)

TypeOf(s) ==
    CASE SniffHttp(s)                      -> "http"
      [] SniffHttp2(s) /\ ~SniffHttp(s)    -> "http2"
      [] SniffTrojan(s) /\ ~SniffHttp2(s)
                        /\ ~SniffHttp(s)   -> "trojan"
      [] OTHER                             -> "unknown"

(* Where the part between the first two spaces begins and ends.            *)
PartFirst(s) == 1 + CHOOSE i \in 1..Len(s) : s[i] = Sp /\ \A j \in 1..i-1 : s[j] # Sp

PartLast(s) ==
    CHOOSE i \in PartFirst(s)-1..Len(s) :
        /\ i = Len(s) \/ s[i+1] = Sp
        /\ \A j \in PartFirst(s)..i : s[j] # Sp

Part(s) == SubSeq(s, PartFirst(s), PartLast(s))

TrimPrefix(s, p) == IF StartsWith(s, p) THEN SubSeq(s, Len(p) + 1, Len(s)) ELSE s

(* Mutant: what follows the path in the first bytes is left out.           *)
SetPathShort(s, p) == SubSeq(s, 1, PartFirst(s) - 1) \o p

SetPath(s, p) ==
    SubSeq(s, 1, PartFirst(s) - 1) \o p \o SubSeq(s, PartLast(s) + 1, Len(s))

-----------------------------------------------------------------------------
(* The client.                                                             *)

Write ==
    /\ arrived < Len(stream)
    /\ arrived' \in arrived + 1 .. Len(stream)
    /\ UNCHANGED <<request, at, taken, sniff, choice, got>>

-----------------------------------------------------------------------------
(* handle() before the sniffer.                                            *)

Goto(from, to) == at = from /\ at' = to

(* A handler that gets the connection with the TLS still on it.            *)
Raw(h) ==
    /\ Goto("hello", "raw")
    /\ handler' = h
    /\ UNCHANGED <<request, arrived, taken, sniff, rule, got>>

(* No ClientHello with a name in it.                                       *)
NoServerName == Raw(IF fallback THEN "fallback" ELSE "badRequest")

UnknownServerName == Raw(IF fallback THEN "fallback" ELSE "noCertificate")

NotOffloaded == ~vh.tls /\ Raw("default")

Offload ==
    /\ vh.tls
    /\ Goto("hello", "handshake")
    /\ UNCHANGED <<request, arrived, taken, sniff, choice, got>>

HandshakeFails ==
    /\ Goto("handshake", "closed")
    /\ UNCHANGED <<request, arrived, taken, sniff, choice, got>>

(* ALPN gave h2, and there is a handler for it.                            *)
NegotiatedHttp2 ==
    /\ Goto("handshake", "serve")
    /\ vh.http2
    /\ handler' = "http2"
    /\ UNCHANGED <<request, arrived, taken, sniff, rule, got>>

HandshakeDone ==
    /\ Goto("handshake", "sniff")
    /\ UNCHANGED <<request, arrived, taken, sniff, choice, got>>

(* Mutant: the sniffer reads until it has its 64 bytes.                    *)
PeekFull ==
    /\ arrived >= PeekMax
    /\ Goto("sniff", "route")
    /\ taken' = PeekMax
    /\ preData' = SubSeq(stream, 1, taken')
    /\ class' = TypeOf(preData')
    /\ path' = IF SniffHttp(preData') THEN Part(preData') ELSE <<>>
    /\ UNCHANGED <<request, arrived, choice, got>>

(* One Read, which may return less than has come: a TLS record.            *)
Peek ==
    /\ Goto("sniff", "route")
    /\ taken' \in 1 .. (IF arrived < PeekMax THEN arrived ELSE PeekMax)
    /\ preData' = SubSeq(stream, 1, taken')
    /\ class' = TypeOf(preData')
    /\ path' = IF SniffHttp(preData') THEN Part(preData') ELSE <<>>
    /\ UNCHANGED <<request, arrived, choice, got>>

(* The client has left, or broken off, without a byte.                     *)
PeekFails ==
    /\ arrived = 0
    /\ Goto("sniff", "route")
    /\ UNCHANGED <<request, arrived, taken, sniff, choice, got>>

-----------------------------------------------------------------------------
(* handleHttp, handleHttp2, handleTrojan.                                  *)

Chosen(h, i) ==
    /\ Goto("route", "serve")
    /\ handler' = h
    /\ rule' = i

(* The traffic handleHttp decides about.                                   *)
ForHttp == class = "http" \/ (class = "http2" /\ ~vh.http2)

Matching == {i \in DOMAIN vh.rules : StartsWith(path, vh.rules[i].path)}

(* Mutant: the rules are tried in any order.                               *)
RouteAnyRule ==
    /\ ForHttp
    /\ \E i \in Matching :
         /\ Chosen("rule", i)
         /\ path' = TrimPrefix(path, vh.rules[i].trim)
         /\ preData' = SetPath(preData, path')
    /\ UNCHANGED <<request, arrived, taken, class, got>>

RouteRule ==
    /\ ForHttp
    /\ \E i \in Matching :
         /\ \A j \in Matching : i <= j
         /\ Chosen("rule", i)
         /\ path' = TrimPrefix(path, vh.rules[i].trim)
         /\ preData' = SetPath(preData, path')
    /\ UNCHANGED <<request, arrived, taken, class, got>>

RouteHttp ==
    /\ ForHttp
    /\ Matching = {}
    /\ vh.http
    /\ Chosen("http", 0)
    /\ UNCHANGED <<request, arrived, taken, sniff, got>>

RouteHttp2 ==
    /\ class = "http2"
    /\ vh.http2
    /\ Chosen("http2", 0)
    /\ UNCHANGED <<request, arrived, taken, sniff, got>>

RouteTrojan ==
    /\ class = "trojan"
    /\ vh.trojan
    /\ Chosen("trojan", 0)
    /\ UNCHANGED <<request, arrived, taken, sniff, got>>

RouteDefault ==
    /\ \/ ForHttp /\ Matching = {} /\ ~vh.http
       \/ class = "trojan" /\ ~vh.trojan
       \/ class = "unknown"
    /\ Chosen("default", 0)
    /\ UNCHANGED <<request, arrived, taken, sniff, got>>

-----------------------------------------------------------------------------
(* What the handler reads: first preData, as it is by then, and then the   *)
(* connection itself.                                                      *)
FirstRead ==
    /\ Goto("serve", "reading")
    /\ got' = preData
    /\ UNCHANGED <<request, arrived, taken, sniff, choice>>

ReadConn ==
    /\ at = "reading"
    /\ taken < arrived
    /\ got' = got \o SubSeq(stream, taken + 1, arrived)
    /\ taken' = arrived
    /\ UNCHANGED <<request, arrived, at, sniff, choice>>

-----------------------------------------------------------------------------
HandleStep ==
    \/ NoServerName \/ UnknownServerName \/ NotOffloaded \/ Offload
    \/ HandshakeFails \/ NegotiatedHttp2 \/ HandshakeDone
    \/ Peek \/ PeekFails
    \/ RouteRule \/ RouteHttp \/ RouteHttp2 \/ RouteTrojan \/ RouteDefault
    \/ FirstRead \/ ReadConn

Next == HandleStep \/ Write

Spec == Init /\ [][Next]_vars

(* The goroutine runs; the client need not write.                          *)
FairSpec == Spec /\ WF_vars(HandleStep)

-----------------------------------------------------------------------------
TypeOK ==
    /\ vh \in VHosts
    /\ fallback \in BOOLEAN
    /\ stream \in Streams
    /\ arrived \in 0..Len(stream)
    /\ at \in {"hello", "handshake", "sniff", "route", "serve", "reading", "raw", "closed"}
    /\ taken \in 0..arrived
    /\ preData \in Seq(STRING)
    /\ class \in {"http", "http2", "trojan", "unknown"}
    /\ path \in Seq(STRING)
    /\ handler \in {Unrouted, "fallback", "badRequest", "noCertificate", "default",
                    "http", "http2", "trojan", "rule"}
    /\ IF handler = "rule" THEN rule \in DOMAIN vh.rules ELSE rule = 0
    /\ got \in Seq(STRING)

(* sniff_conn.go decides on what one Read returned.  It may miss the type  *)
(* of a stream that comes in pieces, but never takes it for another.       *)
TypeIsRight == class # "unknown" => class = TypeOf(stream)

(* README.md: the paths are matched from top to bottom.  When the sniffer  *)
(* got the whole path with its one Read, the rule that main.go chooses is  *)
(* the first that the request matches, and http is chosen only if there is *)
(* none.                                                                   *)
FirstMatchWins ==
    at = "serve" /\ class = "http" /\ taken >= PartLast(stream) =>
        \A i \in DOMAIN vh.rules :
            StartsWith(Part(stream), vh.rules[i].path) => rule \in 1..i

(* The stream as far as it was read, without t in front of its path.       *)
Without(t) ==
    IF StartsWith(Part(stream), t)
    THEN SubSeq(stream, 1, PartFirst(stream) - 1)
           \o SubSeq(stream, PartFirst(stream) + Len(t), taken)
    ELSE SubSeq(stream, 1, taken)

(* However the stream was cut into reads, the handler gets all of it and   *)
(* nothing else, but for the prefix its rule trims (sniff_conn.go), which  *)
(* is always trimmed when it is a part of the path the rule matches.  It   *)
(* is said of HTTP/1 only: for HTTP/2, a rule with an empty path would     *)
(* rewrite the preface.                                                    *)
HandlerReadsStream ==
    at = "reading" =>
        LET whole == SubSeq(stream, 1, taken)
            r == vh.rules[rule]
        IN  IF handler = "rule"
            THEN class = "http" =>
                   /\ got \in {whole, Without(r.trim)}
                   /\ StartsWith(r.path, r.trim) => got = Without(r.trim)
            ELSE got = whole

(* A client that writes something, however little, and then waits for the  *)
(* answer is not left waiting by the sniffer.                              *)
ShortRequestIsServed == arrived > 0 ~> at \in {"reading", "raw", "closed"}
=============================================================================
