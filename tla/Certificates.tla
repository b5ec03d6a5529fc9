---------------------------- MODULE Certificates ----------------------------
(***************************************************************************)
(* Where the certificate of a TLS handshake comes from.  ReadConfig        *)
(* (config.go) first lets the WildcardManager load its configuration and   *)
(* obtain its certificates (LoadFromConfig, wildcard.go), one goroutine    *)
(* for each; then, one virtual host after the other, it decides whether    *)
(* the host relies on the manager or on a certmagic instance of its own    *)
(* (getTlsConfig, tls.go).  Once it has returned, the handshakes of main   *)
(* run in goroutines of their own, and share the cache of GetCertificate.  *)
(*                                                                         *)
(* The configuration is read once; an entry of it is chosen here when the  *)
(* loop comes to it.  Names are in lower case, in the configuration and in *)
(* the handshakes.  ACME itself is external: an attempt succeeds or not.   *)
(***************************************************************************)
EXTENDS Integers, FiniteSets

CONSTANTS
    Wildcards,       \* well formed wildcard domains, *.example.com
    Names,           \* names of virtual hosts, and of handshakes
    Covers,          \* matchWildcard: the pairs <<wildcard, name>> that match
    Fits,            \* those of one label, which alone certmagic answers for
    WildcardEntries, \* what an item of wildcard_certs may be
    VHostEntries,    \* what an item of vhosts may be
    MaxEntries,      \* bound: items of each of the two lists
    MaxRetries,      \* attempts at a certificate (3 unless configured)
    Handshakes       \* bound: handshakes at one time

(* The forms of a CA's name that matter: absent, written as the constants  *)
(* of wildcard.go are, in another case, and unknown; negative says that    *)
(* max_retries or retry_delay is below zero.                               *)
CaNames == {"", "letsencrypt", "zerossl", "ZeroSSL", "unknown"}

WildcardEntry == [domain : Wildcards \cup {"malformed"},
                  dns : {"none", "cloudflare", "unusable"},
                  ca : CaNames, backup : CaNames, backupOn : BOOLEAN,
                  negative : BOOLEAN, email : BOOLEAN]

(* files: neither cert nor key, one of them, or both.                      *)
VHostEntry == [name : Names, offload : BOOLEAN, managed : BOOLEAN,
               files : {"none", "half", "both"}]

ASSUME CoversAssumption == Covers \subseteq Wildcards \X Names /\ Fits \subseteq Covers
ASSUME EntriesAssumption == /\ WildcardEntries \subseteq WildcardEntry
                            /\ VHostEntries \subseteq VHostEntry
(* None stands for nil; "own" is the host's own certificate, "failed" is   *)
(* none at all.  They are no domains.                                      *)
ASSUME NoneAssumption == {"none", "own", "failed"} \cap Wildcards = {}
ASSUME BoundsAssumption == MaxEntries \in Nat /\ MaxRetries \in Nat \ {0}

VARIABLES
    pc,        \* where ReadConfig is; then "serving", or "fatal"
    items,     \* items read of the list the loop is in
    refused,   \* validationErrors is not empty
    wildcards, \* WildcardManager.wildcards: a map from domains to entries
    magic,     \* the domains in WildcardManager.magicMap
    tries,     \* failed attempts of the goroutine of each wildcard
    issued,    \* the wildcards whose instance has a certificate
    loaded,    \* what LoadFromConfig returned: "none" if not called, "ok", "failed"
    vhosts,    \* Config.VHosts: the entry of each host, and its TlsConfig
    err,       \* ReadConfig's named result
    certMap,   \* WildcardManager.certMap: a map from names to wildcards
    hs         \* each handshake: how far, for which name, and what it was given

vars == <<pc, items, refused, wildcards, magic, tries, issued, loaded,
          vhosts, err, certMap, hs>>

manager == <<refused, wildcards, magic, tries, issued, loaded>>

(* TlsConfig: nil, one whose GetCertificate only asks the manager, or one  *)
(* that asks the manager first and then an instance of the host's own,     *)
(* which obtains a certificate, loaded one, or has none.                   *)
TlsConfigs == {"nil", "wildcard", "managed", "files", "empty"}

None == "none"

Idle == [at |-> "idle", name |-> None, got |-> None]

Init ==
    /\ pc = "validate"
    /\ items = 0
    /\ refused = FALSE
    /\ wildcards = [w \in {} |-> None]
    /\ magic = {}
    /\ tries = [w \in Wildcards |-> 0]
    /\ issued = {}
    /\ loaded = "none"
    /\ vhosts = [n \in {} |-> None]
    /\ err = FALSE
    /\ certMap = [n \in {} |-> None]
    /\ hs = [h \in Handshakes |-> Idle]

Put(map, key, value) ==
    [k \in DOMAIN map \cup {key} |-> IF k = key THEN value ELSE map[k]]

Registered == DOMAIN wildcards

-----------------------------------------------------------------------------
(* LoadFromConfig.                                                         *)

KnownCa(ca) == ca # "unknown"

Lower(ca) == IF ca = "ZeroSSL" THEN "zerossl" ELSE ca

(* Mutant: the default of the backup CA is not thought of.                 *)
ValidForgetsDefault(wc) ==
    /\ wc.domain \in Wildcards
    /\ wc.dns # "none"
    /\ KnownCa(wc.ca)
    /\ KnownCa(wc.backup)
    /\ ~wc.negative
    /\ wc.ca = "zerossl" \/ (wc.backupOn /\ wc.backup = "zerossl") => wc.email

Valid(wc) ==
    /\ wc.domain \in Wildcards
    /\ wc.dns # "none"
    /\ KnownCa(wc.ca)
    /\ KnownCa(wc.backup)
    /\ ~wc.negative
    /\ wc.ca = "zerossl" \/ (wc.backupOn /\ wc.backup \in {"", "zerossl"}) => wc.email

(* The CAs the issuers of an instance are made for.                        *)
Issuers(wc) ==
    LET primary == IF wc.ca = "" THEN "letsencrypt" ELSE Lower(wc.ca)
        backup == IF wc.backup = "" THEN "zerossl" ELSE Lower(wc.backup)
    IN  {primary} \cup (IF wc.backupOn THEN {backup} ELSE {})

Validate(wc) ==
    /\ pc = "validate"
    /\ items < MaxEntries
    /\ items' = items + 1
    /\ IF Valid(wc) /\ wc.domain \notin Registered
       THEN wildcards' = Put(wildcards, wc.domain, wc) /\ UNCHANGED refused
       ELSE refused' = TRUE /\ UNCHANGED wildcards
    /\ UNCHANGED <<pc, magic, tries, issued, loaded, vhosts, err, certMap, hs>>

(* Returns to ReadConfig, which only logs an error.                        *)
LoadReturns(result) ==
    /\ loaded' = result
    /\ pc' = "vhosts"
    /\ items' = 0

NothingToLoad ==
    /\ pc = "validate"
    /\ items = 0
    /\ LoadReturns("none")
    /\ UNCHANGED <<refused, wildcards, magic, tries, issued, vhosts, err, certMap, hs>>

ValidationFails ==
    /\ pc = "validate"
    /\ refused
    /\ LoadReturns("failed")
    /\ UNCHANGED <<refused, wildcards, magic, tries, issued, vhosts, err, certMap, hs>>

Usable(w) == wildcards[w].dns = "cloudflare"

(* An instance for each wildcard, unless its DNS provider cannot be used.  *)
SetUp ==
    /\ pc = "validate"
    /\ items > 0
    /\ ~refused
    /\ magic' = {w \in Registered : Usable(w)}
    /\ IF magic' = Registered
       THEN pc' = "obtain" /\ UNCHANGED <<items, loaded>>
       ELSE LoadReturns("failed")
    /\ UNCHANGED <<refused, wildcards, tries, issued, vhosts, err, certMap, hs>>

(* The goroutine of a wildcard has neither succeeded nor given up.         *)
Obtaining(w) == w \in Registered \ issued /\ tries[w] < MaxRetries

Obtain(w) ==
    /\ pc = "obtain"
    /\ Obtaining(w)
    /\ issued' = issued \cup {w}
    /\ UNCHANGED <<pc, items, refused, wildcards, magic, tries, loaded, vhosts, err, certMap, hs>>
(* Mutant: the last failure starts the attempts over.                      *)
ObtainStartsOver(w) ==
    /\ pc = "obtain"
    /\ Obtaining(w)
    /\ tries' = [tries EXCEPT ![w] = (@ + 1) % MaxRetries]
    /\ UNCHANGED <<pc, items, refused, wildcards, magic, issued, loaded, vhosts, err, certMap, hs>>

ObtainFails(w) ==
    /\ pc = "obtain"
    /\ Obtaining(w)
    /\ tries' = [tries EXCEPT ![w] = @ + 1]
    /\ UNCHANGED <<pc, items, refused, wildcards, magic, issued, loaded, vhosts, err, certMap, hs>>
(* Mutant: the goroutines share one error, and the last one sets it.       *)
ObtainedSome ==
    /\ pc = "obtain"
    /\ \A w \in Registered : ~Obtaining(w)
    /\ LoadReturns(IF issued # {} THEN "ok" ELSE "failed")
    /\ UNCHANGED <<refused, wildcards, magic, tries, issued, vhosts, err, certMap, hs>>

(* After wg.Wait().                                                        *)
Obtained ==
    /\ pc = "obtain"
    /\ \A w \in Registered : ~Obtaining(w)
    /\ LoadReturns(IF \E w \in Registered : tries[w] = MaxRetries THEN "failed" ELSE "ok")
    /\ UNCHANGED <<refused, wildcards, magic, tries, issued, vhosts, err, certMap, hs>>

-----------------------------------------------------------------------------
(* The rest of ReadConfig.                                                 *)

CoveredBy(n) == {w \in Registered : <<w, n>> \in Covers}
(* Mutant: a match does not disable managedcert.                           *)
SourceManagesAnyway(vh) ==
    CASE vh.managed                          -> "managed"
      [] ~vh.managed /\ vh.files = "none"    -> "wildcard"
      [] ~vh.managed /\ vh.files = "both"    -> "files"
      [] ~vh.managed /\ vh.files = "half"    -> "empty"

(* A host that has its certificate managed, and no files, relies on the    *)
(* manager when a wildcard of the configuration covers it.                 *)
Source(vh) ==
    LET useWildcard == vh.files = "none" /\ vh.managed /\ CoveredBy(vh.name) # {}
        managed == vh.managed /\ ~useWildcard
    IN  CASE managed                       -> "managed"
          [] ~managed /\ vh.files = "none" -> "wildcard"
          [] ~managed /\ vh.files = "both" -> "files"
          [] ~managed /\ vh.files = "half" -> "empty"

VHostIs(vh, tlsConfig) ==
    /\ pc = "vhosts"
    /\ items < MaxEntries
    /\ items' = items + 1
    /\ vhosts' = Put(vhosts, vh.name, [entry |-> vh, tls |-> tlsConfig])
    /\ UNCHANGED <<pc, manager, certMap, hs>>

VHostOffloads(vh) ==
    /\ vh.offload
    /\ VHostIs(vh, Source(vh))
    /\ err' = FALSE

(* ManageAsync refuses the name, or the files cannot be loaded.            *)
VHostFails(vh) ==
    /\ vh.offload
    /\ Source(vh) \in {"managed", "files"}
    /\ VHostIs(vh, "nil")
    /\ err' = TRUE

VHostPasses(vh) ==
    /\ ~vh.offload
    /\ VHostIs(vh, "nil")
    /\ UNCHANGED err

(* An unreadable file, or log.Fatalf over an unknown TLS version.          *)
ReadConfigStops ==
    /\ (pc = "validate" /\ items = 0) \/ pc = "vhosts"
    /\ pc' = "fatal"
    /\ UNCHANGED <<items, manager, vhosts, err, certMap, hs>>

ReadConfigReturns ==
    /\ pc = "vhosts"
    /\ pc' = IF err THEN "fatal" ELSE "serving"
    /\ UNCHANGED <<items, manager, vhosts, err, certMap, hs>>

-----------------------------------------------------------------------------
(* The handshakes.                                                         *)

Hello(h, n) ==
    /\ pc = "serving"
    /\ hs[h].at = "idle"
    /\ n \in DOMAIN vhosts
    /\ vhosts[n].tls # "nil"
    /\ hs' = [hs EXCEPT ![h] = [at |-> "lookup", name |-> n, got |-> None]]
    /\ UNCHANGED <<pc, items, manager, vhosts, err, certMap>>

(* What GetCertificate returns of a cached match.                          *)
Instance(w) == IF w \in magic THEN w ELSE None

Goes(h, at, got) == hs' = [hs EXCEPT ![h] = [at |-> at, name |-> @.name, got |-> got]]

(* Under the read lock.                                                    *)
LookUp(h) ==
    /\ hs[h].at = "lookup"
    /\ IF hs[h].name \in DOMAIN certMap
       THEN Goes(h, "found", Instance(certMap[hs[h].name]))
       ELSE Goes(h, "miss", None)
    /\ UNCHANGED <<pc, items, manager, vhosts, err, certMap>>

(* Under the write lock, which another handshake may have had in between.  *)
CachedMeanwhile(h) ==
    /\ hs[h].at = "miss"
    /\ hs[h].name \in DOMAIN certMap
    /\ Goes(h, "found", Instance(certMap[hs[h].name]))
    /\ UNCHANGED <<pc, items, manager, vhosts, err, certMap>>
(* Mutant: the cache is not looked at again under the write lock.          *)
MatchUnchecked(h) ==
    /\ hs[h].at = "miss"
    /\ \E w \in CoveredBy(hs[h].name) :
         /\ w \in magic \/ CoveredBy(hs[h].name) \cap magic = {}
         /\ certMap' = Put(certMap, hs[h].name, w)
         /\ Goes(h, "found", Instance(w))
    /\ UNCHANGED <<pc, items, manager, vhosts, err>>

(* Mutant: the loop ends with the first match, instance or not.            *)
MatchFirst(h) ==
    /\ hs[h].at = "miss"
    /\ hs[h].name \notin DOMAIN certMap
    /\ \E w \in CoveredBy(hs[h].name) :
         /\ certMap' = Put(certMap, hs[h].name, w)
         /\ Goes(h, "found", Instance(w))
    /\ UNCHANGED <<pc, items, manager, vhosts, err>>

(* The loop over w.wildcards, which Go takes in any order, overwrites the  *)
(* entry until it finds a match that has an instance.                      *)
Match(h) ==
    /\ hs[h].at = "miss"
    /\ hs[h].name \notin DOMAIN certMap
    /\ \E w \in CoveredBy(hs[h].name) :
         /\ w \in magic \/ CoveredBy(hs[h].name) \cap magic = {}
         /\ certMap' = Put(certMap, hs[h].name, w)
         /\ Goes(h, "found", Instance(w))
    /\ UNCHANGED <<pc, items, manager, vhosts, err>>

NoMatch(h) ==
    /\ hs[h].at = "miss"
    /\ hs[h].name \notin DOMAIN certMap
    /\ CoveredBy(hs[h].name) = {}
    /\ Goes(h, "found", None)
    /\ UNCHANGED <<pc, items, manager, vhosts, err, certMap>>

(* getCertificateFunc: the manager's certificate, or else the host's own,  *)
(* or the handshake fails.                                                 *)
Presentable(h) ==
    IF hs[h].got \in issued /\ <<hs[h].got, hs[h].name>> \in Fits THEN {hs[h].got}
    ELSE CASE vhosts[hs[h].name].tls = "files"   -> {"own"}
           [] vhosts[hs[h].name].tls = "managed" -> {"own", "failed"}
           [] OTHER                              -> {"failed"}

Present(h) ==
    /\ hs[h].at = "found"
    /\ \E c \in Presentable(h) : Goes(h, "done", c)
    /\ UNCHANGED <<pc, items, manager, vhosts, err, certMap>>

End(h) ==
    /\ hs[h].at = "done"
    /\ hs' = [hs EXCEPT ![h] = Idle]
    /\ UNCHANGED <<pc, items, manager, vhosts, err, certMap>>

-----------------------------------------------------------------------------
LoadStep ==
    \/ \E wc \in WildcardEntries : Validate(wc)
    \/ NothingToLoad \/ ValidationFails \/ SetUp
    \/ \E w \in Wildcards : Obtain(w) \/ ObtainFails(w)
    \/ Obtained

VHostStep ==
    \/ \E vh \in VHostEntries : VHostOffloads(vh) \/ VHostFails(vh) \/ VHostPasses(vh)
    \/ ReadConfigStops
    \/ ReadConfigReturns

HandshakeStep(h) ==
    \/ \E n \in Names : Hello(h, n)
    \/ LookUp(h) \/ CachedMeanwhile(h) \/ Match(h) \/ NoMatch(h)
    \/ Present(h) \/ End(h)

(* The process has ended, or no client has come yet.                       *)
Quiet ==
    /\ pc = "fatal" \/ (pc = "serving" /\ \A h \in Handshakes : hs[h].at = "idle")
    /\ UNCHANGED vars

Next ==
    \/ LoadStep
    \/ VHostStep
    \/ \E h \in Handshakes : HandshakeStep(h)
    \/ Quiet

Spec == Init /\ [][Next]_vars

(* ReadConfig goes on; an attempt at a certificate ends, one way or other. *)
FairSpec == Spec /\ WF_vars(LoadStep \/ VHostStep)

-----------------------------------------------------------------------------
TypeOK ==
    /\ pc \in {"validate", "obtain", "vhosts", "serving", "fatal"}
    /\ items \in 0..MaxEntries
    /\ refused \in BOOLEAN
    /\ Registered \subseteq Wildcards
    /\ \A w \in Registered : wildcards[w] \in WildcardEntry
    /\ magic \subseteq Registered
    /\ tries \in [Wildcards -> 0..MaxRetries]
    /\ issued \subseteq magic
    /\ loaded \in {"none", "ok", "failed"}
    /\ DOMAIN vhosts \subseteq Names
    /\ \A n \in DOMAIN vhosts : vhosts[n] \in [entry : VHostEntry, tls : TlsConfigs]
    /\ err \in BOOLEAN
    /\ DOMAIN certMap \subseteq Names
    /\ \A n \in DOMAIN certMap : certMap[n] \in Registered
    /\ hs \in [Handshakes -> [at : {"idle", "lookup", "miss", "found", "done"},
                              name : Names \cup {None},
                              got : Wildcards \cup {None, "own", "failed"}]]

(* When LoadFromConfig (wildcard.go) reports success, every wildcard it    *)
(* registered has an instance, and every goroutine got its certificate: no *)
(* failure of one of its four phases is lost on the way.                   *)
LoadedIsIssued == loaded = "ok" => Registered = magic /\ Registered = issued

(* The issuers LoadFromConfig makes have the email ZeroSSL asks for        *)
(* (wildcard.go): validateConfig and the set-up apply the same defaults to *)
(* the same entry.  It is so for names written as in the constants; in     *)
(* another case, validateConfig does not recognise ZeroSSL.                *)
ZeroSslHasEmail ==
    \A w \in Registered :
        /\ "ZeroSSL" \notin {wildcards[w].ca, wildcards[w].backup}
        /\ "zerossl" \in Issuers(wildcards[w])
        => wildcards[w].email

(* config.go disables managedcert for a host a wildcard covers, so that no *)
(* two certmagic instances manage one name: a host has an instance that    *)
(* obtains a certificate for a covered name only if cert or key is set     *)
(* too.                                                                    *)
OneManager ==
    \A n \in DOMAIN vhosts :
        /\ vhosts[n].tls = "managed"
        /\ vhosts[n].entry.files = "none"
        => CoveredBy(n) = {}

(* However the map is walked and whoever filled the cache, GetCertificate  *)
(* (wildcard.go) returns nil only if no wildcard that covers the name has  *)
(* an instance.                                                            *)
UsableIsFound ==
    \A h \in Handshakes :
        hs[h].at = "found" /\ hs[h].got = None
            => CoveredBy(hs[h].name) \cap magic = {}

(* Two handshakes for one name are sent to one wildcard: what one has put  *)
(* into certMap another, which looked before, does not replace.            *)
AnswerIsStable ==
    [][\A n \in DOMAIN certMap :
          n \in DOMAIN certMap' /\ certMap'[n] = certMap[n]]_vars

(* Once LoadFromConfig (wildcard.go) has reported success, a handshake     *)
(* (getCertificateFunc, tls.go) fails only for a host without files that   *)
(* no wildcard covers, or one that a wildcard covers by more than a label. *)
ServedWhenLoaded ==
    \A h \in Handshakes :
        loaded = "ok" /\ hs[h].at = "done" /\ hs[h].got = "failed" =>
            /\ vhosts[hs[h].name].tls # "files"
            /\ \/ CoveredBy(hs[h].name) = {}
               \/ \E w \in CoveredBy(hs[h].name) : <<w, hs[h].name>> \notin Fits

(* The retries end: whatever ACME does, ReadConfig comes to serve or to    *)
(* give up.                                                                *)
ReadConfigEnds == <>(pc \in {"serving", "fatal"})
=============================================================================
