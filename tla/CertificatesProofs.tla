------------------------- MODULE CertificatesProofs -------------------------
(***************************************************************************)
(* What is proved of Certificates, for any wildcards, names, entries and   *)
(* number of handshakes: its types, and each of its safety properties.     *)
(***************************************************************************)
EXTENDS Certificates, TLAPS

(* What holds while ReadConfig is in each of its phases: the manager only  *)
(* changes before there is a virtual host, and nothing is cached before    *)
(* the process serves.                                                     *)
Phases ==
    /\ pc = "validate" => magic = {} /\ issued = {}
    /\ pc = "obtain" => magic = Registered
    /\ pc \in {"validate", "obtain"} => loaded = "none" /\ DOMAIN vhosts = {}
    /\ pc # "serving" => DOMAIN certMap = {} /\ \A h \in Handshakes : hs[h] = Idle

(* Only entries validateConfig accepts are registered.                     *)
RegisteredAreValid == \A w \in Registered : Valid(wildcards[w])

(* An entry of the cache is a match, and one with an instance if any has.  *)
CacheIsSound ==
    \A n \in DOMAIN certMap :
        /\ certMap[n] \in CoveredBy(n)
        /\ certMap[n] \in magic \/ CoveredBy(n) \cap magic = {}

IInv ==
    /\ TypeOK
    /\ Phases
    /\ RegisteredAreValid
    /\ LoadedIsIssued
    /\ OneManager
    /\ CacheIsSound
    /\ UsableIsFound

-----------------------------------------------------------------------------
(* Every entry of vhosts gets one of the TlsConfigs.                       *)
LEMMA SourceType ==
    ASSUME NEW vh \in VHostEntry
    PROVE  Source(vh) \in TlsConfigs
<1> DEFINE use == vh.files = "none" /\ vh.managed /\ CoveredBy(vh.name) # {}
           own == vh.managed /\ ~use
<1>1. vh.files \in {"none", "half", "both"} /\ vh.managed \in BOOLEAN
  BY DEF VHostEntry
<1>2. CASE own
  BY <1>1, <1>2 DEF Source, TlsConfigs
<1>3. CASE ~own /\ vh.files = "none"
  BY <1>3 DEF Source, TlsConfigs
<1>4. CASE ~own /\ vh.files = "both"
  BY <1>4 DEF Source, TlsConfigs
<1>5. CASE ~own /\ vh.files = "half"
  BY <1>5 DEF Source, TlsConfigs
<1> QED BY <1>1, <1>2, <1>3, <1>4, <1>5

(* A host without files has an instance that obtains a certificate only if *)
(* no registered wildcard covers it.                                       *)
LEMMA SourceOfManaged ==
    ASSUME NEW vh \in VHostEntry, Source(vh) = "managed", vh.files = "none"
    PROVE  CoveredBy(vh.name) = {}
<1>1. SUFFICES ASSUME CoveredBy(vh.name) # {} PROVE FALSE
  OBVIOUS
<1>2. CASE vh.managed
  <2>1. Source(vh) = "wildcard"
    BY <1>1, <1>2 DEF Source
  <2> QED BY <2>1
<1>3. CASE ~vh.managed
  <2>1. Source(vh) = "wildcard"
    BY <1>3 DEF Source
  <2> QED BY <2>1
<1> QED BY <1>2, <1>3

(* A step of LoadFromConfig touches neither hosts nor cache, which are     *)
(* still empty.                                                            *)
LEMMA LoadKeeps ==
    ASSUME IInv, pc \in {"validate", "obtain"}, UNCHANGED <<vhosts, certMap, hs>>
    PROVE  /\ OneManager' /\ CacheIsSound' /\ UsableIsFound'
           /\ DOMAIN vhosts' = {} /\ DOMAIN certMap' = {}
           /\ \A h \in Handshakes : hs'[h] = Idle
<1>1. DOMAIN vhosts = {} /\ DOMAIN certMap = {} /\ \A h \in Handshakes : hs[h] = Idle
  BY DEF IInv, Phases
<1>2. OneManager' /\ CacheIsSound'
  BY <1>1 DEF OneManager, CacheIsSound
<1>3. UsableIsFound'
  BY <1>1 DEF UsableIsFound, Idle
<1> QED BY <1>1, <1>2, <1>3

LEMMA ValidateStep ==
    ASSUME IInv, NEW wc \in WildcardEntries, Validate(wc)
    PROVE  IInv'
<1> USE EntriesAssumption, BoundsAssumption
<1>1. OneManager' /\ CacheIsSound' /\ UsableIsFound'
      /\ DOMAIN vhosts' = {} /\ DOMAIN certMap' = {}
      /\ \A h \in Handshakes : hs'[h] = Idle
  BY LoadKeeps DEF Validate
<1>2. pc' = "validate" /\ magic' = {} /\ issued' = {} /\ loaded' = "none"
      /\ tries' = tries /\ err' = err /\ hs' = hs /\ vhosts' = vhosts /\ certMap' = certMap
  BY DEF Validate, IInv, Phases
<1>3. items' \in 0..MaxEntries
  BY DEF Validate, IInv, TypeOK
<1>4. CASE Valid(wc) /\ wc.domain \notin Registered
  <2>1. wildcards' = Put(wildcards, wc.domain, wc) /\ refused' = refused
    BY <1>4 DEF Validate
  <2>2. wc.domain \in Wildcards
    BY <1>4 DEF Valid
  <2>3. /\ Registered' = Registered \cup {wc.domain}
        /\ wildcards'[wc.domain] = wc
        /\ \A k \in Registered : wildcards'[k] = wildcards[k]
    BY <1>4, <2>1 DEF Put, Registered
  <2>4. RegisteredAreValid'
    <3> SUFFICES ASSUME NEW w \in Registered' PROVE Valid(wildcards'[w])
      BY DEF RegisteredAreValid, Valid
    <3> QED BY <1>4, <2>3 DEF IInv, RegisteredAreValid
  <2>5. TypeOK'
    BY <1>1, <1>2, <1>3, <2>1, <2>2, <2>3 DEF IInv, TypeOK
  <2>6. Phases' /\ LoadedIsIssued'
    BY <1>1, <1>2 DEF Phases, LoadedIsIssued
  <2> QED BY <1>1, <2>4, <2>5, <2>6 DEF IInv
<1>5. CASE ~(Valid(wc) /\ wc.domain \notin Registered)
  <2>1. wildcards' = wildcards /\ refused' = TRUE
    BY <1>5 DEF Validate
  <2>2. RegisteredAreValid'
    BY <2>1 DEF IInv, RegisteredAreValid, Registered, Valid
  <2>3. TypeOK'
    BY <1>1, <1>2, <1>3, <2>1 DEF IInv, TypeOK, Registered
  <2>4. Phases' /\ LoadedIsIssued'
    BY <1>1, <1>2 DEF Phases, LoadedIsIssued
  <2> QED BY <1>1, <2>2, <2>3, <2>4 DEF IInv
<1> QED BY <1>4, <1>5

(* The steps of LoadFromConfig after the validation.                       *)
LEMMA LoadStepKeeps ==
    ASSUME IInv,
           \/ NothingToLoad \/ ValidationFails \/ SetUp \/ Obtained
           \/ \E w \in Wildcards : Obtain(w) \/ ObtainFails(w)
    PROVE  IInv'
<1> USE BoundsAssumption
<1>1. pc \in {"validate", "obtain"} /\ UNCHANGED <<refused, wildcards, vhosts, err, certMap, hs>>
  BY DEF NothingToLoad, ValidationFails, SetUp, Obtained, Obtain, ObtainFails
<1>2. OneManager' /\ CacheIsSound' /\ UsableIsFound'
      /\ DOMAIN vhosts' = {} /\ DOMAIN certMap' = {}
      /\ \A h \in Handshakes : hs'[h] = Idle
  BY <1>1, LoadKeeps
<1>3. RegisteredAreValid' /\ Registered' = Registered
  BY <1>1 DEF IInv, RegisteredAreValid, Registered, Valid
<1>4. SUFFICES ASSUME TRUE
               PROVE  /\ pc' \in {"validate", "obtain", "vhosts"}
                      /\ items' \in 0..MaxEntries
                      /\ magic' \subseteq Registered
                      /\ issued' \subseteq magic'
                      /\ tries' \in [Wildcards -> 0..MaxRetries]
                      /\ loaded' \in {"none", "ok", "failed"}
                      /\ pc' = "validate" => magic' = {} /\ issued' = {}
                      /\ pc' = "obtain" => magic' = Registered
                      /\ pc' \in {"validate", "obtain"} => loaded' = "none"
                      /\ loaded' = "ok" => Registered = magic' /\ Registered = issued'
  <2>1. TypeOK'
    BY <1>1, <1>2, <1>3, <1>4 DEF IInv, TypeOK
  <2>2. Phases'
    BY <1>2, <1>3, <1>4 DEF Phases
  <2>3. LoadedIsIssued'
    BY <1>3, <1>4 DEF LoadedIsIssued
  <2> QED BY <1>2, <1>3, <2>1, <2>2, <2>3 DEF IInv
<1>5. CASE NothingToLoad \/ ValidationFails
  BY <1>5 DEF NothingToLoad, ValidationFails, LoadReturns, IInv, TypeOK, Phases
<1>6. CASE SetUp
  BY <1>6 DEF SetUp, LoadReturns, IInv, TypeOK, Phases
<1>7. CASE Obtained
  <2>1. \A w \in Registered : tries[w] # MaxRetries => w \in issued
    BY <1>7 DEF Obtained, Obtaining, IInv, TypeOK
  <2>2. /\ pc' = "vhosts" /\ items' = 0 /\ tries' = tries
        /\ magic' = magic /\ issued' = issued
        /\ magic = Registered /\ issued \subseteq Registered
    BY <1>7 DEF Obtained, LoadReturns, IInv, TypeOK, Phases
  <2>3. loaded' \in {"ok", "failed"} /\ (loaded' = "ok" => Registered \subseteq issued)
    BY <1>7, <2>1 DEF Obtained, LoadReturns
  <2>4. tries \in [Wildcards -> 0..MaxRetries] /\ issued \subseteq magic /\ 0 \in 0..MaxEntries
    BY DEF IInv, TypeOK
  <2>5. loaded' = "ok" => Registered = magic' /\ Registered = issued'
    BY <2>2, <2>3
  <2> QED BY <2>2, <2>3, <2>4, <2>5
<1>8. ASSUME NEW w \in Wildcards, Obtain(w) \/ ObtainFails(w)
      PROVE  /\ pc' = "obtain" /\ loaded' = "none" /\ magic' = magic
             /\ items' = items
             /\ issued' \subseteq magic'
             /\ tries' \in [Wildcards -> 0..MaxRetries]
  BY <1>8 DEF Obtain, ObtainFails, Obtaining, IInv, TypeOK, Phases
<1>9. CASE \E w \in Wildcards : Obtain(w) \/ ObtainFails(w)
  <2>1. pc = "obtain"
    BY <1>9 DEF Obtain, ObtainFails
  <2> QED BY <1>8, <1>9, <2>1 DEF IInv, TypeOK, Phases
<1> QED BY <1>5, <1>6, <1>7, <1>9

-----------------------------------------------------------------------------
(* A virtual host is entered, or ReadConfig ends.                          *)
LEMMA VHostStepKeeps ==
    ASSUME IInv, VHostStep
    PROVE  IInv'
<1> USE EntriesAssumption, BoundsAssumption
<1>1. pc # "serving" /\ UNCHANGED <<manager, certMap, hs>>
  BY DEF VHostStep, VHostOffloads, VHostFails, VHostPasses, VHostIs, ReadConfigStops,
         ReadConfigReturns
<1>2. DOMAIN certMap' = {} /\ \A h \in Handshakes : hs'[h] = Idle
  BY <1>1 DEF IInv, Phases
<1>3. Registered' = Registered /\ RegisteredAreValid' /\ LoadedIsIssued'
  BY <1>1 DEF manager, IInv, RegisteredAreValid, Registered, Valid, LoadedIsIssued
<1>4. CacheIsSound'
  BY <1>2 DEF CacheIsSound
<1>5. UsableIsFound'
  BY <1>2 DEF UsableIsFound, Idle
<1>6. ASSUME NEW vh \in VHostEntry, NEW tls \in TlsConfigs, VHostIs(vh, tls),
             tls \in {Source(vh), "nil"}, err' \in BOOLEAN
      PROVE  IInv'
  <2>1. pc = "vhosts" /\ pc' = "vhosts" /\ items' \in 0..MaxEntries
    BY <1>6 DEF VHostIs, IInv, TypeOK
  <2>2. /\ DOMAIN vhosts' = DOMAIN vhosts \cup {vh.name}
        /\ vhosts'[vh.name] = [entry |-> vh, tls |-> tls]
        /\ \A n \in DOMAIN vhosts : n # vh.name => vhosts'[n] = vhosts[n]
    BY <1>6 DEF VHostIs, Put
  <2>3. vh.name \in Names
    BY DEF VHostEntry
  <2>4. \A n \in DOMAIN vhosts' : vhosts'[n] \in [entry : VHostEntry, tls : TlsConfigs]
    BY <2>2 DEF IInv, TypeOK
  <2>5. TypeOK'
    BY <1>1, <1>3, <1>6, <2>1, <2>2, <2>3, <2>4 DEF manager, IInv, TypeOK
  <2>6. Phases'
    BY <1>2, <2>1 DEF Phases
  <2>7. ASSUME NEW n \in DOMAIN vhosts', vhosts'[n].tls = "managed",
               vhosts'[n].entry.files = "none"
        PROVE  CoveredBy(n) = {}
    <3>1. CASE n = vh.name
      <4>1. tls = "managed" /\ vh.files = "none"
        BY <2>2, <2>7, <3>1
      <4> QED BY <1>6, <3>1, <4>1, SourceOfManaged
    <3>2. CASE n # vh.name
      BY <2>2, <2>7, <3>2 DEF IInv, OneManager
    <3> QED BY <3>1, <3>2
  <2>8. OneManager'
    BY <1>3, <2>7 DEF OneManager, CoveredBy
  <2> QED BY <1>3, <1>4, <1>5, <2>5, <2>6, <2>8 DEF IInv
<1>7. ASSUME NEW vh \in VHostEntries, VHostOffloads(vh) \/ VHostFails(vh) \/ VHostPasses(vh)
      PROVE  IInv'
  <2>1. vh \in VHostEntry
    OBVIOUS
  <2>2. CASE VHostOffloads(vh)
    BY <1>6, <2>1, <2>2, SourceType DEF VHostOffloads
  <2>3. CASE VHostFails(vh)
    BY <1>6, <2>1, <2>3 DEF VHostFails, TlsConfigs
  <2>4. CASE VHostPasses(vh)
    BY <1>6, <2>1, <2>4 DEF VHostPasses, TlsConfigs, IInv, TypeOK
  <2> QED BY <1>7, <2>2, <2>3, <2>4
<1>8. CASE ReadConfigStops \/ ReadConfigReturns
  <2>1. pc' \in {"serving", "fatal"} /\ UNCHANGED <<items, vhosts, err>>
    BY <1>8 DEF ReadConfigStops, ReadConfigReturns
  <2>2. TypeOK'
    BY <1>1, <1>3, <2>1 DEF manager, IInv, TypeOK
  <2>3. Phases'
    BY <1>2, <2>1 DEF Phases
  <2>4. OneManager'
    BY <1>3, <2>1 DEF IInv, OneManager, CoveredBy
  <2> QED BY <1>3, <1>4, <1>5, <2>2, <2>3, <2>4 DEF IInv
<1> QED BY <1>7, <1>8 DEF VHostStep

-----------------------------------------------------------------------------
(* What a handshake leaves alone.                                          *)
LEMMA HandshakeFrame ==
    ASSUME IInv, NEW h \in Handshakes, HandshakeStep(h)
    PROVE  /\ pc = "serving"
           /\ UNCHANGED <<pc, items, manager, vhosts, err>>
<1>1. UNCHANGED <<pc, items, manager, vhosts, err>>
  BY DEF HandshakeStep, Hello, LookUp, CachedMeanwhile, Match, NoMatch, Present, End
<1>2. pc = "serving" \/ hs[h].at # "idle"
  BY DEF HandshakeStep, Hello, LookUp, CachedMeanwhile, Match, NoMatch, Present, End
<1>3. pc = "serving"
  BY <1>2 DEF IInv, Phases, Idle
<1> QED BY <1>1, <1>3

(* Only Match changes the cache, and only where it has no entry yet.       *)
LEMMA CacheStep ==
    ASSUME IInv, NEW h \in Handshakes, HandshakeStep(h)
    PROVE  /\ CacheIsSound'
           /\ DOMAIN certMap' \subseteq Names
           /\ \A n \in DOMAIN certMap' : certMap'[n] \in Registered
           /\ \A n \in DOMAIN certMap : n \in DOMAIN certMap' /\ certMap'[n] = certMap[n]
<1>1. UNCHANGED <<magic, wildcards>>
  BY HandshakeFrame DEF manager
<1>2. CASE certMap' = certMap
  BY <1>1, <1>2 DEF IInv, TypeOK, CacheIsSound, CoveredBy, Registered
<1>3. CASE Match(h)
  <2>1. PICK w \in CoveredBy(hs[h].name) :
          /\ w \in magic \/ CoveredBy(hs[h].name) \cap magic = {}
          /\ certMap' = Put(certMap, hs[h].name, w)
    BY <1>3 DEF Match
  <2>2. /\ DOMAIN certMap' = DOMAIN certMap \cup {hs[h].name}
        /\ certMap'[hs[h].name] = w
        /\ hs[h].name \notin DOMAIN certMap
        /\ \A n \in DOMAIN certMap : certMap'[n] = certMap[n]
    BY <1>3, <2>1 DEF Match, Put
  <2>3. w \in Registered /\ hs[h].name \in Names
    BY CoversAssumption DEF CoveredBy
  <2>4. CacheIsSound'
    BY <1>1, <2>1, <2>2 DEF IInv, CacheIsSound, CoveredBy, Registered
  <2> QED BY <2>2, <2>3, <2>4 DEF IInv, TypeOK
<1> QED BY <1>2, <1>3 DEF HandshakeStep, Hello, LookUp, CachedMeanwhile, NoMatch, Present, End

(* The record of a handshake stays a record, and what is found is usable   *)
(* if anything that covers the name is.                                    *)
LEMMA HandshakeRecord ==
    ASSUME IInv, NEW h \in Handshakes, HandshakeStep(h)
    PROVE  \E r \in [at : {"idle", "lookup", "miss", "found", "done"},
                     name : Names \cup {None},
                     got : Wildcards \cup {None, "own", "failed"}] :
             /\ hs' = [hs EXCEPT ![h] = r]
             /\ r.at = "found" /\ r.got = None => CoveredBy(r.name) \cap magic = {}
<1> DEFINE Records == [at : {"idle", "lookup", "miss", "found", "done"},
                       name : Names \cup {None},
                       got : Wildcards \cup {None, "own", "failed"}]
           Good(r) == r.at = "found" /\ r.got = None => CoveredBy(r.name) \cap magic = {}
<1>1. hs \in [Handshakes -> Records]
  BY DEF IInv, TypeOK
<1>2. magic \subseteq Wildcards /\ issued \subseteq Wildcards /\ Registered \subseteq Wildcards
  BY DEF IInv, TypeOK
<1>3. ASSUME NEW n \in Names, Hello(h, n)
      PROVE  \E r \in Records : hs' = [hs EXCEPT ![h] = r] /\ Good(r)
  <2> DEFINE r == [at |-> "lookup", name |-> n, got |-> None]
  <2>1. r \in Records /\ Good(r)
    OBVIOUS
  <2>2. hs' = [hs EXCEPT ![h] = r]
    BY <1>3 DEF Hello
  <2> QED BY <2>1, <2>2
<1>4. ASSUME NEW at \in {"miss", "found", "done"},
             NEW got \in Wildcards \cup {None, "own", "failed"}, Goes(h, at, got),
             at = "found" /\ got = None => CoveredBy(hs[h].name) \cap magic = {}
      PROVE  \E r \in Records : hs' = [hs EXCEPT ![h] = r] /\ Good(r)
  <2> DEFINE r == [at |-> at, name |-> hs[h].name, got |-> got]
  <2>1. r \in Records /\ Good(r)
    BY <1>1, <1>4
  <2>2. hs' = [hs EXCEPT ![h] = r]
    BY <1>1, <1>4 DEF Goes
  <2> QED BY <2>1, <2>2
<1>5. ASSUME NEW w \in Registered, Goes(h, "found", Instance(w)),
             w \in magic \/ CoveredBy(hs[h].name) \cap magic = {}
      PROVE  \E r \in Records : hs' = [hs EXCEPT ![h] = r] /\ Good(r)
  <2>1. Instance(w) \in Wildcards \cup {None}
    BY <1>2 DEF Instance
  <2>2. w # None
    BY <1>2, NoneAssumption DEF None
  <2>3. Instance(w) = None => CoveredBy(hs[h].name) \cap magic = {}
    BY <1>5, <2>2 DEF Instance
  <2> QED BY <1>4, <1>5, <2>1, <2>3
<1>6. CASE LookUp(h)
  <2>1. CASE hs[h].name \in DOMAIN certMap
    <3>1. /\ certMap[hs[h].name] \in Registered
          /\ \/ certMap[hs[h].name] \in magic
             \/ CoveredBy(hs[h].name) \cap magic = {}
      BY <2>1 DEF IInv, TypeOK, CacheIsSound
    <3>2. Goes(h, "found", Instance(certMap[hs[h].name]))
      BY <1>6, <2>1 DEF LookUp
    <3> QED BY <1>5, <3>1, <3>2
  <2>2. CASE hs[h].name \notin DOMAIN certMap
    <3>1. Goes(h, "miss", None)
      BY <1>6, <2>2 DEF LookUp
    <3> QED BY <1>4, <3>1
  <2> QED BY <2>1, <2>2
<1>7. CASE CachedMeanwhile(h)
  <2>1. /\ certMap[hs[h].name] \in Registered
        /\ \/ certMap[hs[h].name] \in magic
           \/ CoveredBy(hs[h].name) \cap magic = {}
    BY <1>7 DEF CachedMeanwhile, IInv, TypeOK, CacheIsSound
  <2>2. Goes(h, "found", Instance(certMap[hs[h].name]))
    BY <1>7 DEF CachedMeanwhile
  <2> QED BY <1>5, <2>1, <2>2
<1>8. CASE Match(h)
  BY <1>5, <1>8 DEF Match, CoveredBy
<1>9. CASE NoMatch(h)
  <2>1. Goes(h, "found", None) /\ CoveredBy(hs[h].name) = {}
    BY <1>9 DEF NoMatch
  <2> QED BY <1>4, <2>1
<1>10. CASE Present(h)
  <2>1. \A c \in Presentable(h) : c \in Wildcards \cup {None, "own", "failed"}
    BY <1>2 DEF Presentable
  <2> QED BY <1>4, <1>10, <2>1 DEF Present
<1>11. CASE End(h)
  <2>1. Idle \in Records /\ Good(Idle)
    BY DEF Idle
  <2> QED BY <1>11, <2>1 DEF End
<1> QED BY <1>3, <1>6, <1>7, <1>8, <1>9, <1>10, <1>11 DEF HandshakeStep

LEMMA HandshakeStepKeeps ==
    ASSUME IInv, NEW h \in Handshakes, HandshakeStep(h)
    PROVE  IInv'
<1>1. pc = "serving" /\ UNCHANGED <<pc, items, manager, vhosts, err>>
  BY HandshakeFrame
<1>2. UNCHANGED <<refused, wildcards, magic, tries, issued, loaded>>
  BY <1>1 DEF manager
<1>3. /\ CacheIsSound' /\ DOMAIN certMap' \subseteq Names
      /\ \A n \in DOMAIN certMap' : certMap'[n] \in Registered
  BY CacheStep
<1>4. PICK r \in [at : {"idle", "lookup", "miss", "found", "done"},
                  name : Names \cup {None},
                  got : Wildcards \cup {None, "own", "failed"}] :
        /\ hs' = [hs EXCEPT ![h] = r]
        /\ r.at = "found" /\ r.got = None => CoveredBy(r.name) \cap magic = {}
  BY HandshakeRecord
<1>5. TypeOK'
  BY <1>1, <1>2, <1>3, <1>4 DEF IInv, TypeOK, Registered
<1>6. Phases'
  BY <1>1, <1>2 DEF IInv, Phases, Registered
<1>7. RegisteredAreValid' /\ LoadedIsIssued' /\ OneManager'
  BY <1>1, <1>2 DEF IInv, RegisteredAreValid, LoadedIsIssued, OneManager, CoveredBy, Registered,
                    Valid
<1>8. UsableIsFound'
  <2>1. hs \in [Handshakes -> [at : {"idle", "lookup", "miss", "found", "done"},
                               name : Names \cup {None},
                               got : Wildcards \cup {None, "own", "failed"}]]
    BY DEF IInv, TypeOK
  <2>2. \A g \in Handshakes : hs'[g] = IF g = h THEN r ELSE hs[g]
    BY <1>4, <2>1
  <2>3. \A g \in Handshakes : hs'[g].at = "found" /\ hs'[g].got = None
                                 => CoveredBy(hs'[g].name) \cap magic = {}
    BY <1>4, <2>2 DEF IInv, UsableIsFound
  <2> QED BY <1>2, <2>3 DEF UsableIsFound, CoveredBy, Registered
<1> QED BY <1>3, <1>5, <1>6, <1>7, <1>8 DEF IInv

-----------------------------------------------------------------------------
LEMMA InitIInv == Init => IInv
<1> SUFFICES ASSUME Init PROVE IInv
  OBVIOUS
<1> USE BoundsAssumption
<1>1. Registered = {} /\ DOMAIN vhosts = {} /\ DOMAIN certMap = {}
  BY DEF Init, Registered
<1>2. TypeOK
  <2>1. 0 \in 0..MaxEntries /\ 0 \in 0..MaxRetries
    OBVIOUS
  <2>2. tries \in [Wildcards -> 0..MaxRetries]
    BY <2>1 DEF Init
  <2>3. Idle \in [at : {"idle", "lookup", "miss", "found", "done"},
                  name : Names \cup {None},
                  got : Wildcards \cup {None, "own", "failed"}]
    BY DEF Idle
  <2>4. hs \in [Handshakes -> [at : {"idle", "lookup", "miss", "found", "done"},
                               name : Names \cup {None},
                               got : Wildcards \cup {None, "own", "failed"}]]
    BY <2>3 DEF Init
  <2>5. /\ pc = "validate" /\ items = 0 /\ refused = FALSE /\ magic = {} /\ issued = {}
        /\ loaded = "none" /\ err = FALSE
    BY DEF Init
  <2> QED BY <1>1, <2>1, <2>2, <2>4, <2>5 DEF TypeOK
<1>3. Phases
  BY <1>1 DEF Init, Phases
<1>4. RegisteredAreValid /\ LoadedIsIssued /\ OneManager /\ CacheIsSound
  BY <1>1 DEF Init, RegisteredAreValid, LoadedIsIssued, OneManager, CacheIsSound
<1>5. UsableIsFound
  BY DEF Init, UsableIsFound, Idle
<1> QED BY <1>2, <1>3, <1>4, <1>5 DEF IInv

LEMMA StutterKeeps ==
    ASSUME IInv, UNCHANGED vars
    PROVE  IInv'
BY DEF vars, IInv, TypeOK, Phases, RegisteredAreValid, LoadedIsIssued, OneManager, CacheIsSound,
       UsableIsFound, Registered, CoveredBy, Valid

LEMMA NextKeeps == IInv /\ [Next]_vars => IInv'
<1> SUFFICES ASSUME IInv, [Next]_vars PROVE IInv'
  OBVIOUS
<1>1. CASE LoadStep
  BY <1>1, ValidateStep, LoadStepKeeps DEF LoadStep
<1>2. CASE VHostStep
  BY <1>2, VHostStepKeeps
<1>3. CASE \E h \in Handshakes : HandshakeStep(h)
  BY <1>3, HandshakeStepKeeps
<1>4. CASE Quiet \/ UNCHANGED vars
  BY <1>4, StutterKeeps DEF Quiet
<1> QED BY <1>1, <1>2, <1>3, <1>4 DEF Next

LEMMA Inductive == Spec => []IInv
<1> QED BY InitIInv, NextKeeps, PTL DEF Spec

-----------------------------------------------------------------------------
(* The state keeps its shape: wildcards with an instance are registered,   *)
(* those with a certificate have an instance, hosts and cache hold what    *)
(* they should.                                                            *)
THEOREM TypeCorrect == Spec => []TypeOK
<1>1. IInv => TypeOK
  BY DEF IInv
<1> QED BY <1>1, Inductive, PTL

(* LoadFromConfig (wildcard.go) reports success only if all of its         *)
(* wildcards got their certificate.                                        *)
THEOREM LoadIsIssued == Spec => []LoadedIsIssued
<1>1. IInv => LoadedIsIssued
  BY DEF IInv
<1> QED BY <1>1, Inductive, PTL

(* What validateConfig (wildcard.go) accepts has the email the issuers     *)
(* LoadFromConfig makes of it need.                                        *)
THEOREM ValidHasEmail == Spec => []ZeroSslHasEmail
<1>1. ASSUME NEW wc, Valid(wc), "ZeroSSL" \notin {wc.ca, wc.backup}, "zerossl" \in Issuers(wc)
      PROVE  wc.email
  <2>1. CASE "zerossl" = IF wc.ca = "" THEN "letsencrypt" ELSE Lower(wc.ca)
    <3>1. wc.ca = "zerossl"
      BY <1>1, <2>1 DEF Lower
    <3> QED BY <1>1, <3>1 DEF Valid
  <2>2. CASE wc.backupOn /\ "zerossl" = IF wc.backup = "" THEN "zerossl" ELSE Lower(wc.backup)
    <3>1. wc.backup \in {"", "zerossl"}
      BY <1>1, <2>2 DEF Lower
    <3> QED BY <1>1, <2>2, <3>1 DEF Valid
  <2> QED BY <1>1, <2>1, <2>2 DEF Issuers
<1>2. IInv => ZeroSslHasEmail
  BY <1>1 DEF IInv, RegisteredAreValid, ZeroSslHasEmail
<1> QED BY <1>2, Inductive, PTL

(* No host without files has an instance for a name a wildcard covers:     *)
(* config.go decides after the manager is complete.                        *)
THEOREM OneManagerPerName == Spec => []OneManager
<1>1. IInv => OneManager
  BY DEF IInv
<1> QED BY <1>1, Inductive, PTL

(* GetCertificate (wildcard.go) returns nil only if no instance covers the *)
(* name, for any number of handshakes and any order of the map.            *)
THEOREM FindsUsable == Spec => []UsableIsFound
<1>1. IInv => UsableIsFound
  BY DEF IInv
<1> QED BY <1>1, Inductive, PTL

(* An entry of the cache of GetCertificate (wildcard.go) never changes.    *)
THEOREM AnswersAreStable == Spec => AnswerIsStable
<1> DEFINE Stable == \A n \in DOMAIN certMap : n \in DOMAIN certMap' /\ certMap'[n] = certMap[n]
<1>1. IInv /\ [Next]_vars => [Stable]_vars
  <2> SUFFICES ASSUME IInv, Next PROVE Stable
    OBVIOUS
  <2>1. CASE LoadStep \/ VHostStep \/ Quiet
    <3>1. certMap' = certMap
      BY <2>1 DEF LoadStep, Validate, NothingToLoad, ValidationFails, SetUp, Obtain, ObtainFails,
                  Obtained, VHostStep, VHostOffloads, VHostFails, VHostPasses, VHostIs,
                  ReadConfigStops, ReadConfigReturns, Quiet, vars
    <3> QED BY <3>1
  <2>2. CASE \E h \in Handshakes : HandshakeStep(h)
    BY <2>2, CacheStep
  <2> QED BY <2>1, <2>2 DEF Next
<1> QED BY <1>1, Inductive, PTL DEF Spec, AnswerIsStable

-----------------------------------------------------------------------------
(* What a handshake is given.                                              *)

(* What GetCertificate returned matches the name.                          *)
FoundMatches ==
    \A h \in Handshakes :
        hs[h].at = "found" /\ hs[h].got # None => hs[h].got \in CoveredBy(hs[h].name) \cap magic

Answered == FoundMatches /\ ServedWhenLoaded

(* The certificate chosen, once all that were asked for are there.         *)
LEMMA PresentServes ==
    ASSUME IInv, FoundMatches, NEW h \in Handshakes, hs[h].at = "found",
           "failed" \in Presentable(h)
    PROVE  /\ vhosts[hs[h].name].tls # "files"
           /\ loaded = "ok" =>
                \/ CoveredBy(hs[h].name) = {}
                \/ \E w \in CoveredBy(hs[h].name) : <<w, hs[h].name>> \notin Fits
<1> DEFINE own == /\ hs[h].got \in issued
                  /\ <<hs[h].got, hs[h].name>> \in Fits
<1>1. ~own
  <2>1. "failed" \notin issued
    BY NoneAssumption DEF IInv, TypeOK
  <2> QED BY <2>1 DEF Presentable
<1>2. vhosts[hs[h].name].tls # "files"
  BY <1>1 DEF Presentable
<1>3. ASSUME loaded = "ok", hs[h].got = None PROVE CoveredBy(hs[h].name) = {}
  BY <1>3 DEF IInv, UsableIsFound, LoadedIsIssued, CoveredBy
<1>4. ASSUME loaded = "ok", hs[h].got # None
      PROVE  \E w \in CoveredBy(hs[h].name) : <<w, hs[h].name>> \notin Fits
  <2>1. hs[h].got \in CoveredBy(hs[h].name) \cap issued
    BY <1>4 DEF IInv, FoundMatches, LoadedIsIssued
  <2> QED BY <1>1, <2>1
<1> QED BY <1>2, <1>3, <1>4

LEMMA HandshakeAnswered ==
    ASSUME IInv, Answered, NEW h \in Handshakes, HandshakeStep(h)
    PROVE  Answered'
<1> DEFINE FoundWell(r) == r.at = "found" /\ r.got # None => r.got \in CoveredBy(r.name) \cap magic
           ServedWell(r) ==
             loaded = "ok" /\ r.at = "done" /\ r.got = "failed" =>
                 /\ vhosts[r.name].tls # "files"
                 /\ \/ CoveredBy(r.name) = {}
                    \/ \E w \in CoveredBy(r.name) : <<w, r.name>> \notin Fits
<1>1. UNCHANGED <<wildcards, magic, loaded, vhosts>>
  BY HandshakeFrame DEF manager
<1>2. hs \in [Handshakes -> [at : {"idle", "lookup", "miss", "found", "done"},
                             name : Names \cup {None},
                             got : Wildcards \cup {None, "own", "failed"}]]
  BY DEF IInv, TypeOK
<1>3. \A g \in Handshakes : g # h => hs'[g] = hs[g]
  BY <1>2 DEF HandshakeStep, Hello, LookUp, CachedMeanwhile, Match, NoMatch, Present, End, Goes
<1>4. ASSUME NEW at, NEW got, Goes(h, at, got)
      PROVE  hs'[h].at = at /\ hs'[h].name = hs[h].name /\ hs'[h].got = got
  BY <1>2, <1>4 DEF Goes
<1>5. FoundWell(hs'[h]) /\ ServedWell(hs'[h])
  <2>1. CASE \E n \in Names : Hello(h, n)
    <3>1. hs'[h].at = "lookup"
      BY <1>2, <2>1 DEF Hello
    <3> QED BY <3>1
  <2>2. ASSUME NEW w \in CoveredBy(hs[h].name), Goes(h, "found", Instance(w))
        PROVE  FoundWell(hs'[h]) /\ ServedWell(hs'[h])
    BY <1>4, <2>2 DEF Instance
  <2>3. CASE LookUp(h)
    <3>1. CASE hs[h].name \in DOMAIN certMap
      <4>1. certMap[hs[h].name] \in CoveredBy(hs[h].name)
        BY <3>1 DEF IInv, CacheIsSound
      <4> QED BY <2>2, <2>3, <3>1, <4>1 DEF LookUp
    <3>2. CASE hs[h].name \notin DOMAIN certMap
      BY <1>4, <2>3, <3>2 DEF LookUp
    <3> QED BY <3>1, <3>2
  <2>4. CASE CachedMeanwhile(h)
    <3>1. certMap[hs[h].name] \in CoveredBy(hs[h].name)
      BY <2>4 DEF CachedMeanwhile, IInv, CacheIsSound
    <3> QED BY <2>2, <2>4, <3>1 DEF CachedMeanwhile
  <2>5. CASE Match(h)
    BY <2>2, <2>5 DEF Match
  <2>6. CASE NoMatch(h)
    BY <1>4, <2>6 DEF NoMatch
  <2>7. CASE Present(h)
    <3>1. PICK c \in Presentable(h) : Goes(h, "done", c)
      BY <2>7 DEF Present
    <3>2. hs'[h].at = "done" /\ hs'[h].name = hs[h].name /\ hs'[h].got = c
      BY <1>4, <3>1
    <3>3. hs[h].at = "found"
      BY <2>7 DEF Present
    <3>4. c = "failed" => /\ vhosts[hs[h].name].tls # "files"
                          /\ loaded = "ok" =>
                               \/ CoveredBy(hs[h].name) = {}
                               \/ \E w \in CoveredBy(hs[h].name) : <<w, hs[h].name>> \notin Fits
      BY <3>1, <3>3, PresentServes DEF Answered
    <3> QED BY <3>2, <3>4
  <2>8. CASE End(h)
    <3>1. hs'[h] = Idle
      BY <1>2, <2>8 DEF End
    <3> QED BY <3>1 DEF Idle
  <2> QED BY <2>1, <2>3, <2>4, <2>5, <2>6, <2>7, <2>8 DEF HandshakeStep
<1>6. \A g \in Handshakes : FoundWell(hs'[g]) /\ ServedWell(hs'[g])
  <2>1. ASSUME NEW g \in Handshakes, g # h PROVE FoundWell(hs'[g]) /\ ServedWell(hs'[g])
    <3>1. FoundWell(hs[g]) /\ ServedWell(hs[g])
      BY DEF Answered, FoundMatches, ServedWhenLoaded
    <3>2. hs'[g] = hs[g]
      BY <1>3, <2>1
    <3> HIDE DEF FoundWell, ServedWell
    <3> QED BY <3>1, <3>2
  <2> HIDE DEF FoundWell, ServedWell
  <2> QED BY <1>5, <2>1
<1> QED BY <1>1, <1>6 DEF Answered, FoundMatches, ServedWhenLoaded, CoveredBy, Registered

(* Outside of a handshake nothing is answered.                             *)
LEMMA NextAnswered == IInv /\ Answered /\ [Next]_vars => Answered'
<1> SUFFICES ASSUME IInv, Answered, [Next]_vars PROVE Answered'
  OBVIOUS
<1>1. CASE LoadStep \/ VHostStep
  <2>1. pc # "serving" /\ hs' = hs
    BY <1>1 DEF LoadStep, Validate, NothingToLoad, ValidationFails, SetUp, Obtain, ObtainFails,
                Obtained, VHostStep, VHostOffloads, VHostFails, VHostPasses, VHostIs,
                ReadConfigStops, ReadConfigReturns
  <2>2. \A h \in Handshakes : hs'[h].at = "idle"
    BY <2>1 DEF IInv, Phases, Idle
  <2> QED BY <2>2 DEF Answered, FoundMatches, ServedWhenLoaded
<1>2. CASE \E h \in Handshakes : HandshakeStep(h)
  BY <1>2, HandshakeAnswered
<1>3. CASE Quiet \/ UNCHANGED vars
  BY <1>3 DEF Quiet, vars, Answered, FoundMatches, ServedWhenLoaded, CoveredBy, Registered
<1> QED BY <1>1, <1>2, <1>3 DEF Next

(* Once all certificates are there, whom a wildcard fits and who has files *)
(* is served (wildcard.go, tls.go), whatever wildcards and hosts there are *)
(* and however the handshakes meet at the cache.                           *)
THEOREM LoadedServes == Spec => []ServedWhenLoaded
<1>1. Init => Answered
  BY DEF Init, Answered, FoundMatches, ServedWhenLoaded, Idle
<1>2. Answered => ServedWhenLoaded
  BY DEF Answered
<1> QED BY <1>1, <1>2, NextAnswered, Inductive, PTL DEF Spec
=============================================================================
