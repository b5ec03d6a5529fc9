----------------------------- MODULE DohServer -----------------------------
(***************************************************************************)
(* The DNS-over-HTTPS handler: ServeHTTP of doh_server.go, one goroutine   *)
(* for each request, the cache all of them share (dns/cache.go) and the    *)
(* goroutine that cleans it up, once.  A step is what a goroutine does     *)
(* between two points where another can come in: the cache's lock is taken *)
(* and given back in steps of their own.                                   *)
(*                                                                         *)
(* Of an answer the model keeps which question it answers and until when   *)
(* it may be handed out.  The upstream server, and the HTTP server that    *)
(* calls the handler, are external.  A request that cannot be read or      *)
(* unpacked touches nothing and is left out.                               *)
(***************************************************************************)
EXTENDS Integers

CONSTANTS
    Handlers,     \* the goroutines that may run ServeHTTP at one time
    Names,        \* a name with the type that is asked for
    Nets,         \* the client's network, as the ECS option gives it
    Ttls,         \* of the first record of an answer
    TenMinutes,   \* how long the cleaner sleeps and an empty answer is kept
    MaxTime,      \* bound: the clock stops here
    MaxRequests   \* bound: how many requests there are

Question == [name : Names, net : Nets]

NoQuestion == [name |-> "none", net |-> "none"]

Nobody == "nobody"

Cleaner == "cleaner"

ASSUME TtlsAssumption == Ttls \subseteq Nat
ASSUME BoundsAssumption == {TenMinutes, MaxTime, MaxRequests} \subseteq Nat
ASSUME HandlersAssumption == Nobody \notin Handlers /\ Cleaner \notin Handlers
ASSUME QuestionAssumption == NoQuestion \notin Question

VARIABLES
    now,       \* the clock
    received,  \* how many requests have come in
    pc,        \* where each handler is
    begun,     \* history: when its request came in
    question,  \* the first question of the request
    entry,     \* what its Get read, its Exchange brought, or it packs
    cache,     \* Cache.cache
    readers,   \* who holds Cache.lock for reading
    writer,    \* who holds it for writing
    cleaner,   \* where cleanUp is
    cutoff,    \* its now
    doomed,    \* its del
    late       \* history: the keys put in between its scan and its delete

vars == <<now, received, pc, begun, question, entry, cache, readers, writer, cleaner,
          cutoff, doomed, late>>

lock == <<readers, writer>>

sweep == <<cleaner, cutoff, doomed, late>>

request == <<received, begun, question>>

(* The question an answer is to, and when it expires.                      *)
Entry == [answers : Question \cup {NoQuestion}, expire : Nat]

NoEntry == [answers |-> NoQuestion, expire |-> 0]

Init ==
    /\ now = 0
    /\ received = 0
    /\ pc = [h \in Handlers |-> "idle"]
    /\ begun = [h \in Handlers |-> 0]
    /\ question = [h \in Handlers |-> NoQuestion]
    /\ entry = [h \in Handlers |-> NoEntry]
    /\ cache = [k \in Question |-> NoEntry]
    /\ readers = {}
    /\ writer = Nobody
    /\ cleaner = "asleep"
    /\ cutoff = 0
    /\ doomed = {}
    /\ late = {}

(* sync.RWMutex.                                                           *)
RLock(a) == writer = Nobody /\ readers' = readers \cup {a} /\ UNCHANGED writer
RUnlock(a) == readers' = readers \ {a} /\ UNCHANGED writer
Lock(a) == writer = Nobody /\ readers = {} /\ writer' = a /\ UNCHANGED readers
Unlock(a) == writer = a /\ writer' = Nobody /\ UNCHANGED readers

Goto(h, from, to) == pc[h] = from /\ pc' = [pc EXCEPT ![h] = to]

Tick ==
    /\ now < MaxTime
    /\ now' = now + 1
    /\ UNCHANGED <<pc, request, entry, cache, lock, sweep>>

-----------------------------------------------------------------------------
(* ServeHTTP.                                                              *)

(* Mutant: the client's network is not part of the key.                    *)
KeyWithoutNet(q) == [q EXCEPT !.net = CHOOSE n \in Nets : TRUE]

(* msgKey.                                                                 *)
KeyOf(q) == q

(* A message need not hold a question; it is then sent on as it is.        *)
Receive(h) ==
    /\ received < MaxRequests
    /\ received' = received + 1
    /\ \E q \in Question \cup {NoQuestion} :
         /\ question' = [question EXCEPT ![h] = q]
         /\ Goto(h, "idle", IF q = NoQuestion THEN "exchange" ELSE "lookup")
    /\ begun' = [begun EXCEPT ![h] = now]
    /\ UNCHANGED <<now, entry, cache, lock, sweep>>

(* Get.                                                                    *)
Lookup(h) ==
    /\ Goto(h, "lookup", "looked")
    /\ RLock(h)
    /\ entry' = [entry EXCEPT ![h] = cache[KeyOf(question[h])]]
    /\ UNCHANGED <<now, request, cache, sweep>>

(* Mutant: what is found is handed out however old it is.                  *)
HitAnyAge(h) ==
    /\ entry[h] # NoEntry
    /\ Goto(h, "looked", "answer")
    /\ RUnlock(h)
    /\ UNCHANGED <<now, request, entry, cache, sweep>>

(* The age is looked at after the RUnlock.                                 *)
Hit(h) ==
    /\ entry[h] # NoEntry
    /\ entry[h].expire > now
    /\ Goto(h, "looked", "answer")
    /\ RUnlock(h)
    /\ UNCHANGED <<now, request, entry, cache, sweep>>

(* Mutant: a miss returns without the RUnlock.                             *)
MissKeepsLock(h) ==
    /\ entry[h] = NoEntry \/ entry[h].expire <= now
    /\ Goto(h, "looked", "exchange")
    /\ entry' = [entry EXCEPT ![h] = NoEntry]
    /\ UNCHANGED <<now, request, cache, lock, sweep>>

Miss(h) ==
    /\ entry[h] = NoEntry \/ entry[h].expire <= now
    /\ Goto(h, "looked", "exchange")
    /\ RUnlock(h)
    /\ entry' = [entry EXCEPT ![h] = NoEntry]
    /\ UNCHANGED <<now, request, cache, sweep>>

(* The handler returns: the request has its answer, or none.               *)
Return(h, from) ==
    /\ Goto(h, from, "idle")
    /\ begun' = [begun EXCEPT ![h] = 0]
    /\ question' = [question EXCEPT ![h] = NoQuestion]
    /\ entry' = [entry EXCEPT ![h] = NoEntry]
    /\ UNCHANGED <<now, received, cache, lock, sweep>>

(* Exchange.  Over HTTPS it has no timeout.                                *)
ExchangeFails(h) == Return(h, "exchange")

(* The time of Put is that of the answer.  An answer without records is    *)
(* kept for ten minutes, whatever it says.                                 *)
Exchange(h) ==
    /\ Goto(h, "exchange", IF question[h] = NoQuestion THEN "answer" ELSE "put")
    /\ \E life \in Ttls \cup {TenMinutes} :
         entry' = [entry EXCEPT ![h] = [answers |-> question[h], expire |-> now + life]]
    /\ UNCHANGED <<now, request, cache, lock, sweep>>

Put(h) ==
    /\ Goto(h, "put", "stored")
    /\ Lock(h)
    /\ cache' = [cache EXCEPT ![KeyOf(question[h])] = entry[h]]
    /\ late' = IF cleaner \in {"scanned", "delete"}
               THEN late \cup {KeyOf(question[h])} ELSE late
    /\ UNCHANGED <<now, request, entry, cleaner, cutoff, doomed>>

Stored(h) ==
    /\ Goto(h, "stored", "answer")
    /\ Unlock(h)
    /\ UNCHANGED <<now, request, entry, cache, sweep>>

(* Pack and Write, either of which may fail.                               *)
Answer(h) == Return(h, "answer")

-----------------------------------------------------------------------------
(* The goroutine of NewCache.                                              *)

Sweeps(from, to) == cleaner = from /\ cleaner' = to

Wake ==
    /\ now >= TenMinutes
    /\ Sweeps("asleep", "scan")
    /\ cutoff' = now
    /\ UNCHANGED <<now, pc, request, entry, cache, lock, doomed, late>>

(* Mutant: the comparison is the wrong way round.                          *)
ScanLive ==
    /\ Sweeps("scan", "scanned")
    /\ RLock(Cleaner)
    /\ doomed' = {k \in Question : cache[k] # NoEntry /\ cache[k].expire > cutoff}
    /\ UNCHANGED <<now, pc, request, entry, cache, cutoff, late>>

Scan ==
    /\ Sweeps("scan", "scanned")
    /\ RLock(Cleaner)
    /\ doomed' = {k \in Question : cache[k] # NoEntry /\ cache[k].expire < cutoff}
    /\ UNCHANGED <<now, pc, request, entry, cache, cutoff, late>>

(* Its variables end with it.                                              *)
CleanedUp == cutoff' = 0 /\ doomed' = {} /\ late' = {}

Scanned ==
    /\ RUnlock(Cleaner)
    /\ IF doomed = {}
       THEN Sweeps("scanned", "done") /\ CleanedUp
       ELSE Sweeps("scanned", "delete") /\ UNCHANGED <<cutoff, doomed, late>>
    /\ UNCHANGED <<now, pc, request, entry, cache>>

Delete ==
    /\ Sweeps("delete", "deleted")
    /\ Lock(Cleaner)
    /\ cache' = [k \in Question |-> IF k \in doomed THEN NoEntry ELSE cache[k]]
    /\ CleanedUp
    /\ UNCHANGED <<now, pc, request, entry>>

Deleted ==
    /\ Sweeps("deleted", "done")
    /\ Unlock(Cleaner)
    /\ UNCHANGED <<now, pc, request, entry, cache, cutoff, doomed, late>>

-----------------------------------------------------------------------------
(* What a handler does without waiting for a client or for upstream.       *)
Handler(h) == Lookup(h) \/ Hit(h) \/ Miss(h) \/ Put(h) \/ Stored(h) \/ Answer(h)

CleanUp == Wake \/ Scan \/ Scanned \/ Delete \/ Deleted

Upstream(h) == Exchange(h) \/ ExchangeFails(h)

Next ==
    \/ Tick
    \/ \E h \in Handlers : Receive(h) \/ Handler(h) \/ Upstream(h)
    \/ CleanUp

Spec == Init /\ [][Next]_vars

(* Goroutines run.  Nothing is assumed of upstream, which may never        *)
(* answer, nor of who gets a lock that several wait for.                   *)
Fairness == (\A h \in Handlers : WF_vars(Handler(h))) /\ WF_vars(CleanUp)

FairSpec == Spec /\ Fairness

-----------------------------------------------------------------------------
TypeOK ==
    /\ now \in Nat
    /\ received \in Nat
    /\ pc \in [Handlers -> {"idle", "lookup", "looked", "exchange", "put",
                            "stored", "answer"}]
    /\ begun \in [Handlers -> Nat]
    /\ question \in [Handlers -> Question \cup {NoQuestion}]
    /\ entry \in [Handlers -> Entry]
    /\ cache \in [Question -> Entry]
    /\ readers \subseteq Handlers \cup {Cleaner}
    /\ writer \in Handlers \cup {Cleaner, Nobody}
    /\ cleaner \in {"asleep", "scan", "scanned", "delete", "deleted", "done"}
    /\ cutoff \in Nat
    /\ doomed \subseteq Question
    /\ late \subseteq Question
    /\ writer # Nobody => readers = {}

(* Whatever the handlers and cleanUp do to the cache at the same time      *)
(* (cache.go), what a handler packs is an answer to the question of its    *)
(* own request, asked from the same network, and one that had not expired  *)
(* when the request came in.  An answer with a TTL of zero is for the      *)
(* request that fetched it only.                                           *)
AnswerIsLive ==
    \A h \in Handlers : pc[h] = "answer" =>
        /\ entry[h].answers = question[h]
        /\ entry[h].expire >= begun[h]

(* cleanUp (cache.go) reads the map and deletes from it under two locks.   *)
(* All it can lose of what has not expired is an entry that was put in     *)
(* between, and such a loss is the only way a live entry goes.             *)
CleanUpSpares ==
    [][\A k \in Question :
         cache[k] # NoEntry /\ cache'[k] = NoEntry =>
             cache[k].expire < now \/ k \in late]_vars

(* A request waits for nothing but upstream: with other requests hanging   *)
(* in Exchange (doh.go sets no timeout), or the cleaner at work, it gets   *)
(* to its own Exchange or to its end.                                      *)
OnlyUpstreamDelays ==
    \A h \in Handlers : pc[h] # "idle" ~> pc[h] \in {"idle", "exchange"}
=============================================================================
