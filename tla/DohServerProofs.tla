--------------------------- MODULE DohServerProofs --------------------------
(***************************************************************************)
(* What DohServer satisfies for any number of handlers, questions and      *)
(* requests, and however long it runs.                                     *)
(***************************************************************************)
EXTENDS DohServer, TLAPS

(* What is in the cache is an answer to the question it is kept under.     *)
Keyed == \A k \in Question : cache[k] = NoEntry \/ cache[k].answers = k

(* What a handler has in hand is an answer to its own question, and, from  *)
(* where it is not compared with the clock any more, a live one.           *)
InHand(h) ==
    /\ begun[h] <= now
    /\ pc[h] \in {"lookup", "looked", "put", "stored"} => question[h] \in Question
    /\ pc[h] = "looked" => entry[h] = NoEntry \/ entry[h].answers = question[h]
    /\ pc[h] \in {"put", "stored", "answer"} =>
         /\ entry[h].answers = question[h]
         /\ entry[h].expire >= begun[h]

(* What cleanUp is about to delete had expired, or was put there since.    *)
Chosen ==
    /\ cutoff <= now
    /\ cleaner \in {"scanned", "delete"} =>
         \A k \in doomed : cache[k].expire < cutoff \/ k \in late

IInv == TypeOK /\ Keyed /\ (\A h \in Handlers : InHand(h)) /\ Chosen

LEMMA NoEntryType == NoEntry \in Entry /\ NoEntry.answers = NoQuestion
BY DEF NoEntry, Entry

LEMMA InitIInv == Init => IInv
<1> SUFFICES ASSUME Init PROVE IInv
  OBVIOUS
<1>1. TypeOK
  BY NoEntryType DEF Init, TypeOK
<1>2. Keyed /\ Chosen
  BY DEF Init, Keyed, Chosen
<1>3. ASSUME NEW h \in Handlers PROVE InHand(h)
  BY DEF Init, InHand
<1>4. QED
  BY <1>1, <1>2, <1>3 DEF IInv

LEMMA TickIInv == IInv /\ Tick => IInv'
<1> SUFFICES ASSUME IInv, Tick PROVE IInv'
  OBVIOUS
<1> USE DEF IInv, Tick, request, lock, sweep
<1>1. TypeOK'
  BY DEF TypeOK
<1>2. Keyed' /\ Chosen'
  BY DEF TypeOK, Keyed, Chosen
<1>3. ASSUME NEW h \in Handlers PROVE InHand(h)'
  BY DEF TypeOK, InHand
<1>4. QED
  BY <1>1, <1>2, <1>3

(* A handler that leaves the cache alone.                                  *)
LEMMA ReceiveIInv == ASSUME IInv, NEW h \in Handlers, Receive(h) PROVE IInv'
<1> USE DEF IInv, Receive, Goto, lock, sweep
<1>1. TypeOK'
  BY DEF TypeOK
<1>2. Keyed' /\ Chosen'
  BY DEF Keyed, Chosen
<1>3. ASSUME NEW g \in Handlers PROVE InHand(g)'
  BY DEF TypeOK, InHand
<1>4. QED
  BY <1>1, <1>2, <1>3

LEMMA LookupIInv == ASSUME IInv, NEW h \in Handlers, Lookup(h) PROVE IInv'
<1> USE DEF IInv, Lookup, Goto, RLock, KeyOf, request, sweep
<1>1. question[h] \in Question
  BY DEF InHand, TypeOK
<1>2. TypeOK'
  BY <1>1 DEF TypeOK
<1>3. Keyed' /\ Chosen'
  BY DEF Keyed, Chosen
<1>4. ASSUME NEW g \in Handlers PROVE InHand(g)'
  BY <1>1 DEF TypeOK, InHand, Keyed
<1>5. QED
  BY <1>2, <1>3, <1>4

LEMMA LookedIInv == ASSUME IInv, NEW h \in Handlers, Hit(h) \/ Miss(h) PROVE IInv'
<1> USE DEF IInv, Goto, RUnlock, request, sweep
<1>1. TypeOK'
  BY NoEntryType DEF Hit, Miss, TypeOK
<1>2. Keyed' /\ Chosen'
  BY DEF Hit, Miss, Keyed, Chosen
<1>3. ASSUME NEW g \in Handlers PROVE InHand(g)'
  <2>1. CASE Hit(h)
    <3>1. entry[h] \in Entry /\ entry[h].expire \in Nat /\ begun[g] \in Nat /\ now \in Nat
      BY DEF TypeOK, Entry
    <3>2. QED
      BY <2>1, <3>1 DEF Hit, TypeOK, InHand
  <2>2. CASE Miss(h)
    BY <2>2 DEF Miss, TypeOK, InHand
  <2>3. QED
    BY <2>1, <2>2
<1>4. QED
  BY <1>1, <1>2, <1>3

LEMMA ReturnIInv == ASSUME IInv, NEW h \in Handlers, NEW from, Return(h, from) PROVE IInv'
<1> USE DEF IInv, Return, Goto, lock, sweep
<1>1. TypeOK'
  BY NoEntryType DEF TypeOK
<1>2. Keyed' /\ Chosen'
  BY DEF Keyed, Chosen
<1>3. ASSUME NEW g \in Handlers PROVE InHand(g)'
  BY DEF TypeOK, InHand
<1>4. QED
  BY <1>1, <1>2, <1>3

LEMMA ExchangeIInv == ASSUME IInv, NEW h \in Handlers, Exchange(h) PROVE IInv'
<1> USE DEF IInv, Exchange, Goto, request, lock, sweep
<1>1. PICK life \in Ttls \cup {TenMinutes} :
        entry' = [entry EXCEPT ![h] = [answers |-> question[h], expire |-> now + life]]
  OBVIOUS
<1>2. life \in Nat /\ now + life \in Nat /\ now + life >= now
  BY TtlsAssumption, BoundsAssumption DEF TypeOK
<1>3. TypeOK'
  BY <1>1, <1>2 DEF TypeOK, Entry
<1>4. Keyed' /\ Chosen'
  BY DEF Keyed, Chosen
<1>5. ASSUME NEW g \in Handlers PROVE InHand(g)'
  <2>1. CASE g = h
    BY <1>1, <1>2, <2>1 DEF TypeOK, InHand
  <2>2. CASE g # h
    BY <1>1, <2>2 DEF TypeOK, InHand
  <2>3. QED
    BY <2>1, <2>2
<1>6. QED
  BY <1>3, <1>4, <1>5

LEMMA PutIInv == ASSUME IInv, NEW h \in Handlers, Put(h) PROVE IInv'
<1> USE DEF IInv, Put, Goto, Lock, KeyOf, request
<1>1. question[h] \in Question
  BY DEF InHand, TypeOK
<1>2. TypeOK'
  BY <1>1 DEF TypeOK
<1>3. Keyed'
  BY <1>1 DEF TypeOK, Keyed, InHand
<1>4. Chosen'
  BY <1>1 DEF TypeOK, Chosen
<1>5. ASSUME NEW g \in Handlers PROVE InHand(g)'
  BY DEF TypeOK, InHand
<1>6. QED
  BY <1>2, <1>3, <1>4, <1>5

LEMMA StoredIInv == ASSUME IInv, NEW h \in Handlers, Stored(h) PROVE IInv'
<1> USE DEF IInv, Stored, Goto, Unlock, request, sweep
<1>1. TypeOK'
  BY DEF TypeOK
<1>2. Keyed' /\ Chosen'
  BY DEF Keyed, Chosen
<1>3. ASSUME NEW g \in Handlers PROVE InHand(g)'
  BY DEF TypeOK, InHand
<1>4. QED
  BY <1>1, <1>2, <1>3

LEMMA CleanUpIInv == IInv /\ CleanUp => IInv'
<1> SUFFICES ASSUME IInv, CleanUp PROVE IInv'
  OBVIOUS
<1> USE DEF IInv, CleanUp, Wake, Scan, Scanned, Delete, Deleted, Sweeps, CleanedUp, RLock,
            RUnlock, Lock, Unlock, request, lock
<1>1. TypeOK'
  BY NoEntryType DEF TypeOK
<1>2. Keyed'
  BY DEF TypeOK, Keyed
<1>3. Chosen'
  BY DEF TypeOK, Chosen
<1>4. ASSUME NEW g \in Handlers PROVE InHand(g)'
  BY DEF TypeOK, InHand
<1>5. QED
  BY <1>1, <1>2, <1>3, <1>4

LEMMA NextIInv == IInv /\ [Next]_vars => IInv'
<1> SUFFICES ASSUME IInv, [Next]_vars PROVE IInv'
  OBVIOUS
<1>1. ASSUME NEW h \in Handlers, Receive(h) \/ Handler(h) \/ Upstream(h) PROVE IInv'
  BY <1>1, ReceiveIInv, LookupIInv, LookedIInv, ReturnIInv, ExchangeIInv, PutIInv,
     StoredIInv
  DEF Handler, Upstream, ExchangeFails, Answer
<1>2. CASE UNCHANGED vars
  BY <1>2 DEF IInv, TypeOK, Keyed, InHand, Chosen, vars
<1>3. QED
  BY <1>1, <1>2, TickIInv, CleanUpIInv DEF Next

LEMMA Inductive == Spec => []IInv
BY InitIInv, NextIInv, PTL DEF Spec

(* DohServer stays within its types, and the lock of the cache keeps a     *)
(* writer alone.                                                           *)
THEOREM DohServerTypes == Spec => []TypeOK
BY Inductive, PTL DEF IInv

(* What a handler packs answers the question of its own request, and had   *)
(* not expired when the request came in.                                   *)
THEOREM LiveAnswers == Spec => []AnswerIsLive
<1>1. IInv => AnswerIsLive
  BY DEF IInv, InHand, AnswerIsLive
<1>2. QED
  BY <1>1, Inductive, PTL

(* Nothing empties a place in the cache but the Delete of cleanUp.         *)
LEMMA OnlyDeleteEmpties ==
  ASSUME IInv, [Next]_vars, NEW k \in Question, cache[k] # NoEntry, cache'[k] = NoEntry
  PROVE  Delete /\ k \in doomed
<1>1. cache' # cache
  OBVIOUS
<1>2. ASSUME NEW h \in Handlers, Put(h) PROVE FALSE
  <2>1. question[h] \in Question /\ entry[h].answers = question[h]
    BY <1>2 DEF IInv, InHand, Put, Goto, TypeOK
  <2>2. entry[h] # NoEntry
    BY <2>1, QuestionAssumption, NoEntryType
  <2>3. QED
    BY <1>2, <2>1, <2>2 DEF Put, KeyOf, IInv, TypeOK
<1>3. Delete
  BY <1>1, <1>2
  DEF Next, Tick, Receive, Handler, Upstream, CleanUp, Lookup, Hit, Miss, Return, Stored,
      Answer, Exchange, ExchangeFails, Wake, Scan, Scanned, Deleted, vars
<1>4. QED
  BY <1>3 DEF Delete

(* cleanUp takes only what has expired and what was put in while it was    *)
(* between its two locks, and nothing else takes anything.                 *)
THEOREM CleanUpTakesExpired == Spec => CleanUpSpares
<1>1. ASSUME IInv, [Next]_vars
      PROVE  [\A k \in Question : cache[k] # NoEntry /\ cache'[k] = NoEntry =>
                cache[k].expire < now \/ k \in late]_vars
  <2>1. SUFFICES ASSUME NEW k \in Question, cache[k] # NoEntry, cache'[k] = NoEntry
                 PROVE  cache[k].expire < now \/ k \in late
    OBVIOUS
  <2>2. Delete /\ k \in doomed
    BY <1>1, <2>1, OnlyDeleteEmpties
  <2>3. cache[k].expire \in Nat /\ cutoff \in Nat /\ now \in Nat
    BY <1>1 DEF IInv, TypeOK, Entry
  <2>4. QED
    BY <1>1, <2>2, <2>3 DEF IInv, Chosen, Delete, Sweeps
<1>2. QED
  BY <1>1, Inductive, PTL DEF Spec, CleanUpSpares
-----------------------------------------------------------------------------
(* The lock of the cache is held exactly where the code stands between     *)
(* taking it and giving it back: no request keeps it while it waits for    *)
(* upstream, packs its answer or has returned, and none of the ways out of *)
(* Get and cleanUp forgets it.                                             *)
LockFollows ==
    /\ \A h \in Handlers : /\ h \in readers <=> pc[h] = "looked"
                           /\ writer = h <=> pc[h] = "stored"
    /\ Cleaner \in readers <=> cleaner = "scanned"
    /\ writer = Cleaner <=> cleaner = "deleted"

LEMMA StepLock == IInv /\ LockFollows /\ [Next]_vars => LockFollows'
<1> SUFFICES ASSUME IInv, LockFollows, [Next]_vars PROVE LockFollows'
  OBVIOUS
<1> USE HandlersAssumption DEF IInv, TypeOK, LockFollows, Goto, Return, Nobody, Cleaner
<1>1. CASE UNCHANGED vars \/ Tick
  BY <1>1 DEF vars, Tick, lock, sweep
<1>2. ASSUME NEW h \in Handlers, Receive(h) \/ Upstream(h) \/ Answer(h)
      PROVE  LockFollows'
  BY <1>2 DEF Receive, Upstream, Exchange, ExchangeFails, Answer, lock, sweep
<1>3. ASSUME NEW h \in Handlers, Lookup(h) \/ Hit(h) \/ Miss(h) PROVE LockFollows'
  BY <1>3 DEF Lookup, Hit, Miss, RLock, RUnlock, sweep
<1>4. ASSUME NEW h \in Handlers, Put(h) \/ Stored(h) PROVE LockFollows'
  BY <1>4 DEF Put, Stored, Lock, Unlock, sweep
<1>5. CASE CleanUp
  BY <1>5 DEF CleanUp, Wake, Scan, Scanned, Delete, Deleted, Sweeps, RLock, RUnlock,
     Lock, Unlock, lock
<1>6. QED
  BY <1>1, <1>2, <1>3, <1>4, <1>5 DEF Next, Handler

(* Whoever waits for the cache waits for a goroutine that is about to give *)
(* it back, never for upstream (cache.go, doh.go).                         *)
THEOREM LockIsReleased == Spec => []LockFollows
<1>1. Init => LockFollows
  BY HandlersAssumption DEF Init, LockFollows, Nobody, Cleaner
<1>2. QED
  BY <1>1, Inductive, StepLock, PTL DEF Spec
=============================================================================
