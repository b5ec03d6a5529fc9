-------------------------- MODULE GenerationsProofs --------------------------
(***************************************************************************)
(* What Generations satisfies for any number of processes and of reloads   *)
(* that overlap.                                                           *)
(***************************************************************************)
EXTENDS Generations, FiniteSetTheorems, TLAPS

(* Only a process that is alive has anything, waits for anything or is     *)
(* about to leave.                                                         *)
DeadHaveNothing ==
    \A p \in Procs :
        /\ ~Alive(p) => /\ ~holds[p] /\ web[p] = "off" /\ redirect[p] = "off"
                        /\ pending[p] = {} /\ p \notin leaving /\ p \notin saved
        /\ cause[p] # "none" => pc[p] = "dead"

(* A reload waits for a younger process, which has the socket as long as   *)
(* it is alive.                                                            *)
ChildHasSocket ==
    \A p \in Procs : \A q \in pending[p] :
        q \in Procs /\ p < q /\ (Alive(q) => holds[q]) /\ pc[q] # "unborn"

Bad(q) == cause[q] \in OtherEnds

(* A younger process has the socket, or ended badly.                       *)
Followed(p) == \E q \in Procs : p < q /\ (holds[q] \/ Bad(q))

Chain == \A p \in Procs : cause[p] = "replaced" \/ p \in leaving => Followed(p)

(* A Web UI that tries has an attempt left.                                *)
Attempts ==
    \A p \in Procs :
        /\ pc[p] \in {"unborn", "inherit"} => tries[p] = 0 /\ web[p] = "off"
        /\ web[p] = "trying" => tries[p] < MaxTries

IInv == TypeOK /\ DeadHaveNothing /\ ChildHasSocket /\ Chain /\ Attempts

LEMMA InitIInv == Init => IInv
<1> SUFFICES ASSUME Init PROVE IInv
  OBVIOUS
<1>1. TypeOK
  <2>1. 1 \in Procs /\ 0 \in 0..MaxTries
    BY MaxGenAssumption, MaxTriesAssumption DEF Procs
  <2>2. \A p \in Procs : pc[p] = "unborn" <=> p > spawned
    BY DEF Init, Procs
  <2>3. /\ pc \in [Procs -> {"unborn", "inherit", "config", "redirect", "listen",
                             "serving", "dead"}]
        /\ tries \in [Procs -> 0..MaxTries]
    BY <2>1 DEF Init
  <2>4. QED
    BY <2>1, <2>2, <2>3 DEF Init, TypeOK
<1>2. DeadHaveNothing /\ ChildHasSocket /\ Chain /\ Attempts
  BY DEF Init, DeadHaveNothing, ChildHasSocket, Chain, Attempts, Alive
<1>3. QED
  BY <1>1, <1>2 DEF IInv

(* A process ends, of whatever: those that counted on its socket count on  *)
(* how it ended, or on those it counted on itself.                         *)
LEMMA DieIInv ==
  ASSUME IInv, NEW p \in Procs, Alive(p), NEW why, Die(p, why),
         \/ why \in OtherEnds
         \/ why = "replaced" /\ p \in leaving
  PROVE  IInv'
<1> USE DEF IInv, Die, origin
<1>1. TypeOK'
  <2>1. \A q \in Procs : pc'[q] = "unborn" <=> q > spawned
    BY DEF TypeOK, Alive
  <2>2. /\ holds' \in [Procs -> BOOLEAN]
        /\ pc' \in [Procs -> {"unborn", "inherit", "config", "redirect", "listen",
                              "serving", "dead"}]
        /\ cause' \in [Procs -> {"none", "replaced"} \cup OtherEnds]
    BY DEF TypeOK
  <2>3. pending' \in [Procs -> SUBSET Procs] /\ stranded' \subseteq Procs
    BY DEF TypeOK
  <2>4. QED
    BY <2>1, <2>2, <2>3 DEF TypeOK
<1>2. DeadHaveNothing'
  BY DEF TypeOK, DeadHaveNothing, Alive
<1>3. ChildHasSocket'
  BY DEF TypeOK, ChildHasSocket, Alive
<1>4. Chain'
  <2>1. ASSUME NEW r \in Procs, Followed(r) PROVE Followed(r)'
    <3>1. PICK q \in Procs : r < q /\ (holds[q] \/ Bad(q))
      BY <2>1 DEF Followed
    <3>2. CASE q # p
      BY <3>1, <3>2 DEF TypeOK, Followed, Bad
    <3>3. CASE q = p /\ why # "replaced"
      <4>1. Bad(p)'
        BY <3>3 DEF TypeOK, Bad
      <4>2. QED
        BY <3>1, <3>3, <4>1 DEF Followed
    <3>4. CASE q = p /\ why = "replaced"
      <4>1. p \in leaving
        BY <3>4 DEF OtherEnds, BootFailures
      <4>2. PICK s \in Procs : p < s /\ (holds[s] \/ Bad(s))
        BY <4>1 DEF Chain, Followed
      <4>3. s # p /\ r < s
        BY <3>1, <3>4, <4>2 DEF Procs
      <4>4. QED
        BY <4>2, <4>3 DEF TypeOK, Followed, Bad
    <3>5. QED
      BY <3>2, <3>3, <3>4
  <2>2. ASSUME NEW r \in Procs, (cause[r] = "replaced" \/ r \in leaving)' PROVE Followed(r)
    <3>1. CASE r = p
      BY <2>2, <3>1 DEF TypeOK, Chain, OtherEnds, BootFailures
    <3>2. CASE r # p
      BY <2>2, <3>2 DEF TypeOK, Chain
    <3>3. QED
      BY <3>1, <3>2
  <2>3. QED
    BY <2>1, <2>2 DEF Chain
<1>5. Attempts'
  BY DEF TypeOK, Attempts
<1>6. QED
  BY <1>1, <1>2, <1>3, <1>4, <1>5

(* A process is started: the youngest, and nobody has counted on it yet.   *)
LEMMA ForkTypes ==
  ASSUME IInv, NEW env \in BOOLEAN, NEW socket \in BOOLEAN, Fork(env, socket)
  PROVE  /\ spawned' = spawned + 1 /\ spawned' \in Procs
         /\ pc[spawned'] = "unborn"
         /\ pc' \in [Procs -> {"unborn", "inherit", "config", "redirect", "listen",
                               "serving", "dead"}]
         /\ marked' \in [Procs -> BOOLEAN]
         /\ holds' \in [Procs -> BOOLEAN]
         /\ holds'[spawned'] = socket /\ pc'[spawned'] = "inherit"
         /\ \A p \in Procs : p # spawned' => holds'[p] = holds[p] /\ pc'[p] = pc[p]
         /\ \A p \in Procs : pc'[p] = "unborn" <=> p > spawned'
<1> USE DEF IInv, Fork
<1>1. spawned' = spawned + 1 /\ spawned' \in Procs
  BY MaxGenAssumption DEF TypeOK, Procs
<1>2. pc[spawned'] = "unborn"
  BY <1>1 DEF TypeOK, Procs
<1>3. /\ pc' \in [Procs -> {"unborn", "inherit", "config", "redirect", "listen",
                            "serving", "dead"}]
      /\ marked' \in [Procs -> BOOLEAN]
      /\ holds' \in [Procs -> BOOLEAN]
  BY <1>1 DEF TypeOK
<1>4. /\ holds'[spawned'] = socket /\ pc'[spawned'] = "inherit"
      /\ \A p \in Procs : p # spawned' => holds'[p] = holds[p] /\ pc'[p] = pc[p]
  BY <1>1 DEF TypeOK
<1>5. \A p \in Procs : pc'[p] = "unborn" <=> p > spawned'
  BY <1>1, <1>4 DEF TypeOK, Procs
<1>6. QED
  BY <1>1, <1>2, <1>3, <1>4, <1>5

LEMMA ForkIInv ==
  ASSUME IInv, NEW env \in BOOLEAN, NEW socket \in BOOLEAN, Fork(env, socket),
         UNCHANGED <<cause, servers, leaving, stranded>>,
         mainPid' \in {0} \cup Procs,
         \/ UNCHANGED <<pending, saved>>
         \/ \E p \in Procs : Alive(p) /\ UNCHANGED pending /\ saved' = saved \cup {p}
         \/ \E p \in Procs : /\ Alive(p) /\ socket /\ UNCHANGED saved
                             /\ pending' = [pending EXCEPT ![p] = @ \cup {spawned + 1}]
  PROVE  IInv'
<1> USE DEF IInv, servers
<1>1. TypeOK'
  <2>1. pending' \in [Procs -> SUBSET Procs] /\ saved' \subseteq Procs
    BY ForkTypes DEF TypeOK
  <2>2. QED
    BY <2>1, ForkTypes DEF TypeOK
<1>2. DeadHaveNothing'
  BY ForkTypes DEF TypeOK, DeadHaveNothing, Alive
<1>3. ChildHasSocket'
  <2>1. ASSUME NEW p \in Procs, NEW q \in pending[p]
        PROVE  q \in Procs /\ p < q /\ (Alive(q) => holds[q])' /\ pc'[q] # "unborn"
    BY <2>1, ForkTypes DEF TypeOK, ChildHasSocket, Alive
  <2>2. ASSUME NEW p \in Procs, NEW q \in pending'[p], q \notin pending[p]
        PROVE  q = spawned' /\ Alive(p) /\ socket
    BY <2>2, ForkTypes DEF TypeOK
  <2>3. ASSUME NEW p \in Procs, Alive(p) PROVE p < spawned'
    BY <2>3, ForkTypes DEF TypeOK, Alive, Procs
  <2>4. QED
    BY <2>1, <2>2, <2>3, ForkTypes DEF ChildHasSocket, Alive
<1>4. Chain'
  <2>1. ASSUME NEW r \in Procs, Followed(r) PROVE Followed(r)'
    <3>1. PICK q \in Procs : r < q /\ (holds[q] \/ Bad(q))
      BY <2>1 DEF Followed
    <3>2. ~Bad(q) => q # spawned'
      BY <3>1, ForkTypes DEF DeadHaveNothing, Alive
    <3>3. QED
      BY <3>1, <3>2, ForkTypes DEF Followed, Bad
  <2>2. QED
    BY <2>1 DEF Chain
<1>5. Attempts'
  BY ForkTypes DEF TypeOK, Attempts
<1>6. QED
  BY <1>1, <1>2, <1>3, <1>4, <1>5

(* main() goes on, or one of the goroutines of the other two ports.        *)
LEMMA BootIInv ==
  ASSUME IInv, NEW p \in Procs,
         \/ Inherit(p) \/ ReadConfig(p) \/ ServeRedirect(p) \/ Listen(p)
         \/ RedirectStarts(p) \/ WebStep(p)
  PROVE  IInv'
<1> USE DEF IInv, origin, handover, servers, Inherit, ReadConfig, ServeRedirect, Listen,
            RedirectStarts, WebStep, WebStarts, WebRetries
<1>1. Alive(p) /\ Alive(p)'
  BY DEF TypeOK, DeadHaveNothing, Alive
<1>2. /\ pc' \in [Procs -> {"unborn", "inherit", "config", "redirect", "listen",
                            "serving", "dead"}]
      /\ \A q \in Procs : q # p => pc'[q] = pc[q]
  BY DEF TypeOK
<1>3. holds' \in [Procs -> BOOLEAN] /\ \A q \in Procs : holds[q] => holds'[q]
  <2>1. CASE Listen(p)
    BY <2>1 DEF TypeOK
  <2>2. CASE holds' = holds
    BY <2>2 DEF TypeOK
  <2>3. QED
    BY <2>1, <2>2
<1>4. TypeOK'
  <2>1. \A q \in Procs : pc'[q] = "unborn" <=> q > spawned
    BY <1>1, <1>2 DEF TypeOK, Alive
  <2>2. tries' \in [Procs -> 0..MaxTries]
    <3>1. CASE WebRetries(p)
      <4>1. tries[p] + 1 \in 0..MaxTries
        BY <3>1, MaxTriesAssumption DEF TypeOK, Attempts
      <4>2. QED
        BY <3>1, <4>1 DEF TypeOK
    <3>2. CASE tries' = tries
      BY <3>2 DEF TypeOK
    <3>3. QED
      BY <3>1, <3>2
  <2>3. /\ web' \in [Procs -> {"off", "trying", "bound", "gaveUp"}]
        /\ redirect' \in [Procs -> {"off", "starting", "bound", "lost"}]
    BY DEF TypeOK
  <2>4. QED
    BY <1>2, <1>3, <2>1, <2>2, <2>3 DEF TypeOK
<1>5. DeadHaveNothing'
  BY <1>1, <1>2 DEF TypeOK, DeadHaveNothing, Alive
<1>6. ChildHasSocket'
  BY <1>1, <1>2, <1>3 DEF ChildHasSocket, Alive
<1>7. Chain'
  BY <1>3 DEF Chain, Followed, Bad
<1>8. Attempts'
  <2>1. ASSUME NEW q \in Procs, pc'[q] \in {"unborn", "inherit"}
        PROVE  tries'[q] = 0 /\ web'[q] = "off"
    <3>1. CASE q # p
      BY <1>2, <2>1, <3>1 DEF TypeOK, Attempts
    <3>2. CASE q = p
      BY <2>1, <3>2 DEF TypeOK, Attempts
    <3>3. QED
      BY <3>1, <3>2
  <2>2. ASSUME NEW q \in Procs, web'[q] = "trying" PROVE tries'[q] < MaxTries
    <3>1. CASE Inherit(p)
      BY <2>2, <3>1, MaxTriesAssumption DEF TypeOK, Attempts
    <3>2. CASE WebRetries(p)
      BY <2>2, <3>2 DEF TypeOK, Attempts
    <3>3. CASE tries' = tries /\ (web' = web \/ WebStarts(p))
      BY <2>2, <3>3 DEF TypeOK, Attempts
    <3>4. QED
      BY <3>1, <3>2, <3>3
  <2>3. QED
    BY <2>1, <2>2 DEF Attempts
<1>9. QED
  BY <1>4, <1>5, <1>6, <1>7, <1>8

LEMMA ProbeIInv == ASSUME IInv, NEW p \in Procs, ProbeStep(p) PROVE IInv'
<1> USE DEF IInv, origin, servers
<1>1. PICK q \in Procs : ChildRuns(p, q) \/ ChildIsGone(p, q)
  BY DEF ProbeStep
<1>2. q \in pending[p] /\ pending' = [pending EXCEPT ![p] = @ \ {q}] /\ pc' = pc
      /\ holds' = holds /\ cause' = cause
  BY <1>1 DEF ChildRuns, ChildIsGone
<1>3. Alive(p)
  BY <1>2 DEF DeadHaveNothing
<1>4. TypeOK'
  BY <1>1 DEF ChildRuns, ChildIsGone, TypeOK
<1>5. DeadHaveNothing'
  BY <1>1, <1>3 DEF ChildRuns, ChildIsGone, TypeOK, DeadHaveNothing, Alive
<1>6. ChildHasSocket'
  BY <1>2 DEF TypeOK, ChildHasSocket, Alive
<1>7. Chain'
  <2>1. ChildRuns(p, q) => Followed(p)
    BY <1>2 DEF ChildRuns, ChildHasSocket, Followed
  <2>2. QED
    BY <1>1, <1>2, <2>1 DEF ChildRuns, ChildIsGone, Chain, Followed, Bad
<1>8. Attempts'
  BY <1>1 DEF ChildRuns, ChildIsGone, Attempts
<1>9. QED
  BY <1>4, <1>5, <1>6, <1>7, <1>8

LEMMA NextIInv == IInv /\ [Next]_vars => IInv'
<1> SUFFICES ASSUME IInv, [Next]_vars PROVE IInv'
  OBVIOUS
<1>1. ASSUME NEW p \in Procs, Boot(p) \/ HupBooting(p) \/ AcceptFails(p) PROVE IInv'
  <2>1. CASE InheritFails(p) \/ ReadConfigFails(p) \/ ListenFails(p) \/ HupBooting(p) \/ AcceptFails(p)
    <3>1. Alive(p)
      BY <2>1 DEF InheritFails, ReadConfigFails, ListenFails, HupBooting, AcceptFails, Alive
    <3>2. QED
      BY <2>1, <3>1, DieIInv
      DEF InheritFails, ReadConfigFails, ListenFails, HupBooting, AcceptFails, OtherEnds, BootFailures
  <2>2. QED
    BY <1>1, <2>1, BootIInv DEF Boot
<1>2. ASSUME NEW p \in Procs, RedirectStarts(p) \/ WebStep(p) \/ ProbeStep(p) PROVE IInv'
  BY <1>2, BootIInv, ProbeIInv
<1>3. ASSUME NEW p \in Procs, BeginReload(p) PROVE IInv'
  <2>1. Alive(p)
    BY <1>3 DEF BeginReload, IInv, DeadHaveNothing
  <2>2. mainPid \in {0} \cup Procs
    BY DEF IInv, TypeOK
  <2>3. QED
    BY <1>3, <2>1, <2>2, ForkIInv DEF BeginReload
<1>4. ASSUME NEW p \in Procs, Save(p) PROVE IInv'
  <2>1. Alive(p)
    BY <1>4 DEF Save, IInv, DeadHaveNothing
  <2>2. mainPid \in {0} \cup Procs /\ marked[p] \in BOOLEAN
    BY DEF IInv, TypeOK
  <2>3. QED
    BY <1>4, <2>1, <2>2, ForkIInv DEF Save
<1>5. ASSUME NEW p \in Procs, Exits(p) \/ SupervisorKills(p) PROVE IInv'
  <2>1. Alive(p)
    BY <1>5 DEF Exits, ExitReplaced, ExitSaved, SupervisorKills, IInv, DeadHaveNothing
  <2>2. QED
    BY <1>5, <2>1, DieIInv DEF Exits, ExitReplaced, ExitSaved, SupervisorKills, OtherEnds
<1>6. ASSUME SupervisorRestarts PROVE IInv'
  <2>1. mainPid' \in {0} \cup Procs
    BY <1>6, ForkTypes DEF SupervisorRestarts
  <2>2. QED
    BY <1>6, <2>1, ForkIInv DEF SupervisorRestarts, handover
<1>7. CASE UNCHANGED vars
  BY <1>7 DEF IInv, TypeOK, DeadHaveNothing, ChildHasSocket, Chain, Followed, Bad, Alive, Attempts,
               vars
<1>8. QED
  BY <1>1, <1>2, <1>3, <1>4, <1>5, <1>6, <1>7 DEF Next

LEMMA Inductive == Spec => []IInv
BY InitIInv, NextIInv, PTL DEF Spec

(* Generations stays within its types.                                     *)
THEOREM GenerationsTypes == Spec => []TypeOK
BY Inductive, PTL DEF IInv

(* The listening socket outlives every process that was replaced, unless a *)
(* younger one failed to boot, was ended by a save or was killed.          *)
THEOREM SocketOutlives == Spec => []SocketSurvives
<1>1. IInv => SocketSurvives
  BY DEF IInv, Chain, Followed, Bad, SocketSurvives, Procs
<1>2. QED
  BY <1>1, Inductive, PTL
-----------------------------------------------------------------------------
(* One in service.                                                         *)

ServingHolds == \A p \in Procs : pc[p] = "serving" => holds[p]

(* The probes end in the order of the forks: a process has been probed     *)
(* before its own reload is.                                               *)
ProbedFirst == \A p \in Procs : pending[p] \cap leaving = {}

(* Of two processes that have the socket the older is about to leave, or   *)
(* waits for a child that has it too and is not younger than the other.    *)
Line ==
    stranded = {} =>
        \A p, q \in Procs :
            p < q /\ holds[p] /\ holds[q] =>
                p \in leaving \/ \E c \in pending[p] : c <= q /\ holds[c]

InService == ServingHolds /\ ProbedFirst /\ Line

LEMMA InitInService == Init => InService
BY DEF Init, InService, ServingHolds, ProbedFirst, Line

LEMMA DieInService ==
  ASSUME IInv, InService, NEW r \in Procs, NEW why, Die(r, why)
  PROVE  InService'
<1> USE DEF Die, origin
<1>1. ServingHolds' /\ ProbedFirst'
  BY DEF IInv, TypeOK, InService, ServingHolds, ProbedFirst
<1>2. Line'
  <2> SUFFICES ASSUME stranded' = {}, NEW p \in Procs, NEW q \in Procs,
                      p < q, holds'[p], holds'[q], p \notin leaving'
               PROVE  \E c \in pending'[p] : c <= q /\ holds'[c]
    BY DEF Line
  <2>1. /\ stranded = {} /\ pending[r] = {}
        /\ p # r /\ q # r /\ holds[p] /\ holds[q] /\ p \notin leaving
        /\ pending'[p] = pending[p]
    BY DEF IInv, TypeOK
  <2>2. PICK c \in pending[p] : c <= q /\ holds[c]
    BY <2>1 DEF InService, Line
  <2>3. c \in Procs
    BY <2>2 DEF IInv, ChildHasSocket
  <2>4. c # r
    <3> SUFFICES ASSUME c = r PROVE FALSE
      OBVIOUS
    <3>1. r < q
      BY <2>1, <2>2 DEF Procs
    <3>2. r \in leaving
      BY <2>1, <2>2, <3>1 DEF InService, Line
    <3> QED
      BY <2>2, <3>2 DEF InService, ProbedFirst
  <2> QED
    BY <2>1, <2>2, <2>3, <2>4 DEF IInv, TypeOK
<1> QED
  BY <1>1, <1>2 DEF InService

(* A child without the socket.                                             *)
LEMMA BareForkInService ==
  ASSUME IInv, InService, NEW env \in BOOLEAN, Fork(env, FALSE),
         UNCHANGED <<pending, leaving, stranded>>
  PROVE  InService'
<1>1. ServingHolds' /\ ProbedFirst'
  BY ForkTypes DEF InService, ServingHolds, ProbedFirst
<1>2. \A p \in Procs : holds'[p] => holds[p]
  BY ForkTypes
<1>3. \A p \in Procs : \A c \in pending[p] : holds[c] => holds'[c]
  BY ForkTypes DEF IInv, DeadHaveNothing, ChildHasSocket, Alive
<1>4. Line'
  BY <1>2, <1>3 DEF InService, Line
<1> QED
  BY <1>1, <1>4 DEF InService

(* Without overlap a reload begins in a process that waits for no other    *)
(* and is not about to leave.                                              *)
LEMMA NoOverlap ==
  ASSUME MaxOverlap <= 1, IInv, NEW p \in Procs, BeginReload(p)
  PROVE  pending[p] = {} /\ p \notin leaving
<1>1. IsFiniteSet(pending[p]) /\ IsFiniteSet(leaving \cap {p})
  <2>1. IsFiniteSet(Procs)
    BY MaxGenAssumption, FS_Interval DEF Procs
  <2>2. pending[p] \subseteq Procs /\ leaving \cap {p} \subseteq Procs
    BY DEF IInv, TypeOK
  <2> QED
    BY <2>1, <2>2, FS_Subset
<1>2. Cardinality(pending[p]) \in Nat /\ Cardinality(leaving \cap {p}) \in Nat
  BY <1>1, FS_CardinalityType
<1>3. Cardinality(pending[p]) + Cardinality(leaving \cap {p}) < 1
  BY <1>2, MaxOverlapAssumption DEF BeginReload
<1>4. Cardinality(pending[p]) = 0 /\ Cardinality(leaving \cap {p}) = 0
  BY <1>2, <1>3
<1> QED
  BY <1>1, <1>4, FS_EmptySet

LEMMA ReloadInService ==
  ASSUME MaxOverlap <= 1, IInv, InService, NEW p \in Procs, BeginReload(p)
  PROVE  InService'
<1> DEFINE n == spawned + 1
<1>1. /\ Fork(TRUE, TRUE) /\ holds[p] /\ UNCHANGED <<leaving, stranded>>
      /\ pending' = [pending EXCEPT ![p] = @ \cup {n}]
  BY DEF BeginReload
<1>2. /\ n \in Procs /\ n = spawned' /\ pc[n] = "unborn"
      /\ holds'[n] /\ pc'[n] = "inherit"
      /\ \A q \in Procs : q # n => holds'[q] = holds[q] /\ pc'[q] = pc[q]
  BY <1>1, ForkTypes
<1>3. ServingHolds'
  BY <1>2 DEF InService, ServingHolds
<1>4. n \notin leaving /\ ~holds[n]
  BY <1>2 DEF IInv, DeadHaveNothing, Alive
<1>5. /\ pending'[p] = pending[p] \cup {n}
      /\ \A q \in Procs : q # p => pending'[q] = pending[q]
  BY <1>1 DEF IInv, TypeOK
<1>6. ProbedFirst'
  BY <1>1, <1>4, <1>5 DEF InService, ProbedFirst
<1>7. Line'
  <2> SUFFICES ASSUME stranded = {}, NEW r \in Procs, NEW q \in Procs,
                      r < q, holds'[r], holds'[q], r \notin leaving
               PROVE  \E c \in pending'[r] : c <= q /\ holds'[c]
    BY <1>1 DEF Line
  <2>1. \A c \in pending[r] : holds[c] => holds'[c]
    BY <1>2, <1>4 DEF IInv, ChildHasSocket
  <2>2. n > spawned /\ \A s \in Procs : s > spawned => pc[s] = "unborn"
    BY DEF IInv, TypeOK, Procs
  <2>3. \A s \in Procs : holds[s] => s < n
    BY <2>2 DEF IInv, DeadHaveNothing, TypeOK, Alive, Procs
  <2>4. r # n /\ holds[r]
    <3>1. \A s \in Procs : holds'[s] => s <= n
      BY <1>2, <2>3 DEF Procs
    <3> QED
      BY <1>2, <3>1 DEF Procs
  <2>5. CASE q # n
    <3>1. PICK c \in pending[r] : c <= q /\ holds[c]
      BY <1>2, <2>4, <2>5 DEF InService, Line
    <3> QED
      BY <1>5, <2>1, <3>1
  <2>6. CASE q = n /\ r = p
    BY <1>2, <1>5, <2>6 DEF Procs
  <2>7. CASE q = n /\ r # p
    <3>1. ~(p < r)
      BY <1>1, <2>4, NoOverlap DEF InService, Line
    <3>2. r < p
      BY <2>7, <3>1 DEF Procs
    <3>3. PICK c \in pending[r] : c <= p /\ holds[c]
      BY <1>1, <2>4, <3>2 DEF InService, Line
    <3>4. c <= q
      BY <1>1, <2>3, <2>7, <3>3 DEF IInv, ChildHasSocket, Procs
    <3> QED
      BY <1>5, <2>1, <3>3, <3>4
  <2> QED
    BY <2>5, <2>6, <2>7
<1> QED
  BY <1>3, <1>6, <1>7 DEF InService

LEMMA BootInService ==
  ASSUME IInv, InService, NEW p \in Procs,
         \/ Inherit(p) \/ ReadConfig(p) \/ ServeRedirect(p) \/ Listen(p)
         \/ RedirectStarts(p) \/ WebStep(p)
  PROVE  InService'
<1> USE DEF origin, handover, servers
<1>1. UNCHANGED <<pending, leaving, stranded>>
  BY DEF Inherit, ReadConfig, ServeRedirect, Listen, RedirectStarts, WebStep, WebStarts, WebRetries
<1>2. ProbedFirst'
  BY <1>1 DEF InService, ProbedFirst
<1>3. CASE Listen(p)
  <2>1. /\ holds[p] \/ \A q \in Procs : ~holds[q]
        /\ holds'[p] /\ \A q \in Procs : q # p => holds'[q] = holds[q] /\ pc'[q] = pc[q]
    BY <1>3 DEF Listen, IInv, TypeOK
  <2>2. ServingHolds'
    BY <2>1 DEF InService, ServingHolds
  <2>3. CASE holds[p]
    <3>1. \A q \in Procs : holds'[q] = holds[q]
      BY <2>1, <2>3 DEF IInv, TypeOK
    <3>2. \A q \in Procs : \A c \in pending[q] : holds'[c] = holds[c]
      BY <3>1 DEF IInv, ChildHasSocket
    <3> QED
      BY <1>1, <1>2, <2>2, <3>1, <3>2 DEF InService, Line
  <2>4. CASE \A q \in Procs : ~holds[q]
    <3>1. \A q \in Procs : holds'[q] => q = p
      BY <2>1, <2>4
    <3>2. Line'
      BY <3>1 DEF Line, Procs
    <3> QED
      BY <1>2, <2>2, <3>2 DEF InService
  <2> QED
    BY <2>1, <2>3, <2>4
<1>4. CASE ~Listen(p)
  <2>1. holds' = holds /\ \A q \in Procs : pc'[q] = "serving" => pc[q] = "serving"
    BY <1>4 DEF Inherit, ReadConfig, ServeRedirect, RedirectStarts, WebStep, WebStarts, WebRetries,
                IInv, TypeOK
  <2> QED
    BY <1>1, <1>2, <2>1 DEF InService, ServingHolds, Line
<1> QED
  BY <1>3, <1>4

LEMMA ProbeInService ==
  ASSUME IInv, InService, NEW p \in Procs, ProbeStep(p)
  PROVE  InService'
<1>1. PICK q \in Procs : ChildRuns(p, q) \/ ChildIsGone(p, q)
  BY DEF ProbeStep
<1>2. /\ q \in pending[p] /\ Due(q) /\ UNCHANGED <<pc, holds, stranded>>
      /\ pending'[p] = pending[p] \ {q}
      /\ \A r \in Procs : r # p => pending'[r] = pending[r]
  BY <1>1 DEF ChildRuns, ChildIsGone, IInv, TypeOK
<1>3. ServingHolds'
  BY <1>2 DEF InService, ServingHolds
<1>4. \A r \in Procs : pending'[r] \subseteq pending[r]
  BY <1>2
<1>5. CASE ChildRuns(p, q)
  <2>1. leaving' = leaving \cup {p}
    BY <1>5 DEF ChildRuns
  <2>2. \A r \in Procs : p \notin pending[r]
    BY <1>2 DEF Due, IInv, ChildHasSocket, Procs
  <2>3. ProbedFirst'
    BY <1>4, <2>1, <2>2 DEF InService, ProbedFirst
  <2>4. Line'
    BY <1>2, <2>1 DEF InService, Line
  <2> QED
    BY <1>3, <2>3, <2>4 DEF InService
<1>6. CASE ChildIsGone(p, q)
  <2>1. leaving' = leaving /\ ~holds[q]
    BY <1>6 DEF ChildIsGone, IInv, DeadHaveNothing
  <2>2. ProbedFirst'
    BY <1>4, <2>1 DEF InService, ProbedFirst
  <2>3. Line'
    BY <1>2, <2>1 DEF InService, Line
  <2> QED
    BY <1>3, <2>2, <2>3 DEF InService
<1> QED
  BY <1>1, <1>5, <1>6

LEMMA NextInService ==
  ASSUME MaxOverlap <= 1
  PROVE  IInv /\ InService /\ [Next]_vars => InService'
<1> SUFFICES ASSUME IInv, InService, [Next]_vars PROVE InService'
  OBVIOUS
<1>1. ASSUME NEW p \in Procs,
             Boot(p) \/ RedirectStarts(p) \/ WebStep(p) \/ HupBooting(p) \/ AcceptFails(p)
      PROVE  InService'
  BY <1>1, BootInService, DieInService
  DEF Boot, InheritFails, ReadConfigFails, ListenFails, HupBooting, AcceptFails
<1>2. ASSUME NEW p \in Procs, Exits(p) \/ SupervisorKills(p) PROVE InService'
  BY <1>2, DieInService DEF Exits, ExitReplaced, ExitSaved, SupervisorKills
<1>3. ASSUME NEW p \in Procs, Save(p) PROVE InService'
  <2>1. marked[p] \in BOOLEAN
    BY DEF IInv, TypeOK
  <2> QED
    BY <1>3, <2>1, BareForkInService DEF Save
<1>4. CASE SupervisorRestarts
  BY <1>4, BareForkInService DEF SupervisorRestarts, handover
<1>5. CASE UNCHANGED vars
  BY <1>5 DEF vars, InService, ServingHolds, ProbedFirst, Line
<1> QED
  BY <1>1, <1>2, <1>3, <1>4, <1>5, ReloadInService, ProbeInService DEF Next

(* When the reloads of one process do not overlap, one process is left in  *)
(* service, whoever reloads, saves, fails to boot or is killed when.       *)
THEOREM OneIsLeft ==
  ASSUME MaxOverlap <= 1
  PROVE  Spec => []OneInService
<1>1. IInv /\ InService => OneInService
  <2> SUFFICES ASSUME IInv, InService, stranded = {}, NEW p \in Procs, NEW q \in Procs,
                      AtRest(p), AtRest(q), p < q
               PROVE  FALSE
    BY DEF OneInService, Procs
  <2> QED
    BY DEF AtRest, InService, ServingHolds, Line
<1>2. Spec => []InService
  <2>1. InService /\ IInv /\ [Next]_vars => InService'
    BY NextInService
  <2> QED
    BY <2>1, Inductive, InitInService, PTL DEF Spec
<1> QED
  BY <1>1, <1>2, Inductive, PTL

-----------------------------------------------------------------------------
(* Every process implements Handover.  Generations does not have the flag  *)
(* of a process, and nothing is claimed about it: single is FALSE.         *)

How(p) == IF pc[p] # "dead" THEN "up"
          ELSE IF cause[p] = "replaced" THEN "replaced" ELSE "other"

Handed(p) == INSTANCE Handover
                WITH Children <- Procs,
                     waiting <- pending[p],
                     leaving <- p \in leaving,
                     how <- How(p),
                     refusing <- FALSE,
                     single <- FALSE

(* A step that neither ends p nor touches its reloads.                     *)
LEMMA ElsewhereHanded ==
  ASSUME NEW p \in Procs, pending'[p] = pending[p], p \in leaving' <=> p \in leaving,
         How(p)' = How(p)
  PROVE  UNCHANGED Handed(p)!vars
BY DEF Handed!vars

LEMMA DieHanded ==
  ASSUME IInv, NEW p \in Procs, NEW q \in Procs, Alive(q), NEW why, Die(q, why),
         \/ why \in OtherEnds
         \/ why = "replaced" /\ q \in leaving
  PROVE  [Handed(p)!Next]_(Handed(p)!vars)
<1> USE DEF IInv
<1>1. CASE p = q
  <2>1. How(p) = "up" /\ pending'[p] = {} /\ p \notin leaving'
    BY <1>1 DEF How, Alive, Die, TypeOK
  <2>2. pc'[p] = "dead" /\ cause'[p] = why
    BY <1>1 DEF Die, TypeOK
  <2>3. How(p)' \in {"other"} \cup (IF p \in leaving THEN {"replaced"} ELSE {})
    BY <1>1, <2>2 DEF How, OtherEnds, BootFailures
  <2>4. Handed(p)!End
    BY <2>1, <2>3 DEF Handed!End
  <2>5. QED
    BY <2>4 DEF Handed!Next
<1>2. CASE p # q
  <2>1. pending'[p] = pending[p] /\ (p \in leaving' <=> p \in leaving)
    BY <1>2 DEF Die, TypeOK
  <2>2. pc'[p] = pc[p] /\ cause'[p] = cause[p]
    BY <1>2 DEF Die, TypeOK
  <2>3. QED
    BY <2>1, <2>2, ElsewhereHanded DEF How
<1>3. QED
  BY <1>1, <1>2

(* A fork leaves every process but the new one, which has yet to be born,  *)
(* where it was.                                                           *)
LEMMA ForkHow ==
  ASSUME IInv, NEW p \in Procs, NEW env \in BOOLEAN, NEW socket \in BOOLEAN,
         Fork(env, socket), cause' = cause
  PROVE  How(p)' = How(p)
<1>1. CASE p = spawned'
  BY <1>1, ForkTypes DEF How
<1>2. CASE p # spawned'
  BY <1>2, ForkTypes DEF How
<1>3. QED
  BY <1>1, <1>2

LEMMA ReloadHanded ==
  ASSUME IInv, NEW p \in Procs, NEW q \in Procs, BeginReload(q)
  PROVE  [Handed(p)!Next]_(Handed(p)!vars)
<1> USE DEF IInv
<1>1. /\ Fork(TRUE, TRUE) /\ cause' = cause /\ leaving' = leaving
      /\ pending' = [pending EXCEPT ![q] = @ \cup {spawned + 1}]
  BY DEF BeginReload, handover
<1>2. How(p)' = How(p)
  BY <1>1, ForkHow
<1>3. CASE p = q
  <2>1. How(p) = "up"
    BY <1>3 DEF How, BeginReload, DeadHaveNothing, Alive
  <2>2. spawned + 1 \in Procs /\ spawned + 1 \notin pending[p]
    BY <1>1, ForkTypes DEF ChildHasSocket
  <2>3. pending'[p] = pending[p] \cup {spawned + 1}
    BY <1>1, <1>3 DEF TypeOK
  <2>4. Handed(p)!Start(spawned + 1)
    BY <1>1, <1>2, <2>1, <2>2, <2>3 DEF Handed!Start
  <2>5. QED
    BY <2>2, <2>4 DEF Handed!Next
<1>4. CASE p # q
  BY <1>1, <1>2, <1>4, ElsewhereHanded DEF TypeOK
<1>5. QED
  BY <1>3, <1>4

LEMMA ProbeHanded ==
  ASSUME IInv, NEW p \in Procs, NEW q \in Procs, ProbeStep(q)
  PROVE  [Handed(p)!Next]_(Handed(p)!vars)
<1> USE DEF IInv
<1>1. PICK k \in Procs : ChildRuns(q, k) \/ ChildIsGone(q, k)
  BY DEF ProbeStep
<1>2. /\ k \in pending[q] /\ pending' = [pending EXCEPT ![q] = @ \ {k}]
      /\ How(p)' = How(p)
  BY <1>1 DEF ChildRuns, ChildIsGone, How
<1>3. CASE p = q
  <2>1. How(p) = "up"
    BY <1>2, <1>3 DEF How, DeadHaveNothing, Alive
  <2>2. pending'[p] = pending[p] \ {k}
    BY <1>2, <1>3 DEF TypeOK
  <2>3. CASE ChildRuns(q, k)
    <3>1. Handed(p)!FoundRunning(k)
      BY <1>2, <1>3, <2>1, <2>2, <2>3 DEF Handed!FoundRunning, ChildRuns
    <3>2. QED
      BY <3>1 DEF Handed!Next
  <2>4. CASE ChildIsGone(q, k)
    <3>1. Handed(p)!FoundGone(k)
      BY <1>2, <1>3, <2>1, <2>2, <2>4 DEF Handed!FoundGone, ChildIsGone
    <3>2. QED
      BY <3>1 DEF Handed!Next
  <2>5. QED
    BY <1>1, <2>3, <2>4
<1>4. CASE p # q
  <2>1. pending'[p] = pending[p]
    BY <1>2, <1>4 DEF TypeOK
  <2>2. p \in leaving' <=> p \in leaving
    BY <1>1, <1>4 DEF ChildRuns, ChildIsGone
  <2>3. QED
    BY <1>2, <2>1, <2>2, ElsewhereHanded
<1>5. QED
  BY <1>3, <1>4

(* Booting and the goroutines of the other ports are none of Handover's.   *)
LEMMA BootHanded ==
  ASSUME IInv, NEW p \in Procs, NEW q \in Procs,
         \/ Inherit(q) \/ ReadConfig(q) \/ ServeRedirect(q) \/ Listen(q)
         \/ RedirectStarts(q) \/ WebStep(q)
  PROVE  [Handed(p)!Next]_(Handed(p)!vars)
<1>1. /\ pending' = pending /\ leaving' = leaving /\ cause' = cause
      /\ pc'[p] = "dead" <=> pc[p] = "dead"
  BY DEF IInv, TypeOK, handover, Inherit, ReadConfig, ServeRedirect, Listen,
     RedirectStarts, WebStep, WebStarts, WebRetries
<1>2. QED
  BY <1>1, ElsewhereHanded DEF How

LEMMA NextHanded ==
  ASSUME IInv, [Next]_vars, NEW p \in Procs
  PROVE  [Handed(p)!Next]_(Handed(p)!vars)
<1> DEFINE Kept == [Handed(p)!Next]_(Handed(p)!vars)
<1>1. ASSUME NEW q \in Procs,
             \/ Boot(q) \/ HupBooting(q) \/ AcceptFails(q)
             \/ Exits(q) \/ SupervisorKills(q)
      PROVE  Kept
  <2>1. CASE \/ Inherit(q) \/ ReadConfig(q) \/ ServeRedirect(q) \/ Listen(q)
    BY <2>1, BootHanded
  <2>2. CASE \/ InheritFails(q) \/ ReadConfigFails(q) \/ ListenFails(q)
             \/ HupBooting(q) \/ AcceptFails(q)
    <3>1. Alive(q)
      BY <2>2 DEF InheritFails, ReadConfigFails, ListenFails, HupBooting, AcceptFails, Alive
    <3>2. QED
      BY <2>2, <3>1, DieHanded
      DEF InheritFails, ReadConfigFails, ListenFails, HupBooting, AcceptFails,
          OtherEnds, BootFailures
  <2>3. CASE Exits(q) \/ SupervisorKills(q)
    <3>1. Alive(q)
      BY <2>3 DEF Exits, ExitReplaced, ExitSaved, SupervisorKills, IInv, DeadHaveNothing
    <3>2. QED
      BY <2>3, <3>1, DieHanded DEF Exits, ExitReplaced, ExitSaved, SupervisorKills, OtherEnds
  <2>4. QED
    BY <1>1, <2>1, <2>2, <2>3 DEF Boot
<1>2. ASSUME NEW q \in Procs, RedirectStarts(q) \/ WebStep(q) PROVE Kept
  BY <1>2, BootHanded
<1>3. ASSUME NEW q \in Procs, BeginReload(q) \/ ProbeStep(q) PROVE Kept
  BY <1>3, ReloadHanded, ProbeHanded
<1>4. ASSUME NEW q \in Procs, Save(q) PROVE Kept
  <2>1. Fork(marked[q], FALSE) /\ marked[q] \in BOOLEAN /\ cause' = cause
        /\ pending' = pending /\ leaving' = leaving
    BY <1>4 DEF Save, IInv, TypeOK
  <2>2. QED
    BY <2>1, ForkHow, ElsewhereHanded
<1>5. ASSUME SupervisorRestarts PROVE Kept
  BY <1>5, ForkHow, ElsewhereHanded DEF SupervisorRestarts, handover
<1>6. ASSUME UNCHANGED vars PROVE Kept
  BY <1>6, ElsewhereHanded DEF vars, How
<1> HIDE DEF Kept
<1>7. Kept
  BY <1>1, <1>2, <1>3, <1>4, <1>5, <1>6 DEF Next
<1>8. QED
  BY <1>7 DEF Kept

(* Among any number of processes that reload, save, fail to boot and are   *)
(* killed, each hands over as hotreload.go has it (Handover): none is      *)
(* replaced unless it found a child of its own running, and the decision   *)
(* of one that found one to leave is not taken back.                       *)
THEOREM EachHandsOver == Spec => \A p \in Procs : Handed(p)!Spec
<1> SUFFICES ASSUME NEW p \in Procs PROVE Spec => Handed(p)!Spec
  OBVIOUS
<1>1. Init => Handed(p)!Init
  BY DEF Init, Handed!Init, How
<1>2. IInv /\ [Next]_vars => [Handed(p)!Next]_(Handed(p)!vars)
  BY NextHanded
<1>3. QED
  BY <1>1, <1>2, Inductive, PTL DEF Spec, Handed!Spec
=============================================================================
