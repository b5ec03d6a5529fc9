-------------------------- MODULE HotReloadProofs --------------------------
(***************************************************************************)
(* What HotReload satisfies for every set of connections and of reloads.   *)
(***************************************************************************)
EXTENDS HotReload, FiniteSetTheorems, TLAPS

-----------------------------------------------------------------------------
(* TypeOK without the sign of the counters, which only CountersExact gives.*)
TypeShape ==
    /\ listener \in {"none", "open", "closed"}
    /\ shuttingDown \in BOOLEAN
    /\ connCount \in Int
    /\ wg \in Int
    /\ conn \in [Conns -> ConnStates]
    /\ mainPc \in MainStates
    /\ rpc \in [Reloads -> ReloadStates]
    /\ sigChan \in BOOLEAN
    /\ exit \in {"running", "fatal", "mainReturned"} \cup ExitReasons

(* The local variable conn of listenAndServe: main holds exactly one       *)
(* connection between Accept and the go statement, and none elsewhere.     *)
HeldByMain ==
    /\ \A c, d \in Conns : conn[c] = "open" /\ conn[d] = "open" => c = d
    /\ (\E c \in Conns : conn[c] = "open") <=> mainPc \in {"check", "count", "add"}

SocketShape ==
    inheritedLn \in BOOLEAN /\ blocking \in BOOLEAN /\ overlapped \in BOOLEAN

IInv == TypeShape /\ SocketShape /\ HeldByMain /\ CountersExact

LEMMA InitTypeShape == Init => TypeShape
<1> SUFFICES ASSUME Init PROVE TypeShape
  OBVIOUS
<1>1. conn \in [Conns -> ConnStates]
  BY DEF Init, ConnStates
<1>2. rpc \in [Reloads -> ReloadStates]
  BY DEF Init, ReloadStates
<1>3. shuttingDown \in BOOLEAN /\ sigChan \in BOOLEAN
  BY DEF Init
<1>4. connCount \in Int /\ wg \in Int
  BY DEF Init
<1>5. QED
  BY <1>1, <1>2, <1>3, <1>4, Zenon DEF Init, TypeShape, MainStates

(* A reload step assigns rpc a label of ReloadStates.                      *)
LEMMA GotoType ==
    ASSUME rpc \in [Reloads -> ReloadStates], NEW r \in Reloads,
           NEW from, NEW to \in ReloadStates, Goto(r, from, to)
    PROVE  rpc' \in [Reloads -> ReloadStates]
BY DEF Goto

LEMMA StepTypeShape == TypeShape /\ [Next]_vars => TypeShape'
<1> SUFFICES ASSUME TypeShape, [Next]_vars PROVE TypeShape'
  OBVIOUS
<1> USE DEF TypeShape, ConnStates, MainStates
<1>1. CASE UNCHANGED vars
  BY <1>1 DEF vars
<1>2. CASE MainStep
  BY <1>2 DEF MainStep, Listen, AcceptClosed, MainReturns, RetryAccept,
     IncrementCount, Refuse, Admit, IncrementAdd, MainAt, ConnMoves, manager
<1>3. ASSUME NEW c \in Conns, ConnStep(c) PROVE TypeShape'
  BY <1>3 DEF ConnStep, DecrementCount, DecrementDone, CloseConn, ConnMoves, manager
<1>4. CASE BeginSighup
  <2>1. rpc' \in [Reloads -> ReloadStates]
    BY <1>4, SighupAssumption, GotoType DEF BeginSighup, ReloadStates
  <2>2. QED
    BY <1>4, <2>1 DEF BeginSighup, manager
<1>5. ASSUME NEW r \in Reloads, ReloadStep(r) PROVE TypeShape'
  <2>1. CASE Exit(r)
    BY <2>1 DEF Exit, manager
  <2>2. CASE ~Exit(r)
    <3>1. rpc' \in [Reloads -> ReloadStates]
      BY <1>5, <2>2, GotoType DEF ReloadStep, BeginShutdown, TakeFd, TakeFdFails,
         StartChild, StartChildFails, ChildRuns, ChildIsGone, Rollback, ReadCount,
         DrainShutdown, CloseListener, CloseReturns, WaitReturns, WaitTimesOut, ReloadStates,
         ExitReasons
    <3>2. /\ listener' \in {"none", "open", "closed"}
          /\ shuttingDown' \in BOOLEAN
          /\ UNCHANGED <<connCount, wg, conn, mainPc, sigChan, exit>>
      BY <1>5, <2>2 DEF ReloadStep, BeginShutdown, TakeFd, TakeFdFails,
         StartChild, StartChildFails, ChildRuns, ChildIsGone, Rollback, ReadCount,
         DrainShutdown, CloseListener, CloseReturns, WaitReturns, WaitTimesOut, manager
    <3>3. QED
      BY <3>1, <3>2
  <2>3. QED
    BY <2>1, <2>2
<1>6. CASE \/ ListenFails \/ AcceptError \/ AcceptBlocks \/ SharerSetsMode \/ Hup
           \/ \E c \in Conns : AcceptConn(c) \/ HandleReturns(c)
  BY <1>6 DEF ListenFails, AcceptError, AcceptBlocks, SharerSetsMode, AcceptConn,
     HandleReturns, Hup, MainAt,
     ConnMoves, manager
<1>7. ASSUME NEW r \in Reloads, BeginWeb(r) PROVE TypeShape'
  <2>1. rpc' \in [Reloads -> ReloadStates]
    BY <1>7, GotoType DEF BeginWeb, ReloadStates
  <2>2. QED
    BY <1>7, <2>1 DEF BeginWeb, manager
<1>8. QED
  BY <1>1, <1>2, <1>3, <1>4, <1>5, <1>6, <1>7 DEF Next, Environment, Gone

(* Only reloads, and the sharers of the socket, touch these variables.     *)
LEMMA SocketStep ==
    ASSUME [Next]_vars
    PROVE  /\ inheritedLn' = inheritedLn
           /\ blocking' = blocking \/ blocking' = TRUE \/ blocking' = ~blocking
           /\ \/ overlapped' = overlapped
              \/ \E r \in Reloads : BeginShutdown(r)
<1>1. CASE UNCHANGED vars
  BY <1>1 DEF vars
<1>2. CASE MainStep
  BY <1>2 DEF MainStep, Listen, AcceptClosed, MainReturns, RetryAccept,
     IncrementCount, Refuse, Admit, IncrementAdd, socket
<1>3. CASE \E c \in Conns : ConnStep(c)
  BY <1>3 DEF ConnStep, DecrementCount, DecrementDone, CloseConn, socket
<1>4. CASE \E r \in Reloads : ReloadStep(r)
  BY <1>4 DEF ReloadStep, BeginShutdown, TakeFd, TakeFdFails, StartChild,
     StartChildFails, ChildRuns, ChildIsGone, Rollback, ReadCount, DrainShutdown,
     CloseListener, CloseReturns, WaitReturns, WaitTimesOut, Exit, socket
<1>5. CASE BeginSighup \/ Environment
  BY <1>5 DEF BeginSighup, Environment, ListenFails, AcceptError, AcceptBlocks,
     SharerSetsMode, AcceptConn, HandleReturns, Hup, BeginWeb, socket
<1>6. QED
  BY <1>1, <1>2, <1>3, <1>4, <1>5 DEF Next, Gone

LEMMA StepSocketShape == SocketShape /\ [Next]_vars => SocketShape'
<1> SUFFICES ASSUME SocketShape, [Next]_vars PROVE SocketShape'
  OBVIOUS
<1>1. ASSUME NEW r \in Reloads, BeginShutdown(r) PROVE overlapped' \in BOOLEAN
  BY <1>1 DEF BeginShutdown
<1>2. QED
  BY <1>1, SocketStep DEF SocketShape

-----------------------------------------------------------------------------
LEMMA InitHeldByMain == Init => HeldByMain
BY DEF Init, HeldByMain

(* Only the accept loop opens a connection and only while it holds none.   *)
LEMMA StepHeldByMain == TypeShape /\ HeldByMain /\ [Next]_vars => HeldByMain'
<1> SUFFICES ASSUME TypeShape, HeldByMain, [Next]_vars PROVE HeldByMain'
  OBVIOUS
<1> USE DEF TypeShape, HeldByMain, ConnStates
<1>1. CASE conn' = conn /\ mainPc' = mainPc
  BY <1>1
<1>2. CASE Listen \/ AcceptClosed \/ MainReturns \/ RetryAccept \/ IncrementCount
           \/ AcceptError \/ AcceptBlocks
  BY <1>2 DEF Listen, AcceptClosed, MainReturns, RetryAccept, IncrementCount,
     AcceptError, AcceptBlocks, MainAt
<1>3. ASSUME NEW c \in Conns, Refuse(c) \/ Admit(c) \/ IncrementAdd(c)
      PROVE HeldByMain'
  BY <1>3 DEF Refuse, Admit, IncrementAdd, MainAt, ConnMoves
<1>4. ASSUME NEW c \in Conns, AcceptConn(c) PROVE HeldByMain'
  BY <1>4 DEF AcceptConn, MainAt, ConnMoves
<1>5. ASSUME NEW c \in Conns, ConnStep(c) \/ HandleReturns(c) PROVE HeldByMain'
  BY <1>5 DEF ConnStep, DecrementCount, DecrementDone, CloseConn, HandleReturns,
     ConnMoves
<1>6. ASSUME NEW r \in Reloads, ReloadStep(r) \/ BeginWeb(r)
      PROVE conn' = conn /\ mainPc' = mainPc
  BY <1>6 DEF ReloadStep, BeginShutdown, TakeFd, TakeFdFails, StartChild,
     StartChildFails, ChildRuns, ChildIsGone, Rollback, ReadCount,
     DrainShutdown, CloseListener, CloseReturns, WaitReturns, WaitTimesOut, Exit, BeginWeb
<1>7. QED
  BY <1>1, <1>2, <1>3, <1>4, <1>5, <1>6 DEF Next, MainStep, Environment, Gone,
     ListenFails, Hup, SharerSetsMode, BeginSighup, vars

-----------------------------------------------------------------------------
(* The books of connCount in one step: unchanged, one connection entered   *)
(* by connCount++, or one left by connCount--.                             *)
LEMMA CountedStep ==
    ASSUME TypeShape, HeldByMain, [Next]_vars
    PROVE  \/ Counted' = Counted /\ connCount' = connCount
           \/ \E c \in Conns \ Counted : /\ Counted' = Counted \cup {c}
                                        /\ connCount' = connCount + 1
                                        /\ Alive /\ Alive'
           \/ \E c \in Counted : /\ Counted' = Counted \ {c}
                               /\ connCount' = connCount - 1
                               /\ Alive /\ Alive'
<1> DEFINE Same == Counted' = Counted /\ connCount' = connCount
<1> USE DEF TypeShape, HeldByMain, ConnStates, Counted
<1>1. CASE conn' = conn /\ mainPc' = mainPc /\ connCount' = connCount
  BY <1>1
<1>2. CASE \/ Listen \/ AcceptClosed \/ MainReturns \/ RetryAccept
           \/ AcceptError \/ AcceptBlocks
  <2>1. conn' = conn /\ connCount' = connCount /\ mainPc # "add" /\ mainPc' # "add"
    BY <1>2 DEF Listen, AcceptClosed, MainReturns, RetryAccept, AcceptError,
       AcceptBlocks, MainAt, manager
  <2>2. QED
    BY <2>1
<1>3. CASE IncrementCount
  <2>1. PICK c \in Conns : conn[c] = "open"
    BY <1>3 DEF IncrementCount, MainAt
  <2>2. c \notin Counted /\ Counted' = Counted \cup {c}
    BY <1>3, <2>1 DEF IncrementCount, MainAt
  <2>3. QED
    BY <1>3, <2>2 DEF IncrementCount, MainAt, Alive
<1>4. ASSUME NEW c \in Conns, Refuse(c) \/ Admit(c) \/ IncrementAdd(c) \/ AcceptConn(c)
      PROVE Same
  BY <1>4 DEF Refuse, Admit, IncrementAdd, AcceptConn, MainAt, ConnMoves, manager
<1>5. ASSUME NEW c \in Conns, HandleReturns(c) \/ DecrementDone(c) \/ CloseConn(c)
      PROVE Same
  BY <1>5 DEF HandleReturns, DecrementDone, CloseConn, ConnMoves, manager
<1>6. ASSUME NEW c \in Conns, DecrementCount(c)
      PROVE c \in Counted /\ Counted' = Counted \ {c}
            /\ connCount' = connCount - 1 /\ Alive /\ Alive'
  BY <1>6 DEF DecrementCount, ConnMoves, Alive
<1>7. ASSUME NEW r \in Reloads, ReloadStep(r) \/ BeginWeb(r)
      PROVE conn' = conn /\ mainPc' = mainPc /\ connCount' = connCount
  BY <1>7 DEF ReloadStep, BeginShutdown, TakeFd, TakeFdFails, StartChild,
     StartChildFails, ChildRuns, ChildIsGone, Rollback, ReadCount,
     DrainShutdown, CloseListener, CloseReturns, WaitReturns, WaitTimesOut, Exit, BeginWeb,
     manager
<1> HIDE DEF TypeShape, HeldByMain, ConnStates, Counted
<1>8. QED
  BY <1>1, <1>2, <1>3, <1>4, <1>5, <1>6, <1>7 DEF Next, MainStep, ConnStep,
     Environment, Gone, ListenFails, Hup, SharerSetsMode, BeginSighup, manager, vars

(* The same for wg.                                                        *)
LEMMA WaitedStep ==
    ASSUME TypeShape, [Next]_vars
    PROVE  \/ Waited' = Waited /\ wg' = wg
           \/ \E c \in Conns \ Waited : Waited' = Waited \cup {c} /\ wg' = wg + 1
           \/ \E c \in Waited : Waited' = Waited \ {c} /\ wg' = wg - 1
<1> USE DEF TypeShape, ConnStates, Waited
<1>1. CASE conn' = conn /\ wg' = wg
  BY <1>1
<1>2. ASSUME NEW c \in Conns, AcceptConn(c) \/ Refuse(c) \/ HandleReturns(c)
                              \/ DecrementCount(c) \/ CloseConn(c)
      PROVE Waited' = Waited /\ wg' = wg
  BY <1>2 DEF AcceptConn, Refuse, HandleReturns, DecrementCount, CloseConn,
     ConnMoves, manager
<1>3. ASSUME NEW c \in Conns, IncrementAdd(c)
      PROVE c \notin Waited /\ Waited' = Waited \cup {c} /\ wg' = wg + 1
  BY <1>3 DEF IncrementAdd, ConnMoves
<1>4. ASSUME NEW c \in Conns, DecrementDone(c)
      PROVE c \in Waited /\ Waited' = Waited \ {c} /\ wg' = wg - 1
  BY <1>4 DEF DecrementDone, ConnMoves
<1>5. ASSUME NEW r \in Reloads, ReloadStep(r) \/ BeginWeb(r)
      PROVE conn' = conn /\ wg' = wg
  BY <1>5 DEF ReloadStep, BeginShutdown, TakeFd, TakeFdFails, StartChild,
     StartChildFails, ChildRuns, ChildIsGone, Rollback, ReadCount,
     DrainShutdown, CloseListener, CloseReturns, WaitReturns, WaitTimesOut, Exit, BeginWeb,
     manager
<1>6. CASE Listen \/ AcceptClosed \/ MainReturns \/ RetryAccept \/ IncrementCount
           \/ AcceptError \/ AcceptBlocks \/ SharerSetsMode \/ ListenFails \/ Hup
           \/ BeginSighup
  BY <1>1, <1>6 DEF Listen, AcceptClosed, MainReturns, RetryAccept, AcceptError,
     AcceptBlocks, SharerSetsMode, IncrementCount, ListenFails, Hup, BeginSighup,
     manager
<1>7. ASSUME NEW c \in Conns, Admit(c) PROVE conn' = conn /\ wg' = wg
  BY <1>7 DEF Admit, manager
<1> HIDE DEF TypeShape, ConnStates, Waited
<1>8. QED
  BY <1>1, <1>2, <1>3, <1>4, <1>5, <1>6, <1>7 DEF Next, MainStep, ConnStep,
     Environment, Gone, vars

(* Both sets are finite, which is what makes their sizes move with them.   *)
LEMMA BooksFinite == IsFiniteSet(Counted) /\ IsFiniteSet(Waited)
BY ConnsAssumption, FS_Subset DEF Counted, Waited

LEMMA InitCountersExact == Init => CountersExact
<1> SUFFICES ASSUME Init PROVE CountersExact
  OBVIOUS
<1>1. Counted = {} /\ Waited = {}
  BY DEF Init, Counted, Waited
<1>2. QED
  BY <1>1, FS_EmptySet DEF Init, CountersExact

LEMMA StepCountersExact ==
    TypeShape /\ HeldByMain /\ CountersExact /\ [Next]_vars => CountersExact'
<1> SUFFICES ASSUME TypeShape, HeldByMain, CountersExact, [Next]_vars
             PROVE  CountersExact'
  OBVIOUS
<1>1. connCount' = Cardinality(Counted')
  BY CountedStep, BooksFinite, FS_AddElement, FS_RemoveElement DEF CountersExact
<1>2. wg' = Cardinality(Waited')
  BY WaitedStep, BooksFinite, FS_AddElement, FS_RemoveElement DEF CountersExact
<1>3. QED
  BY <1>1, <1>2 DEF CountersExact

-----------------------------------------------------------------------------
(* The inductive invariant of the books.                                   *)
THEOREM Books == Spec => []IInv
<1>1. Init => IInv
  <2>1. Init => SocketShape
    BY DEF Init, SocketShape
  <2>2. QED
    BY <2>1, InitTypeShape, InitHeldByMain, InitCountersExact DEF IInv
<1>2. IInv /\ [Next]_vars => IInv'
  BY StepTypeShape, StepSocketShape, StepHeldByMain, StepCountersExact DEF IInv
<1>3. QED
  BY <1>1, <1>2, PTL DEF Spec

(* Every variable keeps its type, and neither counter goes below zero.     *)
THEOREM TypeCorrect == Spec => []TypeOK
<1>1. IInv => TypeOK
  BY BooksFinite, FS_CardinalityType DEF IInv, TypeShape, SocketShape, TypeOK,
     CountersExact
<1>2. QED
  BY <1>1, Books, PTL

(* connCount and wg equal the connections they count, whatever the         *)
(* interleaving of the accept loop with the connection goroutines.         *)
THEOREM CountersAreExact == Spec => []CountersExact
BY Books, PTL DEF IInv

-----------------------------------------------------------------------------
(* Nothing happens in a process that has ended.                            *)
LEMMA DeadIsStill == ASSUME Next, ~Alive PROVE UNCHANGED vars
<1>1. ~MainStep
  BY DEF MainStep, Listen, AcceptClosed, MainReturns, RetryAccept,
     IncrementCount, Refuse, Admit, IncrementAdd, MainAt
<1>2. ~(\E c \in Conns : ConnStep(c))
  BY DEF ConnStep, DecrementCount, DecrementDone, CloseConn, ConnMoves
<1>3. ~(\E r \in Reloads : ReloadStep(r))
  BY DEF ReloadStep, BeginShutdown, TakeFd, TakeFdFails, StartChild,
     StartChildFails, ChildRuns, ChildIsGone, Rollback, ReadCount,
     DrainShutdown, CloseListener, CloseReturns, WaitReturns, WaitTimesOut, Exit, Goto
<1>4. ~Environment /\ ~BeginSighup
  BY DEF Environment, ListenFails, AcceptError, AcceptBlocks, SharerSetsMode,
     AcceptConn, HandleReturns, Hup, BeginWeb, BeginSighup, MainAt, ConnMoves, Goto
<1>5. QED
  BY <1>1, <1>2, <1>3, <1>4 DEF Next, Gone

(* A process that has ended stays so.                                      *)
LEMMA AliveStep == [Next]_vars /\ Alive' => Alive
BY DeadIsStill DEF Alive, vars

(* What the steps of main, of the connections and of the environment may   *)
(* do to the state of the reloads.                                         *)
LEMMA NonReloadStep ==
    ASSUME Next, ~(\E r \in Reloads : ReloadStep(r))
    PROVE  /\ shuttingDown' = shuttingDown
           /\ exit' \in {exit, "fatal", "mainReturned"}
           /\ Alive' /\ listener' = "closed" => listener = "closed"
           /\ \/ rpc' = rpc
              \/ \E r \in Reloads : Goto(r, "idle", "start")
<1> DEFINE Quiet == /\ shuttingDown' = shuttingDown
                    /\ exit' \in {exit, "fatal", "mainReturned"}
                    /\ Alive' /\ listener' = "closed" => listener = "closed"
                    /\ \/ rpc' = rpc
                       \/ \E r \in Reloads : Goto(r, "idle", "start")
<1> USE DEF manager
<1>1. CASE BeginSighup
  BY <1>1, SighupAssumption DEF BeginSighup
<1>2. ASSUME NEW r \in Reloads, BeginWeb(r) PROVE Quiet
  BY <1>2 DEF BeginWeb
<1>3. CASE MainStep
  BY <1>3 DEF MainStep, Listen, AcceptClosed, MainReturns, RetryAccept,
     IncrementCount, Refuse, Admit, IncrementAdd, Alive
<1>4. ASSUME NEW c \in Conns, ConnStep(c) PROVE Quiet
  BY <1>4 DEF ConnStep, DecrementCount, DecrementDone, CloseConn
<1>5. CASE \/ ListenFails \/ AcceptError \/ AcceptBlocks \/ SharerSetsMode \/ Hup
           \/ \E c \in Conns : AcceptConn(c) \/ HandleReturns(c)
  BY <1>5 DEF ListenFails, AcceptError, AcceptBlocks, SharerSetsMode, AcceptConn,
     HandleReturns, Hup, Alive
<1>6. QED
  BY <1>1, <1>2, <1>3, <1>4, <1>5 DEF Next, Environment, Gone, vars

(* While the process runs it refuses connections only on behalf of a       *)
(* reload in progress, however many reloads overlap.                       *)
THEOREM RefusalIsForReload == Spec => []RefusesOnlyForReload
<1>1. Init => RefusesOnlyForReload
  BY DEF Init, RefusesOnlyForReload
<1>2. ASSUME TypeShape, RefusesOnlyForReload, [Next]_vars PROVE RefusesOnlyForReload'
  <2> SUFFICES ASSUME Alive', shuttingDown'
               PROVE  \E r \in Reloads : InProgress(r)'
    BY DEF RefusesOnlyForReload
  <2>1. CASE UNCHANGED vars
    BY <1>2, <2>1 DEF RefusesOnlyForReload, InProgress, Alive, vars
  <2>2. ASSUME NEW r \in Reloads, ReloadStep(r) PROVE InProgress(r)'
    BY <1>2, <2>2 DEF TypeShape, InProgress, ReloadStep, BeginShutdown, TakeFd, TakeFdFails,
       StartChild, StartChildFails, ChildRuns, ChildIsGone, Rollback, ReadCount,
       DrainShutdown, CloseListener, CloseReturns, WaitReturns, WaitTimesOut, Exit, Goto, Alive
  <2>3. CASE Next /\ ~(\E r \in Reloads : ReloadStep(r))
    <3>1. Alive
      BY <2>3, AliveStep
    <3>2. PICK r \in Reloads : InProgress(r)
      BY <1>2, <2>3, <3>1, NonReloadStep DEF RefusesOnlyForReload
    <3>3. InProgress(r)'
      BY <1>2, <2>3, <3>2, NonReloadStep DEF InProgress, Goto, TypeShape
    <3>4. QED
      BY <3>3
  <2>4. QED
    BY <1>2, <2>1, <2>2, <2>3
<1>3. QED
  BY <1>1, <1>2, Books, PTL DEF Spec, IInv

(* A closed listener belongs to a process that a reload is ending.         *)
THEOREM ClosedIsEnding == Spec => []ClosedOnlyToExit
<1>1. Init => ClosedOnlyToExit
  BY DEF Init, ClosedOnlyToExit
<1>2. ASSUME TypeShape, ClosedOnlyToExit, [Next]_vars PROVE ClosedOnlyToExit'
  <2> DEFINE Ending(r) == rpc[r] \in {"closing", "wait", "drained", "timeout"}
  <2> SUFFICES ASSUME Alive', listener' = "closed"
               PROVE  \E r \in Reloads : Ending(r)'
    BY DEF ClosedOnlyToExit
  <2>1. CASE UNCHANGED vars
    BY <1>2, <2>1 DEF ClosedOnlyToExit, Alive, vars
  <2>2. ASSUME NEW r \in Reloads, ReloadStep(r), listener # "closed"
        PROVE  Ending(r)'
    BY <1>2, <2>2 DEF TypeShape, ReloadStep, BeginShutdown, TakeFd, TakeFdFails,
       StartChild, StartChildFails, ChildRuns, ChildIsGone, Rollback, ReadCount,
       DrainShutdown, CloseListener, CloseReturns, WaitReturns, WaitTimesOut, Exit, Goto,
       Alive, manager
  <2>3. ASSUME NEW r \in Reloads, ReloadStep(r), NEW q \in Reloads, Ending(q)
        PROVE  Ending(q)'
    BY <1>2, <2>3 DEF TypeShape, ReloadStep, BeginShutdown, TakeFd, TakeFdFails,
       StartChild, StartChildFails, ChildRuns, ChildIsGone, Rollback, ReadCount,
       DrainShutdown, CloseListener, CloseReturns, WaitReturns, WaitTimesOut, Exit, Goto,
       Alive, manager, ExitReasons
  <2>4. ASSUME Next, ~(\E r \in Reloads : ReloadStep(r)),
               NEW q \in Reloads, Ending(q)
        PROVE  Ending(q)'
    BY <1>2, <2>4, NonReloadStep DEF Goto, TypeShape
  <2>5. CASE listener = "closed" /\ Next
    <3>1. PICK q \in Reloads : Ending(q)
      BY <1>2, <2>5, AliveStep DEF ClosedOnlyToExit
    <3>2. Ending(q)'
      BY <2>3, <2>4, <2>5, <3>1
    <3>3. QED
      BY <3>2
  <2>6. CASE listener # "closed" /\ Next
    BY <2>2, <2>6, NonReloadStep
  <2>7. QED
    BY <1>2, <2>1, <2>5, <2>6
<1>3. QED
  BY <1>1, <1>2, Books, PTL DEF Spec, IInv

-----------------------------------------------------------------------------
(* As long as reloads have not overlapped, the one in progress is alone,   *)
(* and the flag is set.                                                    *)
FlagHeld ==
    Alive /\ ~overlapped =>
        /\ \A r \in Reloads : InProgress(r) => shuttingDown
        /\ \A q, r \in Reloads : InProgress(q) /\ InProgress(r) => q = r

(* Overlapping is for ever, and only comes from a reload that begins while *)
(* another one is in progress.                                             *)
LEMMA OverlapStep ==
    ASSUME SocketShape, [Next]_vars, ~overlapped'
    PROVE  /\ ~overlapped
           /\ \A r, q \in Reloads : BeginShutdown(r) => ~InProgress(q)
<1>1. ASSUME NEW r \in Reloads, BeginShutdown(r)
      PROVE  ~overlapped /\ \A q \in Reloads : ~InProgress(q)
  BY <1>1 DEF BeginShutdown
<1>2. CASE overlapped' = overlapped
  BY <1>1, <1>2, Zenon
<1>3. CASE \E r \in Reloads : BeginShutdown(r)
  BY <1>1, <1>3, Zenon
<1>4. QED
  BY <1>2, <1>3, SocketStep, Zenon

LEMMA FlagStep ==
    ASSUME TypeShape, SocketShape, FlagHeld, [Next]_vars
    PROVE  FlagHeld'
<1> SUFFICES ASSUME Alive', ~overlapped'
             PROVE  /\ \A r \in Reloads : InProgress(r)' => shuttingDown'
                    /\ \A q, r \in Reloads : InProgress(q)' /\ InProgress(r)' => q = r
  BY DEF FlagHeld
<1>1. /\ Alive /\ ~overlapped
      /\ \A r \in Reloads : InProgress(r) => shuttingDown
      /\ \A q, r \in Reloads : InProgress(q) /\ InProgress(r) => q = r
  BY AliveStep, OverlapStep DEF FlagHeld
<1>2. CASE UNCHANGED vars
  BY <1>1, <1>2 DEF InProgress, vars
<1>3. ASSUME NEW r \in Reloads, BeginShutdown(r)
      PROVE  shuttingDown' /\ \A q \in Reloads : InProgress(q)' => q = r
  <2>1. \A q \in Reloads : ~InProgress(q)
    BY <1>3, OverlapStep
  <2>2. shuttingDown' = TRUE /\ rpc' = [rpc EXCEPT ![r] = "fd"]
    BY <1>3 DEF BeginShutdown, Goto
  <2>3. QED
    BY <2>1, <2>2 DEF InProgress, TypeShape
<1>4. ASSUME NEW r \in Reloads, Rollback(r)
      PROVE  \A q \in Reloads : ~InProgress(q)'
  <2>1. InProgress(r) /\ rpc' = [rpc EXCEPT ![r] = "idle"]
    BY <1>4 DEF Rollback, Goto, InProgress
  <2>2. QED
    BY <1>1, <2>1 DEF InProgress, TypeShape
<1>5. ASSUME NEW r \in Reloads, ReloadStep(r), ~BeginShutdown(r), ~Rollback(r)
      PROVE  /\ shuttingDown => shuttingDown'
             /\ \A q \in Reloads : InProgress(q)' <=> InProgress(q)
  BY <1>5 DEF TypeShape, InProgress, ReloadStep, TakeFd, TakeFdFails, StartChild,
     StartChildFails, ChildRuns, ChildIsGone, ReadCount, DrainShutdown,
     CloseListener, CloseReturns, WaitReturns, WaitTimesOut, Exit, Goto, manager,
     ExitReasons
<1>6. CASE Next /\ ~(\E r \in Reloads : ReloadStep(r))
  <2>1. /\ shuttingDown' = shuttingDown
        /\ \A q \in Reloads : InProgress(q)' <=> InProgress(q)
    BY <1>6, NonReloadStep DEF InProgress, Goto, TypeShape
  <2>2. QED
    BY <1>1, <2>1
<1>7. ASSUME NEW r \in Reloads, ReloadStep(r)
      PROVE  /\ \A q \in Reloads : InProgress(q)' => shuttingDown'
             /\ \A p, q \in Reloads : InProgress(p)' /\ InProgress(q)' => p = q
  <2>1. CASE BeginShutdown(r)
    BY <1>3, <2>1
  <2>2. CASE Rollback(r)
    BY <1>4, <2>2
  <2>3. CASE ~BeginShutdown(r) /\ ~Rollback(r)
    BY <1>1, <1>5, <1>7, <2>3
  <2>4. QED
    BY <2>1, <2>2, <2>3
<1>8. QED
  BY <1>2, <1>6, <1>7

LEMMA FlagIsHeld == Spec => []FlagHeld
<1>1. Init => FlagHeld
  BY DEF Init, FlagHeld, InProgress
<1>2. IInv /\ FlagHeld /\ [Next]_vars => FlagHeld'
  BY FlagStep DEF IInv
<1>3. QED
  BY <1>1, <1>2, Books, PTL DEF Spec

(* As long as reloads do not overlap, none lets a connection past          *)
(* CanAcceptConnection between SetShuttingDown(true) and its roll-back, or *)
(* the exit of the process.                                                *)
THEOREM ReloadAdmitsNone == Spec => NoAdmissionDuringReload
<1>1. ASSUME FlagHeld
      PROVE  [~overlapped => \A c \in Conns : Admit(c) =>
                \A r \in Reloads : rpc[r] \in {"idle", "start"}]_vars
  BY <1>1 DEF FlagHeld, InProgress, Admit, MainAt
<1>2. QED
  BY <1>1, FlagIsHeld, PTL DEF NoAdmissionDuringReload

(* Only Admit makes the set of admitted connections grow.                  *)
LEMMA AdmittedStep ==
    ASSUME TypeShape, HeldByMain, [Next]_vars, ~(\E c \in Conns : Admit(c))
    PROVE  Admitted' \subseteq Admitted
<1> USE DEF TypeShape, HeldByMain, ConnStates, Admitted
<1>1. CASE conn' = conn /\ mainPc' = mainPc
  BY <1>1
<1>2. CASE Listen \/ AcceptClosed \/ MainReturns \/ RetryAccept \/ AcceptError
           \/ AcceptBlocks \/ IncrementCount
  BY <1>2 DEF Listen, AcceptClosed, MainReturns, RetryAccept, AcceptError,
     AcceptBlocks, IncrementCount, MainAt
<1>3. ASSUME NEW c \in Conns, Refuse(c) \/ IncrementAdd(c) \/ AcceptConn(c)
      PROVE Admitted' \subseteq Admitted
  BY <1>3 DEF Refuse, IncrementAdd, AcceptConn, MainAt, ConnMoves
<1>4. ASSUME NEW c \in Conns, HandleReturns(c) \/ ConnStep(c)
      PROVE Admitted' \subseteq Admitted
  BY <1>4 DEF ConnStep, HandleReturns, DecrementCount, DecrementDone, CloseConn,
     ConnMoves
<1>5. ASSUME NEW r \in Reloads, ReloadStep(r) \/ BeginWeb(r)
      PROVE conn' = conn /\ mainPc' = mainPc
  BY <1>5 DEF ReloadStep, BeginShutdown, TakeFd, TakeFdFails, StartChild,
     StartChildFails, ChildRuns, ChildIsGone, Rollback, ReadCount,
     DrainShutdown, CloseListener, CloseReturns, WaitReturns, WaitTimesOut, Exit, BeginWeb
<1> HIDE DEF TypeShape, HeldByMain, ConnStates, Admitted
<1>6. QED
  BY <1>1, <1>2, <1>3, <1>4, <1>5 DEF Next, MainStep, Environment, Gone,
     ListenFails, Hup, SharerSetsMode, BeginSighup, vars

(* What a reload saw when it decided to leave, and the flag since then,    *)
(* leave room for one connection.                                          *)
Leaving(r) == rpc[r] \in {"noConns", "drained"}

OneStraggler ==
    ~overlapped =>
        /\ (\E r \in Reloads : Leaving(r)) => \A c, d \in Admitted : c = d
        /\ exit \in {"noConns", "drained"} => \E r \in Reloads : Leaving(r)

LEMMA StragglerStep ==
    ASSUME IInv, FlagHeld, OneStraggler, [Next]_vars
    PROVE  OneStraggler'
<1> USE DEF IInv
<1> SUFFICES ASSUME ~overlapped'
             PROVE  /\ (\E r \in Reloads : Leaving(r)') => \A c, d \in Admitted' : c = d
                    /\ exit' \in {"noConns", "drained"} =>
                         \E r \in Reloads : Leaving(r)'
  BY DEF OneStraggler
<1>1. /\ ~overlapped
      /\ (\E r \in Reloads : Leaving(r)) => \A c, d \in Admitted : c = d
      /\ exit \in {"noConns", "drained"} => \E r \in Reloads : Leaving(r)
  BY OverlapStep DEF OneStraggler
<1>2. CASE UNCHANGED vars
  BY <1>1, <1>2 DEF Leaving, Admitted, vars
<1>3. ASSUME NEW r \in Reloads, ReloadStep(r) PROVE Admitted' = Admitted
  BY <1>3 DEF Admitted, ReloadStep, BeginShutdown, TakeFd, TakeFdFails, StartChild,
     StartChildFails, ChildRuns, ChildIsGone, Rollback, ReadCount, DrainShutdown,
     CloseListener, CloseReturns, WaitReturns, WaitTimesOut, Exit
<1>4. ASSUME NEW r \in Reloads, ReadCount(r), ~(connCount > 0)
      PROVE  \A c, d \in Admitted : c = d
  <2>1. Counted = {}
    BY <1>4, BooksFinite, FS_EmptySet, FS_CardinalityType DEF CountersExact
  <2>2. QED
    BY <2>1 DEF Admitted, Counted, HeldByMain
<1>5. ASSUME NEW r \in Reloads, WaitReturns(r)
      PROVE  \A c, d \in Admitted : c = d
  <2>1. Waited = {}
    BY <1>5, BooksFinite, FS_EmptySet DEF CountersExact, WaitReturns
  <2>2. QED
    BY <2>1 DEF Admitted, Waited, HeldByMain
<1>6. ASSUME NEW r \in Reloads, ReloadStep(r), NEW q \in Reloads, Leaving(q)'
      PROVE  Leaving(q) \/ (ReadCount(r) /\ ~(connCount > 0)) \/ WaitReturns(r)
  BY <1>6 DEF Leaving, TypeShape, ReloadStep, BeginShutdown, TakeFd, TakeFdFails,
     StartChild, StartChildFails, ChildRuns, ChildIsGone, Rollback, ReadCount,
     DrainShutdown, CloseListener, CloseReturns, WaitReturns, WaitTimesOut, Exit,
     Goto, ExitReasons
<1>7. ASSUME NEW r \in Reloads, ReloadStep(r), exit' \in {"noConns", "drained"}
      PROVE  Leaving(r)'
  BY <1>7 DEF Leaving, ReloadStep, BeginShutdown, TakeFd, TakeFdFails, StartChild,
     StartChildFails, ChildRuns, ChildIsGone, Rollback, ReadCount, DrainShutdown,
     CloseListener, CloseReturns, WaitReturns, WaitTimesOut, Exit, Goto, Alive
<1>8. CASE Next /\ ~(\E r \in Reloads : ReloadStep(r))
  <2>1. exit' \in {"noConns", "drained"} => exit' = exit
    BY <1>8, NonReloadStep
  <2>2. \A r \in Reloads : Leaving(r)' <=> Leaving(r)
    BY <1>8, NonReloadStep DEF Leaving, Goto, TypeShape
  <2>3. ASSUME NEW r \in Reloads, Leaving(r) PROVE ~(\E c \in Conns : Admit(c))
    BY <1>1, <2>3 DEF FlagHeld, Leaving, InProgress, Admit, MainAt
  <2>4. ASSUME NEW r \in Reloads, Leaving(r) PROVE Admitted' \subseteq Admitted
    BY <1>8, <2>3, <2>4, AdmittedStep
  <2>5. QED
    BY <1>1, <2>1, <2>2, <2>4
<1>9. QED
  BY <1>1, <1>2, <1>3, <1>4, <1>5, <1>6, <1>7, <1>8

(* When a reload ends the process because it saw no connection, or saw the *)
(* last one end, and no reloads have overlapped, at most one admitted      *)
(* connection is cut.                                                      *)
THEOREM ReloadCutsAtMostOne == Spec => []CutsAtMostOne
<1>1. Init => OneStraggler
  BY DEF Init, OneStraggler, Leaving
<1>2. IInv /\ FlagHeld /\ OneStraggler /\ [Next]_vars => OneStraggler'
  BY StragglerStep
<1>3. OneStraggler => CutsAtMostOne
  BY DEF OneStraggler, CutsAtMostOne
<1>4. QED
  BY <1>1, <1>2, <1>3, FlagIsHeld, Books, PTL DEF Spec

-----------------------------------------------------------------------------
(* The counter the readers see implements ConnLedger.                      *)
THEOREM Refinement == Spec => ImplementsLedger
<1>1. Init => Ledger!Init
  BY DEF Init, Ledger!Init, Counted, Alive
<1>2. ASSUME IInv, [Next]_vars PROVE [Ledger!Next]_(Ledger!vars)
  <2>1. CASE Counted' = Counted /\ connCount' = connCount
    BY <1>2, <2>1, AliveStep DEF Ledger!Next, Ledger!Stop, Ledger!vars, Alive
  <2>2. CASE \E c \in Conns \ Counted :
               /\ Counted' = Counted \cup {c}
               /\ connCount' = connCount + 1
               /\ Alive /\ Alive'
    BY <2>2 DEF Ledger!Next, Ledger!Enter, Alive
  <2>3. CASE \E c \in Counted :
               /\ Counted' = Counted \ {c}
               /\ connCount' = connCount - 1
               /\ Alive /\ Alive'
    BY <2>3 DEF Ledger!Next, Ledger!Leave, Alive, Counted
  <2>4. QED
    BY <1>2, <2>1, <2>2, <2>3, CountedStep DEF IInv
<1>3. QED
  BY <1>1, <1>2, Books, PTL DEF Spec, ImplementsLedger, Ledger!Spec

-----------------------------------------------------------------------------
(* A reload implements Handover.                                           *)

Waiting == {r \in Reloads : Alive /\ rpc[r] = "probe"}

(* A step of a reload that neither comes to the probe nor leaves it, and   *)
(* stays on its side of it, is none of Handover's.                         *)
LEMMA GotoElsewhere ==
    ASSUME TypeShape, NEW r \in Reloads, NEW from, NEW to, Goto(r, from, to),
           from # "probe", to # "probe", from \in PastProbe <=> to \in PastProbe,
           exit' = exit
    PROVE  Waiting' = Waiting /\ Probed' = Probed /\ Alive /\ Alive'
<1>1. Alive /\ Alive'
  BY DEF Goto, Alive
<1>2. \A q \in Reloads : /\ rpc'[q] = "probe" <=> rpc[q] = "probe"
                         /\ rpc'[q] \in PastProbe <=> rpc[q] \in PastProbe
  BY DEF Goto, TypeShape
<1>3. QED
  BY <1>1, <1>2 DEF Waiting, Probed

(* The steps that say no more than that the process is where it was.       *)
LEMMA QuietStep ==
    ASSUME Waiting' = Waiting, Probed' = Probed, exit' = exit,
           shuttingDown' = shuttingDown, overlapped' = overlapped
    PROVE  UNCHANGED Handed!vars
BY DEF Waiting, Handed!vars, Ended, Alive

(* While reloads come one at a time, one that has not come to the probe,   *)
(* or was rolled back, is the only one, and the flag is up.                *)
LEMMA AloneAndRefusing ==
    ASSUME FlagHeld, NEW r \in Reloads, Alive, rpc[r] \in {"spawn", "rollback"}
    PROVE  ~overlapped => shuttingDown /\ Waiting = {} /\ Probed = {}
<1> SUFFICES ASSUME ~overlapped PROVE shuttingDown /\ Waiting = {} /\ Probed = {}
  OBVIOUS
<1>1. shuttingDown /\ \A q \in Reloads : InProgress(q) => q = r
  BY DEF FlagHeld, InProgress
<1>2. \A q \in Reloads : rpc[q] = "probe" \/ rpc[q] \in PastProbe => InProgress(q) /\ q # r
  BY DEF InProgress, PastProbe, ExitReasons
<1>3. QED
  BY <1>1, <1>2 DEF Waiting, Probed

LEMMA ReloadHandover ==
    ASSUME TypeShape, FlagHeld, NEW r \in Reloads, ReloadStep(r)
    PROVE  [Handed!Next]_(Handed!vars)
<1>1. CASE StartChild(r)
  <2>1. /\ Alive /\ Alive' /\ rpc[r] = "spawn" /\ rpc' = [rpc EXCEPT ![r] = "probe"]
        /\ exit' = exit /\ shuttingDown' = shuttingDown /\ overlapped' = overlapped
    BY <1>1 DEF StartChild, Goto, Alive, manager
  <2>2. r \notin Waiting /\ Waiting' = Waiting \cup {r} /\ Probed' = Probed
    BY <2>1 DEF Waiting, Probed, TypeShape, PastProbe, ExitReasons
  <2>3. ~overlapped => shuttingDown /\ Waiting = {} /\ Probed = {}
    BY <2>1, AloneAndRefusing
  <2>4. Handed!Start(r)
    BY <2>1, <2>2, <2>3 DEF Handed!Start, Handed!Undecided, Waiting
  <2>5. QED
    BY <2>4 DEF Handed!Next
<1>2. CASE ChildRuns(r)
  <2>1. /\ Alive /\ Alive' /\ rpc[r] = "probe" /\ rpc' = [rpc EXCEPT ![r] = "count"]
        /\ exit' = exit /\ shuttingDown' = shuttingDown /\ overlapped' = overlapped
    BY <1>2 DEF ChildRuns, Goto, Alive, manager, socket
  <2>2. r \in Waiting /\ Waiting' = Waiting \ {r} /\ r \in Probed'
    BY <2>1 DEF Waiting, Probed, TypeShape, PastProbe
  <2>3. Handed!FoundRunning(r)
    BY <2>1, <2>2 DEF Handed!FoundRunning, Waiting
  <2>4. QED
    BY <2>3 DEF Handed!Next
<1>3. CASE ChildIsGone(r)
  <2>1. /\ Alive /\ Alive' /\ rpc[r] = "probe" /\ rpc' = [rpc EXCEPT ![r] = "rollback"]
        /\ exit' = exit /\ shuttingDown' = shuttingDown /\ overlapped' = overlapped
    BY <1>3 DEF ChildIsGone, Goto, Alive, manager, socket
  <2>2. r \in Waiting /\ Waiting' = Waiting \ {r} /\ Probed' = Probed
    BY <2>1 DEF Waiting, Probed, TypeShape, PastProbe, ExitReasons
  <2>3. Handed!FoundGone(r)
    BY <2>1, <2>2 DEF Handed!FoundGone, Waiting
  <2>4. QED
    BY <2>3 DEF Handed!Next
<1>4. CASE Exit(r)
  <2>1. /\ Alive /\ ~Alive' /\ exit' \in ExitReasons /\ r \in Probed
        /\ shuttingDown' = shuttingDown /\ overlapped' = overlapped
    BY <1>4 DEF Exit, Alive, ExitReasons, Probed, PastProbe, manager, socket
  <2>2. Waiting' = {} /\ Ended' = "replaced"
    BY <2>1 DEF Waiting, Ended
  <2>3. Handed!End
    BY <2>1, <2>2 DEF Handed!End, Waiting
  <2>4. QED
    BY <2>3 DEF Handed!Next
<1>5. CASE ~(StartChild(r) \/ ChildRuns(r) \/ ChildIsGone(r) \/ Exit(r))
  <2>1. exit' = exit
    BY <1>5 DEF ReloadStep, BeginShutdown, TakeFd, TakeFdFails, StartChildFails,
       Rollback, ReadCount, DrainShutdown, CloseListener, CloseReturns, WaitReturns,
       WaitTimesOut
  <2>2. PICK from, to : /\ Goto(r, from, to)
                        /\ from # "probe" /\ to # "probe"
                        /\ from \in PastProbe <=> to \in PastProbe
    <3>1. {"idle", "start", "fd", "spawn", "rollback"} \cap PastProbe = {}
      BY DEF PastProbe, ExitReasons
    <3>2. CASE \/ BeginShutdown(r) \/ TakeFd(r) \/ TakeFdFails(r)
               \/ StartChildFails(r) \/ Rollback(r)
      BY <3>1, <3>2, Zenon DEF BeginShutdown, TakeFd, TakeFdFails, StartChildFails, Rollback
    <3>3. CASE ReadCount(r) \/ DrainShutdown(r) \/ CloseListener(r)
      BY <3>3, Zenon DEF ReadCount, DrainShutdown, CloseListener, PastProbe, ExitReasons
    <3>4. CASE CloseReturns(r) \/ WaitReturns(r) \/ WaitTimesOut(r)
      BY <3>4, Zenon DEF CloseReturns, WaitReturns, WaitTimesOut, PastProbe, ExitReasons
    <3>5. QED
      BY <1>5, <3>2, <3>3, <3>4 DEF ReloadStep
  <2>3. Waiting' = Waiting /\ Probed' = Probed /\ Alive /\ Alive'
    BY <2>1, <2>2, GotoElsewhere
  <2>4. CASE BeginShutdown(r) \/ DrainShutdown(r)
    <3>1. shuttingDown' = TRUE
      BY <2>4, Zenon DEF BeginShutdown, DrainShutdown
    <3>2. ~overlapped' => ~overlapped
      BY <2>4, Zenon DEF BeginShutdown, DrainShutdown, socket
    <3>3. Handed!Refuse
      BY <2>3, <3>1, <3>2 DEF Handed!Refuse, Waiting
    <3>4. QED
      BY <3>3 DEF Handed!Next
  <2>5. CASE Rollback(r)
    <3>1. shuttingDown' = FALSE /\ overlapped' = overlapped /\ rpc[r] = "rollback"
      BY <2>5 DEF Rollback, Goto, socket
    <3>2. ~overlapped => Waiting = {} /\ Probed = {}
      BY <2>3, <3>1, AloneAndRefusing
    <3>3. Handed!Resume
      BY <2>3, <3>1, <3>2 DEF Handed!Resume, Handed!Undecided, Waiting
    <3>4. QED
      BY <3>3 DEF Handed!Next
  <2>6. CASE ~(BeginShutdown(r) \/ DrainShutdown(r) \/ Rollback(r))
    <3>1. shuttingDown' = shuttingDown /\ overlapped' = overlapped
      BY <1>5, <2>6 DEF ReloadStep, TakeFd, TakeFdFails, StartChildFails, ReadCount,
         CloseListener, CloseReturns, WaitReturns, WaitTimesOut, manager, socket
    <3>2. QED
      BY <2>1, <2>3, <3>1, QuietStep
  <2>7. QED
    BY <2>4, <2>5, <2>6
<1>6. QED
  BY <1>1, <1>2, <1>3, <1>4, <1>5

(* Whatever becomes of the process apart from its reloads.                 *)
LEMMA EndHandover ==
    ASSUME TypeShape, MainReturns \/ ListenFails
    PROVE  Handed!Next
<1>1. /\ Alive /\ ~Alive' /\ rpc' = rpc /\ Waiting' = {}
      /\ exit' \in {"fatal", "mainReturned"}
      /\ shuttingDown' = shuttingDown /\ overlapped' = overlapped
  BY DEF MainReturns, ListenFails, MainAt, Alive, Waiting, manager, socket
<1>2. Probed' = Probed
  BY <1>1 DEF Probed
<1>3. Ended' = "other" \/ (Ended' = "replaced" /\ Probed # {})
  BY <1>1, <1>2 DEF Ended, ExitReasons
<1>4. Handed!End
  BY <1>1, <1>3 DEF Handed!End, Waiting
<1>5. QED
  BY <1>4 DEF Handed!Next

(* No other step of main, a connection or the environment ends the process.*)
LEMMA StaysUp ==
    ASSUME Next, ~(\E r \in Reloads : ReloadStep(r)), ~(MainReturns \/ ListenFails)
    PROVE  exit' = exit
<1>1. CASE MainStep
  BY <1>1 DEF MainStep, Listen, AcceptClosed, RetryAccept, IncrementCount, Refuse,
     Admit, IncrementAdd
<1>2. CASE \E c \in Conns : ConnStep(c)
  BY <1>2 DEF ConnStep, DecrementCount, DecrementDone, CloseConn
<1>3. CASE BeginSighup \/ Environment
  BY <1>3 DEF BeginSighup, Environment, AcceptError, AcceptBlocks, SharerSetsMode,
     AcceptConn, HandleReturns, Hup, BeginWeb
<1>4. QED
  BY <1>1, <1>2, <1>3 DEF Next, Gone, vars

(* However many reloads overlap, and whatever fails on the way: the        *)
(* process is replaced only after a child was found running, and that      *)
(* decision is not taken back.  While no two have overlapped, the process  *)
(* refuses connections from before the fork until the child is found gone, *)
(* or it ends.                                                             *)
THEOREM HandsOver == Spec => ImplementsHandover
<1>1. Init => Handed!Init
  BY DEF Init, Handed!Init, Alive, Probed, PastProbe, ExitReasons
<1>2. ASSUME TypeShape, SocketShape, FlagHeld, [Next]_vars PROVE [Handed!Next]_(Handed!vars)
  <2>1. CASE UNCHANGED vars
    <3>1. /\ Waiting' = Waiting /\ Probed' = Probed /\ exit' = exit
          /\ shuttingDown' = shuttingDown /\ overlapped' = overlapped
      BY <2>1 DEF vars, Waiting, Probed, Alive
    <3>2. QED
      BY <3>1, QuietStep
  <2>2. ASSUME NEW r \in Reloads, ReloadStep(r) PROVE [Handed!Next]_(Handed!vars)
    BY <1>2, <2>2, ReloadHandover
  <2>3. CASE MainReturns \/ ListenFails
    BY <1>2, <2>3, EndHandover
  <2>4. CASE /\ Next /\ ~(\E r \in Reloads : ReloadStep(r))
             /\ ~(MainReturns \/ ListenFails)
    <3>1. exit' = exit /\ shuttingDown' = shuttingDown /\ overlapped' = overlapped
      <4>1. overlapped' = overlapped
        BY <2>4, SocketStep DEF ReloadStep
      <4>2. QED
        BY <2>4, <4>1, StaysUp, NonReloadStep
    <3>2. \/ rpc' = rpc
          \/ \E r \in Reloads : Goto(r, "idle", "start")
      BY <2>4, NonReloadStep
    <3>3. CASE rpc' = rpc
      <4>1. Waiting' = Waiting /\ Probed' = Probed
        BY <3>1, <3>3 DEF Waiting, Probed, Alive
      <4>2. QED
        BY <3>1, <4>1, QuietStep
    <3>4. ASSUME NEW r \in Reloads, Goto(r, "idle", "start")
          PROVE  [Handed!Next]_(Handed!vars)
      <4>1. "idle" \notin PastProbe /\ "start" \notin PastProbe
        BY DEF PastProbe, ExitReasons
      <4>2. Waiting' = Waiting /\ Probed' = Probed
        BY <1>2, <3>1, <3>4, <4>1, GotoElsewhere
      <4>3. QED
        BY <3>1, <4>2, QuietStep
    <3>5. QED
      BY <3>2, <3>3, <3>4
  <2>5. QED
    BY <1>2, <2>1, <2>2, <2>3, <2>4
<1>3. QED
  BY <1>1, <1>2, FlagIsHeld, Books, PTL DEF Spec, IInv, ImplementsHandover, Handed!Spec
-----------------------------------------------------------------------------
(* The accept loop ends the process only for a reload.                     *)

MainLeavesForReload ==
    exit = "mainReturned" => \E r \in Reloads : InProgress(r)

(* However accept fails, and however reloads and their roll-backs overlap, *)
(* listenAndServe (main.go) does not return, and end the process with its  *)
(* connections, unless a reload is in progress at that moment.             *)
THEOREM MainIsNotLeft == Spec => []MainLeavesForReload
<1>1. Init => MainLeavesForReload
  BY DEF Init, MainLeavesForReload
<1>2. ASSUME TypeShape, RefusesOnlyForReload, MainLeavesForReload, [Next]_vars
      PROVE  MainLeavesForReload'
  <2> SUFFICES ASSUME exit' = "mainReturned" PROVE \E r \in Reloads : InProgress(r)'
    BY DEF MainLeavesForReload
  <2>1. CASE MainReturns
    BY <1>2, <2>1 DEF MainReturns, MainAt, RefusesOnlyForReload, InProgress
  <2>2. CASE ListenFails
    BY <2>2 DEF ListenFails
  <2>3. ASSUME NEW r \in Reloads, ReloadStep(r) PROVE FALSE
    <3>1. Alive
      BY <2>3 DEF ReloadStep, BeginShutdown, TakeFd, TakeFdFails, StartChild,
         StartChildFails, ChildRuns, ChildIsGone, Rollback, ReadCount, DrainShutdown,
         CloseListener, CloseReturns, WaitReturns, WaitTimesOut, Exit, Goto
    <3>2. exit' = exit \/ exit' \in ExitReasons
      BY <2>3 DEF ReloadStep, BeginShutdown, TakeFd, TakeFdFails, StartChild,
         StartChildFails, ChildRuns, ChildIsGone, Rollback, ReadCount, DrainShutdown,
         CloseListener, CloseReturns, WaitReturns, WaitTimesOut, Exit
    <3>3. QED
      BY <3>1, <3>2 DEF Alive, ExitReasons
  <2>4. CASE UNCHANGED vars
    BY <1>2, <2>4 DEF vars, MainLeavesForReload, InProgress
  <2>5. CASE Next /\ ~(\E r \in Reloads : ReloadStep(r)) /\ ~(MainReturns \/ ListenFails)
    <3>1. exit = "mainReturned"
      BY <2>5, StaysUp
    <3>2. ~Alive'
      BY DEF Alive
    <3>3. UNCHANGED vars
      BY <2>5, <3>1, DeadIsStill DEF Alive
    <3>4. QED
      BY <2>4, <3>3
  <2>6. QED
    BY <1>2, <2>1, <2>2, <2>3, <2>4, <2>5
<1>3. QED
  BY <1>1, <1>2, RefusalIsForReload, Books, PTL DEF Spec, IInv
=============================================================================
