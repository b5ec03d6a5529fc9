----------------------------- MODULE HotReload -----------------------------
(***************************************************************************)
(* One process of tls-shunt-proxy from the moment its signal handler is    *)
(* installed: the accept loop of listenAndServe (main.go), the goroutine   *)
(* of each connection, the bookkeeping of config.HotReloadManager and the  *)
(* goroutines that run ZeroDowntimeReload, which are the one reading the   *)
(* SIGHUP channel and those POST /api/reload starts.  Nothing in the code  *)
(* keeps two of them from running at once.                                 *)
(*                                                                         *)
(* A step is what the code does under one lock, or one system call.  What  *)
(* handle() does with a connection, and how long it takes, is the          *)
(* environment's choice.  The child that a reload starts appears only as   *)
(* the outcome of the calls made about it; Generations models it.          *)
(***************************************************************************)
EXTENDS Integers, FiniteSets

CONSTANTS
    Conns,        \* the connections this process may hold at one time
    Reloads,      \* the goroutines that may run ZeroDowntimeReload at one time
    Sighup        \* the one among them that reads the signal channel

ASSUME ConnsAssumption == IsFiniteSet(Conns)
ASSUME SighupAssumption == Sighup \in Reloads

VARIABLES
    listener,     \* HotReloadManager.listener: nil, listening, or closed
    shuttingDown, \* HotReloadManager.shuttingDown
    connCount,    \* HotReloadManager.connCount
    wg,           \* the counter of HotReloadManager.wg
    conn,         \* how far each connection has come
    mainPc,       \* where the accept loop is
    rpc,          \* where each reload is
    sigChan,      \* the signal channel (capacity 1) holds a SIGHUP
    exit,         \* "running", or what ended the process
    inheritedLn,  \* the listener came from the process that started this one
    blocking,     \* the listening socket is in blocking mode
    overlapped    \* history: two reloads were in progress at one time

vars == <<listener, shuttingDown, connCount, wg, conn, mainPc, rpc, sigChan, exit,
          inheritedLn, blocking, overlapped>>

manager == <<listener, shuttingDown, connCount, wg>>

socket == <<inheritedLn, blocking, overlapped>>

(* "open": main holds it and has not started its goroutine yet.  Then its  *)
(* goroutine is in handle(), in the deferred DecrementConnection before    *)
(* connCount--, before wg.Done(), and before c.Close().                    *)
ConnStates == {"off", "open", "handling", "finished", "uncounted", "released"}

(* "blocked" is an accept4 that sleeps in the kernel, out of the reach of  *)
(* the runtime's poller.                                                   *)
MainStates == {"listen", "accept", "blocked", "failed", "check", "count", "add"}

ExitReasons == {"noConns", "drained", "timeout"}

ReloadStates == {"idle", "start", "fd", "spawn", "probe", "rollback",
                 "count", "drain", "close", "closing", "wait"} \cup ExitReasons

(* Past SetShuttingDown(true) and neither rolled back nor gone.            *)
InProgress(r) == rpc[r] \notin {"idle", "start"}

-----------------------------------------------------------------------------
(* An inherited listener is already set when the process gets here, an     *)
(* ordinary start has none yet.                                            *)
Init ==
    /\ inheritedLn \in BOOLEAN
    /\ blocking \in (IF inheritedLn THEN BOOLEAN ELSE {FALSE})
    /\ overlapped = FALSE
    /\ listener = IF inheritedLn THEN "open" ELSE "none"
    /\ shuttingDown = FALSE
    /\ connCount = 0
    /\ wg = 0
    /\ conn = [c \in Conns |-> "off"]
    /\ mainPc = "listen"
    /\ rpc = [r \in Reloads |-> "idle"]
    /\ sigChan = FALSE
    /\ exit = "running"

Alive == exit = "running"

MainAt(pc) == Alive /\ mainPc = pc

ConnMoves(c, from, to) ==
    /\ Alive
    /\ conn[c] = from
    /\ conn' = [conn EXCEPT ![c] = to]

Goto(r, from, to) ==
    /\ Alive
    /\ rpc[r] = from
    /\ rpc' = [rpc EXCEPT ![r] = to]

-----------------------------------------------------------------------------
(* The accept loop.                                                        *)

Listen ==
    /\ MainAt("listen")
    /\ listener' = IF inheritedLn THEN listener ELSE "open"
    /\ mainPc' = "accept"
    /\ UNCHANGED <<socket, shuttingDown, connCount, wg, conn, rpc, sigChan, exit>>

ListenFails ==
    /\ MainAt("listen")
    /\ ~inheritedLn
    /\ exit' = "fatal"
    /\ UNCHANGED <<socket, manager, conn, mainPc, rpc, sigChan>>

(* An accept4 that sleeps in the kernel outlives the close of the listener.*)
AcceptConn(c) ==
    /\ MainAt("blocked") \/ (MainAt("accept") /\ listener = "open")
    /\ ConnMoves(c, "off", "open")
    /\ mainPc' = "check"
    /\ UNCHANGED <<socket, manager, rpc, sigChan, exit>>

AcceptClosed ==
    /\ MainAt("accept")
    /\ listener = "closed"
    /\ mainPc' = "failed"
    /\ UNCHANGED <<socket, manager, conn, rpc, sigChan, exit>>

(* accept4 finds no connection, because another process took it or the     *)
(* client has left, and the socket is in blocking mode.                    *)
AcceptBlocks ==
    /\ MainAt("accept")
    /\ listener = "open"
    /\ blocking
    /\ mainPc' = "blocked"
    /\ UNCHANGED <<socket, manager, conn, rpc, sigChan, exit>>

(* EMFILE and the like.                                                    *)
AcceptError ==
    /\ MainAt("accept")
    /\ listener = "open"
    /\ mainPc' = "failed"
    /\ UNCHANGED <<socket, manager, conn, rpc, sigChan, exit>>

(* listenAndServe is the last call of main(), so leaving it ends the       *)
(* process and every goroutine in it.                                      *)
MainReturns ==
    /\ MainAt("failed")
    /\ shuttingDown
    /\ listener' = "closed"
    /\ exit' = "mainReturned"
    /\ UNCHANGED <<socket, shuttingDown, connCount, wg, conn, mainPc, rpc, sigChan>>

RetryAccept ==
    /\ MainAt("failed")
    /\ ~shuttingDown
    /\ mainPc' = "accept"
    /\ UNCHANGED <<socket, manager, conn, rpc, sigChan, exit>>

Refuse(c) ==
    /\ MainAt("check")
    /\ shuttingDown
    /\ ConnMoves(c, "open", "off")
    /\ mainPc' = "accept"
    /\ UNCHANGED <<socket, manager, rpc, sigChan, exit>>

(* Mutant: CanAcceptConnection is not asked.                               *)
AdmitAlways(c) ==
    /\ MainAt("check")
    /\ conn[c] = "open"
    /\ mainPc' = "count"
    /\ UNCHANGED <<socket, manager, conn, rpc, sigChan, exit>>

Admit(c) ==
    /\ MainAt("check")
    /\ conn[c] = "open"
    /\ ~shuttingDown
    /\ mainPc' = "count"
    /\ UNCHANGED <<socket, manager, conn, rpc, sigChan, exit>>

(* Mutant: connCount++ loses the race with another goroutine.              *)
IncrementLost ==
    /\ MainAt("count")
    /\ mainPc' = "add"
    /\ UNCHANGED <<socket, manager, conn, rpc, sigChan, exit>>

(* IncrementConnection is two steps: connCount++ under its lock, then      *)
(* wg.Add(1) outside it.                                                   *)
IncrementCount ==
    /\ MainAt("count")
    /\ connCount' = connCount + 1
    /\ mainPc' = "add"
    /\ UNCHANGED <<socket, listener, shuttingDown, wg, conn, rpc, sigChan, exit>>

IncrementAdd(c) ==
    /\ MainAt("add")
    /\ wg' = wg + 1
    /\ ConnMoves(c, "open", "handling")
    /\ mainPc' = "accept"
    /\ UNCHANGED <<socket, listener, shuttingDown, connCount, rpc, sigChan, exit>>

-----------------------------------------------------------------------------
(* The goroutine of a connection.                                          *)

HandleReturns(c) ==
    /\ ConnMoves(c, "handling", "finished")
    /\ UNCHANGED <<socket, manager, mainPc, rpc, sigChan, exit>>

DecrementCount(c) ==
    /\ ConnMoves(c, "finished", "uncounted")
    /\ connCount' = connCount - 1
    /\ UNCHANGED <<socket, listener, shuttingDown, wg, mainPc, rpc, sigChan, exit>>

(* Mutant: wg.Done() is forgotten.                                         *)
DecrementNotDone(c) ==
    /\ ConnMoves(c, "uncounted", "released")
    /\ UNCHANGED <<socket, manager, mainPc, rpc, sigChan, exit>>

DecrementDone(c) ==
    /\ ConnMoves(c, "uncounted", "released")
    /\ wg' = wg - 1
    /\ UNCHANGED <<socket, listener, shuttingDown, connCount, mainPc, rpc, sigChan, exit>>

CloseConn(c) ==
    /\ ConnMoves(c, "released", "off")
    /\ UNCHANGED <<socket, manager, mainPc, rpc, sigChan, exit>>

-----------------------------------------------------------------------------
(* What asks for a reload.                                                 *)

(* The runtime drops a signal that finds the channel full.                 *)
Hup ==
    /\ Alive
    /\ ~sigChan
    /\ sigChan' = TRUE
    /\ UNCHANGED <<socket, manager, conn, mainPc, rpc, exit>>

BeginSighup ==
    /\ sigChan
    /\ Goto(Sighup, "idle", "start")
    /\ sigChan' = FALSE
    /\ UNCHANGED <<socket, manager, conn, mainPc, exit>>

(* Every POST /api/reload starts a goroutine of its own.                   *)
BeginWeb(r) ==
    /\ r # Sighup
    /\ Goto(r, "idle", "start")
    /\ UNCHANGED <<socket, manager, conn, mainPc, sigChan, exit>>

-----------------------------------------------------------------------------
(* ZeroDowntimeReload.                                                     *)

(* Mutant: the flag is left to GracefulShutdown.                           *)
BeginWithoutFlag(r) ==
    /\ Goto(r, "start", "fd")
    /\ UNCHANGED <<socket, manager, conn, mainPc, sigChan, exit>>

BeginShutdown(r) ==
    /\ Goto(r, "start", "fd")
    /\ shuttingDown' = TRUE
    /\ overlapped' = (overlapped \/ \E q \in Reloads : InProgress(q))
    /\ UNCHANGED <<inheritedLn, blocking, listener, connCount, wg, conn, mainPc, sigChan, exit>>

(* file.Fd() puts the socket in blocking mode, for all that share it.      *)
TakeFd(r) ==
    /\ listener = "open"
    /\ Goto(r, "fd", "spawn")
    /\ blocking' = TRUE
    /\ UNCHANGED <<inheritedLn, overlapped, manager, conn, mainPc, sigChan, exit>>

(* No TCP listener yet, File() on a closed one, or File() out of           *)
(* descriptors.                                                            *)
TakeFdFails(r) ==
    /\ Goto(r, "fd", "rollback")
    /\ UNCHANGED <<socket, manager, conn, mainPc, sigChan, exit>>

(* cmd.Start calls Fd() on ExtraFiles once more.                           *)
StartChild(r) ==
    /\ Goto(r, "spawn", "probe")
    /\ blocking' = TRUE
    /\ UNCHANGED <<inheritedLn, overlapped, manager, conn, mainPc, sigChan, exit>>

(* Mutant: a failed cmd.Start() returns its error without the roll-back.   *)
StartFailsUnrolled(r) ==
    /\ Goto(r, "spawn", "idle")
    /\ UNCHANGED <<socket, manager, conn, mainPc, sigChan, exit>>

(* Mutant: the error of cmd.Start() is logged, and the reload goes on.     *)
StartFailsIgnored(r) ==
    /\ Goto(r, "spawn", "count")
    /\ UNCHANGED <<socket, manager, conn, mainPc, sigChan, exit>>

StartChildFails(r) ==
    /\ Goto(r, "spawn", "rollback")
    /\ UNCHANGED <<socket, manager, conn, mainPc, sigChan, exit>>

(* The sleep of newProcessWaitTime and isProcessRunning after it.          *)
ChildRuns(r) ==
    /\ Goto(r, "probe", "count")
    /\ UNCHANGED <<socket, manager, conn, mainPc, sigChan, exit>>

ChildIsGone(r) ==
    /\ Goto(r, "probe", "rollback")
    /\ UNCHANGED <<socket, manager, conn, mainPc, sigChan, exit>>

Rollback(r) ==
    /\ Goto(r, "rollback", "idle")
    /\ shuttingDown' = FALSE
    /\ UNCHANGED <<socket, listener, connCount, wg, conn, mainPc, sigChan, exit>>

ReadCount(r) ==
    /\ Goto(r, "count", IF connCount > 0 THEN "drain" ELSE "noConns")
    /\ UNCHANGED <<socket, manager, conn, mainPc, sigChan, exit>>

(* GracefulShutdown: the flag, the listener, then the select over the      *)
(* goroutine in wg.Wait() and the timer.                                   *)
DrainShutdown(r) ==
    /\ Goto(r, "drain", "close")
    /\ shuttingDown' = TRUE
    /\ UNCHANGED <<socket, listener, connCount, wg, conn, mainPc, sigChan, exit>>

(* A second Close returns an error at once.  The first wakes the pending   *)
(* Accept through the poller and waits until it has let the descriptor go. *)
CloseListener(r) ==
    /\ Goto(r, "close", IF listener = "closed" THEN "wait" ELSE "closing")
    /\ listener' = "closed"
    /\ UNCHANGED <<socket, shuttingDown, connCount, wg, conn, mainPc, sigChan, exit>>

CloseReturns(r) ==
    /\ mainPc # "blocked"
    /\ Goto(r, "closing", "wait")
    /\ UNCHANGED <<socket, manager, conn, mainPc, sigChan, exit>>

WaitReturns(r) ==
    /\ wg = 0
    /\ Goto(r, "wait", "drained")
    /\ UNCHANGED <<socket, manager, conn, mainPc, sigChan, exit>>

(* Mutant: a timeout is taken for a failed reload and rolled back.         *)
WaitRollsBack(r) ==
    /\ Goto(r, "wait", "rollback")
    /\ UNCHANGED <<socket, manager, conn, mainPc, sigChan, exit>>

(* Mutant: GracefulShutdown waits for the connections without a timer.     *)
WaitHasNoTimer(r) ==
    /\ wg = 0
    /\ Goto(r, "wait", "timeout")
    /\ UNCHANGED <<socket, manager, conn, mainPc, sigChan, exit>>

WaitTimesOut(r) ==
    /\ Goto(r, "wait", "timeout")
    /\ UNCHANGED <<socket, manager, conn, mainPc, sigChan, exit>>

Exit(r) ==
    /\ Alive
    /\ rpc[r] \in ExitReasons
    /\ exit' = rpc[r]
    /\ UNCHANGED <<socket, manager, conn, mainPc, rpc, sigChan>>

-----------------------------------------------------------------------------
(* The other processes that share the socket: a child, which sets its mode *)
(* to non-blocking when it boots, the parent, and the reloads of both.     *)
Shared ==
    \/ inheritedLn
    \/ \E r \in Reloads : rpc[r] \in {"probe", "count", "drain", "close",
                                      "closing", "wait"} \cup ExitReasons

SharerSetsMode ==
    /\ Alive
    /\ Shared
    /\ blocking' = ~blocking
    /\ UNCHANGED <<inheritedLn, overlapped, manager, conn, mainPc, rpc, sigChan, exit>>

-----------------------------------------------------------------------------
(* What main does without waiting for a client or for a failing call.      *)
MainStep ==
    \/ Listen
    \/ AcceptClosed
    \/ MainReturns
    \/ RetryAccept
    \/ IncrementCount
    \/ \E c \in Conns : Refuse(c) \/ Admit(c) \/ IncrementAdd(c)

ConnStep(c) == DecrementCount(c) \/ DecrementDone(c) \/ CloseConn(c)

ReloadStep(r) ==
    \/ BeginShutdown(r)
    \/ TakeFd(r) \/ TakeFdFails(r)
    \/ StartChild(r) \/ StartChildFails(r)
    \/ ChildRuns(r) \/ ChildIsGone(r)
    \/ Rollback(r)
    \/ ReadCount(r)
    \/ DrainShutdown(r) \/ CloseListener(r) \/ CloseReturns(r)
    \/ WaitReturns(r) \/ WaitTimesOut(r)
    \/ Exit(r)

(* What clients, signals, requests, other processes and failing system     *)
(* calls decide.                                                           *)
Environment ==
    \/ ListenFails
    \/ AcceptError \/ AcceptBlocks \/ SharerSetsMode
    \/ \E c \in Conns : AcceptConn(c) \/ HandleReturns(c)
    \/ Hup
    \/ \E r \in Reloads : BeginWeb(r)

Gone == ~Alive /\ UNCHANGED vars

Next ==
    \/ MainStep
    \/ \E c \in Conns : ConnStep(c)
    \/ BeginSighup
    \/ \E r \in Reloads : ReloadStep(r)
    \/ Environment
    \/ Gone

Spec == Init /\ [][Next]_vars

(* Goroutines and timers run; nothing is assumed of clients, of handle()   *)
(* or of the calls that may fail.                                          *)
Fairness ==
    /\ WF_vars(MainStep)
    /\ \A c \in Conns : WF_vars(ConnStep(c))
    /\ WF_vars(BeginSighup)
    /\ \A r \in Reloads : WF_vars(ReloadStep(r))

FairSpec == Spec /\ Fairness

-----------------------------------------------------------------------------
(* The connections connCount, and wg, ought to be counting.                *)
Counted == {c \in Conns : \/ conn[c] \in {"handling", "finished"}
                          \/ conn[c] = "open" /\ mainPc = "add"}

Waited == {c \in Conns : conn[c] \in {"handling", "finished", "uncounted"}}

(* Past CanAcceptConnection and not yet done with: what an exit cuts.      *)
Admitted == {c \in Conns : \/ conn[c] = "handling"
                           \/ conn[c] = "open" /\ mainPc \in {"count", "add"}}

TypeOK ==
    /\ listener \in {"none", "open", "closed"}
    /\ shuttingDown \in BOOLEAN
    /\ connCount \in Nat
    /\ wg \in Nat
    /\ conn \in [Conns -> ConnStates]
    /\ mainPc \in MainStates
    /\ rpc \in [Reloads -> ReloadStates]
    /\ sigChan \in BOOLEAN
    /\ exit \in {"running", "fatal", "mainReturned"} \cup ExitReasons
    /\ inheritedLn \in BOOLEAN
    /\ blocking \in BOOLEAN
    /\ overlapped \in BOOLEAN

(* IncrementConnection and DecrementConnection (hotreload.go) keep both    *)
(* counters equal to the connections they stand for, whatever the          *)
(* interleaving of the accept loop and the goroutines: neither ever goes   *)
(* negative (wg.Done would panic) nor stays up after the last connection.  *)
CountersExact ==
    /\ connCount = Cardinality(Counted)
    /\ wg = Cardinality(Waited)

(* A reload that fails rolls shuttingDown back, on each of its five ways   *)
(* out and with other reloads under way: while the process runs, it        *)
(* refuses connections only on behalf of a reload still in progress.       *)
RefusesOnlyForReload ==
    Alive /\ shuttingDown => \E r \in Reloads : InProgress(r)

(* GracefulShutdown closes the listener for good.  A process whose         *)
(* listener is closed is one that a reload is about to end: it does not    *)
(* live on without being able to accept.                                   *)
ClosedOnlyToExit ==
    Alive /\ listener = "closed" =>
        \E r \in Reloads : rpc[r] \in {"closing", "wait", "drained", "timeout"}

(* As long as reloads do not overlap, CanAcceptConnection keeps new        *)
(* connections out from before the count is read: when the reload ends the *)
(* process because it saw no connection or saw the last one end, it cuts   *)
(* at most the one that had passed the check of main.go before the flag    *)
(* was set.                                                                *)
CutsAtMostOne ==
    ~overlapped /\ exit \in {"noConns", "drained"}
        => \A c, d \in Admitted : c = d

(* ZeroDowntimeReload (hotreload.go) says it stops accepting connections   *)
(* from its first step on: as long as reloads do not overlap, no           *)
(* connection passes CanAcceptConnection while one is past that step and   *)
(* before its roll-back.                                                   *)
NoAdmissionDuringReload ==
    [][~overlapped => \A c \in Conns :
         Admit(c) => \A r \in Reloads : rpc[r] \in {"idle", "start"}]_vars

(* GracefulShutdown (hotreload.go) waits until every connection has ended  *)
(* or the timeout passed: while it waits, the accept loop does not end the *)
(* process over a connection that is in handle().                          *)
DrainIsRespected ==
    exit = "mainReturned" /\ (\E r \in Reloads : rpc[r] = "wait") =>
        \A c \in Conns : conn[c] # "handling"

-----------------------------------------------------------------------------
(* The accept loop is not left for good in a blocking accept4, which only  *)
(* another client gets it out of.                                          *)
AcceptReturns == []<>(mainPc # "blocked")

(* Every reload comes to an end: rolled back, or with the process.         *)
ReloadEnds ==
    AcceptReturns =>
        \A r \in Reloads : rpc[r] # "idle" ~> rpc[r] = "idle" \/ ~Alive

(* A SIGHUP the channel holds is taken up, even when it came during        *)
(* another reload: the handler goroutine comes back for it, or the reload  *)
(* it was waiting on has replaced the process.                             *)
SignalServed ==
    AcceptReturns => (sigChan ~> rpc[Sighup] = "start" \/ ~Alive)

(* A process that refuses connections is on its way out, or will accept    *)
(* them again.                                                             *)
RefusalEnds ==
    AcceptReturns => (shuttingDown ~> ~shuttingDown \/ ~Alive)

(* Once GracefulShutdown closed the listener the process ends, even when   *)
(* another reload clears shuttingDown and the accept loop spins on the     *)
(* closed listener.                                                        *)
ClosedListenerEnds ==
    AcceptReturns => (listener = "closed" ~> ~Alive)

-----------------------------------------------------------------------------
Ledger == INSTANCE ConnLedger
             WITH ledger <- Counted, count <- connCount, up <- Alive

(* The readers of GetConnectionCount see a ledger in which a connection    *)
(* enters and leaves in one step (ConnLedger).                             *)
ImplementsLedger == Ledger!Spec

(* The reloads whose child was found running; none of them is rolled back. *)
PastProbe == {"count", "drain", "close", "closing", "wait"} \cup ExitReasons

Probed == {r \in Reloads : rpc[r] \in PastProbe}

(* When main returns during such a reload, that is the hand-over too.      *)
Ended == IF exit \in ExitReasons \/ (exit = "mainReturned" /\ Probed # {})
         THEN "replaced" ELSE "other"

Handed == INSTANCE Handover
             WITH Children <- Reloads,
                  waiting <- {r \in Reloads : Alive /\ rpc[r] = "probe"},
                  leaving <- Alive /\ Probed # {},
                  how <- IF Alive THEN "up" ELSE Ended,
                  refusing <- shuttingDown,
                  single <- ~overlapped

(* However many reloads run ZeroDowntimeReload (hotreload.go) at one time, *)
(* and whatever the timeouts, the failing calls and the accept loop make   *)
(* of them: the process is replaced only after a child was found running,  *)
(* and no timeout or error takes the decision to leave back.  As long as   *)
(* no two reloads have overlapped, shuttingDown is set before the child is *)
(* started, and not cleared unless the child is found gone (Handover).     *)
(* The roll-back of an overlapping reload does clear it: nothing is said   *)
(* of refusals then.                                                       *)
ImplementsHandover == Handed!Spec
=============================================================================
