---------------------------- MODULE Generations ----------------------------
(***************************************************************************)
(* The generations of processes that replace one another: how main()       *)
(* boots, what it inherits from the process that started it, and the two   *)
(* ways a process hands over.  A reload (ZeroDowntimeReload) passes the    *)
(* listening socket to its child, waits, and exits if the child is still   *)
(* running; a save (/save and save-strategy-config of the Web UI) starts a *)
(* child and exits at once.  Three ports are at stake: the TLS listener,   *)
(* which a child of a reload shares, and those of the redirect server and  *)
(* of the Web UI, which it has to bind for itself.                         *)
(*                                                                         *)
(* Connections, the counters and the drain are HotReload's; here a reload  *)
(* is the fork of a child, the probe of it and the exit.  The TLS port is  *)
(* configured once and stays the same, and a redirect address is set.      *)
(***************************************************************************)
EXTENDS Integers, FiniteSets

CONSTANTS
    MaxGen,        \* bound: how many processes are ever started
    MaxOverlap,    \* bound: reloads under way at one time in one process
    MaxTries       \* attempts of the Web UI at its port (10 in the code)

ASSUME MaxGenAssumption == MaxGen \in Nat \ {0}
ASSUME MaxOverlapAssumption == MaxOverlap \in Nat
ASSUME MaxTriesAssumption == MaxTries \in Nat \ {0}

Procs == 1..MaxGen

VARIABLES
    spawned,   \* the processes started so far are 1..spawned
    pc,        \* where main() of each process is
    cause,     \* what ended each process
    marked,    \* TLS_SHUNT_RELOAD_MODE and _LISTENER_FD are in its environment
    holds,     \* it has a descriptor of the TLS listening socket
    redirect,  \* its redirect server
    web,       \* its Web UI server
    tries,     \* failed attempts of its Web UI at the port
    pending,   \* the children its reloads have started and not probed yet
    leaving,   \* the processes with a reload past the probe
    saved,     \* the processes a save is about to end
    stranded,  \* the children whose reload ended with its process, unprobed
    mainPid    \* the process the service manager watches; 0 without one

vars == <<spawned, pc, cause, marked, holds, redirect, web, tries,
          pending, leaving, saved, stranded, mainPid>>

origin == <<spawned, marked, mainPid>>

servers == <<redirect, web, tries>>
handover == <<pending, leaving, saved, stranded>>

Alive(p) == pc[p] \notin {"unborn", "dead"}

(* A process nothing is about to end or replace.                           *)
AtRest(p) == pc[p] = "serving" /\ pending[p] = {} /\ p \notin leaving \cup saved

(* Ends that are a failed start.                                           *)
BootFailures == {"noFd", "badConfig", "portTaken", "hup"}

(* Every end but that of a process whose child was found running.          *)
OtherEnds == BootFailures \cup {"mainReturned", "saved", "killed"}

(* Ends with log.Fatal, the ones the unit's Restart=on-failure answers.    *)
Failures == {"noFd", "badConfig", "portTaken"}

Init ==
    /\ spawned = 1
    /\ pc = [p \in Procs |-> IF p = 1 THEN "inherit" ELSE "unborn"]
    /\ cause = [p \in Procs |-> "none"]
    /\ marked = [p \in Procs |-> FALSE]
    /\ holds = [p \in Procs |-> FALSE]
    /\ redirect = [p \in Procs |-> "off"]
    /\ web = [p \in Procs |-> "off"]
    /\ tries = [p \in Procs |-> 0]
    /\ pending = [p \in Procs |-> {}]
    /\ leaving = {}
    /\ saved = {}
    /\ stranded = {}
    /\ mainPid \in {0, 1}

-----------------------------------------------------------------------------
(* exec.Cmd.Start: the child gets the environment env, and the listening   *)
(* socket when it is in ExtraFiles.                                        *)
Fork(env, socket) ==
    /\ spawned < MaxGen
    /\ spawned' = spawned + 1
    /\ pc' = [pc EXCEPT ![spawned + 1] = "inherit"]
    /\ marked' = [marked EXCEPT ![spawned + 1] = env]
    /\ holds' = [holds EXCEPT ![spawned + 1] = socket]

(* The end of a process closes its descriptors and frees its ports.        *)
Die(p, why) ==
    /\ pc' = [pc EXCEPT ![p] = "dead"]
    /\ cause' = [cause EXCEPT ![p] = why]
    /\ holds' = [holds EXCEPT ![p] = FALSE]
    /\ redirect' = [redirect EXCEPT ![p] = "off"]
    /\ web' = [web EXCEPT ![p] = "off"]
    /\ pending' = [pending EXCEPT ![p] = {}]
    /\ leaving' = leaving \ {p}
    /\ saved' = saved \ {p}
    /\ stranded' = stranded \cup pending[p]
    /\ UNCHANGED <<origin, tries>>

-----------------------------------------------------------------------------
(* main().                                                                 *)

(* startInheritedListener, when the environment asks for it, and           *)
(* webui.Start, whose server runs in a goroutine.                          *)
Inherit(p) ==
    /\ pc[p] = "inherit"
    /\ marked[p] => holds[p]
    /\ pc' = [pc EXCEPT ![p] = "config"]
    /\ web' = [web EXCEPT ![p] = "trying"]
    /\ UNCHANGED <<origin, cause, holds, redirect, tries, handover>>

(* Descriptor 3 of a process started without ExtraFiles is no socket.      *)
InheritFails(p) ==
    /\ pc[p] = "inherit"
    /\ marked[p] /\ ~holds[p]
    /\ Die(p, "noFd")

(* ReadConfig, certificates included: it may take minutes.                 *)
ReadConfig(p) ==
    /\ pc[p] = "config"
    /\ pc' = [pc EXCEPT ![p] = "redirect"]
    /\ UNCHANGED <<origin, cause, holds, servers, handover>>

ReadConfigFails(p) ==
    /\ pc[p] = "config"
    /\ Die(p, "badConfig")

(* setupSignalHandler, then ServeRedirectHttps.                            *)
ServeRedirect(p) ==
    /\ pc[p] = "redirect"
    /\ pc' = [pc EXCEPT ![p] = "listen"]
    /\ redirect' = [redirect EXCEPT ![p] = "starting"]
    /\ UNCHANGED <<origin, cause, holds, web, tries, handover>>

Listen(p) ==
    /\ pc[p] = "listen"
    /\ holds[p] \/ \A q \in Procs : ~holds[q]
    /\ pc' = [pc EXCEPT ![p] = "serving"]
    /\ holds' = [holds EXCEPT ![p] = TRUE]
    /\ UNCHANGED <<origin, cause, servers, handover>>

(* EADDRINUSE.                                                             *)
ListenFails(p) ==
    /\ pc[p] = "listen"
    /\ ~holds[p]
    /\ \E q \in Procs : holds[q]
    /\ Die(p, "portTaken")

(* An accept that fails (EMFILE, say) after a reload has set shuttingDown  *)
(* is taken for its end, and main() returns; the child of that reload may  *)
(* not even be started.  Of a process whose child was found running this   *)
(* is ExitReplaced.                                                        *)
AcceptFails(p) ==
    /\ pc[p] = "serving"
    /\ p \notin leaving
    /\ Die(p, "mainReturned")

(* Before signal.Notify a SIGHUP has its default action.                   *)
HupBooting(p) ==
    /\ pc[p] \in {"inherit", "config"}
    /\ Die(p, "hup")

-----------------------------------------------------------------------------
(* The goroutines that serve the other two ports.                          *)

RedirectStarts(p) ==
    /\ redirect[p] = "starting"
    /\ redirect' = [redirect EXCEPT ![p] =
           IF \E q \in Procs : redirect[q] = "bound" THEN "lost" ELSE "bound"]
    /\ UNCHANGED <<origin, pc, cause, holds, web, tries, handover>>

WebStarts(p) ==
    /\ web[p] = "trying"
    /\ \A q \in Procs : web[q] # "bound"
    /\ web' = [web EXCEPT ![p] = "bound"]
    /\ UNCHANGED <<origin, pc, cause, holds, redirect, tries, handover>>

WebRetries(p) ==
    /\ web[p] = "trying"
    /\ \E q \in Procs : web[q] = "bound"
    /\ tries' = [tries EXCEPT ![p] = tries[p] + 1]
    /\ web' = [web EXCEPT ![p] = IF tries'[p] < MaxTries THEN "trying" ELSE "gaveUp"]
    /\ UNCHANGED <<origin, pc, cause, holds, redirect, handover>>

-----------------------------------------------------------------------------
(* Mutant: a reload starts its child the way a save does.                  *)
BeginReloadBare(p) ==
    /\ pc[p] \in {"redirect", "listen", "serving"} \/ web[p] = "bound"
    /\ holds[p]
    /\ Cardinality(pending[p]) + Cardinality(leaving \cap {p}) < MaxOverlap
    /\ Fork(marked[p], FALSE)
    /\ pending' = [pending EXCEPT ![p] = @ \cup {spawned + 1}]
    /\ UNCHANGED <<cause, servers, leaving, saved, stranded, mainPid>>

(* A reload, asked for by SIGHUP once the handler is installed or by       *)
(* POST /api/reload as soon as the Web UI answers.                         *)
BeginReload(p) ==
    /\ pc[p] \in {"redirect", "listen", "serving"} \/ web[p] = "bound"
    /\ holds[p]
    /\ Cardinality(pending[p]) + Cardinality(leaving \cap {p}) < MaxOverlap
    /\ Fork(TRUE, TRUE)
    /\ pending' = [pending EXCEPT ![p] = @ \cup {spawned + 1}]
    /\ UNCHANGED <<cause, servers, leaving, saved, stranded, mainPid>>

(* Both the sleep and the probe take the same time in every process, so    *)
(* they end in the order of the forks.                                     *)
Due(q) == \A r \in Procs : \A k \in pending[r] : q <= k

ChildRuns(p, q) ==
    /\ q \in pending[p]
    /\ Due(q)
    /\ Alive(q)
    /\ pending' = [pending EXCEPT ![p] = @ \ {q}]
    /\ leaving' = leaving \cup {p}
    /\ UNCHANGED <<origin, pc, cause, holds, servers, saved, stranded>>

(* Mutant: the probe reports a running child as gone.                      *)
ChildTakenForGone(p, q) ==
    /\ q \in pending[p]
    /\ Due(q)
    /\ pending' = [pending EXCEPT ![p] = @ \ {q}]
    /\ UNCHANGED <<origin, pc, cause, holds, servers, leaving, saved, stranded>>

(* The roll-back.                                                          *)
ChildIsGone(p, q) ==
    /\ q \in pending[p]
    /\ Due(q)
    /\ ~Alive(q)
    /\ pending' = [pending EXCEPT ![p] = @ \ {q}]
    /\ UNCHANGED <<origin, pc, cause, holds, servers, leaving, saved, stranded>>

(* Mutant: the reload returns where it should call os.Exit.                *)
StaysReplaced(p) ==
    /\ p \in leaving
    /\ leaving' = leaving \ {p}
    /\ UNCHANGED <<origin, pc, cause, holds, servers, pending, saved, stranded>>

(* After the drain, by os.Exit or because main returned.                   *)
ExitReplaced(p) ==
    /\ p \in leaving
    /\ Die(p, "replaced")

(* The child of a save has its parent's environment and no ExtraFiles.     *)
Save(p) ==
    /\ web[p] = "bound"
    /\ Fork(marked[p], FALSE)
    /\ saved' = saved \cup {p}
    /\ UNCHANGED <<cause, servers, pending, leaving, stranded, mainPid>>

ExitSaved(p) ==
    /\ p \in saved
    /\ Die(p, "saved")

-----------------------------------------------------------------------------
(* The unit of dist/ is Type=simple: when the process it started ends, the *)
(* service manager kills what is left of the service, and starts it again  *)
(* only after a failure.                                                   *)
SupervisorKills(p) ==
    /\ mainPid # 0
    /\ pc[mainPid] = "dead"
    /\ Alive(p)
    /\ Die(p, "killed")

SupervisorRestarts ==
    /\ mainPid # 0
    /\ cause[mainPid] \in Failures
    /\ \A p \in Procs : ~Alive(p)
    /\ Fork(FALSE, FALSE)
    /\ mainPid' = spawned + 1
    /\ UNCHANGED <<cause, servers, handover>>

-----------------------------------------------------------------------------
Boot(p) ==
    \/ Inherit(p) \/ InheritFails(p)
    \/ ReadConfig(p) \/ ReadConfigFails(p)
    \/ ServeRedirect(p)
    \/ Listen(p) \/ ListenFails(p)

WebStep(p) == WebStarts(p) \/ WebRetries(p)

ProbeStep(p) == \E q \in Procs : ChildRuns(p, q) \/ ChildIsGone(p, q)

Exits(p) == ExitReplaced(p) \/ ExitSaved(p)

Next ==
    \/ \E p \in Procs :
         \/ Boot(p) \/ HupBooting(p) \/ AcceptFails(p)
         \/ RedirectStarts(p) \/ WebStep(p)
         \/ BeginReload(p) \/ ProbeStep(p)
         \/ Save(p) \/ Exits(p)
         \/ SupervisorKills(p)
    \/ SupervisorRestarts

Spec == Init /\ [][Next]_vars

(* What has begun goes on: booting, the timers of a reload and of the Web  *)
(* UI, the service manager.  Nobody has to ask for a reload or a save.     *)
Fairness ==
    /\ \A p \in Procs :
         /\ WF_vars(Boot(p))
         /\ WF_vars(RedirectStarts(p))
         /\ WF_vars(WebStep(p))
         /\ WF_vars(ProbeStep(p))
         /\ WF_vars(Exits(p))
         /\ WF_vars(SupervisorKills(p))
    /\ WF_vars(SupervisorRestarts)

FairSpec == Spec /\ Fairness

-----------------------------------------------------------------------------
TypeOK ==
    /\ spawned \in Procs
    /\ pc \in [Procs -> {"unborn", "inherit", "config", "redirect", "listen",
                         "serving", "dead"}]
    /\ cause \in [Procs -> {"none", "replaced"} \cup OtherEnds]
    /\ marked \in [Procs -> BOOLEAN]
    /\ holds \in [Procs -> BOOLEAN]
    /\ redirect \in [Procs -> {"off", "starting", "bound", "lost"}]
    /\ web \in [Procs -> {"off", "trying", "bound", "gaveUp"}]
    /\ tries \in [Procs -> 0..MaxTries]
    /\ pending \in [Procs -> SUBSET Procs]
    /\ leaving \subseteq Procs
    /\ saved \subseteq Procs
    /\ stranded \subseteq Procs
    /\ mainPid \in {0} \cup Procs
    /\ \A p \in Procs : pc[p] = "unborn" <=> p > spawned

(* The parent keeps its descriptor until it exits and the child has its    *)
(* own from the fork on: across any chain of reloads (hotreload.go) the    *)
(* listening socket, with the connections queued on it, is never closed.   *)
(* After a process that was replaced it is lost only by a younger one that *)
(* failed to boot, left its accept loop during a reload of its own, was    *)
(* ended by a save, or killed by the service manager.                      *)
SocketSurvives ==
    (\A p \in Procs : ~holds[p]) =>
        \A p \in Procs : cause[p] = "replaced" =>
            \E q \in Procs : q > p /\ cause[q] \in OtherEnds

(* When the reloads of one process do not overlap, the exit or the         *)
(* roll-back that follows the probe (hotreload.go) leaves one process to   *)
(* accept connections: two that serve, and that nothing is about to end,   *)
(* do not coexist, unless a process died of something else with a reload   *)
(* of its own under way.                                                   *)
OneInService ==
    stranded = {} => \A p, q \in Procs : AtRest(p) /\ AtRest(q) => p = q

(* However many reloads and saves there are, the overlap of the old and    *)
(* the new process ends.                                                   *)
OverlapEnds ==
    <>[](stranded # {} \/ \A p, q \in Procs : Alive(p) /\ Alive(q) => p = q)

-----------------------------------------------------------------------------
(* webui/server.go starts a process and exits the current one "to reload": *)
(* the process that follows the one the save ended reads the configuration *)
(* (what it finds there is the operator's business).                       *)
SavedIsRead ==
    (\E p \in Procs : cause[p] = "saved") =>
        \A q \in Procs : cause[q] # "noFd"
=============================================================================
