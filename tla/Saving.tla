------------------------------- MODULE Saving -------------------------------
(***************************************************************************)
(* The Web UI saves a configuration (webui/server.go): /save and           *)
(* /api/save-strategy-config write it beside the configuration file,       *)
(* rename it over that file, start a process that reads it and leave.      *)
(* Requests run at the same time, in the process that has the port of the  *)
(* Web UI, and share one mutex; reloads go on beside them, and a process   *)
(* may be killed at any step.                                              *)
(*                                                                         *)
(* A request whose configuration is refused changes nothing and is left    *)
(* out.  What a reload does before and after its fork is HotReload's, the  *)
(* redirect server and the attempts at the port of the Web UI are          *)
(* Generations'.  Nobody else writes the file.                             *)
(***************************************************************************)
EXTENDS Integers

CONSTANTS
    Handlers,   \* the requests to save that one process may have at a time
    Configs,    \* the contents of a configuration file
    Accepted,   \* those that pass validateConfigBusinessLogic
    Loaded,     \* those with which ReadConfig succeeds
    MaxGen      \* bound: how many processes are ever started

Partial == "partial"     \* a file that is not written to its end
Absent == "absent"
Nobody == "nobody"

ASSUME AcceptedAssumption == Accepted \subseteq Configs
ASSUME LoadedAssumption == Loaded \subseteq Configs
ASSUME ConfigsAssumption == {Partial, Absent} \cap Configs = {}
ASSUME HandlersAssumption == Nobody \notin Handlers
ASSUME GenAssumption == MaxGen \in Nat \ {0}

Procs == 1..MaxGen

VARIABLES
    file,       \* configPath
    tmp,        \* configPath + ".tmp"
    lock,       \* configMutex of the process that has the Web UI
    at,         \* where each request is
    spawned,    \* the processes started so far are 1..spawned
    pc,         \* where main() of each process is
    conf,       \* what it read
    marked,     \* TLS_SHUNT_RELOAD_MODE is in its environment
    holds,      \* it has a descriptor of the TLS listening socket
    web,        \* the process that has the port of the Web UI; 0 for none
    child,      \* the child of its reload; 0 for none
    leaving,    \* a save, or a reload that found its child alive, ends it
    overtaken   \* history: the processes that a save has left with what they read

vars == <<file, tmp, lock, at, spawned, pc, conf, marked, holds, web,
          child, leaving, overtaken>>

files == <<file, tmp>>
requests == <<lock, at>>
births == <<spawned, marked>>
procs == <<births, pc, conf, holds, child>>

Alive(p) == pc[p] \notin {"unborn", "dead"}

HasRead == {p \in Procs : pc[p] \in {"listen", "serving"}}

Init ==
    /\ file \in Loaded
    /\ tmp = Absent
    /\ lock = Nobody
    /\ at = [h \in Handlers |-> "idle"]
    /\ spawned = 1
    /\ pc = [p \in Procs |-> IF p = 1 THEN "start" ELSE "unborn"]
    /\ conf = [p \in Procs |-> Absent]
    /\ marked = [p \in Procs |-> FALSE]
    /\ holds = [p \in Procs |-> FALSE]
    /\ web = 0
    /\ child = [p \in Procs |-> 0]
    /\ leaving = {}
    /\ overtaken = {}

-----------------------------------------------------------------------------
(* A request, in the process that has the Web UI.                          *)

At(h, from, to) == at[h] = from /\ at' = [at EXCEPT ![h] = to]

Receive(h) ==
    /\ web # 0
    /\ At(h, "idle", "wait")
    /\ UNCHANGED <<files, lock, procs, web, leaving, overtaken>>

(* Mutant: the mutex is not taken.                                         *)
EnterUnlocked(h) ==
    /\ At(h, "wait", "write")
    /\ lock' = h
    /\ UNCHANGED <<files, procs, web, leaving, overtaken>>

Enter(h) ==
    /\ lock = Nobody
    /\ At(h, "wait", "write")
    /\ lock' = h
    /\ UNCHANGED <<files, procs, web, leaving, overtaken>>

(* Mutant: an early return leaves the mutex locked.                        *)
ReturnLocked(h) ==
    /\ at' = [at EXCEPT ![h] = "idle"]
    /\ lock' = IF at[h] = "answer" THEN Nobody ELSE lock

(* The handler returns, and with it the deferred Unlock.                   *)
Return(h) ==
    /\ at' = [at EXCEPT ![h] = "idle"]
    /\ lock' = Nobody

(* config_name was given and names another file, with a temporary file of  *)
(* its own; no process is started.                                         *)
SaveElsewhere(h) ==
    /\ at[h] = "write"
    /\ Return(h)
    /\ UNCHANGED <<files, procs, web, leaving, overtaken>>

(* ioutil.WriteFile truncates the file first.                              *)
Truncate(h) ==
    /\ At(h, "write", "writing")
    /\ tmp' = Partial
    /\ UNCHANGED <<file, lock, procs, web, leaving, overtaken>>

(* The configuration that the request brought, whichever it is.            *)
Write(h) ==
    /\ At(h, "writing", "rename")
    /\ tmp' \in Accepted
    /\ UNCHANGED <<file, lock, procs, web, leaving, overtaken>>

WriteFails(h) ==
    /\ at[h] = "writing"
    /\ Return(h)
    /\ UNCHANGED <<files, procs, web, leaving, overtaken>>

(* From here on a process that has read the old file is out of date.  This *)
(* one is about to be replaced, the others are not.                        *)
Rename(h) ==
    /\ tmp # Absent
    /\ At(h, "rename", "start")
    /\ file' = tmp
    /\ tmp' = Absent
    /\ overtaken' = HasRead \ {web}
    /\ UNCHANGED <<lock, procs, web, leaving>>

(* config_name was given and names the configuration file after all, by    *)
(* its absolute path, where -config has a relative one.  The handler       *)
(* compares spellings, takes it for another file, and replaces nobody.     *)
RenameByOtherName(h) ==
    /\ tmp # Absent
    /\ at[h] = "rename"
    /\ Return(h)
    /\ file' = tmp
    /\ tmp' = Absent
    /\ overtaken' = HasRead
    /\ UNCHANGED <<procs, web, leaving>>

RenameFails(h) ==
    /\ at[h] = "rename"
    /\ Return(h)
    /\ UNCHANGED <<files, procs, web, leaving, overtaken>>

(* exec.Cmd.Start: the environment is inherited, the socket only through   *)
(* ExtraFiles.                                                             *)
Fork(env, socket) ==
    /\ spawned < MaxGen
    /\ spawned' = spawned + 1
    /\ pc' = [pc EXCEPT ![spawned + 1] = "start"]
    /\ marked' = [marked EXCEPT ![spawned + 1] = env]
    /\ holds' = [holds EXCEPT ![spawned + 1] = socket]

StartChild(h) ==
    /\ At(h, "start", "answer")
    /\ Fork(marked[web], FALSE)
    /\ UNCHANGED <<files, lock, conf, web, child, leaving, overtaken>>

(* The new file stays, and so does the process that has read the old one.  *)
StartFails(h) ==
    /\ at[h] = "start"
    /\ Return(h)
    /\ overtaken' = overtaken \cup ({web} \cap HasRead)
    /\ UNCHANGED <<files, procs, web, leaving>>

(* Mutant: the process is not ended.                                       *)
AnswerStays(h) ==
    /\ at[h] = "answer"
    /\ Return(h)
    /\ UNCHANGED <<files, procs, web, leaving, overtaken>>

(* The goroutine that calls os.Exit is started before the handler returns. *)
Answer(h) ==
    /\ at[h] = "answer"
    /\ Return(h)
    /\ leaving' = leaving \cup {web}
    /\ UNCHANGED <<files, procs, web, overtaken>>

-----------------------------------------------------------------------------
(* The processes.                                                          *)

(* The requests of a process end with it, and its mutex.                   *)
Die(p) ==
    /\ pc' = [pc EXCEPT ![p] = "dead"]
    /\ marked' = [marked EXCEPT ![p] = FALSE]
    /\ conf' = [conf EXCEPT ![p] = Absent]
    /\ holds' = [holds EXCEPT ![p] = FALSE]
    /\ child' = [child EXCEPT ![p] = 0]
    /\ leaving' = leaving \ {p}
    /\ IF web = p
       THEN /\ web' = 0
            /\ lock' = Nobody
            /\ at' = [h \in Handlers |-> "idle"]
       ELSE UNCHANGED <<web, requests>>
    /\ overtaken' = overtaken \ {p}
    /\ UNCHANGED <<files, spawned>>

(* startInheritedListener, when the environment asks for it.               *)
Start(p) ==
    /\ pc[p] = "start"
    /\ marked[p] => holds[p]
    /\ pc' = [pc EXCEPT ![p] = "read"]
    /\ UNCHANGED <<files, requests, births, conf, holds, web, child, leaving, overtaken>>

StartHasNoSocket(p) ==
    /\ pc[p] = "start"
    /\ marked[p] /\ ~holds[p]
    /\ Die(p)

ReadConfig(p) ==
    /\ pc[p] = "read"
    /\ file \in Loaded
    /\ pc' = [pc EXCEPT ![p] = "listen"]
    /\ conf' = [conf EXCEPT ![p] = file]
    /\ UNCHANGED <<files, requests, births, holds, web, child, leaving, overtaken>>

ReadConfigFails(p) ==
    /\ pc[p] = "read"
    /\ file \notin Loaded
    /\ Die(p)

Listen(p) ==
    /\ pc[p] = "listen"
    /\ holds[p] \/ \A q \in Procs : ~holds[q]
    /\ pc' = [pc EXCEPT ![p] = "serving"]
    /\ holds' = [holds EXCEPT ![p] = TRUE]
    /\ UNCHANGED <<files, requests, births, conf, web, child, leaving, overtaken>>

ListenFails(p) ==
    /\ pc[p] = "listen"
    /\ ~holds[p]
    /\ \E q \in Procs : holds[q]
    /\ Die(p)

(* The Web UI runs from before ReadConfig on.                              *)
WebStarts(p) ==
    /\ pc[p] \in {"read", "listen", "serving"}
    /\ web = 0
    /\ web' = p
    /\ UNCHANGED <<files, requests, procs, leaving, overtaken>>

(* ZeroDowntimeReload, asked for by SIGHUP or by /api/reload, which looks  *)
(* only whether the file is YAML.                                          *)
Reload(p) ==
    /\ Alive(p)
    /\ holds[p]
    /\ pc[p] # "start"
    /\ child[p] = 0
    /\ Fork(TRUE, TRUE)
    /\ child' = [child EXCEPT ![p] = spawned + 1]
    /\ UNCHANGED <<files, requests, conf, web, leaving, overtaken>>

(* The probe, and what follows from it.                                    *)
Probe(p) ==
    /\ Alive(p)
    /\ child[p] # 0
    /\ child' = [child EXCEPT ![p] = 0]
    /\ leaving' = IF Alive(child[p]) THEN leaving \cup {p} ELSE leaving
    /\ UNCHANGED <<files, requests, births, pc, conf, holds, web, overtaken>>

Exit(p) ==
    /\ p \in leaving
    /\ Die(p)

Killed(p) ==
    /\ Alive(p)
    /\ Die(p)

(* By the service manager, or by hand.                                     *)
Restart ==
    /\ \A p \in Procs : ~Alive(p)
    /\ Fork(FALSE, FALSE)
    /\ UNCHANGED <<files, requests, conf, web, child, leaving, overtaken>>

-----------------------------------------------------------------------------
Save(h) ==
    \/ Enter(h) \/ SaveElsewhere(h)
    \/ Truncate(h) \/ Write(h) \/ WriteFails(h)
    \/ Rename(h) \/ RenameByOtherName(h) \/ RenameFails(h)
    \/ StartChild(h) \/ StartFails(h)
    \/ Answer(h)

Boot(p) ==
    \/ Start(p) \/ StartHasNoSocket(p)
    \/ ReadConfig(p) \/ ReadConfigFails(p)
    \/ Listen(p) \/ ListenFails(p)

Next ==
    \/ \E h \in Handlers : Receive(h) \/ Save(h)
    \/ \E p \in Procs :
         \/ Boot(p) \/ WebStarts(p)
         \/ Reload(p) \/ Probe(p)
         \/ Exit(p) \/ Killed(p)
    \/ Restart

Spec == Init /\ [][Next]_vars

(* The goroutines of the Web UI run, and sync.Mutex hands itself to one    *)
(* that has waited for a millisecond: nobody is overtaken for ever.        *)
FairSpec == Spec /\ \A h \in Handlers : WF_vars(Save(h)) /\ SF_vars(Enter(h))

-----------------------------------------------------------------------------
TypeOK ==
    /\ file \in Configs
    /\ tmp \in Configs \cup {Partial, Absent}
    /\ lock \in Handlers \cup {Nobody}
    /\ at \in [Handlers -> {"idle", "wait", "write", "writing", "rename",
                            "start", "answer"}]
    /\ spawned \in Procs
    /\ pc \in [Procs -> {"unborn", "start", "read", "listen", "serving", "dead"}]
    /\ conf \in [Procs -> Loaded \cup {Absent}]
    /\ marked \in [Procs -> BOOLEAN]
    /\ holds \in [Procs -> BOOLEAN]
    /\ web \in {0} \cup Procs
    /\ child \in [Procs -> {0} \cup Procs]
    /\ leaving \subseteq Procs
    /\ overtaken \subseteq Procs

Register == INSTANCE ConfigFile WITH Installed <- Loaded

(* The temporary file has one name for all requests.  With the mutex of    *)
(* server.go around it, and whenever a process is killed, whoever reads    *)
(* the configuration file finds it whole and validated (ConfigFile).       *)
ImplementsRegister == Register!Spec

(* A process that nothing is about to end, replace or save for.            *)
AtRest(p) ==
    /\ pc[p] = "serving"
    /\ p \notin leaving
    /\ \A q \in Procs \ {p} : ~Alive(q)
    /\ \A h \in Handlers : at[h] = "idle"

(* README.md: a save restarts the service to apply the changes.  Whatever  *)
(* is killed, refused or overtaken: a process that is left in service with *)
(* another configuration than the file holds has read it before the file   *)
(* was replaced by another process, by a save that could not start one, or *)
(* by one that took the file for another.  The save of its own Web UI, and *)
(* whatever is started after a save, end with the new configuration.       *)
SavedIsServed ==
    \A p \in Procs : AtRest(p) /\ p \notin overtaken => conf[p] = file

(* A request to save comes to its end, whatever other requests fail at     *)
(* (server.go defers the Unlock), if only that of its process.             *)
SaveEnds == \A h \in Handlers : at[h] # "idle" ~> at[h] = "idle"
=============================================================================
