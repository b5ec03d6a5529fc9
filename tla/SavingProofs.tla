---------------------------- MODULE SavingProofs ----------------------------
(***************************************************************************)
(* What Saving satisfies for any number of requests, configurations and    *)
(* processes.                                                              *)
(***************************************************************************)
EXTENDS Saving, TLAPS

(* Between the Lock and the deferred Unlock a request is alone, and what   *)
(* it renames is what it has written.  There are requests only where the   *)
(* Web UI is.                                                              *)
Exclusion ==
    /\ \A h \in Handlers : at[h] # "idle" => web # 0
    /\ \A h \in Handlers : at[h] \notin {"idle", "wait"} => lock = h
    /\ \A h \in Handlers : at[h] = "rename" => tmp \in Accepted

(* Whoever uses another configuration than the file holds is on its way    *)
(* out, as the request that wrote the file has not come to its os.Exit, or *)
(* it has; or a save has overtaken it.                                     *)
Outdated ==
    \A p \in HasRead : conf[p] # file =>
        \/ p \in overtaken
        \/ p \in leaving
        \/ p = web /\ \E h \in Handlers : at[h] \in {"start", "answer"}

IInv == TypeOK /\ Exclusion /\ Outdated

LEMMA InitIInv == Init => IInv
<1> SUFFICES ASSUME Init PROVE IInv
  OBVIOUS
<1>1. TypeOK
  <2>1. file \in Configs
    BY LoadedAssumption DEF Init
  <2>2. pc \in [Procs -> {"unborn", "start", "read", "listen", "serving", "dead"}]
    BY DEF Init
  <2>3. spawned \in Procs /\ child \in [Procs -> {0} \cup Procs]
    BY GenAssumption DEF Init, Procs
  <2>4. QED
    BY <2>1, <2>2, <2>3 DEF Init, TypeOK
<1>2. Exclusion /\ Outdated
  BY DEF Init, Exclusion, Outdated, HasRead
<1>3. QED
  BY <1>1, <1>2 DEF IInv

(* A request that does not fork, whatever it does to the files.            *)
LEMMA RequestIInv ==
  ASSUME IInv, NEW h \in Handlers, UNCHANGED <<procs, web>>,
         \/ Receive(h) \/ Enter(h) \/ SaveElsewhere(h) \/ Truncate(h) \/ Write(h)
         \/ WriteFails(h) \/ Rename(h) \/ RenameByOtherName(h) \/ RenameFails(h)
         \/ StartFails(h) \/ Answer(h)
  PROVE  IInv'
<1> USE DEF IInv, At, Return, files, procs, births
<1>1. TypeOK'
  BY AcceptedAssumption
  DEF TypeOK, Exclusion, HasRead, Receive, Enter, SaveElsewhere, Truncate, Write, WriteFails,
      Rename, RenameByOtherName, RenameFails, StartFails, Answer
<1>2. Exclusion'
  BY HandlersAssumption
  DEF TypeOK, Exclusion, Receive, Enter, SaveElsewhere, Truncate, Write, WriteFails,
      Rename, RenameByOtherName, RenameFails, StartFails, Answer
<1>3. Outdated'
  BY DEF TypeOK, Exclusion, Outdated, HasRead, Alive, Receive, Enter, SaveElsewhere, Truncate,
         Write, WriteFails, Rename, RenameByOtherName, RenameFails, StartFails, Answer
<1>4. QED
  BY <1>1, <1>2, <1>3

LEMMA StartChildIInv == ASSUME IInv, NEW h \in Handlers, StartChild(h) PROVE IInv'
<1> USE DEF IInv, StartChild, Fork, At, files
<1>1. TypeOK'
  <2>1. web \in Procs /\ marked[web] \in BOOLEAN
    BY DEF TypeOK, Exclusion
  <2>2. spawned + 1 \in Procs
    BY GenAssumption DEF TypeOK, Procs
  <2>3. marked' \in [Procs -> BOOLEAN] /\ holds' \in [Procs -> BOOLEAN]
    BY <2>1, <2>2 DEF TypeOK
  <2>4. QED
    BY <2>2, <2>3 DEF TypeOK
<1>2. Exclusion'
  BY DEF TypeOK, Exclusion
<1>3. Outdated'
  BY DEF TypeOK, Outdated, HasRead
<1>4. QED
  BY <1>1, <1>2, <1>3

(* A process dies: of the requests none is left, or all are as they were.  *)
LEMMA DieIInv == ASSUME IInv, NEW p \in Procs, Die(p) PROVE IInv'
<1> USE DEF IInv, Die, files
<1>1. TypeOK'
  BY DEF TypeOK, requests, Procs
<1>2. Exclusion'
  BY DEF TypeOK, Exclusion, requests
<1>3. Outdated'
  BY DEF TypeOK, Outdated, HasRead, requests
<1>4. QED
  BY <1>1, <1>2, <1>3

(* A process goes on, forks or makes up its mind to leave.                 *)
LEMMA ProcessIInv ==
  ASSUME IInv, NEW p \in Procs,
         Start(p) \/ ReadConfig(p) \/ Listen(p) \/ WebStarts(p) \/ Reload(p) \/ Probe(p)
  PROVE  IInv'
<1> USE DEF IInv, files, requests, births, procs
<1>1. TypeOK'
  <2>1. CASE Start(p) \/ ReadConfig(p)
    BY <2>1 DEF TypeOK, Start, ReadConfig
  <2>2. CASE WebStarts(p)
    BY <2>2 DEF TypeOK, WebStarts
  <2>3. CASE Probe(p)
    BY <2>3 DEF TypeOK, Probe
  <2>4. CASE Reload(p)
    BY <2>4, GenAssumption DEF TypeOK, Reload, Fork, Procs
  <2>5. CASE Listen(p)
    BY <2>5 DEF TypeOK, Listen
  <2>6. QED
    BY <2>1, <2>2, <2>3, <2>4, <2>5
<1>2. Exclusion'
  BY DEF Exclusion, Start, ReadConfig, Listen, WebStarts, Reload, Probe
<1>3. Outdated'
  <2>1. CASE Start(p) \/ ReadConfig(p)
    BY <2>1 DEF TypeOK, Outdated, HasRead, Start, ReadConfig
  <2>2. CASE Listen(p)
    BY <2>2 DEF TypeOK, Outdated, HasRead, Listen
  <2>3. CASE WebStarts(p)
    BY <2>3 DEF TypeOK, Outdated, HasRead, WebStarts, Procs
  <2>4. CASE Probe(p)
    BY <2>4 DEF TypeOK, Outdated, HasRead, Probe
  <2>5. CASE Reload(p)
    BY <2>5 DEF TypeOK, Outdated, HasRead, Reload, Fork
  <2>6. QED
    BY <2>1, <2>2, <2>3, <2>4, <2>5
<1>4. QED
  BY <1>1, <1>2, <1>3

LEMMA RestartIInv == IInv /\ Restart => IInv'
<1> SUFFICES ASSUME IInv, Restart PROVE IInv'
  OBVIOUS
<1> USE DEF IInv, Restart, Fork, files, requests
<1>1. TypeOK'
  BY GenAssumption DEF TypeOK, Procs
<1>2. Exclusion' /\ Outdated'
  BY DEF TypeOK, Exclusion, Outdated, HasRead
<1>3. QED
  BY <1>1, <1>2

LEMMA NextIInv == IInv /\ [Next]_vars => IInv'
<1> SUFFICES ASSUME IInv, [Next]_vars PROVE IInv'
  OBVIOUS
<1>1. ASSUME NEW h \in Handlers, Receive(h) \/ Save(h) PROVE IInv'
  BY <1>1, RequestIInv, StartChildIInv
  DEF Save, Receive, Enter, SaveElsewhere, Truncate, Write, WriteFails, Rename,
      RenameByOtherName, RenameFails, StartFails, Answer
<1>2. ASSUME NEW p \in Procs,
             Boot(p) \/ WebStarts(p) \/ Reload(p) \/ Probe(p) \/ Exit(p) \/ Killed(p)
      PROVE  IInv'
  BY <1>2, DieIInv, ProcessIInv
  DEF Boot, StartHasNoSocket, ReadConfigFails, ListenFails, Exit, Killed
<1>3. CASE UNCHANGED vars
  BY <1>3 DEF IInv, TypeOK, Exclusion, Outdated, HasRead, vars
<1>4. QED
  BY <1>1, <1>2, <1>3, RestartIInv DEF Next

(* Saving stays within its types, the file included: it is never half      *)
(* written.                                                                *)
THEOREM SavingTypes == Spec => []TypeOK
<1>1. Spec => []IInv
  BY InitIInv, NextIInv, PTL DEF Spec
<1>2. QED
  BY <1>1, PTL DEF IInv

(* The process that is left in service uses what is in the file, unless a  *)
(* save has overtaken it, by which server.go restarts no service, or that  *)
(* of another process: whoever else does not is about to leave.            *)
THEOREM SavedServed == Spec => []SavedIsServed
<1>1. IInv => SavedIsServed
  BY DEF IInv, Outdated, HasRead, SavedIsServed, AtRest
<1>2. Spec => []IInv
  BY InitIInv, NextIInv, PTL DEF Spec
<1>3. QED
  BY <1>1, <1>2, PTL

(* Only a rename changes the configuration file, and what it puts there    *)
(* has been validated.                                                     *)
LEMMA StepRegister == IInv /\ [Next]_vars => [Register!Replace]_file
<1> SUFFICES ASSUME IInv, [Next]_vars, file' # file PROVE Register!Replace
  BY DEF Register!Replace
<1>1. PICK h \in Handlers : Rename(h) \/ RenameByOtherName(h)
  BY DEF Next, Receive, Save, Enter, SaveElsewhere, Truncate, Write, WriteFails,
     RenameFails, StartChild, StartFails, Answer, Boot, Start, StartHasNoSocket,
     ReadConfig, ReadConfigFails, Listen, ListenFails, WebStarts, Reload, Probe, Exit,
     Killed, Die, Restart, files, vars
<1>2. QED
  BY <1>1 DEF Rename, RenameByOtherName, At, IInv, Exclusion, Register!Replace

(* Saving implements the register that readers of the file rely on.        *)
THEOREM SavingIsRegister == Spec => ImplementsRegister
<1>1. Init => Register!Init
  BY DEF Init, Register!Init
<1>2. Spec => []IInv
  BY InitIInv, NextIInv, PTL DEF Spec
<1>3. QED
  BY <1>1, <1>2, StepRegister, PTL DEF Spec, ImplementsRegister, Register!Spec
-----------------------------------------------------------------------------
(* The mutex of the Web UI is held exactly from the Lock of a request to   *)
(* its deferred Unlock, on every early return and whatever process dies.   *)
MutexFollows == \A h \in Handlers : lock = h <=> at[h] \notin {"idle", "wait"}

LEMMA StepMutex == IInv /\ MutexFollows /\ [Next]_vars => MutexFollows'
<1> SUFFICES ASSUME IInv, MutexFollows, [Next]_vars PROVE MutexFollows'
  OBVIOUS
<1> USE HandlersAssumption DEF IInv, TypeOK, MutexFollows
<1>1. CASE UNCHANGED vars
  BY <1>1 DEF vars
<1>2. ASSUME NEW h \in Handlers,
             Receive(h) \/ Enter(h) \/ Truncate(h) \/ Write(h) \/ Rename(h) \/ StartChild(h)
      PROVE  MutexFollows'
  <2>1. CASE Enter(h)
    BY <2>1 DEF Enter, At
  <2>2. CASE Receive(h)
    BY <2>2 DEF Receive, At
  <2>3. CASE Truncate(h) \/ Write(h) \/ Rename(h) \/ StartChild(h)
    <3>1. lock' = lock
      BY <2>3, Zenon DEF Truncate, Write, Rename, StartChild
    <3>2. /\ at[h] \in {"write", "writing", "rename", "start"}
          /\ \E to \in {"writing", "rename", "start", "answer"} :
                at' = [at EXCEPT ![h] = to]
      <4>1. CASE Truncate(h)
        BY <4>1 DEF Truncate, At
      <4>2. CASE Write(h)
        BY <4>2 DEF Write, At
      <4>3. CASE Rename(h)
        BY <4>3, Zenon DEF Rename, At
      <4>4. CASE StartChild(h)
        BY <4>4 DEF StartChild, At
      <4>5. QED
        BY <2>3, <4>1, <4>2, <4>3, <4>4
    <3>3. QED
      BY <3>1, <3>2
  <2>4. QED
    BY <1>2, <2>1, <2>2, <2>3
<1>3. ASSUME NEW h \in Handlers,
             \/ SaveElsewhere(h) \/ WriteFails(h) \/ RenameByOtherName(h)
             \/ RenameFails(h) \/ StartFails(h) \/ Answer(h)
      PROVE  MutexFollows'
  <2>1. at[h] \notin {"idle", "wait"} /\ Return(h)
    BY <1>3 DEF SaveElsewhere, WriteFails, RenameByOtherName, RenameFails, StartFails,
                Answer
  <2>2. QED
    BY <2>1 DEF Return
<1>4. ASSUME NEW p \in Procs, Die(p) PROVE MutexFollows'
  BY <1>4 DEF Die, requests
<1>5. ASSUME NEW p \in Procs, \/ Start(p) \/ ReadConfig(p) \/ Listen(p) \/ WebStarts(p)
                              \/ Reload(p) \/ Probe(p)
      PROVE  MutexFollows'
  BY <1>5 DEF Start, ReadConfig, Listen, WebStarts, Reload, Probe, requests
<1>6. CASE Restart
  BY <1>6 DEF Restart, requests
<1>7. QED
  BY <1>1, <1>2, <1>3, <1>4, <1>5, <1>6
  DEF Next, Save, Boot, StartHasNoSocket, ReadConfigFails, ListenFails, Exit, Killed

(* A request that waits for the mutex of server.go waits for another that  *)
(* is between its Lock and its return: none of the six early returns       *)
(* leaves it locked.                                                       *)
THEOREM MutexIsReleased == Spec => []MutexFollows
<1>1. Init => MutexFollows
  <2>1. Init => lock = Nobody /\ \A h \in Handlers : at[h] = "idle"
    BY DEF Init
  <2>2. QED
    BY <2>1, HandlersAssumption DEF MutexFollows
<1>2. Spec => []IInv
  BY InitIInv, NextIInv, PTL DEF Spec
<1>3. QED
  BY <1>1, <1>2, StepMutex, PTL DEF Spec
=============================================================================
