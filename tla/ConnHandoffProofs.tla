------------------------- MODULE ConnHandoffProofs -------------------------
(***************************************************************************)
(* What ConnHandoff satisfies for every number of connections.             *)
(***************************************************************************)
EXTENDS ConnHandoff, TLAPS

(* What makes TrackedIsKept inductive: the server has a tracked connection *)
(* only between the rendezvous and the wake-up, and done follows.          *)
Handed ==
    \A c \in Tracked :
        /\ served[c] = "yes" => pc[c] \in {"sent", "await"} /\ c \in open
        /\ served[c] = "yes" => c \notin done
        /\ pc[c] \in {"handle", "locked"} => served[c] = "no"
        /\ pc[c] \in {"handle", "locked"} => c \in open /\ c \notin done

IInv == TypeOK /\ Handed

LEMMA InitIInv == Init => IInv
<1> SUFFICES ASSUME Init PROVE IInv
  OBVIOUS
<1>1. pc \in [Conns -> PcStates] /\ served \in [Conns -> {"no", "yes", "over"}]
  BY DEF Init, PcStates
<1>2. TypeOK
  BY <1>1 DEF Init, TypeOK
<1>3. Handed
  BY TrackedAssumption DEF Init, Handed
<1>4. QED
  BY <1>2, <1>3 DEF IInv

LEMMA StepIInv == IInv /\ [Next]_vars => IInv'
<1> SUFFICES ASSUME IInv, [Next]_vars PROVE IInv'
  OBVIOUS
<1> USE TrackedAssumption, NoConnAssumption
<1> USE DEF IInv, TypeOK, PcStates, Handed, Moves
<1>1. CASE UNCHANGED vars
  BY <1>1 DEF vars
<1>2. ASSUME NEW c \in Conns, Arrive(c) PROVE IInv'
  BY <1>2 DEF Arrive
<1>3. ASSUME NEW c \in Conns, Lock(c) PROVE IInv'
  BY <1>3 DEF Lock
<1>4. ASSUME NEW c \in Conns, Accept(c) PROVE IInv'
  BY <1>4 DEF Accept
<1>5. ASSUME NEW c \in Conns, Unlock(c) PROVE IInv'
  BY <1>5 DEF Unlock
<1>6. ASSUME NEW c \in Conns, Wake(c) PROVE IInv'
  BY <1>6 DEF Wake
<1>7. ASSUME NEW c \in Conns, DeferredClose(c) PROVE IInv'
  BY <1>7 DEF DeferredClose
<1>8. ASSUME NEW c \in Conns, ServerCloses(c) PROVE IInv'
  BY <1>8 DEF ServerCloses
<1>9. CASE ServerStarts \/ Dispatch
  BY <1>9 DEF ServerStarts, Dispatch
<1>10. QED
  BY <1>1, <1>2, <1>3, <1>4, <1>5, <1>6, <1>7, <1>8, <1>9 DEF Next

(* Every variable keeps its type.                                          *)
THEOREM TypeCorrect == Spec => []TypeOK
<1>1. IInv => TypeOK
  BY DEF IInv
<1>2. QED
  BY <1>1, InitIInv, StepIInv, PTL DEF Spec

(* FileServerHandler.Handle returns, and main closes the connection, only  *)
(* after the server is done with it.                                       *)
THEOREM TrackedAreKept == Spec => []TrackedIsKept
<1>1. IInv => TrackedIsKept
  BY DEF IInv, Handed, TrackedIsKept
<1>2. QED
  BY <1>1, InitIInv, StepIInv, PTL DEF Spec
-----------------------------------------------------------------------------
(* The mutex of a ConnListener is held by a goroutine exactly while it     *)
(* sends: who waits for it waits for one that has only the server's accept *)
(* loop, or its own next step, ahead of it.                                *)
MutexFollows == \A c \in Conns : mu = c <=> pc[c] \in {"locked", "sent"}

(* A goroutine that waits for the server is not forgotten by it: either    *)
(* the server still has the connection, or done is closed.                 *)
NoLostWake ==
    \A c \in Tracked : pc[c] \in {"sent", "await"} =>
        served[c] = "yes" \/ c \in done

(* A server that has accepted a connection got it from whoever holds the   *)
(* mutex, or from one that has given it back since.                        *)
LEMMA StepMutex == IInv /\ MutexFollows /\ [Next]_vars => MutexFollows'
<1> SUFFICES ASSUME IInv, MutexFollows, [Next]_vars PROVE MutexFollows'
  OBVIOUS
<1> USE TrackedAssumption, NoConnAssumption
<1> USE DEF IInv, TypeOK, PcStates, MutexFollows, Moves
<1>1. CASE UNCHANGED vars
  BY <1>1 DEF vars
<1>2. ASSUME NEW c \in Conns, Arrive(c) \/ Wake(c) \/ DeferredClose(c) \/ ServerCloses(c)
      PROVE  MutexFollows'
  BY <1>2 DEF Arrive, Wake, DeferredClose, ServerCloses
<1>3. ASSUME NEW c \in Conns, Lock(c) \/ Accept(c) \/ Unlock(c) PROVE MutexFollows'
  BY <1>3 DEF Lock, Accept, Unlock
<1>4. CASE ServerStarts \/ Dispatch
  BY <1>4 DEF ServerStarts, Dispatch
<1>5. QED
  BY <1>1, <1>2, <1>3, <1>4 DEF Next

LEMMA StepWake == IInv /\ NoLostWake /\ [Next]_vars => NoLostWake'
<1> SUFFICES ASSUME IInv, NoLostWake, [Next]_vars PROVE NoLostWake'
  OBVIOUS
<1> USE TrackedAssumption
<1> USE DEF IInv, TypeOK, PcStates, NoLostWake, Moves
<1>1. CASE UNCHANGED vars
  BY <1>1 DEF vars
<1>2. ASSUME NEW c \in Conns, Arrive(c) \/ Wake(c) \/ DeferredClose(c) \/ ServerCloses(c)
      PROVE  NoLostWake'
  BY <1>2 DEF Arrive, Wake, DeferredClose, ServerCloses
<1>3. ASSUME NEW c \in Conns, Lock(c) \/ Accept(c) \/ Unlock(c) PROVE NoLostWake'
  BY <1>3 DEF Lock, Accept, Unlock
<1>4. CASE ServerStarts \/ Dispatch
  BY <1>4 DEF ServerStarts, Dispatch
<1>5. QED
  BY <1>1, <1>2, <1>3, <1>4 DEF Next

(* HandleConn (conn_listener.go) never leaves its mutex locked behind it,  *)
(* and holds it at no other point than the send.                           *)
THEOREM MutexIsReleased == Spec => []MutexFollows
<1>1. Init => MutexFollows
  BY NoConnAssumption DEF Init, MutexFollows
<1>2. QED
  BY <1>1, InitIInv, StepIInv, StepMutex, PTL DEF Spec

(* The goroutine that waits at <-tracked.done (file_server.go) can always  *)
(* go on once the server is done: the close of the channel is not missed,  *)
(* even by one that has not come to the wait when it happens.              *)
THEOREM WakeIsNotLost == Spec => []NoLostWake
<1>1. Init => NoLostWake
  BY TrackedAssumption DEF Init, NoLostWake
<1>2. QED
  BY <1>1, InitIInv, StepIInv, StepWake, PTL DEF Spec
=============================================================================
