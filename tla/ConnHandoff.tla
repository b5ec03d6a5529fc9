---------------------------- MODULE ConnHandoff ----------------------------
(***************************************************************************)
(* How a connection gets from the goroutine main() started for it to an    *)
(* http.Server running inside the same process: ConnListener is the        *)
(* net.Listener that server accepts from, HandleConn passes it a           *)
(* connection over an unbuffered channel with the mutex held.              *)
(*                                                                         *)
(* FileServerHandler wraps the connection and waits until the server has   *)
(* closed it.  HttpMuxHandler and DohServer return as soon as the server   *)
(* has it.  Either way the goroutine of main() then closes it.             *)
(*                                                                         *)
(* http.Serve only closes its listener when Accept fails, and Accept only  *)
(* fails once it is closed: nothing ever calls ConnListener.Close, and     *)
(* isClosed stays false.                                                   *)
(***************************************************************************)
EXTENDS FiniteSets

CONSTANTS
    Conns,      \* slots of connections routed to one ConnListener
    Tracked,    \* those that come through FileServerHandler
    NoConn      \* not a connection

ASSUME TrackedAssumption == Tracked \subseteq Conns
ASSUME NoConnAssumption == NoConn \notin Conns

VARIABLES
    pc,         \* where the goroutine of each connection is
    mu,         \* the holder of ConnListener.mu
    server,     \* where the server's accept loop is
    served,     \* what the server does with each connection
    open,       \* the connections whose socket is open
    done        \* the tracked connections whose done channel is closed

vars == <<pc, mu, server, served, open, done>>

(* "handle" is before mu.Lock, "locked" at the send, "sent" before         *)
(* mu.Unlock, "await" at <-tracked.done, "returned" before the deferred    *)
(* close of main's goroutine.                                              *)
PcStates == {"idle", "handle", "locked", "sent", "await", "returned"}

Init ==
    /\ pc = [c \in Conns |-> "idle"]
    /\ mu = NoConn
    /\ server = "starting"
    /\ served = [c \in Conns |-> "no"]
    /\ open = {}
    /\ done = {}

Moves(c, from, to) ==
    /\ pc[c] = from
    /\ pc' = [pc EXCEPT ![c] = to]

-----------------------------------------------------------------------------
(* main() routes a new connection here; its slot is free again when both   *)
(* its goroutine and the server are done with the last one.                *)
Arrive(c) ==
    /\ served[c] # "yes"
    /\ Moves(c, "idle", "handle")
    /\ served' = [served EXCEPT ![c] = "no"]
    /\ open' = open \cup {c}
    /\ done' = done \ {c}
    /\ UNCHANGED <<mu, server>>

Lock(c) ==
    /\ mu = NoConn
    /\ Moves(c, "handle", "locked")
    /\ mu' = c
    /\ UNCHANGED <<server, served, open, done>>

(* The rendezvous on connChan.                                             *)
Accept(c) ==
    /\ server = "accept"
    /\ Moves(c, "locked", "sent")
    /\ served' = [served EXCEPT ![c] = "yes"]
    /\ server' = "dispatch"
    /\ UNCHANGED <<mu, open, done>>

(* Mutant: HandleConn sends, and returns, with the mutex still locked.     *)
KeepLock(c) ==
    /\ Moves(c, "sent", IF c \in Tracked THEN "await" ELSE "returned")
    /\ UNCHANGED <<mu, server, served, open, done>>

Unlock(c) ==
    /\ Moves(c, "sent", IF c \in Tracked THEN "await" ELSE "returned")
    /\ mu' = NoConn
    /\ UNCHANGED <<server, served, open, done>>

(* Mutant: Handle does not wait for the server.                            *)
WakeEarly(c) ==
    /\ Moves(c, "await", "returned")
    /\ UNCHANGED <<mu, server, served, open, done>>

Wake(c) ==
    /\ c \in done
    /\ Moves(c, "await", "returned")
    /\ UNCHANGED <<mu, server, served, open, done>>

DeferredClose(c) ==
    /\ Moves(c, "returned", "idle")
    /\ open' = open \ {c}
    /\ UNCHANGED <<mu, server, served, done>>

-----------------------------------------------------------------------------
(* The goroutine started with the handler.                                 *)

ServerStarts ==
    /\ server = "starting"
    /\ server' = "accept"
    /\ UNCHANGED <<pc, mu, served, open, done>>

(* http.Server starts a goroutine for what it accepted.                    *)
Dispatch ==
    /\ server = "dispatch"
    /\ server' = "accept"
    /\ UNCHANGED <<pc, mu, served, open, done>>

(* Mutant: trackedConn.Close leaves the done channel open.                 *)
ServerClosesSilently(c) ==
    /\ served[c] = "yes"
    /\ served' = [served EXCEPT ![c] = "over"]
    /\ open' = open \ {c}
    /\ UNCHANGED <<pc, mu, server, done>>

(* The answer is sent, the client has gone, or an error ended it: the      *)
(* server closes what it accepted, which for a trackedConn closes done.    *)
ServerCloses(c) ==
    /\ served[c] = "yes"
    /\ served' = [served EXCEPT ![c] = "over"]
    /\ open' = open \ {c}
    /\ done' = IF c \in Tracked THEN done \cup {c} ELSE done
    /\ UNCHANGED <<pc, mu, server>>

-----------------------------------------------------------------------------
Next ==
    \/ \E c \in Conns :
         \/ Arrive(c) \/ Lock(c) \/ Accept(c) \/ Unlock(c)
         \/ Wake(c) \/ DeferredClose(c) \/ ServerCloses(c)
    \/ ServerStarts
    \/ Dispatch

Spec == Init /\ [][Next]_vars

(* sync.Mutex hands itself to a waiter it has starved, hence SF; goroutines *)
(* run.  No client is assumed to come, nor a served one to end.             *)
Fairness ==
    /\ \A c \in Conns : SF_vars(Lock(c)) /\ WF_vars(Accept(c))
    /\ \A c \in Conns : WF_vars(Unlock(c) \/ Wake(c) \/ DeferredClose(c))
    /\ WF_vars(ServerStarts \/ Dispatch)

FairSpec == Spec /\ Fairness

-----------------------------------------------------------------------------
TypeOK ==
    /\ pc \in [Conns -> PcStates]
    /\ mu \in Conns \cup {NoConn}
    /\ server \in {"starting", "accept", "dispatch"}
    /\ served \in [Conns -> {"no", "yes", "over"}]
    /\ open \subseteq Conns
    /\ done \subseteq Tracked

(* FileServerHandler.Handle (file_server.go) returns only after the server *)
(* closed the connection: the deferred close, and the DecrementConnection  *)
(* before it (main.go), never come while the server still uses it.         *)
TrackedIsKept ==
    \A c \in Tracked : served[c] = "yes" =>
        c \in open /\ pc[c] \notin {"returned", "idle"}

(* README.md: http2 paths are served by their handlers.  A connection the  *)
(* server is serving is not closed under it.                               *)
ServedIsOpen == \A c \in Conns : served[c] = "yes" => c \in open

(* Every connection handed to a ConnListener reaches the server, however   *)
(* long the server takes with the others.                                  *)
ReachesServer == \A c \in Conns : pc[c] = "handle" ~> served[c] = "yes"

(* When the server is done with a connection its goroutine ends, so that   *)
(* connCount (hotreload.go) comes back to zero.                            *)
GoroutineEnds == \A c \in Conns : served[c] = "over" ~> pc[c] \in {"idle", "handle"}
=============================================================================
