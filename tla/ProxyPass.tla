----------------------------- MODULE ProxyPass -----------------------------
(***************************************************************************)
(* ProxyPassHandler.Handle for one connection: dial the target, send the   *)
(* PROXY header when asked to, copy in both directions at once, and return *)
(* when both copies have ended, which closes both sockets.                 *)
(*                                                                         *)
(* A byte stands for whatever one Read of a copy returns; its value is of  *)
(* no interest.  The two ends of the relay write, shut their sending side  *)
(* down, or go away as they please.                                        *)
(***************************************************************************)
EXTENDS Integers

CONSTANTS
    ProxyProtocol,   \* the handler's flag
    MaxBytes         \* bound: what each end writes

ASSUME ProxyProtocolAssumption == ProxyProtocol \in BOOLEAN
ASSUME MaxBytesAssumption == MaxBytes \in Nat

Ends == {"client", "target"}

(* The two calls of doCopy, by what they read from.                        *)
Sink == [client |-> "target", target |-> "client"]

VARIABLES
    phase,       \* where Handle is
    end,         \* each end: sends, has shut its sending side down, or gone
    sent,        \* how many bytes each end wrote
    taken,       \* how many of them the copy has read
    arrived,     \* how many of them the other end got
    copy         \* each doCopy, by its source

vars == <<phase, end, sent, taken, arrived, copy>>

data == <<sent, taken, arrived>>

(* Handle holds a socket to e.                                             *)
Open(e) ==
    IF e = "client" THEN phase # "returned" ELSE phase \in {"header", "relay"}

Init ==
    /\ phase = "dial"
    /\ end = [e \in Ends |-> "open"]
    /\ sent = [e \in Ends |-> 0]
    /\ taken = [e \in Ends |-> 0]
    /\ arrived = [e \in Ends |-> 0]
    /\ copy = [e \in Ends |-> "off"]

-----------------------------------------------------------------------------
Relay ==
    /\ phase' = "relay"
    /\ copy' = [e \in Ends |-> "read"]
    /\ UNCHANGED <<end, data>>

Dial ==
    /\ phase = "dial"
    /\ IF ProxyProtocol
       THEN phase' = "header" /\ UNCHANGED <<end, data, copy>>
       ELSE Relay

DialFails ==
    /\ phase = "dial"
    /\ phase' = "returned"
    /\ UNCHANGED <<end, data, copy>>

SendHeader ==
    /\ phase = "header"
    /\ Relay

SendHeaderFails ==
    /\ phase = "header"
    /\ phase' = "returned"
    /\ UNCHANGED <<end, data, copy>>

Ended(e) == copy[e] \in {"eof", "error"}

(* Mutant: wg.Add(1).                                                      *)
ReturnAtFirst ==
    /\ phase = "relay"
    /\ \E e \in Ends : Ended(e)
    /\ phase' = "returned"
    /\ UNCHANGED <<end, data, copy>>

(* Mutant: a copy that failed does not reach wg.Done().                    *)
ReturnAfterEof ==
    /\ phase = "relay"
    /\ \A e \in Ends : copy[e] = "eof"
    /\ phase' = "returned"
    /\ UNCHANGED <<end, data, copy>>

Return ==
    /\ phase = "relay"
    /\ \A e \in Ends : Ended(e)
    /\ phase' = "returned"
    /\ UNCHANGED <<end, data, copy>>

-----------------------------------------------------------------------------
(* io.CopyBuffer.                                                          *)

CopyRead(e) ==
    /\ copy[e] = "read"
    /\ taken[e] < sent[e]
    /\ taken' = [taken EXCEPT ![e] = @ + 1]
    /\ copy' = [copy EXCEPT ![e] = "write"]
    /\ UNCHANGED <<phase, end, sent, arrived>>

(* Mutant: what is left in the socket at the end of the stream is dropped. *)
CopyEofEarly(e) ==
    /\ copy[e] = "read"
    /\ end[e] \in {"shut", "gone"}
    /\ copy' = [copy EXCEPT ![e] = "eof"]
    /\ UNCHANGED <<phase, end, data>>

CopyEof(e) ==
    /\ copy[e] = "read"
    /\ taken[e] = sent[e]
    /\ end[e] \in {"shut", "gone"}
    /\ copy' = [copy EXCEPT ![e] = "eof"]
    /\ UNCHANGED <<phase, end, data>>

CopyReadFails(e) ==
    /\ copy[e] = "read"
    /\ end[e] = "gone"
    /\ copy' = [copy EXCEPT ![e] = "error"]
    /\ UNCHANGED <<phase, end, data>>

CopyWrite(e) ==
    /\ copy[e] = "write"
    /\ end[Sink[e]] # "gone"
    /\ arrived' = [arrived EXCEPT ![e] = @ + 1]
    /\ copy' = [copy EXCEPT ![e] = "read"]
    /\ UNCHANGED <<phase, end, sent, taken>>

(* The first write to an end that has gone may still succeed, for nothing. *)
CopyWriteLost(e) ==
    /\ copy[e] = "write"
    /\ end[Sink[e]] = "gone"
    /\ copy' = [copy EXCEPT ![e] = "read"]
    /\ UNCHANGED <<phase, end, data>>

CopyWriteFails(e) ==
    /\ copy[e] = "write"
    /\ end[Sink[e]] = "gone"
    /\ copy' = [copy EXCEPT ![e] = "error"]
    /\ UNCHANGED <<phase, end, data>>

-----------------------------------------------------------------------------
(* The two ends.                                                           *)

Sends(e) ==
    /\ Open(e)
    /\ end[e] = "open"
    /\ sent[e] < MaxBytes
    /\ sent' = [sent EXCEPT ![e] = @ + 1]
    /\ UNCHANGED <<phase, end, taken, arrived, copy>>

Shuts(e) ==
    /\ Open(e)
    /\ end[e] = "open"
    /\ end' = [end EXCEPT ![e] = "shut"]
    /\ UNCHANGED <<phase, data, copy>>

Goes(e) ==
    /\ Open(e)
    /\ end[e] \in {"open", "shut"}
    /\ end' = [end EXCEPT ![e] = "gone"]
    /\ UNCHANGED <<phase, data, copy>>

-----------------------------------------------------------------------------
HandleStep == Dial \/ DialFails \/ SendHeader \/ SendHeaderFails \/ Return

CopyStep(e) ==
    \/ CopyRead(e) \/ CopyEof(e) \/ CopyReadFails(e)
    \/ CopyWrite(e) \/ CopyWriteLost(e) \/ CopyWriteFails(e)

Next ==
    \/ HandleStep
    \/ \E e \in Ends : CopyStep(e) \/ Sends(e) \/ Shuts(e) \/ Goes(e)

Spec == Init /\ [][Next]_vars

(* Goroutines run and a Dial ends; nothing is assumed of the two ends.     *)
Fairness == WF_vars(HandleStep) /\ \A e \in Ends : WF_vars(CopyStep(e))

FairSpec == Spec /\ Fairness

-----------------------------------------------------------------------------
TypeOK ==
    /\ phase \in {"dial", "header", "relay", "returned"}
    /\ end \in [Ends -> {"open", "shut", "gone"}]
    /\ sent \in [Ends -> 0..MaxBytes]
    /\ taken \in [Ends -> 0..MaxBytes]
    /\ arrived \in [Ends -> 0..MaxBytes]
    /\ copy \in [Ends -> {"off", "read", "write", "eof", "error"}]

(* Each direction is a prefix of what was written, and a copy (doCopy,     *)
(* proxy_pass.go) that ended with an end of stream left nothing behind for *)
(* an end that still listens.                                              *)
StreamsAreWhole ==
    \A e \in Ends :
        /\ arrived[e] <= taken[e] /\ taken[e] <= sent[e]
        /\ copy[e] = "eof" /\ end[Sink[e]] # "gone" => arrived[e] = sent[e]

(* An end that shut its sending side down still gets the answer: Handle    *)
(* closes the sockets of a session that no end broke off only when         *)
(* everything both of them wrote has arrived.                              *)
OrderlySessionIsWhole ==
    phase = "returned" /\ copy # [e \in Ends |-> "off"]
            /\ (\A e \in Ends : end[e] # "gone") =>
        \A e \in Ends : arrived[e] = sent[e]

(* Handle returns once both ends have finished.                            *)
ReturnsWhenBothFinish ==
    (\A e \in Ends : end[e] # "open") ~> phase = "returned"
=============================================================================
