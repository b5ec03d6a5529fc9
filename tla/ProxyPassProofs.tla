-------------------------- MODULE ProxyPassProofs --------------------------
(***************************************************************************)
(* What ProxyPass satisfies however much the two ends write.               *)
(***************************************************************************)
EXTENDS ProxyPass, TLAPS

(* The chunk a copy has read and not written yet.                          *)
InHand(e) == IF copy[e] = "write" THEN 1 ELSE 0

Accounts(e) ==
    /\ arrived[e] <= taken[e] /\ taken[e] <= sent[e]
    /\ arrived[e] + InHand(e) <= taken[e]
    /\ end[Sink[e]] # "gone" => taken[e] = arrived[e] + InHand(e)
    /\ copy[e] = "eof" => taken[e] = sent[e] /\ end[e] # "open"
    /\ copy[e] = "error" => end[e] = "gone" \/ end[Sink[e]] = "gone"

Order ==
    /\ phase \in {"dial", "header"} => copy = [e \in Ends |-> "off"]
    /\ phase = "relay" => \A e \in Ends : copy[e] # "off"
    /\ phase = "returned" /\ copy # [e \in Ends |-> "off"]
         => \A e \in Ends : Ended(e)

IInv == TypeOK /\ Order /\ \A e \in Ends : Accounts(e)

LEMMA SinkEnds == \A e \in Ends : Sink[e] \in Ends /\ Sink[e] # e
BY DEF Sink, Ends

LEMMA InitIInv == Init => IInv
<1> SUFFICES ASSUME Init PROVE IInv
  OBVIOUS
<1>1. TypeOK
  BY MaxBytesAssumption DEF Init, TypeOK
<1>2. Order
  BY DEF Init, Order
<1>3. ASSUME NEW e \in Ends PROVE Accounts(e)
  BY <1>3, SinkEnds DEF Init, Accounts, InHand
<1>4. QED
  BY <1>1, <1>2, <1>3 DEF IInv

(* Handle: what it does before and after the two copies.                   *)
LEMMA HandleIInv == IInv /\ HandleStep => IInv'
<1> SUFFICES ASSUME IInv, HandleStep PROVE IInv'
  OBVIOUS
<1> USE DEF IInv
<1>1. CASE Return
  <2>1. TypeOK' /\ Order'
    BY <1>1 DEF Return, TypeOK, Order, Ended, data
  <2>2. ASSUME NEW e \in Ends PROVE Accounts(e)'
    BY <1>1 DEF Return, Accounts, InHand, data
  <2>3. QED
    BY <2>1, <2>2
<1>2. CASE Relay /\ phase \in {"dial", "header"}
  <2>1. TypeOK' /\ Order'
    BY <1>2 DEF Relay, TypeOK, Order, Ended, data
  <2>2. ASSUME NEW e \in Ends PROVE Accounts(e)'
    BY <1>2 DEF Relay, Accounts, InHand, Order, data
  <2>3. QED
    BY <2>1, <2>2
<1>3. CASE phase \in {"dial", "header"} /\ phase' \in {"header", "returned"}
           /\ UNCHANGED <<end, data, copy>>
  <2>1. TypeOK' /\ Order'
    BY <1>3 DEF TypeOK, Order, data
  <2>2. ASSUME NEW e \in Ends PROVE Accounts(e)'
    BY <1>3 DEF Accounts, InHand, data
  <2>3. QED
    BY <2>1, <2>2
<1>4. QED
  BY <1>1, <1>2, <1>3 DEF HandleStep, Dial, DialFails, SendHeader, SendHeaderFails

(* io.CopyBuffer moves the chunk in hand of one direction only.            *)
LEMMA CopyIInv == ASSUME IInv, NEW e \in Ends, CopyStep(e) PROVE IInv'
<1> USE DEF IInv
<1>1. phase' = phase /\ end' = end /\ sent' = sent
  BY DEF CopyStep, CopyRead, CopyEof, CopyReadFails, CopyWrite, CopyWriteLost,
     CopyWriteFails, data
<1>2. phase = "relay"
  BY DEF CopyStep, CopyRead, CopyEof, CopyReadFails, CopyWrite, CopyWriteLost,
     CopyWriteFails, Order, Ended, TypeOK
<1>3. TypeOK'
  <2>1. taken' \in [Ends -> 0..MaxBytes]
    BY MaxBytesAssumption DEF CopyStep, CopyRead, CopyEof, CopyReadFails, CopyWrite,
       CopyWriteLost, CopyWriteFails, data, TypeOK
  <2>2. arrived' \in [Ends -> 0..MaxBytes]
    BY MaxBytesAssumption DEF CopyStep, CopyRead, CopyEof, CopyReadFails, CopyWrite,
       CopyWriteLost, CopyWriteFails, data, TypeOK, Accounts, InHand
  <2>3. copy' \in [Ends -> {"off", "read", "write", "eof", "error"}]
    BY DEF CopyStep, CopyRead, CopyEof, CopyReadFails, CopyWrite, CopyWriteLost,
       CopyWriteFails, TypeOK
  <2>4. QED
    BY <1>1, <2>1, <2>2, <2>3 DEF TypeOK
<1>4. Order'
  BY <1>1, <1>2 DEF CopyStep, CopyRead, CopyEof, CopyReadFails, CopyWrite,
     CopyWriteLost, CopyWriteFails, Order, TypeOK
<1>5. Accounts(e)'
  BY <1>1, SinkEnds DEF CopyStep, CopyRead, CopyEof, CopyReadFails, CopyWrite,
     CopyWriteLost, CopyWriteFails, data, TypeOK, Accounts, InHand
<1>6. ASSUME NEW d \in Ends, d # e PROVE Accounts(d)'
  BY <1>1, <1>6 DEF CopyStep, CopyRead, CopyEof, CopyReadFails, CopyWrite,
     CopyWriteLost, CopyWriteFails, data, TypeOK, Accounts, InHand
<1>7. QED
  BY <1>3, <1>4, <1>5, <1>6

LEMMA EndIInv == ASSUME IInv, NEW e \in Ends, Sends(e) \/ Shuts(e) \/ Goes(e)
                 PROVE IInv'
<1> USE DEF IInv
<1>1. TypeOK'
  BY MaxBytesAssumption DEF Sends, Shuts, Goes, data, TypeOK
<1>2. Order'
  BY DEF Sends, Shuts, Goes, data, Order, Ended
<1>3. ASSUME NEW d \in Ends PROVE Accounts(d)'
  BY <1>3, SinkEnds DEF Sends, Shuts, Goes, data, TypeOK, Accounts, InHand
<1>4. QED
  BY <1>1, <1>2, <1>3

LEMMA Inductive == Spec => []IInv
<1>1. IInv /\ UNCHANGED vars => IInv'
  BY DEF IInv, vars, data, TypeOK, Order, Ended, Accounts, InHand
<1>2. IInv /\ [Next]_vars => IInv'
  BY <1>1, HandleIInv, CopyIInv, EndIInv DEF Next
<1>3. QED
  BY <1>2, InitIInv, PTL DEF Spec

(* Every variable keeps its type.                                          *)
THEOREM TypeCorrect == Spec => []TypeOK
BY Inductive, PTL DEF IInv

(* What arrives is a prefix of what was written, and all of it when the    *)
(* copy saw the end of the stream and the other end still listens.         *)
THEOREM StreamsStayWhole == Spec => []StreamsAreWhole
<1>1. IInv => StreamsAreWhole
  BY SinkEnds DEF IInv, TypeOK, Accounts, InHand, StreamsAreWhole
<1>2. QED
  BY <1>1, Inductive, PTL

(* Handle closes the sockets of a session no end broke off only after      *)
(* everything has arrived, in both directions.                             *)
THEOREM OrderlySessionsAreWhole == Spec => []OrderlySessionIsWhole
<1>1. IInv => OrderlySessionIsWhole
  BY SinkEnds DEF IInv, TypeOK, Order, Ended, Accounts, InHand,
     OrderlySessionIsWhole
<1>2. QED
  BY <1>1, Inductive, PTL
=============================================================================
