--------------------------- MODULE RoutingProofs ---------------------------
(***************************************************************************)
(* What Routing satisfies for every set of streams, whatever the length of *)
(* a request and of its path, for every set of virtual hosts and for every *)
(* PeekMax: the type that is recognised, the rule that is chosen and what  *)
(* the handler reads; and, for every request of a wizard, where the        *)
(* connections to the hosts it is given end and who has their certificate. *)
(***************************************************************************)
EXTENDS Wizard, TLAPS, SequenceTheorems, WellFoundedInduction

-----------------------------------------------------------------------------
(* The least of some numbers, for the CHOOSE of PartLast.                  *)

Below == {ss \in Nat \X Nat : ss[1] < ss[2]}

LEMMA BelowWellFounded == IsWellFoundedOn(Below, Nat)
BY NatLessThanWellFounded, Zenon DEF Below, OpToRel

LEMMA LeastIndex ==
    ASSUME NEW S \in SUBSET Nat, S # {}
    PROVE  \E i \in S : \A j \in S : i <= j
<1>1. PICK i \in S : \A j \in S : <<j, i>> \notin Below
  BY BelowWellFounded, WFMin, Zenon
<1>2. ASSUME NEW j \in S PROVE i <= j
  <2>1. i \in Nat /\ j \in Nat
    OBVIOUS
  <2>2. j < i => <<j, i>> \in Below
    <3> SUFFICES ASSUME j < i PROVE <<j, i>> \in Below
      OBVIOUS
    <3>1. <<j, i>> \in Nat \X Nat
      BY <2>1
    <3>2. <<j, i>>[1] < <<j, i>>[2]
      OBVIOUS
    <3> QED
      BY <3>1, <3>2, Zenon DEF Below
  <2> QED
    BY <1>1, <2>1, <2>2
<1> QED
  BY <1>2

LEMMA GreatestIndex ==
    ASSUME NEW n \in Nat, NEW S \in SUBSET (0..n), S # {}
    PROVE  \E i \in S : \A j \in S : j <= i
<1> DEFINE Mirror == {n - i : i \in S}
<1>1. Mirror \in SUBSET Nat /\ Mirror # {}
  <2>1. \A i \in S : n - i \in Nat
    OBVIOUS
  <2> QED
    BY <2>1
<1>2. PICK k \in Mirror : \A j \in Mirror : k <= j
  BY <1>1, LeastIndex, Zenon
<1>3. PICK i \in S : k = n - i
  BY <1>2
<1>4. ASSUME NEW j \in S PROVE j <= i
  <2>1. k <= n - j
    BY <1>2
  <2> QED
    BY <1>3, <2>1
<1> QED
  BY <1>4

-----------------------------------------------------------------------------
(* The helpers of the sniffer.                                             *)

(* Strings; that those of Routing are some is not known to the provers.    *)
Token == STRING \cup {"GE", "T", Sp, "PRI", "*", "HTTP/2.0", "hash", "crlf", "command", "atyp"}

Sequence == Seq(Token)

LEMMA SubSequence ==
    ASSUME NEW s \in Sequence, NEW m \in Nat \ {0}, NEW n \in 0..Len(s)
    PROVE  /\ SubSeq(s, m, n) \in Sequence
           /\ Len(SubSeq(s, m, n)) = IF m <= n THEN n - m + 1 ELSE 0
           /\ \A i \in 1..n - m + 1 : SubSeq(s, m, n)[i] = s[m + i - 1]
<1>1. \A i \in m..n : s[i] \in Token
  BY LenProperties DEF Sequence
<1> QED
  BY <1>1, LenProperties, SubSeqProperties DEF Sequence

LEMMA Beginning ==
    ASSUME NEW s \in Sequence, NEW n \in 0..Len(s)
    PROVE  /\ SubSeq(s, 1, n) \in Sequence
           /\ Len(SubSeq(s, 1, n)) = n
           /\ \A i \in 1..n : SubSeq(s, 1, n)[i] = s[i]
<1>1. n \in Nat
  BY LenProperties DEF Sequence
<1> QED
  BY <1>1, SubSequence

(* A sequence starts with p if its elements do.                            *)
LEMMA StartsWithElements ==
    ASSUME NEW s \in Sequence, NEW p \in Sequence
    PROVE  StartsWith(s, p) <=> Len(p) <= Len(s) /\ \A i \in 1..Len(p) : s[i] = p[i]
<1>1. Len(p) \in Nat /\ Len(s) \in Nat
  BY LenProperties DEF Sequence
<1>2. CASE Len(p) <= Len(s)
  <2>1. /\ SubSeq(s, 1, Len(p)) \in Sequence
        /\ Len(SubSeq(s, 1, Len(p))) = Len(p)
        /\ \A i \in 1..Len(p) : SubSeq(s, 1, Len(p))[i] = s[i]
    BY <1>1, <1>2, SubSequence
  <2>2. (\A i \in 1..Len(p) : s[i] = p[i]) => SubSeq(s, 1, Len(p)) = p
    BY <2>1, SeqEqual DEF Sequence
  <2> QED
    BY <1>2, <2>1, <2>2 DEF StartsWith
<1>3. CASE ~(Len(p) <= Len(s))
  BY <1>3 DEF StartsWith
<1> QED
  BY <1>2, <1>3

(* What a part of a stream starts with, the stream starts with.            *)
LEMMA StartsWithPrefix ==
    ASSUME NEW s \in Sequence, NEW n \in 0..Len(s), NEW p \in Sequence,
           StartsWith(SubSeq(s, 1, n), p)
    PROVE  StartsWith(s, p)
<1>1. Len(p) \in Nat /\ Len(s) \in Nat
  BY LenProperties DEF Sequence
<1>2. /\ SubSeq(s, 1, n) \in Sequence
      /\ Len(SubSeq(s, 1, n)) = n
      /\ \A i \in 1..n : SubSeq(s, 1, n)[i] = s[i]
  BY <1>1, SubSequence
<1>3. Len(p) <= n /\ \A i \in 1..Len(p) : SubSeq(s, 1, n)[i] = p[i]
  BY <1>2, StartsWithElements
<1> QED
  BY <1>1, <1>2, <1>3, StartsWithElements

LEMMA Heads ==
    /\ MethodHead \in Sequence /\ Preface \in Sequence /\ TrojanHead \in Sequence
    /\ Len(MethodHead) = 3 /\ Len(Preface) = 5 /\ Len(TrojanHead) = 4
    /\ MethodHead[1] = "GE" /\ MethodHead[2] = "T" /\ MethodHead[3] = Sp
    /\ Preface[1] = "PRI" /\ TrojanHead[1] = "hash"
<1>1. MethodHead \in Sequence /\ Len(MethodHead) = 3
  BY DEF MethodHead, Sequence, Token
<1>2. Preface \in Sequence /\ Len(Preface) = 5
  BY DEF Preface, Sequence, Token
<1>3. TrojanHead \in Sequence /\ Len(TrojanHead) = 4
  BY DEF TrojanHead, Sequence, Token
<1>4. MethodHead[1] = "GE" /\ MethodHead[2] = "T" /\ MethodHead[3] = Sp
  BY DEF MethodHead
<1>5. Preface[1] = "PRI" /\ TrojanHead[1] = "hash"
  BY DEF Preface, TrojanHead
<1> QED
  BY <1>1, <1>2, <1>3, <1>4, <1>5

LEMMA HttpHead ==
    ASSUME NEW s \in Sequence, SniffHttp(s)
    PROVE  /\ Len(s) \in Nat /\ Len(s) >= 3
           /\ s[1] = MethodHead[1] /\ s[2] = MethodHead[2] /\ s[3] = MethodHead[3]
<1>1. Len(s) \in Nat
  BY LenProperties DEF Sequence
<1>2. Len(s) >= 3 /\ \A i \in 1..3 : s[i] = MethodHead[i]
  BY Heads, StartsWithElements DEF SniffHttp
<1> QED
  BY <1>1, <1>2

(* Each type has a first token of its own, so what the sniffer makes of a  *)
(* part of the stream it would make of the whole.                          *)
LEMMA FirstToken ==
    ASSUME NEW s \in Sequence
    PROVE  /\ SniffHttp(s) => s[1] = "GE"
           /\ SniffHttp2(s) => s[1] = "PRI"
           /\ SniffTrojan(s) => s[1] = "hash"
<1>1. SniffHttp(s) => s[1] = MethodHead[1]
  BY HttpHead
<1>2. SniffHttp2(s) => s[1] = Preface[1]
  BY Heads, StartsWithElements DEF SniffHttp2
<1>3. SniffTrojan(s) => s[1] = TrojanHead[1]
  BY Heads, StartsWithElements DEF SniffTrojan
<1> QED
  BY <1>1, <1>2, <1>3, Heads

LEMMA TypeOfCases ==
    ASSUME NEW s \in Sequence
    PROVE  /\ TypeOf(s) \in {"http", "http2", "trojan", "unknown"}
           /\ TypeOf(s) = "http" <=> SniffHttp(s)
           /\ TypeOf(s) = "http2" <=> SniffHttp2(s)
           /\ TypeOf(s) = "trojan" <=> SniffTrojan(s)
BY FirstToken DEF TypeOf

LEMMA TypeOfPrefix ==
    ASSUME NEW s \in Sequence, NEW n \in 0..Len(s),
           TypeOf(SubSeq(s, 1, n)) # "unknown"
    PROVE  TypeOf(SubSeq(s, 1, n)) = TypeOf(s)
<1>1. Len(s) \in Nat
  BY LenProperties DEF Sequence
<1>2. SubSeq(s, 1, n) \in Sequence /\ Len(SubSeq(s, 1, n)) = n
  BY <1>1, SubSequence
<1>3. SniffHttp(SubSeq(s, 1, n)) => SniffHttp(s)
  BY Heads, StartsWithPrefix DEF SniffHttp
<1>4. SniffHttp2(SubSeq(s, 1, n)) => SniffHttp2(s)
  BY Heads, StartsWithPrefix DEF SniffHttp2
<1>5. SniffTrojan(SubSeq(s, 1, n)) => SniffTrojan(s)
  BY <1>1, <1>2, Heads, StartsWithPrefix DEF SniffTrojan
<1> QED
  BY <1>2, <1>3, <1>4, <1>5, TypeOfCases

-----------------------------------------------------------------------------
(* The path.  It begins at the fourth token, after the method and its      *)
(* space, and ends before the next space or with what was read.            *)

LEMMA PathBegins ==
    ASSUME NEW s \in Sequence, SniffHttp(s)
    PROVE  PartFirst(s) = 4
<1> DEFINE Ends(i) == s[i] = Sp /\ \A j \in 1..i-1 : s[j] # Sp
<1>1. Len(s) \in Nat /\ Len(s) >= 3 /\ s[1] = "GE" /\ s[2] = "T" /\ s[3] = Sp
  BY HttpHead, Heads
<1>2. Sp # "GE" /\ Sp # "T"
  BY DEF Sp
<1>3. 3 \in 1..Len(s) /\ Ends(3)
  BY <1>1, <1>2
<1>4. ASSUME NEW i \in 1..Len(s), Ends(i) PROVE i = 3
  BY <1>1, <1>2, <1>4
<1> DEFINE first == CHOOSE i \in 1..Len(s) : Ends(i)
<1>5. first = 3
  BY <1>3, <1>4
<1>6. PartFirst(s) = 1 + first
  BY Zenon DEF PartFirst
<1> HIDE DEF first
<1> QED
  BY <1>5, <1>6

IsPathEnd(s, l) ==
    /\ l \in 3..Len(s)
    /\ l = Len(s) \/ s[l+1] = Sp
    /\ \A j \in 4..l : s[j] # Sp

LEMMA PathEndIsOne ==
    ASSUME NEW s \in Sequence, NEW k, NEW l, IsPathEnd(s, k), IsPathEnd(s, l)
    PROVE  k = l
<1>1. Len(s) \in Nat
  BY LenProperties DEF Sequence
<1> QED
  BY <1>1 DEF IsPathEnd

LEMMA PathEnds ==
    ASSUME NEW s \in Sequence, SniffHttp(s)
    PROVE  IsPathEnd(s, PartLast(s))
<1>1. Len(s) \in Nat /\ Len(s) >= 3
  BY HttpHead
<1> DEFINE Spaces == {i \in 4..Len(s) : s[i] = Sp}
<1>2. \E l : IsPathEnd(s, l)
  <2>1. CASE Spaces = {}
    <3>1. IsPathEnd(s, Len(s))
      BY <1>1, <2>1 DEF IsPathEnd
    <3> QED
      BY <3>1
  <2>2. CASE Spaces # {}
    <3>1. Spaces \in SUBSET Nat
      BY <1>1
    <3>2. PICK i \in Spaces : \A j \in Spaces : i <= j
      BY <2>2, <3>1, LeastIndex
    <3>3. i \in 4..Len(s) /\ s[i] = Sp
      OBVIOUS
    <3>4. \A j \in 4..i-1 : s[j] # Sp
      BY <1>1, <3>2, <3>3
    <3>5. IsPathEnd(s, i - 1)
      BY <1>1, <3>3, <3>4 DEF IsPathEnd
    <3> QED
      BY <3>5
  <2> QED
    BY <2>1, <2>2
<1>3. PartFirst(s) = 4
  BY PathBegins
<1>4. PartLast(s) = CHOOSE l \in 3..Len(s) : (l = Len(s) \/ s[l+1] = Sp) /\ \A j \in 4..l : s[j] # Sp
  BY <1>3 DEF PartLast
<1> QED
  BY <1>2, <1>4 DEF IsPathEnd

(* The path in a part of the stream is the part of the path.               *)
LEMMA PathOfPrefix ==
    ASSUME NEW s \in Sequence, NEW n \in 0..Len(s), SniffHttp(SubSeq(s, 1, n))
    PROVE  /\ SniffHttp(s)
           /\ PartLast(SubSeq(s, 1, n)) = IF n < PartLast(s) THEN n ELSE PartLast(s)
           /\ Part(SubSeq(s, 1, n)) = SubSeq(Part(s), 1, PartLast(SubSeq(s, 1, n)) - 3)
<1> DEFINE t == SubSeq(s, 1, n)
           l == PartLast(s)
           k == IF n < l THEN n ELSE l
<1>1. Len(s) \in Nat
  BY LenProperties DEF Sequence
<1>2. t \in Sequence /\ Len(t) = n /\ \A i \in 1..n : t[i] = s[i]
  BY <1>1, SubSequence
<1>3. SniffHttp(s)
  BY Heads, StartsWithPrefix DEF SniffHttp
<1>4. n >= 3
  BY <1>2, HttpHead
<1>5. /\ l \in 3..Len(s)
      /\ l = Len(s) \/ s[l+1] = Sp
      /\ \A j \in 4..l : s[j] # Sp
  BY <1>3, PathEnds DEF IsPathEnd
<1>6. IsPathEnd(t, k)
  <2> HIDE DEF t, l
  <2>1. k \in 3..n
    BY <1>1, <1>4, <1>5
  <2>2. k = n \/ t[k+1] = Sp
    BY <1>1, <1>2, <1>4, <1>5
  <2>3. \A j \in 4..k : t[j] # Sp
    BY <1>1, <1>2, <1>4, <1>5
  <2> QED
    BY <1>2, <2>1, <2>2, <2>3 DEF IsPathEnd
<1>7. PartLast(t) = k
  BY <1>2, <1>6, PathEnds, PathEndIsOne
<1>8. Part(t) = SubSeq(t, 4, k) /\ Part(s) = SubSeq(s, 4, l)
  BY <1>2, <1>3, <1>7, PathBegins DEF Part
<1>9. SubSeq(t, 4, k) = SubSeq(SubSeq(s, 4, l), 1, k - 3)
  <2> HIDE DEF t, l
  <2>1. k \in 3..n /\ k <= l /\ n <= Len(s)
    BY <1>1, <1>4, <1>5
  <2>2. /\ SubSeq(t, 4, k) \in Sequence
        /\ Len(SubSeq(t, 4, k)) = k - 3
        /\ \A i \in 1..k - 3 : SubSeq(t, 4, k)[i] = t[i + 3]
    BY <1>2, <2>1, SubSequence
  <2>3. /\ SubSeq(s, 4, l) \in Sequence
        /\ Len(SubSeq(s, 4, l)) = l - 3
        /\ \A i \in 1..l - 3 : SubSeq(s, 4, l)[i] = s[i + 3]
    BY <1>1, <1>5, SubSequence
  <2>4. /\ SubSeq(SubSeq(s, 4, l), 1, k - 3) \in Sequence
        /\ Len(SubSeq(SubSeq(s, 4, l), 1, k - 3)) = k - 3
        /\ \A i \in 1..k - 3 : SubSeq(SubSeq(s, 4, l), 1, k - 3)[i] = SubSeq(s, 4, l)[i]
    <3>1. k - 3 \in 0..Len(SubSeq(s, 4, l))
      BY <1>5, <2>1, <2>3
    <3> HIDE DEF k
    <3> QED
      BY <2>3, <3>1, Beginning
  <2>5. \A i \in 1..k - 3 : SubSeq(t, 4, k)[i] = SubSeq(SubSeq(s, 4, l), 1, k - 3)[i]
    BY <1>1, <1>2, <1>5, <2>1, <2>2, <2>3, <2>4
  <2> QED
    BY <2>2, <2>4, <2>5, SeqEqual DEF Sequence
<1> QED
  BY <1>3, <1>7, <1>8, <1>9

-----------------------------------------------------------------------------
(* SetPath.                                                                *)

LEMMA PartOfBeginning ==
    ASSUME NEW s \in Sequence, NEW n \in 0..Len(s), NEW m \in Nat \ {0}, NEW k \in 0..n
    PROVE  SubSeq(SubSeq(s, 1, n), m, k) = SubSeq(s, m, k)
<1> DEFINE t == SubSeq(s, 1, n)
<1>1. Len(s) \in Nat
  BY LenProperties DEF Sequence
<1>2. t \in Sequence /\ Len(t) = n /\ \A i \in 1..n : t[i] = s[i]
  BY Beginning
<1> HIDE DEF t
<1>3. /\ SubSeq(t, m, k) \in Sequence
      /\ Len(SubSeq(t, m, k)) = IF m <= k THEN k - m + 1 ELSE 0
      /\ \A i \in 1..k - m + 1 : SubSeq(t, m, k)[i] = t[m + i - 1]
  BY <1>1, <1>2, SubSequence
<1>4. k \in 0..Len(s)
  BY <1>1
<1>5. /\ SubSeq(s, m, k) \in Sequence
      /\ Len(SubSeq(s, m, k)) = IF m <= k THEN k - m + 1 ELSE 0
      /\ \A i \in 1..k - m + 1 : SubSeq(s, m, k)[i] = s[m + i - 1]
  BY <1>1, <1>4, SubSequence
<1>6. \A i \in 1..k - m + 1 : t[m + i - 1] = s[m + i - 1]
  BY <1>1, <1>2
<1>7. \A i \in 1..Len(SubSeq(t, m, k)) : SubSeq(t, m, k)[i] = SubSeq(s, m, k)[i]
  BY <1>1, <1>3, <1>5, <1>6
<1>8. SubSeq(t, m, k) = SubSeq(s, m, k)
  BY <1>3, <1>5, <1>7, SeqEqual DEF Sequence
<1> QED
  BY <1>8 DEF t

LEMMA EndOfPath ==
    ASSUME NEW s \in Sequence, NEW l \in 3..Len(s), NEW n \in 0..l - 3
    PROVE  SubSeq(SubSeq(s, 4, l), n + 1, l - 3) = SubSeq(s, n + 4, l)
<1> DEFINE p == SubSeq(s, 4, l)
           q == SubSeq(p, n + 1, l - 3)
           r == SubSeq(s, n + 4, l)
<1>1. Len(s) \in Nat /\ l \in 0..Len(s) /\ n + 1 \in Nat \ {0} /\ n + 4 \in Nat \ {0}
  BY LenProperties DEF Sequence
<1>2. p \in Sequence /\ Len(p) = l - 3 /\ \A i \in 1..l - 3 : p[i] = s[i + 3]
  BY <1>1, SubSequence
<1>3. l - 3 \in 0..Len(p)
  BY <1>1, <1>2
<1> HIDE DEF p
<1>4. /\ q \in Sequence
      /\ Len(q) = l - 3 - n
      /\ \A i \in 1..l - 3 - n : q[i] = p[n + i]
  BY <1>1, <1>2, <1>3, SubSequence
<1>5. /\ r \in Sequence
      /\ Len(r) = l - 3 - n
      /\ \A i \in 1..l - 3 - n : r[i] = s[n + i + 3]
  BY <1>1, SubSequence
<1>6. \A i \in 1..l - 3 - n : p[n + i] = s[n + i + 3]
  BY <1>1, <1>2
<1> HIDE DEF q, r
<1>7. \A i \in 1..Len(q) : q[i] = r[i]
  BY <1>4, <1>5, <1>6
<1>8. q = r
  BY <1>4, <1>5, <1>7, SeqEqual DEF Sequence
<1> QED
  BY <1>8 DEF p, q, r

(* A path that is not changed leaves what was read as it was.              *)
LEMMA SetSamePath ==
    ASSUME NEW s \in Sequence, SniffHttp(s)
    PROVE  SetPath(s, Part(s)) = s
<1> DEFINE l == PartLast(s)
<1>1. Len(s) \in Nat /\ l \in 3..Len(s)
  BY PathEnds, LenProperties DEF IsPathEnd, Sequence
<1>2. SetPath(s, Part(s)) = (SubSeq(s, 1, 3) \o SubSeq(s, 4, l)) \o SubSeq(s, l + 1, Len(s))
  <2>1. PartFirst(s) = 4 /\ PartFirst(s) - 1 = 3
    BY PathBegins
  <2>2. Part(s) = SubSeq(s, 4, l)
    BY <2>1 DEF Part
  <2>3. SetPath(s, Part(s)) = (SubSeq(s, 1, PartFirst(s) - 1) \o Part(s)) \o SubSeq(s, l + 1, Len(s))
    BY Zenon DEF SetPath
  <2> QED
    BY <2>1, <2>2, <2>3, Zenon
<1> HIDE DEF l
<1>3. SubSeq(s, 1, 3) \o SubSeq(s, 3 + 1, l) = SubSeq(s, 1, l)
  BY <1>1, ConcatAdjacentSubSeq DEF Sequence
<1>4. SubSeq(s, 1, l) \o SubSeq(s, l + 1, Len(s)) = SubSeq(s, 1, Len(s))
  <2>1. 1 \in 1..Len(s) + 1 /\ l \in 1 - 1..Len(s) /\ Len(s) \in l..Len(s)
    BY <1>1
  <2> QED
    BY <2>1, ConcatAdjacentSubSeq DEF Sequence
<1>5. SubSeq(s, 1, Len(s)) = s
  BY SubSeqFull DEF Sequence
<1>6. 3 + 1 = 4
  OBVIOUS
<1> QED
  BY <1>2, <1>3, <1>4, <1>5, <1>6, Zenon

(* A path without its first tokens leaves the rest.                        *)
LEMMA SetTrimmedPath ==
    ASSUME NEW s \in Sequence, SniffHttp(s), NEW t \in Sequence, StartsWith(Part(s), t)
    PROVE  /\ SetPath(s, TrimPrefix(Part(s), t))
                = SubSeq(s, 1, 3) \o SubSeq(s, Len(t) + 4, Len(s))
           /\ Len(t) + 3 <= Len(s)
<1> DEFINE l == PartLast(s)
           n == Len(t)
<1>1. Len(s) \in Nat /\ l \in 3..Len(s) /\ n \in Nat
  BY PathEnds, LenProperties DEF IsPathEnd, Sequence
<1>2. PartFirst(s) = 4 /\ Part(s) = SubSeq(s, 4, l)
  BY PathBegins DEF Part
<1> HIDE DEF l
<1>3. Part(s) \in Sequence /\ Len(Part(s)) = l - 3
  BY <1>1, <1>2, SubSequence
<1>4. n \in 0..l - 3
  BY <1>1, <1>3 DEF StartsWith
<1>5. TrimPrefix(Part(s), t) = SubSeq(s, n + 4, l)
  BY <1>1, <1>2, <1>3, <1>4, EndOfPath DEF TrimPrefix
<1>6. SetPath(s, TrimPrefix(Part(s), t))
        = (SubSeq(s, 1, 3) \o SubSeq(s, n + 4, l)) \o SubSeq(s, l + 1, Len(s))
  <2>1. PartFirst(s) - 1 = 3
    BY <1>2
  <2>2. SetPath(s, TrimPrefix(Part(s), t))
          = (SubSeq(s, 1, PartFirst(s) - 1) \o TrimPrefix(Part(s), t)) \o SubSeq(s, l + 1, Len(s))
    BY Zenon DEF SetPath, l
  <2> QED
    BY <1>5, <2>1, <2>2, Zenon
<1> HIDE DEF n
<1> DEFINE m == n + 4
<1>7. m \in 1..Len(s) + 1 /\ l \in m - 1..Len(s) /\ Len(s) \in l..Len(s)
  BY <1>1, <1>4
<1> HIDE DEF m
<1>8. SubSeq(s, m, l) \o SubSeq(s, l + 1, Len(s)) = SubSeq(s, m, Len(s))
  BY <1>7, ConcatAdjacentSubSeq DEF Sequence
<1> DEFINE x == SubSeq(s, 1, 3)
           y == SubSeq(s, m, l)
           z == SubSeq(s, l + 1, Len(s))
<1>9. x \in Seq(Token) /\ y \in Seq(Token) /\ z \in Seq(Token)
  BY <1>1, <1>7, SubSequence DEF Sequence
<1>10. (x \o y) \o z = x \o (y \o z)
  <2> HIDE DEF x, y, z
  <2> QED
    BY <1>9, ConcatAssociative
<1>11. SetPath(s, TrimPrefix(Part(s), t)) = SubSeq(s, 1, 3) \o SubSeq(s, m, Len(s))
  BY <1>6, <1>8, <1>10, Zenon DEF m
<1> QED
  BY <1>1, <1>4, <1>11 DEF m, n

-----------------------------------------------------------------------------
(* The invariant.                                                          *)

LEMMA StreamIsSequence == \A x \in Streams : x \in Sequence
<1> SUFFICES ASSUME NEW x \in Streams PROVE x \in Seq(Token)
  BY DEF Sequence
<1>1. x \in Seq(STRING)
  BY StreamsAssumption
<1>2. STRING \subseteq Token
  BY DEF Token
<1> QED
  BY <1>1, <1>2, SeqMonotonic

LEMMA RulesAreSequences ==
    ASSUME NEW h \in VHosts, NEW i \in DOMAIN h.rules
    PROVE  h.rules[i].path \in Sequence /\ h.rules[i].trim \in Sequence
<1>1. h.rules \in Seq([path : Seq(STRING), trim : Seq(STRING)])
  BY VHostsAssumption DEF VHost
<1>2. i \in 1..Len(h.rules)
  BY <1>1, LenProperties
<1>3. h.rules[i] \in [path : Seq(STRING), trim : Seq(STRING)]
  BY <1>1, <1>2, ElementOfSeq
<1>4. STRING \subseteq Token
  BY DEF Token
<1>5. h.rules[i].path \in Seq(STRING) /\ h.rules[i].trim \in Seq(STRING)
  BY <1>3
<1> QED
  BY <1>4, <1>5, SeqMonotonic DEF Sequence

LEMMA RulesAreNumbered ==
    ASSUME NEW h \in VHosts
    PROVE  DOMAIN h.rules \subseteq Nat \ {0}
<1>1. h.rules \in Seq([path : Seq(STRING), trim : Seq(STRING)])
  BY VHostsAssumption DEF VHost
<1> QED
  BY <1>1, LenProperties

Bounds ==
    /\ vh \in VHosts
    /\ stream \in Streams
    /\ arrived \in 0..Len(stream)
    /\ taken \in 0..arrived

Seen == SubSeq(stream, 1, taken)

(* Before the sniffer, and without it, nothing is known of the stream.     *)
Unread ==
    at \in {"hello", "handshake", "sniff", "raw", "closed"} =>
        preData = <<>> /\ class = "unknown" /\ taken = 0

Sniffed ==
    at = "route" =>
        /\ preData = Seen
        /\ class = TypeOf(Seen)
        /\ class = "http" => path = Part(Seen)

(* The rule is the first that matches what the sniffer got of the path.    *)
FirstOfSeen ==
    at = "serve" /\ class = "http" =>
        /\ SniffHttp(Seen)
        /\ \A i \in DOMAIN vh.rules :
               StartsWith(Part(Seen), vh.rules[i].path) => rule \in 1..i

(* What the handler is to read, or has: the prefix is trimmed or not, and  *)
(* is when the rule matches with it.                                       *)
Replays(x) ==
    LET r == vh.rules[rule]
    IN  \/ x = Seen /\ ~StartsWith(r.path, r.trim)
        \/ /\ Len(r.trim) + 3 <= taken
           /\ x = SubSeq(stream, 1, 3) \o SubSeq(stream, Len(r.trim) + 4, taken)
           /\ SniffHttp(stream)
           /\ StartsWith(Part(stream), r.trim)

Replayed(x) ==
    IF handler = "rule"
    THEN class = "http" => rule \in DOMAIN vh.rules /\ Replays(x)
    ELSE x = Seen

Served ==
    /\ at = "serve" => Replayed(preData)
    /\ at = "reading" => Replayed(got)

IInv == Bounds /\ Unread /\ TypeIsRight /\ Sniffed /\ FirstOfSeen /\ Served

LEMMA EmptyIsUnknown == \A s \in Sequence : Len(s) = 0 => TypeOf(s) = "unknown"
<1> SUFFICES ASSUME NEW s \in Sequence, Len(s) = 0 PROVE TypeOf(s) = "unknown"
  OBVIOUS
<1>1. ~SniffHttp(s) /\ ~SniffHttp2(s) /\ ~SniffTrojan(s)
  BY Heads DEF SniffHttp, SniffHttp2, SniffTrojan, StartsWith
<1> QED
  BY <1>1 DEF TypeOf

LEMMA SeenIsSequence ==
    Bounds => /\ stream \in Sequence
              /\ Len(stream) \in Nat
              /\ taken \in 0..Len(stream)
              /\ Seen \in Sequence
              /\ Len(Seen) = taken
<1> SUFFICES ASSUME Bounds
             PROVE  /\ stream \in Sequence
                    /\ Len(stream) \in Nat
                    /\ taken \in 0..Len(stream)
                    /\ Seen \in Sequence
                    /\ Len(Seen) = taken
  OBVIOUS
<1>1. stream \in Sequence /\ Len(stream) \in Nat
  BY StreamIsSequence, LenProperties DEF Bounds, Sequence
<1>2. taken \in 0..Len(stream)
  BY <1>1 DEF Bounds
<1> QED
  BY <1>1, <1>2, Beginning DEF Seen

LEMMA InitIInv == Init => IInv
<1> SUFFICES ASSUME Init PROVE IInv
  OBVIOUS
<1>1. stream \in Sequence /\ Len(stream) \in Nat
  BY StreamIsSequence, LenProperties DEF Init, Sequence
<1>2. Bounds
  BY <1>1 DEF Init, Bounds
<1>3. Unread /\ TypeIsRight /\ Sniffed /\ FirstOfSeen /\ Served
  BY DEF Init, Unread, TypeIsRight, Sniffed, FirstOfSeen, Served
<1> QED
  BY <1>2, <1>3 DEF IInv

(* Before the sniffer has read anything.                                   *)
LEMMA HelloIInv ==
    ASSUME IInv,
           \/ NoServerName \/ UnknownServerName \/ NotOffloaded \/ Offload
           \/ HandshakeFails \/ NegotiatedHttp2 \/ HandshakeDone
    PROVE  IInv'
<1>1. /\ UNCHANGED <<vh, stream, arrived, taken, preData, class, path, rule, got>>
      /\ at \in {"hello", "handshake"}
      /\ at' \in {"raw", "handshake", "closed", "sniff"} \/ (at' = "serve" /\ handler' = "http2")
  BY DEF NoServerName, UnknownServerName, NotOffloaded, Raw, Offload, HandshakeFails,
         NegotiatedHttp2, HandshakeDone, Goto, request, sniff, choice
<1>2. preData = <<>> /\ class = "unknown" /\ taken = 0
  BY <1>1 DEF IInv, Unread
<1>3. Bounds' /\ Unread' /\ TypeIsRight' /\ Sniffed' /\ FirstOfSeen'
  BY <1>1, <1>2 DEF IInv, Bounds, Unread, TypeIsRight, Sniffed, FirstOfSeen
<1>4. Seen' = <<>>
  BY <1>1, <1>2, SubSeqEmpty DEF Seen
<1>5. Served'
  BY <1>1, <1>2, <1>4 DEF Served, Replayed
<1> QED
  BY <1>3, <1>5 DEF IInv

LEMMA PeekIInv ==
    ASSUME IInv, Peek
    PROVE  IInv'
<1>1. at' = "route" /\ UNCHANGED <<vh, stream, arrived>>
  BY DEF Peek, Goto, request
<1>2. /\ stream \in Sequence /\ Len(stream) \in Nat /\ arrived \in 0..Len(stream)
      /\ PeekMax \in Nat
  BY SeenIsSequence, PeekAssumption DEF IInv, Bounds
<1>3. taken' \in 1..arrived
  BY <1>2 DEF Peek
<1>4. Bounds'
  BY <1>1, <1>2, <1>3 DEF IInv, Bounds
<1>5. preData' = Seen' /\ class' = TypeOf(Seen')
  BY <1>1 DEF Peek, Seen
<1>6. taken' \in 0..Len(stream) /\ Seen' = SubSeq(stream, 1, taken')
  BY <1>1, <1>2, <1>3 DEF Seen
<1>7. TypeIsRight'
  BY <1>1, <1>2, <1>5, <1>6, TypeOfPrefix DEF TypeIsRight
<1>8. Seen' \in Sequence
  BY <1>2, <1>6, Beginning
<1>9. class' = "http" => path' = Part(Seen')
  BY <1>5, <1>8, TypeOfCases DEF Peek
<1> QED
  BY <1>1, <1>4, <1>5, <1>7, <1>9 DEF IInv, Unread, Sniffed, FirstOfSeen, Served

LEMMA PeekFailsIInv ==
    ASSUME IInv, PeekFails
    PROVE  IInv'
<1>1. at = "sniff" /\ at' = "route" /\ UNCHANGED <<vh, stream, arrived, taken, preData, class, path>>
  BY DEF PeekFails, Goto, request, sniff
<1>2. preData = <<>> /\ class = "unknown" /\ taken = 0
  BY <1>1 DEF IInv, Unread
<1>3. Bounds' /\ TypeIsRight'
  BY <1>1 DEF IInv, Bounds, TypeIsRight
<1>4. Seen' = <<>> /\ Seen' \in Sequence
  BY <1>1, <1>2, SubSeqEmpty, EmptySeq DEF Seen, Sequence
<1>5. TypeOf(Seen') = "unknown"
  BY <1>4, EmptyIsUnknown, EmptySeq
<1> QED
  BY <1>1, <1>2, <1>3, <1>4, <1>5 DEF IInv, Unread, Sniffed, FirstOfSeen, Served

(* Every way on from the sniffer but that of a rule.                       *)
LEMMA HandlerIInv ==
    ASSUME IInv, RouteHttp \/ RouteHttp2 \/ RouteTrojan \/ RouteDefault
    PROVE  IInv'
<1>1. /\ at = "route" /\ at' = "serve"
      /\ handler' \in {"http", "http2", "trojan", "default"}
      /\ UNCHANGED <<vh, stream, arrived, taken, preData, class, path>>
      /\ class = "http" => Matching = {}
  BY DEF RouteHttp, RouteHttp2, RouteTrojan, RouteDefault, Chosen, Goto, request, sniff, ForHttp
<1>2. Bounds' /\ TypeIsRight' /\ Unread' /\ Sniffed'
  BY <1>1 DEF IInv, Bounds, TypeIsRight, Unread, Sniffed
<1>3. Seen' = Seen
  BY <1>1 DEF Seen
<1>4. preData = Seen /\ class = TypeOf(Seen) /\ (class = "http" => path = Part(Seen))
  BY <1>1 DEF IInv, Sniffed
<1>5. Served'
  BY <1>1, <1>3, <1>4 DEF Served, Replayed
<1>6. Seen \in Sequence
  BY SeenIsSequence DEF IInv
<1>7. FirstOfSeen'
  BY <1>1, <1>3, <1>4, <1>6, TypeOfCases DEF FirstOfSeen, Matching
<1> QED
  BY <1>2, <1>5, <1>7 DEF IInv

LEMMA StartsWithBoth ==
    ASSUME NEW s \in Sequence, NEW p \in Sequence, NEW t \in Sequence,
           StartsWith(s, p), StartsWith(p, t)
    PROVE  StartsWith(s, t)
<1>1. Len(s) \in Nat /\ Len(p) \in Nat /\ Len(t) \in Nat
  BY LenProperties DEF Sequence
<1>2. Len(p) <= Len(s) /\ \A i \in 1..Len(p) : s[i] = p[i]
  BY StartsWithElements
<1>3. Len(t) <= Len(p) /\ \A i \in 1..Len(t) : p[i] = t[i]
  BY StartsWithElements
<1>4. Len(t) <= Len(s) /\ \A i \in 1..Len(t) : s[i] = t[i]
  BY <1>1, <1>2, <1>3
<1> QED
  BY <1>4, StartsWithElements

LEMMA PathIsSequence ==
    ASSUME NEW s \in Sequence, SniffHttp(s)
    PROVE  Part(s) \in Sequence /\ Len(Part(s)) = PartLast(s) - 3
<1>1. Len(s) \in Nat /\ PartLast(s) \in 3..Len(s)
  BY PathEnds, LenProperties DEF IsPathEnd, Sequence
<1>2. Part(s) = SubSeq(s, 4, PartLast(s))
  BY PathBegins DEF Part
<1>3. PartLast(s) \in 0..Len(s)
  BY <1>1
<1> QED
  BY <1>1, <1>2, <1>3, SubSequence

(* What a part of the path starts with, the path starts with.              *)
LEMMA SeenPathStarts ==
    ASSUME Bounds, SniffHttp(Seen), NEW t \in Sequence, StartsWith(Part(Seen), t)
    PROVE  StartsWith(Part(stream), t) /\ SniffHttp(stream)
<1>1. stream \in Sequence /\ taken \in 0..Len(stream) /\ Len(stream) \in Nat
  BY SeenIsSequence
<1>2. /\ SniffHttp(stream)
      /\ PartLast(Seen) = IF taken < PartLast(stream) THEN taken ELSE PartLast(stream)
      /\ Part(Seen) = SubSeq(Part(stream), 1, PartLast(Seen) - 3)
  BY <1>1, PathOfPrefix DEF Seen
<1>3. PartLast(stream) \in 3..Len(stream) /\ PartLast(Seen) \in 3..taken
  BY <1>1, <1>2, SeenIsSequence, PathEnds DEF IsPathEnd
<1>4. Part(stream) \in Sequence /\ Len(Part(stream)) = PartLast(stream) - 3
  BY <1>1, <1>2, PathIsSequence
<1>5. PartLast(Seen) - 3 \in 0..Len(Part(stream))
  BY <1>1, <1>2, <1>3, <1>4
<1>6. StartsWith(Part(stream), t)
  BY <1>2, <1>4, <1>5, StartsWithPrefix
<1> QED
  BY <1>2, <1>6

LEMMA RuleIInv ==
    ASSUME IInv, RouteRule
    PROVE  IInv'
<1>1. PICK i \in Matching :
        /\ \A j \in Matching : i <= j
        /\ Chosen("rule", i)
        /\ path' = TrimPrefix(path, vh.rules[i].trim)
        /\ preData' = SetPath(preData, path')
  BY DEF RouteRule
<1>2. /\ at = "route" /\ at' = "serve" /\ handler' = "rule" /\ rule' = i
      /\ UNCHANGED <<vh, stream, arrived, taken, class>>
  BY <1>1 DEF RouteRule, Chosen, Goto, request
<1>3. Bounds' /\ TypeIsRight' /\ Unread' /\ Sniffed'
  BY <1>2 DEF IInv, Bounds, TypeIsRight, Unread, Sniffed
<1>4. Seen' = Seen
  BY <1>2 DEF Seen
<1>5. Bounds /\ preData = Seen /\ class = TypeOf(Seen) /\ (class = "http" => path = Part(Seen))
  BY <1>2 DEF IInv, Sniffed
<1>6. Seen \in Sequence /\ Len(Seen) = taken /\ stream \in Sequence /\ taken \in 0..Len(stream)
  BY <1>5, SeenIsSequence
<1>7. i \in DOMAIN vh.rules /\ StartsWith(path, vh.rules[i].path)
  BY DEF Matching
<1>8. vh \in VHosts
  BY <1>5 DEF Bounds
<1>9. CASE class # "http"
  BY <1>2, <1>3, <1>9 DEF IInv, FirstOfSeen, Served, Replayed
<1>10. CASE class = "http"
  <2> DEFINE t == vh.rules[i].trim
             p == vh.rules[i].path
  <2>1. SniffHttp(Seen) /\ path = Part(Seen)
    BY <1>5, <1>6, <1>10, TypeOfCases
  <2>2. FirstOfSeen'
    <3>1. ASSUME NEW j \in DOMAIN vh.rules, StartsWith(Part(Seen), vh.rules[j].path)
          PROVE  i \in 1..j
      <4>1. j \in Matching
        BY <2>1, <3>1 DEF Matching
      <4>2. i \in Nat \ {0} /\ j \in Nat
        BY <1>7, <1>8, RulesAreNumbered
      <4> QED
        BY <1>1, <4>1, <4>2
    <3> QED
      BY <1>2, <1>4, <2>1, <3>1 DEF FirstOfSeen
  <2>3. t \in Sequence /\ p \in Sequence
    BY <1>7, <1>8, RulesAreSequences
  <2>4. preData' = SetPath(Seen, TrimPrefix(Part(Seen), t))
    BY <1>1, <1>5, <2>1
  <2>5. CASE StartsWith(Part(Seen), t)
    <3> HIDE DEF t
    <3>1. /\ preData' = SubSeq(Seen, 1, 3) \o SubSeq(Seen, Len(t) + 4, taken)
          /\ Len(t) + 3 <= taken
      BY <1>6, <2>1, <2>3, <2>4, <2>5, SetTrimmedPath
    <3>2. Len(t) \in Nat /\ Len(stream) \in Nat
      BY <1>6, <2>3, LenProperties DEF Sequence
    <3>3. SubSeq(Seen, 1, 3) = SubSeq(stream, 1, 3)
      <4>1. 1 \in Nat \ {0} /\ 3 \in 0..taken
        BY <1>6, <3>1, <3>2
      <4> QED
        BY <1>6, <4>1, PartOfBeginning DEF Seen
    <3>4. SubSeq(Seen, Len(t) + 4, taken) = SubSeq(stream, Len(t) + 4, taken)
      <4>1. Len(t) + 4 \in Nat \ {0} /\ taken \in 0..taken
        BY <1>6, <3>1, <3>2
      <4> QED
        BY <1>6, <4>1, PartOfBeginning DEF Seen
    <3>5. StartsWith(Part(stream), t) /\ SniffHttp(stream)
      BY <1>5, <2>1, <2>3, <2>5, SeenPathStarts
    <3>6. preData' = SubSeq(stream, 1, 3) \o SubSeq(stream, Len(t) + 4, taken)
      BY <3>1, <3>3, <3>4
    <3>7. Replays(preData)'
      BY <1>2, <3>1, <3>5, <3>6 DEF Replays, t
    <3>8. Served'
      BY <1>2, <1>7, <3>7 DEF Served, Replayed
    <3> QED
      BY <1>3, <2>2, <3>8 DEF IInv
  <2>6. CASE ~StartsWith(Part(Seen), t)
    <3>1. preData' = Seen
      BY <1>6, <2>1, <2>4, <2>6, SetSamePath DEF TrimPrefix
    <3>2. ~StartsWith(p, t)
      BY <1>6, <1>7, <2>1, <2>3, <2>6, StartsWithBoth, PathIsSequence
    <3>3. Replays(preData)'
      BY <1>2, <1>4, <3>1, <3>2 DEF Replays
    <3>4. Served'
      BY <1>2, <1>7, <3>3 DEF Served, Replayed
    <3> QED
      BY <1>3, <2>2, <3>4 DEF IInv
  <2> QED
    BY <2>5, <2>6
<1> QED
  BY <1>9, <1>10

LEMMA FirstReadIInv ==
    ASSUME IInv, FirstRead
    PROVE  IInv'
<1>1. /\ at = "serve" /\ at' = "reading" /\ got' = preData
      /\ UNCHANGED <<vh, stream, arrived, taken, preData, class, path, handler, rule>>
  BY DEF FirstRead, Goto, request, sniff, choice
<1>2. Bounds' /\ TypeIsRight' /\ Unread' /\ Sniffed' /\ FirstOfSeen'
  BY <1>1 DEF IInv, Bounds, TypeIsRight, Unread, Sniffed, FirstOfSeen
<1>3. Replayed(preData)
  BY <1>1 DEF IInv, Served
<1>4. Replayed(got)'
  BY <1>1, <1>3 DEF Replayed, Replays, Seen
<1> QED
  BY <1>1, <1>2, <1>4 DEF IInv, Served

(* What was read and what is read now are next to each other.              *)
LEMMA ReadConnIInv ==
    ASSUME IInv, ReadConn
    PROVE  IInv'
<1> DEFINE next == SubSeq(stream, taken + 1, arrived)
<1>1. /\ at = "reading" /\ at' = "reading" /\ got' = got \o next
      /\ taken < arrived /\ taken' = arrived
      /\ UNCHANGED <<vh, stream, arrived, preData, class, path, handler, rule>>
  BY DEF ReadConn, request, sniff, choice
<1>2. Bounds
  BY DEF IInv
<1>3. /\ stream \in Sequence /\ Len(stream) \in Nat
      /\ taken \in 0..Len(stream) /\ arrived \in taken..Len(stream)
  BY <1>1, <1>2, SeenIsSequence DEF Bounds
<1>4. Bounds' /\ TypeIsRight' /\ Unread' /\ Sniffed' /\ FirstOfSeen'
  BY <1>1, <1>3 DEF IInv, Bounds, TypeIsRight, Unread, Sniffed, FirstOfSeen
<1>5. ASSUME NEW m \in 1..taken + 1
      PROVE  SubSeq(stream, m, taken) \o next = SubSeq(stream, m, arrived)
  <2>1. m \in 1..Len(stream) + 1 /\ taken \in m - 1..Len(stream) /\ arrived \in taken..Len(stream)
    BY <1>3, <1>5
  <2> QED
    BY <1>3, <2>1, ConcatAdjacentSubSeq DEF Sequence
<1>6. Seen' = Seen \o next
  BY <1>1, <1>3, <1>5 DEF Seen
<1>7. Replayed(got)
  BY <1>1 DEF IInv, Served
<1>8. CASE handler # "rule"
  <2>1. got' = Seen'
    BY <1>1, <1>6, <1>7, <1>8 DEF Replayed
  <2> QED
    BY <1>1, <1>4, <1>8, <2>1 DEF IInv, Served, Replayed
<1>9. CASE handler = "rule" /\ class # "http"
  BY <1>1, <1>4, <1>9 DEF IInv, Served, Replayed
<1>10. CASE handler = "rule" /\ class = "http"
  <2> DEFINE t == vh.rules[rule].trim
             p == vh.rules[rule].path
  <2>1. rule \in DOMAIN vh.rules /\ Replays(got)
    BY <1>7, <1>10 DEF Replayed
  <2>2. t \in Sequence /\ Len(t) \in Nat
    BY <1>2, <2>1, RulesAreSequences, LenProperties DEF Bounds, Sequence
  <2>3. Replays(got)'
    <3>1. CASE got = Seen /\ ~StartsWith(p, t)
      BY <1>1, <1>6, <3>1 DEF Replays
    <3>2. CASE /\ Len(t) + 3 <= taken
               /\ got = SubSeq(stream, 1, 3) \o SubSeq(stream, Len(t) + 4, taken)
               /\ SniffHttp(stream)
               /\ StartsWith(Part(stream), t)
      <4> DEFINE m == Len(t) + 4
                 a == SubSeq(stream, 1, 3)
                 b == SubSeq(stream, m, taken)
      <4>1. m \in 1..taken + 1 /\ 3 \in 0..Len(stream)
        BY <1>3, <2>2, <3>2
      <4>2. b \o next = SubSeq(stream, m, arrived)
        BY <1>5, <4>1
      <4>3. a \in Seq(Token) /\ b \in Seq(Token) /\ next \in Seq(Token)
        BY <1>3, <4>1, SubSequence DEF Sequence
      <4>4. (a \o b) \o next = a \o (b \o next)
        <5> HIDE DEF a, b, next
        <5> QED
          BY <4>3, ConcatAssociative
      <4>5. got' = a \o SubSeq(stream, m, arrived)
        BY <1>1, <3>2, <4>2, <4>4, Zenon
      <4>6. Len(t) + 3 <= arrived
        BY <1>3, <2>2, <3>2
      <4> QED
        BY <1>1, <3>2, <4>5, <4>6 DEF Replays
    <3> QED
      BY <2>1, <3>1, <3>2 DEF Replays
  <2>4. Served'
    BY <1>1, <1>10, <2>1, <2>3 DEF Served, Replayed
  <2> QED
    BY <1>4, <2>4 DEF IInv
<1> QED
  BY <1>8, <1>9, <1>10

LEMMA WriteIInv ==
    ASSUME IInv, Write
    PROVE  IInv'
<1>1. /\ UNCHANGED <<vh, stream, at, taken, preData, class, path, handler, rule, got>>
      /\ arrived < Len(stream)
      /\ arrived' \in arrived + 1 .. Len(stream)
  BY DEF Write, request, sniff, choice
<1>2. Bounds'
  BY <1>1, SeenIsSequence DEF IInv, Bounds
<1> QED
  BY <1>1, <1>2 DEF IInv, Unread, TypeIsRight, Sniffed, FirstOfSeen, Served, Replayed, Replays, Seen

LEMMA StepIInv == IInv /\ [Next]_vars => IInv'
<1> SUFFICES ASSUME IInv, [Next]_vars PROVE IInv'
  OBVIOUS
<1>1. CASE UNCHANGED vars
  BY <1>1 DEF vars, IInv, Bounds, Unread, TypeIsRight, Sniffed, FirstOfSeen, Served, Replayed,
              Replays, Seen
<1>2. CASE HandleStep
  BY <1>2, HelloIInv, PeekIInv, PeekFailsIInv, RuleIInv, HandlerIInv, FirstReadIInv, ReadConnIInv
     DEF HandleStep
<1>3. CASE Write
  BY <1>3, WriteIInv
<1> QED
  BY <1>1, <1>2, <1>3 DEF Next

LEMMA AlwaysIInv == Spec => []IInv
BY InitIInv, StepIInv, PTL DEF Spec

-----------------------------------------------------------------------------
(* However long a stream is and however it is cut, the sniffer never takes *)
(* its type for another (sniff_conn.go).                                   *)
THEOREM TypesAreRight == Spec => []TypeIsRight
<1>1. IInv => TypeIsRight
  BY DEF IInv
<1> QED
  BY <1>1, AlwaysIInv, PTL

(* Whatever the rules of a host and the path of a request, the first rule  *)
(* that matches is the one main.go chooses, if the sniffer got the path.   *)
THEOREM FirstMatchesWin == Spec => []FirstMatchWins
<1>1. IInv => FirstMatchWins
  <2> SUFFICES ASSUME IInv, at = "serve", class = "http", taken >= PartLast(stream),
                      NEW i \in DOMAIN vh.rules,
                      StartsWith(Part(stream), vh.rules[i].path)
               PROVE  rule \in 1..i
    BY DEF FirstMatchWins
  <2>1. /\ SniffHttp(Seen)
        /\ StartsWith(Part(Seen), vh.rules[i].path) => rule \in 1..i
    BY DEF IInv, FirstOfSeen
  <2>2. /\ stream \in Sequence /\ taken \in 0..Len(stream) /\ Len(stream) \in Nat
        /\ Seen = SubSeq(stream, 1, taken)
    BY SeenIsSequence DEF IInv, Seen
  <2>3. /\ SniffHttp(stream)
        /\ PartLast(Seen) = IF taken < PartLast(stream) THEN taken ELSE PartLast(stream)
        /\ Part(Seen) = SubSeq(Part(stream), 1, PartLast(Seen) - 3)
    BY <2>1, <2>2, PathOfPrefix
  <2>4. PartLast(stream) \in 3..Len(stream)
    BY <2>2, <2>3, PathEnds DEF IsPathEnd
  <2>5. PartLast(Seen) = PartLast(stream)
    BY <2>2, <2>3, <2>4
  <2>6. Part(stream) \in Sequence /\ Len(Part(stream)) = PartLast(stream) - 3
    BY <2>2, <2>3, PathIsSequence
  <2>7. Part(Seen) = Part(stream)
    <3>1. Part(Seen) = SubSeq(Part(stream), 1, Len(Part(stream)))
      BY <2>3, <2>5, <2>6
    <3> QED
      BY <2>6, <3>1, SubSeqFull DEF Sequence
  <2> QED
    BY <2>1, <2>7
<1> QED
  BY <1>1, AlwaysIInv, PTL

(* However the stream is cut into reads, and whatever is trimmed, the      *)
(* handler reads what the client wrote (sniff_conn.go).                    *)
THEOREM StreamIsRead == Spec => []HandlerReadsStream
<1>1. IInv => HandlerReadsStream
  <2> SUFFICES ASSUME IInv, at = "reading" PROVE HandlerReadsStream
    BY DEF HandlerReadsStream
  <2>1. Replayed(got)
    BY DEF IInv, Served
  <2>2. CASE handler # "rule"
    BY <2>1, <2>2 DEF HandlerReadsStream, Replayed, Seen
  <2>3. CASE handler = "rule" /\ class # "http"
    BY <2>3 DEF HandlerReadsStream
  <2>4. CASE handler = "rule" /\ class = "http"
    <3> DEFINE r == vh.rules[rule]
    <3>1. CASE got = Seen /\ ~StartsWith(r.path, r.trim)
      BY <2>4, <3>1 DEF HandlerReadsStream, Seen
    <3>2. CASE /\ Len(r.trim) + 3 <= taken
               /\ got = SubSeq(stream, 1, 3) \o SubSeq(stream, Len(r.trim) + 4, taken)
               /\ SniffHttp(stream)
               /\ StartsWith(Part(stream), r.trim)
      <4>1. stream \in Sequence
        BY SeenIsSequence DEF IInv
      <4>2. PartFirst(stream) = 4
        BY <3>2, <4>1, PathBegins
      <4>3. r.trim \in Sequence
        BY <2>1, <2>4, RulesAreSequences DEF IInv, Bounds, Replayed
      <4>4. Len(r.trim) \in Nat
        BY <4>3, LenProperties DEF Sequence
      <4>5. PartFirst(stream) - 1 = 3 /\ PartFirst(stream) + Len(r.trim) = Len(r.trim) + 4
        BY <4>2, <4>4
      <4>6. Without(r.trim) = SubSeq(stream, 1, PartFirst(stream) - 1)
                                \o SubSeq(stream, PartFirst(stream) + Len(r.trim), taken)
        BY <3>2, Zenon DEF Without
      <4>7. got = Without(r.trim)
        BY <3>2, <4>5, <4>6, Zenon
      <4> QED
        BY <2>4, <4>7 DEF HandlerReadsStream
    <3>3. Replays(got)
      BY <2>1, <2>4 DEF Replayed
    <3> QED
      BY <3>1, <3>2, <3>3 DEF Replays
  <2> QED
    BY <2>2, <2>3, <2>4
<1> QED
  BY <1>1, AlwaysIInv, PTL
-----------------------------------------------------------------------------
(* The form of the Web UI, served.                                         *)

(* A handler is chosen only if the host has it.                            *)
HostHasHandler ==
    at = "serve" =>
        \/ handler = "default"
        \/ handler = "http" /\ vh.http
        \/ handler = "http2" /\ vh.http2
        \/ handler = "trojan" /\ vh.trojan
        \/ handler = "rule" /\ rule \in DOMAIN vh.rules

LEMMA StepHostHasHandler == HostHasHandler /\ [Next]_vars => HostHasHandler'
<1> SUFFICES ASSUME HostHasHandler, [Next]_vars PROVE HostHasHandler'
  OBVIOUS
<1> USE DEF HostHasHandler, request, sniff, choice, Goto, Chosen
<1>1. CASE NegotiatedHttp2 \/ RouteRule \/ RouteHttp \/ RouteHttp2 \/ RouteTrojan \/ RouteDefault
  BY <1>1 DEF NegotiatedHttp2, RouteRule, RouteHttp, RouteHttp2, RouteTrojan, RouteDefault, Matching
<1>2. CASE \/ NoServerName \/ UnknownServerName \/ NotOffloaded \/ Offload
           \/ HandshakeFails \/ HandshakeDone \/ Peek \/ PeekFails \/ FirstRead
  BY <1>2 DEF Raw, NoServerName, UnknownServerName, NotOffloaded, Offload, HandshakeFails,
              HandshakeDone, Peek, PeekFails, FirstRead
<1>3. CASE ReadConn \/ Write \/ UNCHANGED vars
  BY <1>3 DEF ReadConn, Write, vars
<1> QED
  BY <1>1, <1>2, <1>3 DEF Next, HandleStep

(* A port of the form is one that is given.                                *)
LEMMA FormHandlers ==
    ASSUME NEW form
    PROVE  LET host == FormHost(form)
               here == {Backend("127.0.0.1", p) : p \in PortsOf(form)}
           IN  /\ host.http = Nowhere
               /\ host.http2 # Nowhere => host.http2 \in here
               /\ host.trojan # Nowhere => host.trojan \in here
               /\ form.defaultPort # 0 => host.default \in here
<1>1. /\ FormHost(form).http = Nowhere
      /\ FormHost(form).http2 = HereWhen(form.http2 /\ form.http2Port > 0, form.http2Port)
      /\ FormHost(form).trojan = FormTrojan(form)
      /\ FormHost(form).default = Backend("127.0.0.1", form.defaultPort)
  BY DEF FormHost, PlainHost
<1> QED
  BY <1>1 DEF HereWhen, FormTrojan, PortsOf

LEMMA FormRules ==
    ASSUME NEW form, NEW i \in DOMAIN FormHost(form).rules
    PROVE  FormHost(form).rules[i].to \in
               {Backend("127.0.0.1", p) : p \in PortsOf(form)} \cup {<<form.files>>}
<1> DEFINE a == [path |-> <<"/">>, trim |-> <<>>, to |-> Backend("127.0.0.1", form.httpPort)]
           b == [path |-> <<"/", "static", "/">>, trim |-> <<"/", "static">>, to |-> <<form.files>>]
           x == When(form.http /\ form.httpPort > 0, a)
           y == When(form.http /\ form.files # "", b)
           Right == {r \in {a, b} : r = a => form.httpPort > 0}
<1>1. FormHost(form).rules = x \o y
  BY DEF FormHost, PlainHost
<1>2. b.to = <<form.files>> /\ a.to = Backend("127.0.0.1", form.httpPort)
      /\ a # b
  OBVIOUS
<1> HIDE DEF a, b
<1>3. x \in Seq(Right) /\ y \in Seq(Right)
  <2>1. b \in Right /\ (form.httpPort > 0 => a \in Right)
    BY <1>2
  <2>2. ASSUME NEW c, NEW r, c => r \in Right PROVE When(c, r) \in Seq(Right)
    <3>1. CASE c
      <4>1. r \in Right /\ When(c, r) = <<r>>
        BY <2>2, <3>1 DEF When
      <4> HIDE DEF Right
      <4> QED
        BY <4>1
    <3>2. CASE ~c
      <4>1. When(c, r) = <<>>
        BY <3>2 DEF When
      <4> HIDE DEF Right
      <4> QED
        BY <4>1, EmptySeq
    <3> QED
      BY <3>1, <3>2
  <2>3. form.http /\ form.httpPort > 0 => a \in Right
    BY <2>1, Zenon
  <2>4. form.http /\ form.files # "" => b \in Right
    BY <2>1, Zenon
  <2> HIDE DEF Right
  <2> QED
    BY <2>2, <2>3, <2>4, Zenon
<1> HIDE DEF x, y, Right
<1>4. x \o y \in Seq(Right)
  BY <1>3, ConcatProperties
<1>5. (x \o y)[i] \in Right
  BY <1>1, <1>4, ElementOfSeq, LenProperties
<1>6. form.httpPort > 0 => a.to \in {Backend("127.0.0.1", p) : p \in PortsOf(form)}
  BY <1>2 DEF PortsOf
<1>7. FormHost(form).rules[i] = b \/ (FormHost(form).rules[i] = a /\ form.httpPort > 0)
  BY <1>1, <1>5, Zenon DEF Right
<1> QED
  BY <1>2, <1>6, <1>7

(* Whatever is ticked in the form and whatever is sent, a connection to    *)
(* its host ends up at a port or with the files that it names.             *)
THEOREM FormsAreServed == Spec => []FormIsServed
<1>1. HostHasHandler => FormIsServed
  <2> SUFFICES ASSUME HostHasHandler, at = "serve", NEW f \in FormHosts,
                      vh = Shape(f.host), f.form.defaultPort # 0
               PROVE  Destination(f.host) \in
                        {Backend("127.0.0.1", p) : p \in PortsOf(f.form)} \cup {<<f.form.files>>}
    BY DEF FormIsServed
  <2>1. f.host = FormHost(f.form)
    BY DEF FormHosts
  <2>2. /\ vh.http = (f.host.http # Nowhere)
        /\ vh.http2 = (f.host.http2 # Nowhere)
        /\ vh.trojan = (f.host.trojan # Nowhere)
        /\ DOMAIN vh.rules = DOMAIN f.host.rules
    BY DEF Shape
  <2>3. CASE handler = "default"
    BY <2>1, <2>3, FormHandlers DEF Destination
  <2>4. CASE handler = "http2" /\ vh.http2
    BY <2>1, <2>2, <2>4, FormHandlers DEF Destination
  <2>5. CASE handler = "trojan" /\ vh.trojan
    BY <2>1, <2>2, <2>5, FormHandlers DEF Destination
  <2>6. CASE handler = "rule" /\ rule \in DOMAIN vh.rules
    BY <2>1, <2>2, <2>6, FormRules DEF Destination
  <2>7. ~vh.http
    BY <2>1, <2>2, FormHandlers
  <2> QED
    BY <2>3, <2>4, <2>5, <2>6, <2>7 DEF HostHasHandler
<1>2. Init => HostHasHandler
  BY DEF Init, HostHasHandler
<1> QED
  BY <1>1, <1>2, StepHostHasHandler, PTL DEF Spec
-----------------------------------------------------------------------------
(* What the generator writes, served.                                      *)

(* A virtual host without rules leaves handleHttp one way to go, and one   *)
(* with no handler but the default leaves all of main.go one.              *)
HttpIsServed ==
    at = "serve" /\ vh.http /\ ~vh.http2 /\ DOMAIN vh.rules = {} /\ class \in {"http", "http2"} =>
        handler = "http"

LEMMA StepHttpIsServed == HttpIsServed /\ [Next]_vars => HttpIsServed'
<1> SUFFICES ASSUME HttpIsServed, [Next]_vars PROVE HttpIsServed'
  OBVIOUS
<1> USE DEF HttpIsServed, request, sniff, choice, Goto, Chosen, ForHttp
<1>1. CASE NegotiatedHttp2 \/ RouteRule \/ RouteHttp \/ RouteHttp2 \/ RouteTrojan \/ RouteDefault
  BY <1>1 DEF NegotiatedHttp2, RouteRule, RouteHttp, RouteHttp2, RouteTrojan, RouteDefault, Matching
<1>2. CASE \/ NoServerName \/ UnknownServerName \/ NotOffloaded \/ Offload
           \/ HandshakeFails \/ HandshakeDone \/ Peek \/ PeekFails \/ FirstRead
  BY <1>2 DEF Raw, NoServerName, UnknownServerName, NotOffloaded, Offload, HandshakeFails,
              HandshakeDone, Peek, PeekFails, FirstRead
<1>3. CASE ReadConn \/ Write \/ UNCHANGED vars
  BY <1>3 DEF ReadConn, Write, vars
<1> QED
  BY <1>1, <1>2, <1>3 DEF Next, HandleStep

(* The virtual host of one service, as Routing sees it.                    *)
LEMMA HostOfService ==
    ASSUME NEW service, NEW domain
    PROVE  LET host == HostOf(service, domain)
           IN  /\ host.name = service.subdomain \o domain
               /\ Shape(host).http = (service.type = "http")
               /\ ~Shape(host).http2
               /\ ~Shape(host).trojan
               /\ DOMAIN Shape(host).rules = {}
               /\ service.type = "http" => host.http = BackendOf(service)
               /\ service.type # "http" => host.default = BackendOf(service)
<1> DEFINE host == HostOf(service, domain)
<1>1. BackendOf(service) # Nowhere
  BY DEF BackendOf, Backend, Nowhere
<1>2. /\ host.name = service.subdomain \o domain
      /\ host.http = IF service.type = "http" THEN BackendOf(service) ELSE Nowhere
      /\ host.http2 = Nowhere
      /\ host.trojan = Nowhere
      /\ host.rules = <<>>
      /\ service.type # "http" => host.default = BackendOf(service)
  BY DEF HostOf, PlainHost
<1> HIDE DEF host
<1>3. /\ Shape(host).http = (host.http # Nowhere)
      /\ Shape(host).http2 = (host.http2 # Nowhere)
      /\ Shape(host).trojan = (host.trojan # Nowhere)
      /\ DOMAIN Shape(host).rules = DOMAIN host.rules
  BY DEF Shape
<1>4. DOMAIN host.rules = {}
  BY <1>2
<1>5. Shape(host).http = (service.type = "http")
  BY <1>1, <1>2, <1>3
<1> QED
  BY <1>2, <1>3, <1>4, <1>5 DEF host

(* Of the entries with one name, HostNamed is the last.                    *)
LEMMA LastIsNamed ==
    ASSUME NEW conf, DOMAIN conf.vhosts \subseteq Nat,
           NEW i \in DOMAIN conf.vhosts,
           \A j \in DOMAIN conf.vhosts :
               Lower(conf.vhosts[j].name) = Lower(conf.vhosts[i].name) => j <= i
    PROVE  HostNamed(conf, Lower(conf.vhosts[i].name)) = conf.vhosts[i]
<1> DEFINE of == {k \in DOMAIN conf.vhosts : Lower(conf.vhosts[k].name) = Lower(conf.vhosts[i].name)}
           last == CHOOSE k \in of : \A j \in of : j <= k
<1>1. i \in of /\ \A j \in of : j <= i
  OBVIOUS
<1>2. last \in of /\ \A j \in of : j <= last
  BY <1>1
<1>3. of \subseteq Nat
  OBVIOUS
<1> HIDE DEF of, last
<1>4. last = i
  BY <1>1, <1>2, <1>3
<1> QED
  BY <1>4 DEF HostNamed, last, of

(* The last service of a name is the one that the configuration serves.    *)
LEMMA ServiceIsNamed ==
    ASSUME NEW r, Answer(r).ok, DOMAIN r.services \subseteq Nat,
           NEW i \in Taken(r.services),
           \A j \in Taken(r.services) :
               Lower(r.services[j].subdomain \o r.domain) =
                   Lower(r.services[i].subdomain \o r.domain) => j <= i
    PROVE  HostNamed(Answer(r), Lower(r.services[i].subdomain \o r.domain)) =
               HostOf(r.services[i], r.domain)
<1>1. /\ DOMAIN Answer(r).vhosts = Taken(r.services)
      /\ \A j \in Taken(r.services) : Answer(r).vhosts[j] = HostOf(r.services[j], r.domain)
  BY DEF Answer, GenerateFullConfig, Refused
<1>2. \A j \in Taken(r.services) :
          Answer(r).vhosts[j].name = r.services[j].subdomain \o r.domain
  <2>1. \A service, domain : HostOf(service, domain).name = service.subdomain \o domain
    BY HostOfService
  <2> QED
    BY <1>1, <2>1
<1>3. DOMAIN Answer(r).vhosts \subseteq Nat
  BY <1>1 DEF Taken
<1>4. \A j \in DOMAIN Answer(r).vhosts :
          Lower(Answer(r).vhosts[j].name) = Lower(Answer(r).vhosts[i].name) => j <= i
  BY <1>1, <1>2
<1>5. HostNamed(Answer(r), Lower(Answer(r).vhosts[i].name)) = Answer(r).vhosts[i]
  BY <1>1, <1>3, <1>4, LastIsNamed
<1> QED
  BY <1>1, <1>2, <1>5

(* The handler that Routing chooses for the host of a service is the one   *)
(* the service was given.                                                  *)
LEMMA ServiceIsServed ==
    ASSUME HostHasHandler, HttpIsServed, at = "serve",
           NEW service, NEW domain,
           vh = Shape(HostOf(service, domain)),
           service.type = "http" => class \in {"http", "http2"}
    PROVE  Destination(HostOf(service, domain)) = BackendOf(service)
<1> DEFINE host == HostOf(service, domain)
<1>1. /\ vh.http = (service.type = "http")
      /\ ~vh.http2
      /\ ~vh.trojan
      /\ DOMAIN vh.rules = {}
      /\ service.type = "http" => host.http = BackendOf(service)
      /\ service.type # "http" => host.default = BackendOf(service)
  BY HostOfService
<1> HIDE DEF host
<1>2. CASE service.type = "http"
  <2>1. handler = "http"
    BY <1>1, <1>2 DEF HttpIsServed
  <2> QED
    BY <1>1, <1>2, <2>1 DEF Destination, host
<1>3. CASE service.type # "http"
  <2>1. handler = "default"
    BY <1>1, <1>3 DEF HostHasHandler
  <2> QED
    BY <1>1, <1>3, <2>1 DEF Destination, host
<1> QED
  BY <1>2, <1>3

(* The rules of the wizard become services at their own positions.         *)
LEMMA RulesAreServices ==
    ASSUME NEW w \in Wizards
    PROVE  LET r == RequestOf(w)
           IN  /\ DOMAIN r.services \subseteq Nat
               /\ DOMAIN r.services \subseteq DOMAIN w.rules
               /\ Taken(r.services) = {j \in DOMAIN w.rules : Usable(w.rules[j])}
               /\ r.domain = w.domain
               /\ \A i \in Taken(r.services) :
                     /\ r.services[i].subdomain = w.rules[i].subdomain
                     /\ (r.services[i].type = "http") = (w.rules[i].protocol \in {"http", "https"})
                     /\ BackendOf(r.services[i]) =
                           Backend(w.rules[i].address,
                                   IF PortOf[w.rules[i].port] <= 0 THEN 8080 ELSE PortOf[w.rules[i].port])
<1> DEFINE r == RequestOf(w)
           usable == {j \in DOMAIN w.rules : Usable(w.rules[j])}
<1>1. DOMAIN w.rules \subseteq Nat
  <2>1. PICK T : w.rules \in Seq(T)
    BY WizardsAssumption
  <2> QED
    BY <2>1, LenProperties
<1>2. /\ r.domain = w.domain
      /\ DOMAIN r.services = usable
      /\ \A i \in usable : r.services[i] = ServiceOf(w.rules[i])
  BY DEF RequestOf
<1>3. ASSUME NEW rule_, Usable(rule_)
      PROVE  /\ Known(ServiceOf(rule_))
             /\ ServiceOf(rule_).subdomain = rule_.subdomain
             /\ (ServiceOf(rule_).type = "http") = (rule_.protocol \in {"http", "https"})
             /\ BackendOf(ServiceOf(rule_)) =
                   Backend(rule_.address,
                           IF PortOf[rule_.port] <= 0 THEN 8080 ELSE PortOf[rule_.port])
  <2>1. rule_.protocol \in {"http", "https", "ws", "wss", "tcp"} /\ rule_.address # ""
    BY <1>3 DEF Usable, TypeOfProtocol
  <2>2. /\ rule_.protocol \in {"http", "https"} => TypeOfProtocol[rule_.protocol] = "http"
        /\ rule_.protocol \in {"ws", "wss"} => TypeOfProtocol[rule_.protocol] = "websocket"
        /\ rule_.protocol = "tcp" => TypeOfProtocol[rule_.protocol] = "tcp"
    BY DEF TypeOfProtocol
  <2>3. /\ TypeOfProtocol[rule_.protocol] \in {"http", "websocket", "tcp"}
        /\ (TypeOfProtocol[rule_.protocol] = "http") = (rule_.protocol \in {"http", "https"})
    <3>1. CASE rule_.protocol \in {"http", "https"}
      BY <2>2, <3>1
    <3>2. CASE rule_.protocol \in {"ws", "wss"}
      BY <2>2, <3>2
    <3>3. CASE rule_.protocol = "tcp"
      BY <2>2, <3>3
    <3> QED
      BY <2>1, <3>1, <3>2, <3>3
  <2>4. /\ ServiceOf(rule_).subdomain = rule_.subdomain
        /\ ServiceOf(rule_).type = TypeOfProtocol[rule_.protocol]
        /\ ServiceOf(rule_).address = rule_.address
        /\ ServiceOf(rule_).port = IF PortOf[rule_.port] <= 0 THEN 8080 ELSE PortOf[rule_.port]
    BY DEF ServiceOf
  <2>5. BackendOf(ServiceOf(rule_)) =
          Backend(rule_.address, IF PortOf[rule_.port] <= 0 THEN 8080 ELSE PortOf[rule_.port])
    <3>1. BackendOf(ServiceOf(rule_)) = Backend(ServiceOf(rule_).address, ServiceOf(rule_).port)
      BY <2>1, <2>4 DEF BackendOf
    <3> QED
      BY <2>4, <3>1
  <2> QED
    BY <2>3, <2>4, <2>5 DEF Known
<1>4. Taken(r.services) = usable
  BY <1>2, <1>3 DEF Taken
<1> HIDE DEF r
<1> QED
  BY <1>1, <1>2, <1>3, <1>4 DEF r

(* From the service or the rule that was asked for to the backend, for     *)
(* every request and every way its streams are cut.                        *)
THEOREM GeneratedServicesAreReached == Spec => []GeneratedServiceIsReached
<1>1. HostHasHandler /\ HttpIsServed => GeneratedServiceIsReached
  <2> SUFFICES ASSUME HostHasHandler, HttpIsServed, at = "serve", NEW p \in Promises,
                      vh = Shape(p.host), p.http => class \in {"http", "http2"}
               PROVE  Destination(p.host) = p.to
    BY DEF GeneratedServiceIsReached
  <2>1. CASE \E r \in Requests : Saveable(Answer(r)) /\ p \in ServicesAskFor(r)
    <3>1. PICK r \in Requests : Saveable(Answer(r)) /\ p \in ServicesAskFor(r)
      BY <2>1
    <3> DEFINE names == [i \in Taken(r.services) |-> Lower(r.services[i].subdomain \o r.domain)]
    <3>2. PICK i \in LastOf(names) :
            p = Promised(Answer(r), names[i], r.services[i].type = "http", BackendOf(r.services[i]))
      BY <3>1 DEF ServicesAskFor
    <3>3. i \in Taken(r.services)
          /\ \A j \in Taken(r.services) :
               Lower(r.services[j].subdomain \o r.domain) =
                   Lower(r.services[i].subdomain \o r.domain) => j <= i
      BY <3>2 DEF LastOf
    <3>4. DOMAIN r.services \subseteq Nat
      <4>1. PICK T : r.services \in Seq(T)
        BY RequestsAssumption
      <4> QED
        BY <4>1, LenProperties
    <3>5. p.host = HostOf(r.services[i], r.domain)
      BY <3>1, <3>2, <3>3, <3>4, ServiceIsNamed DEF Promised, Saveable
    <3>6. p.http = (r.services[i].type = "http") /\ p.to = BackendOf(r.services[i])
      BY <3>2 DEF Promised
    <3> QED
      BY <3>5, <3>6, ServiceIsServed
  <2>2. CASE \E w \in Wizards : Saveable(AnswerToWizard(w)) /\ p \in RulesAskFor(w)
    <3>1. PICK w \in Wizards : Saveable(AnswerToWizard(w)) /\ p \in RulesAskFor(w)
      BY <2>2
    <3> DEFINE r == RequestOf(w)
               usable == {j \in DOMAIN w.rules : Usable(w.rules[j])}
               names == [i \in usable |-> Lower(w.rules[i].subdomain \o w.domain)]
               port(i) == IF PortOf[w.rules[i].port] <= 0 THEN 8080 ELSE PortOf[w.rules[i].port]
    <3>2. PICK i \in LastOf(names) :
            p = Promised(AnswerToWizard(w), names[i],
                         w.rules[i].protocol \in {"http", "https"},
                         Backend(w.rules[i].address, port(i)))
      BY <3>1 DEF RulesAskFor
    <3>3. /\ DOMAIN r.services \subseteq Nat
          /\ Taken(r.services) = usable
          /\ r.domain = w.domain
          /\ \A k \in usable :
                /\ r.services[k].subdomain = w.rules[k].subdomain
                /\ (r.services[k].type = "http") = (w.rules[k].protocol \in {"http", "https"})
                /\ BackendOf(r.services[k]) = Backend(w.rules[k].address, port(k))
      BY RulesAreServices
    <3> HIDE DEF r
    <3>4. i \in usable
          /\ \A j \in usable :
               Lower(w.rules[j].subdomain \o w.domain) =
                   Lower(w.rules[i].subdomain \o w.domain) => j <= i
      BY <3>2 DEF LastOf
    <3>5. i \in Taken(r.services)
          /\ \A j \in Taken(r.services) :
               Lower(r.services[j].subdomain \o r.domain) =
                   Lower(r.services[i].subdomain \o r.domain) => j <= i
      BY <3>3, <3>4
    <3>6. Answer(r).ok /\ AnswerToWizard(w) = Answer(r)
      BY <3>1 DEF Saveable, AnswerToWizard, r
    <3>7. HostNamed(Answer(r), Lower(r.services[i].subdomain \o r.domain)) =
            HostOf(r.services[i], r.domain)
      BY <3>3, <3>5, <3>6, ServiceIsNamed
    <3>8. p.host = HostOf(r.services[i], r.domain)
      BY <3>2, <3>3, <3>4, <3>6, <3>7 DEF Promised
    <3>9. p.http = (r.services[i].type = "http") /\ p.to = BackendOf(r.services[i])
      BY <3>2, <3>3, <3>4 DEF Promised
    <3> QED
      BY <3>8, <3>9, ServiceIsServed
  <2>3. \/ \E r \in Requests : Saveable(Answer(r)) /\ p \in ServicesAskFor(r)
        \/ \E w \in Wizards : Saveable(AnswerToWizard(w)) /\ p \in RulesAskFor(w)
    <3> DEFINE A == UNION {ServicesAskFor(r) : r \in {q \in Requests : Saveable(Answer(q))}}
               B == UNION {RulesAskFor(w) : w \in {v \in Wizards : Saveable(AnswerToWizard(v))}}
    <3>1. p \in A => \E r \in Requests : Saveable(Answer(r)) /\ p \in ServicesAskFor(r)
      OBVIOUS
    <3>2. p \in B => \E w \in Wizards : Saveable(AnswerToWizard(w)) /\ p \in RulesAskFor(w)
      OBVIOUS
    <3>3. Promises = A \cup B
      BY DEF Promises
    <3> HIDE DEF A, B
    <3>4. p \in A \/ p \in B
      BY <3>3
    <3> QED
      BY <3>1, <3>2, <3>4, Zenon
  <2> QED
    BY <2>1, <2>2, <2>3
<1>2. Init => HostHasHandler /\ HttpIsServed
  BY DEF Init, HostHasHandler, HttpIsServed
<1> QED
  BY <1>1, <1>2, StepHostHasHandler, StepHttpIsServed, PTL DEF Spec

(* A name in front of a domain is matched by the wildcard of the domain.   *)
LEMMA WildcardMatches ==
    ASSUME NEW label, NEW domain \in Seq(Labels), label \in Seq(Labels),
           Len(label \o domain) = Len(domain) + 1
    PROVE  LET w == <<"*">> \o domain
           IN  MatchWildcard(w, label \o domain) /\ Len(label \o domain) = Len(w)
<1> DEFINE T == Labels \cup {"*"}
           n == label \o domain
           w == <<"*">> \o domain
<1>1. /\ domain \in Seq(T) /\ label \in Seq(T) /\ <<"*">> \in Seq(T)
      /\ Len(domain) \in Nat /\ Len(label) \in Nat
      /\ Len(<<"*">>) = 1 /\ <<"*">>[1] = "*"
  BY LenProperties, SeqMonotonic
<1> HIDE DEF T
<1>2. /\ n \in Seq(T) /\ Len(n) = Len(label) + Len(domain)
      /\ w \in Seq(T) /\ Len(w) = 1 + Len(domain)
      /\ \A i \in 1..Len(domain) : n[i + Len(label)] = domain[i] /\ w[i + 1] = domain[i]
      /\ w[1] = "*"
  BY <1>1, ConcatProperties
<1>3. Len(label) = 1
  BY <1>1, <1>2
<1> HIDE DEF n, w
<1>4. Tail(w) \in Seq(T) /\ Len(Tail(w)) = Len(domain) /\ \A i \in 1..Len(domain) : Tail(w)[i] = domain[i]
  BY <1>1, <1>2, HeadTailProperties, EmptySeq
<1>5. Tail(w) = domain
  BY <1>1, <1>4, SeqEqual
<1>6. Head(w) = "*"
  BY <1>1, <1>2, HeadTailProperties, EmptySeq
<1>7. Len(n) - Len(domain) + 1 = 2 /\ Len(n) > Len(domain)
  BY <1>1, <1>2, <1>3
<1>8. SubSeq(n, 2, Len(n)) = domain
  <2>1. \A i \in 2..Len(n) : n[i] \in T
    BY <1>2, ElementOfSeq, LenProperties
  <2>2. /\ SubSeq(n, 2, Len(n)) \in Seq(T)
        /\ Len(SubSeq(n, 2, Len(n))) = Len(domain)
        /\ \A i \in 1..Len(domain) : SubSeq(n, 2, Len(n))[i] = n[i + 1]
    BY <1>1, <1>2, <1>3, <2>1, SubSeqProperties
  <2>3. \A i \in 1..Len(domain) : SubSeq(n, 2, Len(n))[i] = domain[i]
    BY <1>2, <1>3, <2>2
  <2> QED
    BY <1>1, <2>2, <2>3, SeqEqual
<1>9. MatchWildcard(w, n)
  BY <1>5, <1>6, <1>7, <1>8 DEF MatchWildcard
<1> QED
  BY <1>2, <1>3, <1>9 DEF n, w

(* A generated host that config.go leaves to the wildcard is served by it. *)
THEOREM WildcardsServe == Spec => []WildcardServesGenerated
<1>1. WildcardServesGenerated
  <2> SUFFICES ASSUME NEW a \in Answers, Saveable(a.conf), NEW n \in Hosts(a.conf),
                      HostNamed(a.conf, n).name = n, Len(n) = Len(a.domain) + 1
               PROVE  /\ ReliesOnWildcard(a.conf, HostNamed(a.conf, n))
                      /\ WildcardAnswers(a.conf, n)
    BY DEF WildcardServesGenerated
  <2>1. PICK r \in Requests \cup {RequestOf(w) : w \in Wizards} :
          a.domain = r.domain /\ a.conf = Answer(r)
    BY DEF Answers
  <2>2. /\ r.domain \in Seq(Labels)
        /\ \A i \in Taken(r.services) : r.services[i].subdomain \in Seq(Labels)
        /\ \E len \in Nat : DOMAIN r.services \subseteq 0..len
    <3>1. CASE r \in Requests
      <4> DEFINE T == [subdomain : Name, type : STRING, address : STRING, port : Int]
      <4>1. r.services \in Seq(T) /\ \A x \in T : x.subdomain \in Seq(Labels)
        BY <3>1, RequestsAssumption DEF Name
      <4> HIDE DEF T
      <4>2. Len(r.services) \in Nat /\ DOMAIN r.services = 1..Len(r.services)
        BY <4>1, LenProperties
      <4>3. \A i \in DOMAIN r.services : r.services[i] \in T
        BY <4>1, <4>2, ElementOfSeq
      <4>4. r.domain \in Seq(Labels)
        BY <3>1, RequestsAssumption DEF Name
      <4> QED
        BY <4>1, <4>2, <4>3, <4>4 DEF Taken
    <3>2. CASE \E w \in Wizards : r = RequestOf(w)
      <4>1. PICK w \in Wizards : r = RequestOf(w)
        BY <3>2
      <4> DEFINE T == [subdomain : Name, protocol : STRING, address : STRING, port : STRING]
      <4>2. w.rules \in Seq(T) /\ \A x \in T : x.subdomain \in Seq(Labels)
        BY <4>1, WizardsAssumption DEF Name
      <4> HIDE DEF T
      <4>3. Len(w.rules) \in Nat /\ DOMAIN w.rules = 1..Len(w.rules)
        BY <4>2, LenProperties
      <4>4. \A i \in DOMAIN w.rules : w.rules[i] \in T
        BY <4>2, <4>3, ElementOfSeq
      <4>5. /\ DOMAIN r.services \subseteq DOMAIN w.rules
            /\ Taken(r.services) = {j \in DOMAIN w.rules : Usable(w.rules[j])}
            /\ r.domain = w.domain
            /\ \A i \in Taken(r.services) : r.services[i].subdomain = w.rules[i].subdomain
        BY <4>1, RulesAreServices
      <4>6. w.domain \in Seq(Labels)
        BY WizardsAssumption DEF Name
      <4> QED
        BY <4>2, <4>3, <4>4, <4>5, <4>6
    <3> QED
      BY <2>1, <3>1, <3>2
  <2>3. Answer(r).ok
    BY <2>1 DEF Saveable
  <2>4. /\ DOMAIN Answer(r).vhosts = Taken(r.services)
        /\ \A j \in Taken(r.services) : Answer(r).vhosts[j] = HostOf(r.services[j], r.domain)
        /\ Answer(r).wildcards = {<<"*">> \o r.domain}
    BY <2>3 DEF Answer, GenerateFullConfig, Refused, WildcardsOf
  <2>5. PICK i \in Taken(r.services) : HostNamed(Answer(r), n) = HostOf(r.services[i], r.domain)
    <3> DEFINE of == {i \in DOMAIN Answer(r).vhosts : Lower(Answer(r).vhosts[i].name) = n}
               last == CHOOSE i \in of : \A j \in of : j <= i
    <3>1. PICK len \in Nat : of \subseteq 0..len
      BY <2>2, <2>4 DEF Taken
    <3>2. of # {}
      BY <2>1 DEF Hosts
    <3>3. \E i \in of : \A j \in of : j <= i
      <4> HIDE DEF of
      <4> QED
        BY <3>1, <3>2, GreatestIndex, Zenon
    <3>4. last \in of
      <4> HIDE DEF of
      <4> QED
        BY <3>3
    <3>5. HostNamed(Answer(r), n) = Answer(r).vhosts[last]
      BY DEF HostNamed
    <3> QED
      BY <2>4, <3>4, <3>5
  <2>6. n = r.services[i].subdomain \o r.domain
    <3>1. \A service, domain : HostOf(service, domain).name = service.subdomain \o domain
      BY HostOfService
    <3>2. HostNamed(Answer(r), n).name = n
      BY <2>1
    <3> QED
      BY <2>5, <3>1, <3>2
  <2>7. MatchWildcard(<<"*">> \o r.domain, n) /\ Len(n) = Len(<<"*">> \o r.domain)
    BY <2>1, <2>2, <2>6, WildcardMatches
  <2> QED
    BY <2>1, <2>4, <2>7 DEF ReliesOnWildcard, WildcardAnswers
<1> QED
  BY <1>1, PTL
=============================================================================
