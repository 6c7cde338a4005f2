----------------------------- MODULE WireProofs ------------------------------
(***************************************************************************)
(* The length prefix of a frame carries the length, whatever it is; and    *)
(* types, KeptWhole, OkMeansKept and FailsForCause.  WireInv says of each  *)
(* half of the stream what is before its reader: nothing, or one frame and *)
(* the part of the body that has been sent, less what has been used.       *)
(***************************************************************************)
EXTENDS Wire, SequenceTheorems, TLAPS

\* A number is its quotient and its remainder, and neither is out of range.
LEMMA DivMod ==
    ASSUME NEW n \in Nat
    PROVE  /\ n \div 256 \in Nat
           /\ (n % 256) \in 0 .. 255
           /\ (n \div 256) * 256 + (n % 256) = n
BY SMT

LEMMA DivMonotone ==
    ASSUME NEW m \in Nat, NEW n \in Nat, n <= m
    PROVE  n \div 256 <= m \div 256
BY SMT

\* What ReadMessage decodes from the prefix WriteMessage has encoded is the length
\* of the message (codec.go: PutUint32 and Uint32), and each digit of it is a byte.
THEOREM LengthCarried ==
    ASSUME NEW n \in Nat, n <= MaxHeaderBytes
    PROVE  /\ Uint32(PutUint32(n)) = n
           /\ \A i \in 1 .. lengthPrefixSize : Byte(PutUint32(n)[i]) \in 0 .. 255
<1> DEFINE p == PutUint32(n)
           q1 == n \div 256
           q2 == q1 \div 256
           q3 == q2 \div 256
<1>1. /\ Byte(p[1]) = q3
      /\ Byte(p[2]) = (q2 % 256)
      /\ Byte(p[3]) = (q1 % 256)
      /\ Byte(p[4]) = (n % 256)
  BY DEF PutUint32, Digits, Byte, lengthPrefixSize
<1>2. /\ q1 \in Nat
      /\ (n % 256) \in 0 .. 255
      /\ q1 * 256 + (n % 256) = n
  BY DivMod
<1>3. /\ q2 \in Nat
      /\ (q1 % 256) \in 0 .. 255
      /\ q2 * 256 + (q1 % 256) = q1
  BY <1>2, DivMod
<1>4. /\ q3 \in Nat
      /\ (q2 % 256) \in 0 .. 255
      /\ q3 * 256 + (q2 % 256) = q2
  BY <1>3, DivMod
<1>5. q3 \in 0 .. 255
  <2> DEFINE m1 == MaxHeaderBytes \div 256
             m2 == m1 \div 256
  <2>1. MaxHeaderBytes \in Nat /\ m2 \div 256 < 256
    BY WireAssumption
  <2>2. m1 \in Nat /\ q1 <= m1
    BY <2>1, DivMod, DivMonotone
  <2>3. m2 \in Nat /\ q2 <= m2
    BY <2>2, <1>2, DivMod, DivMonotone
  <2>4. m2 \div 256 \in Nat /\ q3 <= m2 \div 256
    BY <2>3, <1>3, DivMod, DivMonotone
  <2> QED
    BY <2>1, <2>4, <1>4
<1>6. Uint32(p) = ((q3 * 256 + (q2 % 256)) * 256 + (q1 % 256)) * 256 + (n % 256)
  BY <1>1 DEF Uint32
<1>7. Uint32(p) = n
  BY <1>6, <1>4, <1>3, <1>2
<1>8. \A i \in 1 .. lengthPrefixSize : i = 1 \/ i = 2 \/ i = 3 \/ i = 4
  BY SMT DEF lengthPrefixSize
<1>9. ASSUME NEW i \in 1 .. lengthPrefixSize
      PROVE  Byte(p[i]) \in 0 .. 255
  <2>1. CASE i = 1
    BY <2>1, <1>1, <1>5
  <2>2. CASE i = 2
    BY <2>2, <1>1, <1>4
  <2>3. CASE i = 3
    BY <2>3, <1>1, <1>3
  <2>4. CASE i = 4
    BY <2>4, <1>1, <1>2
  <2> QED
    BY <1>8, <2>1, <2>2, <2>3, <2>4
<1> QED
  BY <1>7, <1>9

-----------------------------------------------------------------------------
(* Sequences: a queue that is read from the front into a buffer and written *)
(* at the back.                                                             *)
(***************************************************************************)

Cat(a, b) == a \o b

LEMMA CatSeq ==
    ASSUME NEW S, NEW a \in Seq(S), NEW b \in Seq(S)
    PROVE  /\ Cat(a, b) \in Seq(S)
           /\ Len(Cat(a, b)) = Len(a) + Len(b)
           /\ \A i \in 1 .. Len(a) + Len(b) : Cat(a, b)[i] = IF i <= Len(a) THEN a[i] ELSE b[i - Len(a)]
BY ConcatProperties DEF Cat

LEMMA CatAssociative ==
    ASSUME NEW S, NEW a \in Seq(S), NEW b \in Seq(S), NEW c \in Seq(S)
    PROVE  Cat(Cat(a, b), c) = Cat(a, Cat(b, c))
BY ConcatAssociative DEF Cat

LEMMA CatEmpty ==
    ASSUME NEW S, NEW s \in Seq(S)
    PROVE  Cat(<<>>, s) = s /\ Cat(s, <<>>) = s
BY ConcatEmptySeq DEF Cat

\* A sequence is its first k cells and the rest.
LEMMA Parts ==
    ASSUME NEW S, NEW s \in Seq(S), NEW k \in 1 .. Len(s)
    PROVE  /\ SubSeq(s, 1, k) \in Seq(S) /\ Len(SubSeq(s, 1, k)) = k
           /\ SubSeq(s, k + 1, Len(s)) \in Seq(S)
           /\ Cat(SubSeq(s, 1, k), SubSeq(s, k + 1, Len(s))) = s
<1>1. Len(s) \in Nat /\ k \in Nat /\ k <= Len(s) /\ \A i \in 1 .. Len(s) : s[i] \in S
  BY LenProperties, ElementOfSeq
<1>2. /\ SubSeq(s, 1, k) \in Seq(S) /\ Len(SubSeq(s, 1, k)) = k
      /\ SubSeq(s, k + 1, Len(s)) \in Seq(S)
  BY <1>1, SubSeqProperties
<1>3. SubSeq(s, 1, k) \o SubSeq(s, k + 1, Len(s)) = SubSeq(s, 1, Len(s))
  BY <1>1, ConcatAdjacentSubSeq
<1>4. Cat(SubSeq(s, 1, k), SubSeq(s, k + 1, Len(s))) = s
  BY <1>3, SubSeqFull DEF Cat
<1>5. QED
  BY <1>2, <1>4

\* A Read moves cells from the queue to the buffer, and loses none.
LEMMA ReadOn ==
    ASSUME NEW S, NEW a \in Seq(S), NEW s \in Seq(S), NEW k \in 1 .. Len(s)
    PROVE  /\ Cat(a, SubSeq(s, 1, k)) \in Seq(S)
           /\ SubSeq(s, k + 1, Len(s)) \in Seq(S)
           /\ Len(Cat(a, SubSeq(s, 1, k))) = Len(a) + k
           /\ Cat(Cat(a, SubSeq(s, 1, k)), SubSeq(s, k + 1, Len(s))) = Cat(a, s)
<1> DEFINE h == SubSeq(s, 1, k)
           r == SubSeq(s, k + 1, Len(s))
<1>1. h \in Seq(S) /\ Len(h) = k /\ r \in Seq(S) /\ Cat(h, r) = s
  BY Parts
<1> HIDE DEF h, r
<1>2. Cat(a, h) \in Seq(S) /\ Len(Cat(a, h)) = Len(a) + k
  BY <1>1, CatSeq
<1>3. Cat(Cat(a, h), r) = Cat(a, s)
  BY <1>1, CatAssociative
<1>4. QED
  BY <1>1, <1>2, <1>3, Zenon DEF h, r

\* What is written comes after what was there.
LEMMA WriteOn ==
    ASSUME NEW S, NEW a \in Seq(S), NEW s \in Seq(S), NEW x \in S
    PROVE  Cat(a, Append(s, x)) = Append(Cat(a, s), x)
<1>1. /\ Append(s, x) = s \o <<x>> /\ <<x>> \in Seq(S)
      /\ a \o s \in Seq(S) /\ Append(a \o s, x) = (a \o s) \o <<x>>
  BY AppendIsConcat, ConcatProperties
<1>2. QED
  BY <1>1, ConcatAssociative DEF Cat

\* A buffer as long as the first part of what was sent holds that part.
LEMMA SplitAt ==
    ASSUME NEW S, NEW a \in Seq(S), NEW s \in Seq(S), NEW p \in Seq(S), NEW q \in Seq(S),
           Cat(a, s) = Cat(p, q), Len(a) = Len(p)
    PROVE  a = p /\ s = q
<1>1. /\ Len(a) \in Nat /\ Len(s) \in Nat /\ Len(p) \in Nat /\ Len(q) \in Nat
      /\ Len(Cat(a, s)) = Len(a) + Len(s) /\ Len(Cat(p, q)) = Len(p) + Len(q)
      /\ \A i \in 1 .. Len(a) + Len(s) : Cat(a, s)[i] = IF i <= Len(a) THEN a[i] ELSE s[i - Len(a)]
      /\ \A i \in 1 .. Len(p) + Len(q) : Cat(p, q)[i] = IF i <= Len(p) THEN p[i] ELSE q[i - Len(p)]
  BY LenProperties, CatSeq
<1>2. Len(s) = Len(q)
  BY <1>1
<1>3. ASSUME NEW i \in 1 .. Len(a) PROVE a[i] = p[i]
  <2>1. i \in 1 .. Len(a) + Len(s) /\ i <= Len(a) /\ i \in 1 .. Len(p) + Len(q)
    BY <1>1
  <2>2. QED
    BY <1>1, <2>1
<1>4. ASSUME NEW i \in 1 .. Len(s) PROVE s[i] = q[i]
  <2> DEFINE j == Len(a) + i
  <2>1. j \in 1 .. Len(a) + Len(s) /\ ~(j <= Len(a)) /\ j - Len(a) = i
    BY <1>1
  <2>2. j \in 1 .. Len(p) + Len(q) /\ ~(j <= Len(p)) /\ j - Len(p) = i
    BY <1>1, <1>2
  <2> HIDE DEF j
  <2>3. Cat(a, s)[j] = s[i]
    BY <1>1, <2>1
  <2>4. Cat(p, q)[j] = q[i]
    BY <1>1, <2>2
  <2>5. QED
    BY <2>3, <2>4
<1>5. QED
  BY <1>2, <1>3, <1>4, SeqEqual

\* A shorter buffer leaves something of that part in the queue.
LEMMA MoreToCome ==
    ASSUME NEW S, NEW a \in Seq(S), NEW s \in Seq(S), NEW p \in Seq(S), NEW q \in Seq(S),
           Cat(a, s) = Cat(p, q), Len(a) < Len(p)
    PROVE  s # <<>>
<1>1. Len(Cat(a, s)) = Len(a) + Len(s) /\ Len(Cat(p, q)) = Len(p) + Len(q)
      /\ Len(a) \in Nat /\ Len(p) \in Nat /\ Len(q) \in Nat
  BY LenProperties, CatSeq
<1>2. QED
  BY <1>1

\* The first n cells, the next one included.
FirstOf(s, n) == IF n = 0 THEN <<>> ELSE SubSeq(s, 1, n)
LEMMA FirstOfSeq ==
    ASSUME NEW S, NEW s \in Seq(S), NEW n \in 0 .. Len(s)
    PROVE  FirstOf(s, n) \in Seq(S) /\ Len(FirstOf(s, n)) = n
<1>1. Len(s) \in Nat /\ \A i \in 1 .. Len(s) : s[i] \in S
  BY LenProperties, ElementOfSeq
<1>2. CASE n = 0
  BY <1>2, EmptySeq DEF FirstOf
<1>3. CASE n # 0
  BY <1>1, <1>3, SubSeqProperties DEF FirstOf
<1>4. QED
  BY <1>2, <1>3

LEMMA FirstOfGrows ==
    ASSUME NEW S, NEW s \in Seq(S), NEW n \in Nat, n < Len(s)
    PROVE  /\ FirstOf(s, n + 1) = Append(FirstOf(s, n), s[n + 1])
           /\ s[n + 1] \in S
<1>1. Len(s) \in Nat /\ n + 1 \in 1 .. Len(s) /\ s[n + 1] \in S
  BY LenProperties, ElementOfSeq
<1>2. CASE n = 0
  <2>1. SubSeq(s, 1, 1) = SubSeq(s, 1, 0) \o <<s[1]>>
    BY <1>1, <1>2, SubSeqRecursiveSecond
  <2>2. SubSeq(s, 1, 0) = <<>>
    BY SubSeqEmpty
  <2>a. n + 1 = 1 /\ 1 # 0
    BY <1>2
  <2>3. FirstOf(s, n + 1) = <<>> \o <<s[1]>> /\ FirstOf(s, n) = <<>>
    BY <1>2, <2>a, <2>1, <2>2, Zenon DEF FirstOf
  <2>4. <<>> \in Seq(S) /\ s[1] \in S
    BY <1>1, <1>2, EmptySeq
  <2>5. Append(<<>>, s[1]) = <<>> \o <<s[1]>>
    BY <2>4, AppendIsConcat
  <2>6. QED
    BY <1>1, <2>a, <2>3, <2>5, Zenon
<1>3. CASE n # 0
  <2>1. SubSeq(s, 1, n + 1) = SubSeq(s, 1, n) \o <<s[n + 1]>>
    BY <1>1, <1>3, SubSeqRecursiveSecond
  <2>2. SubSeq(s, 1, n) \in Seq(S)
    BY <1>1, <1>3, FirstOfSeq DEF FirstOf
  <2>3. QED
    BY <1>1, <1>3, <2>1, <2>2, AppendIsConcat DEF FirstOf
<1>4. QED
  BY <1>1, <1>2, <1>3

LEMMA FirstOfAll ==
    ASSUME NEW S, NEW s \in Seq(S)
    PROVE  FirstOf(s, Len(s)) = s
<1>1. CASE Len(s) = 0
  BY <1>1, EmptySeq DEF FirstOf
<1>2. CASE Len(s) # 0
  BY <1>2, SubSeqFull DEF FirstOf
<1>3. QED
  BY <1>1, <1>2

LEMMA FirstIsSubSeq ==
    ASSUME NEW s, NEW n \in Nat
    PROVE  FirstOf(s, n) = SubSeq(s, 1, n)
<1>1. CASE n = 0
  <2>1. SubSeq(s, 1, 0) = <<>>
    BY SubSeqEmpty
  <2>2. QED
    BY <1>1, <2>1 DEF FirstOf
<1>2. CASE n # 0
  BY <1>2 DEF FirstOf
<1>3. QED
  BY <1>1, <1>2

LEMMA FirstOfCells ==
    ASSUME NEW S, NEW s \in Seq(S), NEW n \in 0 .. Len(s), NEW i \in 1 .. n
    PROVE  FirstOf(s, n)[i] = s[i]
<1>1. Len(s) \in Nat /\ n \in Nat /\ n # 0 /\ \A j \in 1 .. Len(s) : s[j] \in S
  BY LenProperties, ElementOfSeq
<1>2. SubSeq(s, 1, n)[i] = s[i]
  BY <1>1, SubSeqProperties
<1>3. QED
  BY <1>1, <1>2 DEF FirstOf

\* What has been taken from the front of a beginning is itself a beginning.
LEMMA FirstOfFirst ==
    ASSUME NEW S, NEW s \in Seq(S), NEW n \in 0 .. Len(s), NEW a \in Seq(S), NEW q \in Seq(S),
           Cat(a, q) = FirstOf(s, n)
    PROVE  a = FirstOf(s, Len(a))
<1> DEFINE k == Len(a)
<1>1. /\ Len(s) \in Nat /\ k \in Nat /\ Len(q) \in Nat
      /\ Len(Cat(a, q)) = k + Len(q)
      /\ \A i \in 1 .. k + Len(q) : Cat(a, q)[i] = IF i <= k THEN a[i] ELSE q[i - k]
  BY LenProperties, CatSeq
<1>2. k + Len(q) = n /\ k \in 0 .. Len(s)
  <2>1. Len(FirstOf(s, n)) = n
    BY FirstOfSeq
  <2>2. Len(Cat(a, q)) = n
    BY <2>1, Zenon
  <2>3. n \in Nat /\ n <= Len(s)
    BY <1>1
  <2>4. k + Len(q) = n
    BY <1>1, <2>2
  <2> HIDE DEF k
  <2>5. QED
    BY <1>1, <2>3, <2>4
<1>3. FirstOf(s, k) \in Seq(S) /\ Len(FirstOf(s, k)) = k
  BY <1>2, FirstOfSeq
<1>4. ASSUME NEW i \in 1 .. k
      PROVE  a[i] = FirstOf(s, k)[i]
  <2>1. i \in 1 .. k + Len(q) /\ i <= k /\ i \in 1 .. n
    BY <1>1, <1>2
  <2>2. a[i] = FirstOf(s, n)[i]
    BY <1>1, <2>1
  <2>3. FirstOf(s, n)[i] = s[i]
    BY <2>1, FirstOfCells
  <2>4. FirstOf(s, k)[i] = s[i]
    BY <1>2, FirstOfCells
  <2>5. QED
    BY <2>2, <2>3, <2>4
<1>5. QED
  BY <1>3, <1>4, SeqEqual
-----------------------------------------------------------------------------
(* The places of Script, and the invariant.                                *)
(***************************************************************************)
Cell == [kind : {"head", "byte", "digit"}, value : Nat]
          \cup [kind : {"json"}, value : Nat, msg : MessageType, of : Nat]
EndType == [at : Nat, buf : Seq(Cell), length : Nat \cup {Nothing},
            said : MessageType \cup {Nothing}, body : Seq(Cell), sent : Nat,
            good : BOOLEAN, out : {"on", "ok", "failed"}, closed : BOOLEAN]

\* The end whose message has a body, and where each end writes, hears and closes
\* its half.
Bodied(e) == e = IF proto = "get" THEN "server" ELSE "client"
WriteAt(e) == IF e = "server" THEN 3 ELSE IF proto = "get" THEN 1 ELSE 2
HearAt(e) == IF e = "server" THEN 1 ELSE IF proto = "get" THEN 3 ELSE 5
CloseAt(e) == IF Bodied(e) THEN WriteAt(e) + 2 ELSE IF e = "client" THEN 2 ELSE 3
LastAt(e) == IF Bodied(e) THEN 6 ELSE IF e = "client" THEN 5 ELSE 4

\* A sealed file with its header opens; only a share opens it.
Readable == proto = "share" => disk.sealed /\ disk.left >= HeaderSize
\* The part of its body that s has sent.
Coming(s) == FirstOf(Source, end[s].sent)

Types ==
    /\ proto \in Protocols
    /\ disk \in Files
    /\ in \in [Ends -> Seq(Cell)]
    /\ eof \in [Ends -> BOOLEAN]
    /\ reset \in BOOLEAN
    /\ trouble \in BOOLEAN
    /\ end \in [Ends -> EndType]

\* What an end holds is in its bounds.
Within(e) ==
    /\ end[e].at \in 1 .. LastAt(e)
    /\ end[e].closed = ~Working(e)
    /\ end[e].length # Nothing => end[e].length <= MaxHeaderBytes
    /\ Len(end[e].buf) <= Wanted(e)
    /\ end[e].body # <<>> => end[e].said # Nothing /\ Len(end[e].body) <= end[e].said.bytes
    /\ end[e].sent # 0 => Bodied(e) /\ Readable /\ end[e].sent <= Len(Source)

\* What is behind an end is done.
Course(e) ==
    /\ eof[Other(e)] => end[e].at > CloseAt(e)
    /\ end[e].at <= HearAt(e) => end[e].good /\ end[e].said = Nothing
    /\ ~Bodied(e) /\ end[e].at = HearAt(e) + 1 => end[e].said # Nothing /\ end[e].said.ok
    /\ Bodied(e) /\ end[e].at >= WriteAt(e) /\ end[e].good => Readable
    /\ Bodied(e) /\ end[e].at = WriteAt(e) + 1 => Readable
    /\ Bodied(e) /\ end[e].at > WriteAt(e) + 1 => trouble \/ end[e].sent = Len(Source)

\* An end finds no failure without its cause, and no success without the version.
Outcome(e) ==
    /\ ~end[e].good => trouble
    /\ end[e].out = "failed" => trouble
    /\ end[e].out = "ok" => end[e].at = LastAt(e) /\ end[e].good
    /\ ~Bodied(e) /\ end[e].at > HearAt(e) + 1 /\ end[e].good =>
         kept # Nothing /\ Readable /\ (trouble \/ end[Other(e)].sent = Len(Source))
    /\ e = "client" /\ end[e].at = LastAt(e) /\ end[e].good => kept # Nothing

EndOK(e) == Within(e) /\ Course(e) /\ Outcome(e)

\* A message of s says no more than is so.
Says(s, m) ==
    /\ Bodied(s) => m.bytes = Announced /\ m.size = disk.size
    /\ ~m.ok => trouble
    /\ m.ok /\ Bodied(s) => Readable
    /\ m.ok /\ s = "server" /\ ~Bodied(s) => kept # Nothing

\* What has come to e and has not been used: a frame and what follows it, the
\* message and what follows it, or, when the message has been heard, a part of the
\* body; with what e has of it.
Framed(e, m, len) ==
    /\ end[e].said = Nothing
    /\ end[e].length = Nothing
    /\ Cat(end[e].buf, in[e]) = Cat(PutUint32(len), Cat(Json(m, len), Coming(Other(e))))
Prefixed(e, m, len) ==
    /\ end[e].said = Nothing
    /\ end[e].length = len
    /\ Cat(end[e].buf, in[e]) = Cat(Json(m, len), Coming(Other(e)))
Heard(e, m) ==
    /\ end[e].said = m
    /\ ~Bodied(e) /\ end[e].at = HearAt(e) + 1 => Cat(end[e].body, in[e]) = Coming(Other(e))

\* Nothing has come to e, or one message and what follows it.
Silent(e) ==
    /\ end[e].said = Nothing
    /\ end[e].length = Nothing
    /\ end[e].buf = <<>>
    /\ in[e] = <<>>
    /\ end[Other(e)].sent = 0
    /\ \/ end[Other(e)].at <= WriteAt(Other(e))
       \/ end[Other(e)].at = LastAt(Other(e)) /\ ~end[Other(e)].good
Spoken(e, m, len) ==
    /\ end[Other(e)].at > WriteAt(Other(e))
    /\ Says(Other(e), m)
    /\ Framed(e, m, len) \/ Prefixed(e, m, len) \/ Heard(e, m)
StreamOK(e) ==
    Silent(e) \/ \E m \in MessageType, len \in 1 .. MaxHeaderBytes : Spoken(e, m, len)

WireInv ==
    /\ Types
    /\ \A e \in Ends : EndOK(e) /\ StreamOK(e)
    /\ reset => trouble
    /\ Cut => trouble
    /\ KeptWhole

-----------------------------------------------------------------------------
(* What is sent.                                                           *)
(***************************************************************************)
LEMMA SeqOf ==
    ASSUME NEW S, NEW n \in Nat, NEW f \in [1 .. n -> S]
    PROVE  f \in Seq(S) /\ Len(f) = n
BY SeqDef

LEMMA BlobCells ==
    ASSUME NEW s \in Seq(BlobCell)
    PROVE  s \in Seq(Cell)
<1>1. s \in [1 .. Len(s) -> BlobCell] /\ Len(s) \in Nat
  BY LenProperties
<1>2. s \in [1 .. Len(s) -> Cell]
  BY <1>1 DEF BlobCell, Cell
<1>3. QED
  BY <1>1, <1>2, SeqOf

LEMMA CellsOf ==
    ASSUME NEW kind \in {"head", "byte"}, NEW n \in Nat
    PROVE  /\ Cells(kind, n) \in Seq(BlobCell)
           /\ Len(Cells(kind, n)) = n
           /\ \A i \in 1 .. n : Cells(kind, n)[i] = [kind |-> kind, value |-> i]
<1>1. Cells(kind, n) \in [1 .. n -> BlobCell]
  BY DEF Cells, BlobCell
<1>2. QED
  BY <1>1, SeqOf DEF Cells

\* A message that has been encoded whole decodes as itself.
LEMMA JsonDecodes ==
    ASSUME NEW m \in MessageType, NEW len \in 1 .. MaxHeaderBytes
    PROVE  /\ Json(m, len) \in Seq(Cell)
           /\ Len(Json(m, len)) = len
           /\ Unmarshal(Json(m, len)) = m
<1>1. len \in Nat /\ 1 \in 1 .. len
  BY WireAssumption
<1>2. Json(m, len) \in [1 .. len -> Cell]
  BY <1>1 DEF Json, Cell
<1>3. Json(m, len) \in Seq(Cell) /\ Len(Json(m, len)) = len
  BY <1>1, <1>2, SeqOf
<1>4. Json(m, len)[1] = [kind |-> "json", value |-> 1, msg |-> m, of |-> len]
  BY <1>1 DEF Json
<1>5. Json(m, len) # <<>>
  BY <1>1, <1>3, EmptySeq
<1>6. QED
  BY <1>3, <1>4, <1>5 DEF Unmarshal

LEMMA PrefixCells ==
    ASSUME NEW len \in 1 .. MaxHeaderBytes
    PROVE  PutUint32(len) \in Seq(Cell) /\ Len(PutUint32(len)) = 4
<1>1. len \in Nat /\ len <= MaxHeaderBytes
  BY WireAssumption
<1>2. \A i \in 1 .. 4 : PutUint32(len)[i] = [kind |-> "digit", value |-> Digits(len)[i]]
  BY DEF PutUint32, lengthPrefixSize
<1>3. \A i \in 1 .. 4 : Byte(PutUint32(len)[i]) \in Nat
  <2>1. \A i \in 1 .. lengthPrefixSize : Byte(PutUint32(len)[i]) \in 0 .. 255
    BY <1>1, LengthCarried
  <2>2. QED
    BY <2>1 DEF lengthPrefixSize
<1>4. \A i \in 1 .. 4 : Digits(len)[i] \in Nat
  BY <1>2, <1>3 DEF Byte
<1>5. PutUint32(len) \in [1 .. 4 -> Cell]
  BY <1>4 DEF PutUint32, lengthPrefixSize, Cell
<1>6. QED
  BY <1>5, SeqOf

\* Decryption takes the header off that encryption has put on.
LEMMA DecryptsWhatIsEncrypted ==
    ASSUME NEW p \in Seq(BlobCell)
    PROVE  /\ Encrypted(p) \in Seq(BlobCell)
           /\ Len(Encrypted(p)) = HeaderSize + Len(p)
           /\ Decrypted(Encrypted(p)) = p
<1> DEFINE h == Cells("head", HeaderSize)
           b == Encrypted(p)
<1>1. HeaderSize \in Nat /\ HeaderSize >= 1 /\ Len(p) \in Nat
  BY WireAssumption, LenProperties
<1>2. h \in Seq(BlobCell) /\ Len(h) = HeaderSize
  BY <1>1, CellsOf
<1>3. b = Cat(h, p)
  BY DEF Encrypted, Cat
<1>4. b \in Seq(BlobCell) /\ Len(b) = HeaderSize + Len(p)
  BY <1>2, <1>3, CatSeq
<1>5. HeaderSize \in 1 .. Len(b)
  BY <1>1, <1>4
<1> HIDE DEF h, b
<1> DEFINE a == SubSeq(b, 1, HeaderSize)
           r == SubSeq(b, HeaderSize + 1, Len(b))
<1>6. a \in Seq(BlobCell) /\ Len(a) = HeaderSize /\ r \in Seq(BlobCell) /\ Cat(a, r) = b
  BY <1>4, <1>5, Parts
<1>8. a = h /\ r = p
  <2> HIDE DEF a, r
  <2>1. Cat(a, r) = Cat(h, p) /\ Len(a) = Len(h)
    BY <1>2, <1>3, <1>6
  <2>2. QED
    BY <1>2, <1>6, <2>1, SplitAt
<1>9. Decrypted(b) = p
  BY <1>1, <1>4, <1>8 DEF Decrypted, h
<1>10. QED
  BY <1>4, <1>9 DEF b

\* A file in the clear, which begins with a byte, is no blob; a sealed one opens.
\* What a sender reads is no less than it has announced, and just that when the file
\* is whole (ReadVersion, ReadVersionRaw).
LEMMA SourceOpens ==
    ASSUME proto \in Protocols, disk \in Files
    PROVE  /\ Source # Nothing => Readable
           /\ Readable => /\ Source \in Seq(BlobCell)
                          /\ Announced <= Len(Source)
                          /\ ~Cut => Announced = Len(Source)
                          /\ Len(Source) <= Longest + HeaderSize
           /\ proto = "share" /\ Readable => Source = Plaintext(disk.size)
           /\ disk.sealed => Decrypted(Blob) = Plaintext(disk.size)
           /\ Announced \in Nat
           /\ Blob \in Seq(BlobCell) /\ disk.left \in 0 .. Len(Blob)
<1> DEFINE p == Plaintext(disk.size)
<1>1. /\ disk.size \in Nat /\ disk.size <= Longest /\ disk.sealed \in BOOLEAN
      /\ disk.left \in Nat
      /\ disk.left <= disk.size + (IF disk.sealed THEN HeaderSize ELSE 0)
      /\ HeaderSize \in Nat /\ HeaderSize >= 1 /\ Longest \in Nat
  BY WireAssumption DEF Files
<1>2. /\ p \in Seq(BlobCell)
      /\ Len(p) = disk.size
      /\ \A i \in 1 .. disk.size : p[i] = [kind |-> "byte", value |-> i]
  BY <1>1, CellsOf DEF Plaintext
<1>3. /\ Encrypted(p) \in Seq(BlobCell)
      /\ Len(Encrypted(p)) = HeaderSize + disk.size
      /\ Decrypted(Encrypted(p)) = p
  BY <1>2, DecryptsWhatIsEncrypted
<1>4. Decrypted(p) = Nothing
  <2>1. SUFFICES ASSUME Len(p) >= HeaderSize, SubSeq(p, 1, HeaderSize) = Cells("head", HeaderSize)
                 PROVE  FALSE
    BY DEF Decrypted
  <2>2. SubSeq(p, 1, HeaderSize)[1] = p[1]
    <3>1. HeaderSize \in 1 .. Len(p) /\ \A i \in 1 .. Len(p) : p[i] \in BlobCell
      BY <1>1, <1>2, <2>1, ElementOfSeq
    <3>2. \A i \in 1 .. HeaderSize : SubSeq(p, 1, HeaderSize)[i] = p[i]
      BY <1>1, <1>2, <3>1, SubSeqProperties
    <3>3. QED
      BY <1>1, <3>2
  <2>3. p[1].kind = "byte"
    <3>1. 1 \in 1 .. disk.size
      BY <1>1, <1>2, <2>1
    <3>2. p[1] = [kind |-> "byte", value |-> 1]
      BY <1>2, <3>1
    <3>3. QED
      BY <3>2
  <2>4. Cells("head", HeaderSize)[1].kind = "head"
    <3>1. 1 \in 1 .. HeaderSize
      BY <1>1
    <3>2. Cells("head", HeaderSize)[1] = [kind |-> "head", value |-> 1]
      BY <3>1 DEF Cells
    <3>3. QED
      BY <3>2
  <2>5. QED
    BY <2>1, <2>2, <2>3, <2>4
<1>5. Blob = IF disk.sealed THEN Encrypted(p) ELSE p
  BY DEF Blob
<1> HIDE DEF p
<1>6. /\ Blob \in Seq(BlobCell) /\ Len(Blob) <= Longest + HeaderSize /\ Len(Blob) \in Nat
      /\ disk.left \in 0 .. Len(Blob)
      /\ ~Cut => disk.left = Len(Blob)
  BY <1>1, <1>2, <1>3, <1>5 DEF Cut
<1>7. CASE proto = "share"
  <2>1. /\ Source = IF disk.left < HeaderSize THEN Nothing ELSE Decrypted(Blob)
        /\ Announced = disk.size
    BY <1>7 DEF Source, Announced
  <2>2. Readable <=> disk.sealed /\ disk.left >= HeaderSize
    BY <1>7 DEF Readable
  <2>3. disk.sealed => Decrypted(Blob) = p
    BY <1>5, <1>3
  <2>4. ~disk.sealed => Decrypted(Blob) = Nothing
    BY <1>5, <1>4
  <2>5. Readable => Source = p
    BY <1>1, <2>1, <2>2, <2>3
  <2>6. Source # Nothing => Readable
    BY <1>1, <2>1, <2>2, <2>4
  <2>7. Announced \in Nat /\ (Readable => Announced = Len(Source) /\ Len(Source) <= Longest + HeaderSize)
    BY <1>1, <1>2, <2>1, <2>5
  <2>8. QED
    BY <1>1, <1>2, <1>6, <2>3, <2>5, <2>6, <2>7 DEF p
<1>8. CASE proto # "share"
  <2>1. Source = Blob /\ Announced = disk.left
    BY <1>8 DEF Source, Announced
  <2>2. Readable
    BY <1>8 DEF Readable
  <2>3. QED
    BY <1>1, <1>3, <1>5, <1>6, <1>8, <2>1, <2>2 DEF p
<1>9. QED
  BY <1>7, <1>8

-----------------------------------------------------------------------------
(* Ends and places.                                                        *)
(***************************************************************************)
LEMMA Others ==
    ASSUME NEW e \in Ends
    PROVE  /\ Other(e) \in Ends /\ Other(e) # e /\ Other(Other(e)) = e
           /\ \A f \in Ends : f = e \/ f = Other(e)
           /\ Bodied(Other(e)) <=> ~Bodied(e)
           /\ e = "client" <=> Other(e) = "server"
           /\ e = "server" <=> Other(e) = "client"
<1>1. Other("client") = "server"
  <2>1. \E f \in Ends : f # "client"
    BY DEF Ends
  <2>2. QED
    BY <2>1 DEF Other, Ends
<1>2. Other("server") = "client"
  <2>1. \E f \in Ends : f # "server"
    BY DEF Ends
  <2>2. QED
    BY <2>1 DEF Other, Ends
<1>3. e = "client" \/ e = "server"
  BY DEF Ends
<1>4. QED
  BY <1>1, <1>2, <1>3 DEF Ends, Bodied

\* Where an end is when it is at a step.
LEMMA Places ==
    ASSUME NEW e \in Ends, proto \in Protocols
    PROVE  /\ Last(e) = LastAt(e)
           /\ At(e, "open") => Bodied(e) /\ end[e].at = WriteAt(e) - 1
           /\ At(e, "write") => end[e].at = WriteAt(e)
           /\ At(e, "send") => Bodied(e) /\ end[e].at = WriteAt(e) + 1
           /\ At(e, "close") => end[e].at = CloseAt(e) /\ (Bodied(e) \/ e = "client")
           /\ At(e, "hear") => end[e].at = HearAt(e)
           /\ At(e, "take") => ~Bodied(e) /\ end[e].at = HearAt(e) + 1
           /\ (\E i \in DOMAIN Script(e) : Script(e)[i] = "send") <=> Bodied(e)
<1>1. CASE proto # "get" /\ e = "client"
  <2>1. Script(e) = <<"open", "write", "send", "close", "hear">>
    BY <1>1 DEF Script
  <2>2. /\ Len(Script(e)) = 5 /\ DOMAIN Script(e) = 1 .. 5
        /\ Script(e)[1] = "open"
        /\ Script(e)[2] = "write"
        /\ Script(e)[3] = "send"
        /\ Script(e)[4] = "close"
        /\ Script(e)[5] = "hear"
    BY <2>1
  <2>3. /\ Bodied(e) /\ LastAt(e) = 6
        /\ WriteAt(e) = 2 /\ HearAt(e) = 5 /\ CloseAt(e) = 4
    BY <1>1 DEF Bodied, LastAt, WriteAt, HearAt, CloseAt
  <2>4. \A i \in 1 .. 5 : i = 1 \/ i = 2 \/ i = 3 \/ i = 4 \/ i = 5
    OBVIOUS
  <2>5. Last(e) = 6
    BY <2>2 DEF Last
  <2>6. ASSUME NEW x, At(e, x)
        PROVE  end[e].at \in 1 .. 5 /\ Script(e)[end[e].at] = x
    BY <2>2, <2>6 DEF At
  <2>7. QED
    BY <1>1, <2>2, <2>3, <2>4, <2>5, <2>6
<1>2. CASE proto # "get" /\ e = "server"
  <2>1. Script(e) = <<"hear", "take", "write">>
    BY <1>2 DEF Script
  <2>2. /\ Len(Script(e)) = 3 /\ DOMAIN Script(e) = 1 .. 3
        /\ Script(e)[1] = "hear"
        /\ Script(e)[2] = "take"
        /\ Script(e)[3] = "write"
    BY <2>1
  <2>3. /\ ~Bodied(e) /\ LastAt(e) = 4
        /\ WriteAt(e) = 3 /\ HearAt(e) = 1 /\ CloseAt(e) = 3
    BY <1>2 DEF Bodied, LastAt, WriteAt, HearAt, CloseAt
  <2>4. \A i \in 1 .. 3 : i = 1 \/ i = 2 \/ i = 3
    OBVIOUS
  <2>5. Last(e) = 4
    BY <2>2 DEF Last
  <2>6. ASSUME NEW x, At(e, x)
        PROVE  end[e].at \in 1 .. 3 /\ Script(e)[end[e].at] = x
    BY <2>2, <2>6 DEF At
  <2>7. QED
    BY <1>2, <2>2, <2>3, <2>4, <2>5, <2>6
<1>3. CASE proto = "get" /\ e = "client"
  <2>1. Script(e) = <<"write", "close", "hear", "take">>
    BY <1>3 DEF Script
  <2>2. /\ Len(Script(e)) = 4 /\ DOMAIN Script(e) = 1 .. 4
        /\ Script(e)[1] = "write"
        /\ Script(e)[2] = "close"
        /\ Script(e)[3] = "hear"
        /\ Script(e)[4] = "take"
    BY <2>1
  <2>3. /\ ~Bodied(e) /\ LastAt(e) = 5
        /\ WriteAt(e) = 1 /\ HearAt(e) = 3 /\ CloseAt(e) = 2
    BY <1>3 DEF Bodied, LastAt, WriteAt, HearAt, CloseAt
  <2>4. \A i \in 1 .. 4 : i = 1 \/ i = 2 \/ i = 3 \/ i = 4
    OBVIOUS
  <2>5. Last(e) = 5
    BY <2>2 DEF Last
  <2>6. ASSUME NEW x, At(e, x)
        PROVE  end[e].at \in 1 .. 4 /\ Script(e)[end[e].at] = x
    BY <2>2, <2>6 DEF At
  <2>7. QED
    BY <1>3, <2>2, <2>3, <2>4, <2>5, <2>6
<1>4. CASE proto = "get" /\ e = "server"
  <2>1. Script(e) = <<"hear", "open", "write", "send", "close">>
    BY <1>4 DEF Script
  <2>2. /\ Len(Script(e)) = 5 /\ DOMAIN Script(e) = 1 .. 5
        /\ Script(e)[1] = "hear"
        /\ Script(e)[2] = "open"
        /\ Script(e)[3] = "write"
        /\ Script(e)[4] = "send"
        /\ Script(e)[5] = "close"
    BY <2>1
  <2>3. /\ Bodied(e) /\ LastAt(e) = 6
        /\ WriteAt(e) = 3 /\ HearAt(e) = 1 /\ CloseAt(e) = 5
    BY <1>4 DEF Bodied, LastAt, WriteAt, HearAt, CloseAt
  <2>4. \A i \in 1 .. 5 : i = 1 \/ i = 2 \/ i = 3 \/ i = 4 \/ i = 5
    OBVIOUS
  <2>5. Last(e) = 6
    BY <2>2 DEF Last
  <2>6. ASSUME NEW x, At(e, x)
        PROVE  end[e].at \in 1 .. 5 /\ Script(e)[end[e].at] = x
    BY <2>2, <2>6 DEF At
  <2>7. QED
    BY <1>4, <2>2, <2>3, <2>4, <2>5, <2>6
<1>5. QED
  BY <1>1, <1>2, <1>3, <1>4 DEF Ends

LEMMA PlaceTable ==
    ASSUME NEW e \in Ends
    PROVE  \/ /\ e = "client" /\ Bodied(e)
              /\ WriteAt(e) = 2 /\ CloseAt(e) = 4 /\ HearAt(e) = 5 /\ LastAt(e) = 6
           \/ /\ e = "server" /\ ~Bodied(e)
              /\ HearAt(e) = 1 /\ WriteAt(e) = 3 /\ CloseAt(e) = 3 /\ LastAt(e) = 4
           \/ /\ e = "client" /\ ~Bodied(e)
              /\ WriteAt(e) = 1 /\ CloseAt(e) = 2 /\ HearAt(e) = 3 /\ LastAt(e) = 5
           \/ /\ e = "server" /\ Bodied(e)
              /\ HearAt(e) = 1 /\ WriteAt(e) = 3 /\ CloseAt(e) = 5 /\ LastAt(e) = 6
BY DEF Ends, Bodied, WriteAt, CloseAt, HearAt, LastAt

-----------------------------------------------------------------------------
(* What a step of e leaves alone, and what follows from that.              *)
(***************************************************************************)
KeepsOther(e) ==
    /\ UNCHANGED <<proto, disk>>
    /\ end'[Other(e)] = end[Other(e)]
    /\ eof'[e] = eof[e]
    /\ trouble => trouble'
    /\ kept # Nothing => kept' # Nothing
    /\ end[e].sent = Len(Source) => end'[e].sent = Len(Source)

LEMMA Fixed ==
    ASSUME UNCHANGED <<proto, disk>>
    PROVE  /\ Blob' = Blob /\ Source' = Source /\ Announced' = Announced
           /\ Readable' = Readable /\ Cut' = Cut
           /\ \A e \in Ends : /\ Bodied(e)' = Bodied(e)
                              /\ WriteAt(e)' = WriteAt(e)
                              /\ HearAt(e)' = HearAt(e)
                              /\ CloseAt(e)' = CloseAt(e)
                              /\ LastAt(e)' = LastAt(e)
<1>1. Blob' = Blob /\ Readable' = Readable
  BY DEF Blob, Readable
<1>2. Source' = Source /\ Announced' = Announced /\ Cut' = Cut
  BY <1>1 DEF Source, Announced, Cut
<1>3. \A e \in Ends : Bodied(e)' = Bodied(e) /\ WriteAt(e)' = WriteAt(e) /\ HearAt(e)' = HearAt(e)
  BY DEF Bodied, WriteAt, HearAt
<1>4. \A e \in Ends : CloseAt(e)' = CloseAt(e) /\ LastAt(e)' = LastAt(e)
  BY <1>3 DEF CloseAt, LastAt
<1>5. QED
  BY <1>1, <1>2, <1>3, <1>4

\* What has been said stays true.
LEMMA StillSays ==
    ASSUME NEW e \in Ends, KeepsOther(e), NEW s \in Ends, NEW m, Says(s, m)
    PROVE  Says(s, m)'
<1>1. UNCHANGED <<proto, disk>> /\ (trouble => trouble') /\ (kept # Nothing => kept' # Nothing)
  BY DEF KeepsOther
<1>2. Announced' = Announced /\ Readable' = Readable /\ Bodied(s)' = Bodied(s)
  BY <1>1, Fixed
<1>3. QED
  BY <1>1, <1>2 DEF Says

LEMMA OtherStaysOK ==
    ASSUME NEW e \in Ends, KeepsOther(e), EndOK(Other(e))
    PROVE  EndOK(Other(e))'
<1> DEFINE f == Other(e)
<1>1. f \in Ends /\ Other(f) = e
  BY Others
<1> HIDE DEF f
<1>2. /\ UNCHANGED <<proto, disk>> /\ end'[f] = end[f] /\ eof'[e] = eof[e]
      /\ trouble => trouble'
      /\ kept # Nothing => kept' # Nothing
      /\ end[e].sent = Len(Source) => end'[e].sent = Len(Source)
  BY DEF KeepsOther, f
<1>3. /\ Source' = Source /\ Readable' = Readable /\ Bodied(f)' = Bodied(f)
      /\ WriteAt(f)' = WriteAt(f) /\ HearAt(f)' = HearAt(f)
      /\ CloseAt(f)' = CloseAt(f) /\ LastAt(f)' = LastAt(f)
  BY <1>1, <1>2, Fixed
<1>4. Working(f)' = Working(f) /\ Wanted(f)' = Wanted(f)
  BY <1>2 DEF Working, Wanted
<1>5. EndOK(f)
  BY DEF f
<1>6. EndOK(f)'
  BY <1>1, <1>2, <1>3, <1>4, <1>5 DEF EndOK, Within, Course, Outcome
<1>7. QED
  BY <1>6 DEF f

\* An end that reads nothing still has before it what it had.
LEMMA AsReceiver ==
    ASSUME NEW e \in Ends, KeepsOther(e), StreamOK(e),
           in'[e] = in[e],
           end'[e].buf = end[e].buf, end'[e].length = end[e].length,
           end'[e].said = end[e].said, end'[e].body = end[e].body,
           ~Bodied(e) /\ end'[e].at = HearAt(e) + 1 => end[e].at = HearAt(e) + 1
    PROVE  StreamOK(e)'
<1> DEFINE f == Other(e)
<1>1. f \in Ends
  BY Others
<1> HIDE DEF f
<1>2. UNCHANGED <<proto, disk>> /\ end'[f] = end[f]
  BY DEF KeepsOther, f
<1>3. /\ Source' = Source /\ Bodied(e)' = Bodied(e) /\ HearAt(e)' = HearAt(e)
      /\ WriteAt(f)' = WriteAt(f) /\ LastAt(f)' = LastAt(f)
  BY <1>1, <1>2, Fixed
<1>4. Coming(f)' = Coming(f)
  BY <1>2, <1>3 DEF Coming
<1>5. CASE Silent(e)
  <2>1. Silent(e)'
    BY <1>2, <1>3, <1>5 DEF Silent, f
  <2>2. QED
    BY <2>1 DEF StreamOK
<1>6. ASSUME NEW m \in MessageType, NEW len \in 1 .. MaxHeaderBytes, Spoken(e, m, len)
      PROVE  Spoken(e, m, len)'
  <2>1. end'[f].at > WriteAt(f)' /\ Says(f, m)'
    BY <1>1, <1>2, <1>3, <1>6, StillSays DEF Spoken, f
  <2>2. Framed(e, m, len) => Framed(e, m, len)'
    BY <1>4 DEF Framed, f
  <2>3. Prefixed(e, m, len) => Prefixed(e, m, len)'
    BY <1>4 DEF Prefixed, f
  <2>4. Heard(e, m) => Heard(e, m)'
    BY <1>3, <1>4 DEF Heard, f
  <2>5. QED
    BY <1>6, <2>1, <2>2, <2>3, <2>4 DEF Spoken, f
<1>7. QED
  BY <1>5, <1>6 DEF StreamOK

\* An end that writes nothing leaves before the other what there was.
LEMMA AsSender ==
    ASSUME NEW e \in Ends, KeepsOther(e), StreamOK(Other(e)),
           in'[Other(e)] = in[Other(e)],
           end'[e].sent = end[e].sent,
           end[e].at > WriteAt(e) => end'[e].at > WriteAt(e),
           end[e].at <= WriteAt(e) =>
              end'[e].at <= WriteAt(e) \/ (end'[e].at = LastAt(e) /\ ~end'[e].good),
           end[e].at = LastAt(e) /\ ~end[e].good => end'[e].at = LastAt(e) /\ ~end'[e].good
    PROVE  StreamOK(Other(e))'
<1> DEFINE f == Other(e)
<1>1. f \in Ends /\ Other(f) = e
  BY Others
<1> HIDE DEF f
<1>2. UNCHANGED <<proto, disk>> /\ end'[f] = end[f] /\ in'[f] = in[f]
  BY DEF KeepsOther, f
<1>3. /\ Source' = Source /\ Bodied(f)' = Bodied(f) /\ HearAt(f)' = HearAt(f)
      /\ WriteAt(e)' = WriteAt(e) /\ LastAt(e)' = LastAt(e)
  BY <1>1, <1>2, Fixed
<1>4. Coming(e)' = Coming(e)
  BY <1>3 DEF Coming
<1>5. CASE Silent(f)
  <2>1. Silent(f)'
    BY <1>1, <1>2, <1>3, <1>5 DEF Silent
  <2>2. QED
    BY <2>1 DEF StreamOK, f
<1>6. ASSUME NEW m \in MessageType, NEW len \in 1 .. MaxHeaderBytes, Spoken(f, m, len)
      PROVE  Spoken(f, m, len)'
  <2>1. end'[e].at > WriteAt(e)' /\ Says(e, m)'
    BY <1>1, <1>3, <1>6, StillSays DEF Spoken
  <2>2. Framed(f, m, len) => Framed(f, m, len)'
    BY <1>1, <1>2, <1>4 DEF Framed
  <2>3. Prefixed(f, m, len) => Prefixed(f, m, len)'
    BY <1>1, <1>2, <1>4 DEF Prefixed
  <2>4. Heard(f, m) => Heard(f, m)'
    BY <1>1, <1>2, <1>3, <1>4 DEF Heard
  <2>5. QED
    BY <1>1, <1>6, <2>1, <2>2, <2>3, <2>4 DEF Spoken
<1>7. QED
  BY <1>5, <1>6 DEF StreamOK, f

\* The invariant, one part at a time.
LEMMA StepKeeps ==
    ASSUME WireInv, NEW e \in Ends, KeepsOther(e), Types',
           EndOK(e)', StreamOK(e)', StreamOK(Other(e))', reset' => trouble', KeptWhole'
    PROVE  WireInv'
<1>1. Other(e) \in Ends /\ \A f \in Ends : f = e \/ f = Other(e)
  BY Others
<1>2. EndOK(Other(e))'
  BY <1>1, OtherStaysOK DEF WireInv
<1>3. \A f \in Ends : EndOK(f)' /\ StreamOK(f)'
  BY <1>1, <1>2
<1>4. Cut' => trouble'
  <2>1. Cut' = Cut /\ (Cut => trouble) /\ (trouble => trouble')
    BY Fixed DEF KeepsOther, WireInv
  <2>2. QED
    BY <2>1
<1>5. QED
  BY <1>3, <1>4 DEF WireInv

LEMMA KeptStays ==
    ASSUME UNCHANGED <<proto, disk, kept>>, KeptWhole
    PROVE  KeptWhole'
<1>1. Blob' = Blob /\ Cut' = Cut
  BY Fixed
<1>2. /\ Encrypted(Plaintext(disk.size))' = Encrypted(Plaintext(disk.size))
      /\ Plaintext(disk.size)' = Plaintext(disk.size)
      /\ Decrypted(kept.blob)' = Decrypted(kept.blob)
      /\ SubSeq(Blob, 1, disk.left)' = SubSeq(Blob, 1, disk.left)
  BY <1>1 DEF Encrypted, Plaintext, Decrypted, Cells
<1>3. QED
  BY <1>1, <1>2 DEF KeptWhole

\* What the invariant says of an end, and what Script says of its places.
LEMMA EndFacts ==
    ASSUME WireInv, NEW e \in Ends
    PROVE  /\ EndOK(e) /\ StreamOK(e) /\ EndOK(Other(e)) /\ StreamOK(Other(e))
           /\ Other(e) \in Ends /\ Other(e) # e
           /\ end \in [Ends -> EndType] /\ in \in [Ends -> Seq(Cell)] /\ eof \in [Ends -> BOOLEAN]
           /\ reset \in BOOLEAN /\ trouble \in BOOLEAN /\ (reset => trouble)
           /\ proto \in Protocols /\ disk \in Files
           /\ Last(e) = LastAt(e)
<1>1. Other(e) \in Ends /\ Other(e) # e
  BY Others
<1>2. QED
  BY <1>1, Places DEF WireInv, Types

LEMMA EndFields ==
    ASSUME WireInv, NEW e \in Ends
    PROVE  /\ end[e] \in EndType
           /\ end[e].at \in Nat /\ end[e].buf \in Seq(Cell) /\ end[e].length \in Nat \cup {Nothing}
           /\ end[e].said \in MessageType \cup {Nothing} /\ end[e].body \in Seq(Cell)
           /\ end[e].sent \in Nat /\ end[e].good \in BOOLEAN
           /\ end[e].out \in {"on", "ok", "failed"} /\ end[e].closed \in BOOLEAN
<1>1. end[e] \in EndType
  BY DEF WireInv, Types
<1>2. QED
  BY <1>1 DEF EndType

\* A step of e makes X of what it holds.
LEMMA Becomes ==
    ASSUME WireInv, NEW e \in Ends, NEW X \in EndType, end' = [end EXCEPT ![e] = X]
    PROVE  end'[e] = X /\ end'[Other(e)] = end[Other(e)] /\ end' \in [Ends -> EndType]
<1>1. end \in [Ends -> EndType] /\ Other(e) \in Ends /\ Other(e) # e
  BY EndFacts
<1>2. QED
  BY <1>1

LEMMA OpenKeeps ==
    ASSUME WireInv, NEW e \in Ends, Open(e)
    PROVE  WireInv'
<1> DEFINE E == end[e]
           F == end'[e]
           found == Source # Nothing
<1>1. /\ EndOK(e) /\ StreamOK(e) /\ StreamOK(Other(e))
      /\ end \in [Ends -> EndType] /\ trouble \in BOOLEAN /\ (reset => trouble)
      /\ proto \in Protocols /\ disk \in Files
      /\ Last(e) = LastAt(e)
  BY EndFacts
<1>2. /\ E \in EndType
      /\ E.at \in Nat /\ E.buf \in Seq(Cell) /\ E.length \in Nat \cup {Nothing}
      /\ E.said \in MessageType \cup {Nothing} /\ E.body \in Seq(Cell) /\ E.sent \in Nat
      /\ E.good \in BOOLEAN /\ E.out \in {"on", "ok", "failed"} /\ E.closed \in BOOLEAN
  BY EndFields
<1>3. Bodied(e) /\ E.at = WriteAt(e) - 1 /\ E.out = "on"
  BY <1>1, Places DEF Open, At, Working
<1>4. found => Readable
  BY <1>1, SourceOpens
<1>5. /\ WriteAt(e) \in 2 .. 3 /\ CloseAt(e) = WriteAt(e) + 2 /\ LastAt(e) = 6 /\ LastAt(e) \in Nat
      /\ HearAt(e) \in {1, 5} /\ (e = "client" <=> HearAt(e) = 5)
  BY <1>3, PlaceTable
<1>6. /\ trouble' \in BOOLEAN /\ (trouble => trouble') /\ (~found => trouble')
      /\ UNCHANGED <<proto, disk, in, eof, reset, kept>>
  BY <1>1 DEF Open
<1>7. /\ end'[Other(e)] = end[Other(e)] /\ end' \in [Ends -> EndType]
      /\ F.buf = E.buf /\ F.length = E.length /\ F.said = E.said /\ F.body = E.body
      /\ F.sent = E.sent /\ F.out = E.out /\ F.closed = E.closed
      /\ found => F.good = E.good /\ F.at = E.at + 1
      /\ ~found => F.good = FALSE /\ F.at = LastAt(e)
  <2>1. CASE found
    <3> DEFINE X == [E EXCEPT !.at = E.at + 1]
    <3>1. end' = [end EXCEPT ![e] = X]
      BY <2>1 DEF Open
    <3>2. X \in EndType
      BY <1>2 DEF EndType
    <3>3. /\ X.buf = E.buf /\ X.length = E.length /\ X.said = E.said /\ X.body = E.body
          /\ X.sent = E.sent /\ X.out = E.out /\ X.closed = E.closed
          /\ X.good = E.good /\ X.at = E.at + 1
      BY <1>2 DEF EndType
    <3> HIDE DEF X
    <3>4. F = X /\ end'[Other(e)] = end[Other(e)] /\ end' \in [Ends -> EndType]
      BY <3>1, <3>2, Becomes
    <3>5. QED
      BY <2>1, <3>3, <3>4
  <2>2. CASE ~found
    <3> DEFINE X == [E EXCEPT !.good = FALSE, !.at = LastAt(e)]
    <3>1. end' = [end EXCEPT ![e] = X]
      BY <1>1, <2>2 DEF Open
    <3>2. X \in EndType
      BY <1>2, <1>5 DEF EndType
    <3>3. /\ X.buf = E.buf /\ X.length = E.length /\ X.said = E.said /\ X.body = E.body
          /\ X.sent = E.sent /\ X.out = E.out /\ X.closed = E.closed
          /\ X.good = FALSE /\ X.at = LastAt(e)
      BY <1>2 DEF EndType
    <3> HIDE DEF X
    <3>4. F = X /\ end'[Other(e)] = end[Other(e)] /\ end' \in [Ends -> EndType]
      BY <3>1, <3>2, Becomes
    <3>5. QED
      BY <2>2, <3>3, <3>4
  <2>3. QED
    BY <2>1, <2>2
<1> HIDE DEF E, F, found
<1>11. KeepsOther(e)
  BY <1>6, <1>7 DEF KeepsOther, E, F
<1>12. Types'
  BY <1>6, <1>7 DEF Types, WireInv
<1>13. /\ Source' = Source /\ Readable' = Readable /\ Bodied(e)' = Bodied(e)
       /\ WriteAt(e)' = WriteAt(e) /\ HearAt(e)' = HearAt(e)
       /\ CloseAt(e)' = CloseAt(e) /\ LastAt(e)' = LastAt(e)
  BY <1>6, Fixed
<1>14. EndOK(e)'
  <2>1. Within(e)'
    <3>1. Within(e)
      BY <1>1 DEF EndOK
    <3>2. F.at \in 1 .. LastAt(e)
      BY <1>3, <1>5, <1>7
    <3>3. QED
      BY <1>7, <1>13, <3>1, <3>2 DEF Within, Working, Wanted, E, F
  <2>2. Course(e)'
    <3>1. Course(e)
      BY <1>1 DEF EndOK
    <3>2. F.at > E.at
      BY <1>3, <1>5, <1>7
    <3>3. QED
      BY <1>3, <1>4, <1>5, <1>6, <1>7, <1>13, <3>1, <3>2 DEF Course, E, F
  <2>3. Outcome(e)'
    BY <1>1, <1>2, <1>3, <1>5, <1>6, <1>7, <1>13 DEF EndOK, Outcome, E, F
  <2>4. QED
    BY <2>1, <2>2, <2>3 DEF EndOK
<1>15. StreamOK(e)'
  BY <1>1, <1>3, <1>6, <1>7, <1>11, AsReceiver DEF E, F
<1>16. StreamOK(Other(e))'
  <2>1. Other(e) \in Ends
    BY Others
  <2>2. /\ E.at > WriteAt(e) => F.at > WriteAt(e)
        /\ ~(E.at = LastAt(e))
    BY <1>3, PlaceTable
  <2>3. F.at <= WriteAt(e) \/ (F.at = LastAt(e) /\ ~F.good)
    BY <1>3, <1>7, PlaceTable
  <2>4. QED
    BY <1>1, <1>6, <1>7, <1>11, <2>1, <2>2, <2>3, AsSender DEF E, F
<1>17. KeptWhole'
  BY <1>6, KeptStays DEF WireInv
<1>18. QED
  BY <1>1, <1>6, <1>11, <1>12, <1>14, <1>15, <1>16, <1>17, StepKeeps

\* A step that fails resets the stream, and does nothing else.
LEMMA ResetKeeps ==
    ASSUME WireInv, NEW e \in Ends, ResetAt(e), UNCHANGED <<proto, disk, in, eof, kept>>,
           trouble' = TRUE
    PROVE  WireInv'
<1> DEFINE E == end[e]
           F == end'[e]
           X == [E EXCEPT !.out = "failed", !.closed = TRUE]
<1>1. /\ EndOK(e) /\ StreamOK(e) /\ StreamOK(Other(e)) /\ Other(e) \in Ends
      /\ end \in [Ends -> EndType]
  BY EndFacts
<1>2. /\ E \in EndType
      /\ E.at \in Nat /\ E.buf \in Seq(Cell) /\ E.length \in Nat \cup {Nothing}
      /\ E.said \in MessageType \cup {Nothing} /\ E.body \in Seq(Cell) /\ E.sent \in Nat
      /\ E.good \in BOOLEAN /\ E.out \in {"on", "ok", "failed"} /\ E.closed \in BOOLEAN
  BY EndFields
<1>3. end' = [end EXCEPT ![e] = X] /\ reset' = TRUE
  BY <1>1 DEF ResetAt
<1>4. /\ X \in EndType
      /\ X.buf = E.buf /\ X.length = E.length /\ X.said = E.said /\ X.body = E.body
      /\ X.sent = E.sent /\ X.good = E.good /\ X.at = E.at
      /\ X.out = "failed" /\ X.closed = TRUE
  BY <1>2 DEF EndType
<1> HIDE DEF X
<1>5. F = X /\ end'[Other(e)] = end[Other(e)] /\ end' \in [Ends -> EndType]
  BY <1>3, <1>4, Becomes
<1>6. /\ F.buf = E.buf /\ F.length = E.length /\ F.said = E.said /\ F.body = E.body
      /\ F.sent = E.sent /\ F.good = E.good /\ F.at = E.at
      /\ F.out = "failed" /\ F.closed = TRUE
  BY <1>4, <1>5
<1> HIDE DEF E, F
<1>7. KeepsOther(e)
  BY <1>5, <1>6 DEF KeepsOther, E, F
<1>8. Types'
  BY <1>3, <1>5 DEF Types, WireInv
<1>9. /\ Source' = Source /\ Readable' = Readable /\ Bodied(e)' = Bodied(e)
      /\ WriteAt(e)' = WriteAt(e) /\ HearAt(e)' = HearAt(e)
      /\ CloseAt(e)' = CloseAt(e) /\ LastAt(e)' = LastAt(e)
  BY Fixed
<1>10. EndOK(e)'
  <2>1. Within(e)'
    BY <1>1, <1>6, <1>9 DEF EndOK, Within, Working, Wanted, E, F
  <2>2. Course(e)'
    BY <1>1, <1>6, <1>9 DEF EndOK, Course, E, F
  <2>3. Outcome(e)'
    BY <1>1, <1>5, <1>6, <1>9 DEF EndOK, Outcome, E, F
  <2>4. QED
    BY <2>1, <2>2, <2>3 DEF EndOK
<1>11. StreamOK(e)'
  BY <1>1, <1>6, <1>7, AsReceiver DEF E, F
<1>12. StreamOK(Other(e))'
  BY <1>1, <1>6, <1>7, AsSender DEF E, F
<1>13. KeptWhole'
  BY KeptStays DEF WireInv
<1>14. QED
  BY <1>7, <1>8, <1>10, <1>11, <1>12, <1>13, StepKeeps

LEMMA CloseWriteKeeps ==
    ASSUME WireInv, NEW e \in Ends, CloseWrite(e)
    PROVE  WireInv'
<1> DEFINE E == end[e]
           F == end'[e]
           X == [E EXCEPT !.at = E.at + 1]
<1>1. /\ EndOK(e) /\ StreamOK(e) /\ StreamOK(Other(e)) /\ Other(e) \in Ends /\ Other(e) # e
      /\ end \in [Ends -> EndType] /\ eof \in [Ends -> BOOLEAN] /\ (reset => trouble)
      /\ proto \in Protocols
  BY EndFacts
<1>2. /\ E \in EndType
      /\ E.at \in Nat /\ E.buf \in Seq(Cell) /\ E.length \in Nat \cup {Nothing}
      /\ E.said \in MessageType \cup {Nothing} /\ E.body \in Seq(Cell) /\ E.sent \in Nat
      /\ E.good \in BOOLEAN /\ E.out \in {"on", "ok", "failed"} /\ E.closed \in BOOLEAN
  BY EndFields
<1>3. /\ end' = [end EXCEPT ![e] = X]
      /\ eof' = [eof EXCEPT ![Other(e)] = TRUE]
      /\ UNCHANGED <<proto, disk, in, reset, kept, trouble>>
  BY <1>1 DEF CloseWrite
<1>4. /\ X \in EndType
      /\ X.buf = E.buf /\ X.length = E.length /\ X.said = E.said /\ X.body = E.body
      /\ X.sent = E.sent /\ X.good = E.good /\ X.at = E.at + 1
      /\ X.out = E.out /\ X.closed = E.closed
  BY <1>2 DEF EndType
<1> HIDE DEF X
<1>5. F = X /\ end'[Other(e)] = end[Other(e)] /\ end' \in [Ends -> EndType]
  BY <1>3, <1>4, Becomes
<1>6. /\ F.buf = E.buf /\ F.length = E.length /\ F.said = E.said /\ F.body = E.body
      /\ F.sent = E.sent /\ F.good = E.good /\ F.at = E.at + 1
      /\ F.out = E.out /\ F.closed = E.closed
  BY <1>4, <1>5
<1>7. E.at = CloseAt(e) /\ (Bodied(e) \/ e = "client") /\ E.out = "on"
  BY <1>1, Places DEF CloseWrite, At, Working
<1>8. /\ WriteAt(e) \in Nat /\ WriteAt(e) < CloseAt(e) /\ CloseAt(e) < LastAt(e)
      /\ CloseAt(e) \in Nat /\ LastAt(e) \in Nat /\ HearAt(e) \in Nat
      /\ Bodied(e) => WriteAt(e) + 1 < CloseAt(e)
      /\ ~Bodied(e) => CloseAt(e) < HearAt(e)
      /\ e = "client" => CloseAt(e) < HearAt(e) /\ HearAt(e) < LastAt(e)
      /\ e # "client" => HearAt(e) < CloseAt(e)
  BY <1>7, PlaceTable
<1> HIDE DEF E, F
<1>9. KeepsOther(e)
  BY <1>1, <1>3, <1>5, <1>6 DEF KeepsOther, E, F
<1>10. Types'
  BY <1>1, <1>3, <1>5 DEF Types, WireInv
<1>11. /\ Source' = Source /\ Readable' = Readable /\ Bodied(e)' = Bodied(e)
       /\ WriteAt(e)' = WriteAt(e) /\ HearAt(e)' = HearAt(e)
       /\ CloseAt(e)' = CloseAt(e) /\ LastAt(e)' = LastAt(e)
  BY <1>3, Fixed
<1>12. EndOK(e)'
  <2>1. Within(e)'
    <3>1. Within(e)
      BY <1>1 DEF EndOK
    <3>2. F.at \in 1 .. LastAt(e)
      BY <1>2, <1>6, <1>7, <1>8
    <3>3. QED
      BY <1>6, <1>11, <3>1, <3>2 DEF Within, Working, Wanted, E, F
  <2>2. Course(e)'
    BY <1>1, <1>2, <1>3, <1>6, <1>7, <1>8, <1>11 DEF EndOK, Course, E, F
  <2>3. Outcome(e)'
    BY <1>1, <1>2, <1>3, <1>5, <1>6, <1>7, <1>8, <1>11 DEF EndOK, Outcome, E, F
  <2>4. QED
    BY <2>1, <2>2, <2>3 DEF EndOK
<1>13. StreamOK(e)'
  BY <1>1, <1>2, <1>3, <1>6, <1>7, <1>8, <1>9, AsReceiver DEF E, F
<1>14. StreamOK(Other(e))'
  <2>1. E.at > WriteAt(e) /\ F.at > WriteAt(e) /\ E.at # LastAt(e)
    BY <1>2, <1>6, <1>7, <1>8
  <2>2. ~(E.at <= WriteAt(e))
    BY <1>2, <1>8, <2>1
  <2>3. QED
    BY <1>1, <1>3, <1>6, <1>9, <2>1, <2>2, AsSender DEF E, F
<1>15. KeptWhole'
  BY <1>3, KeptStays DEF WireInv
<1>16. QED
  BY <1>1, <1>3, <1>9, <1>10, <1>12, <1>13, <1>14, <1>15, StepKeeps

LEMMA ReturnKeeps ==
    ASSUME WireInv, NEW e \in Ends, Return(e)
    PROVE  WireInv'
<1> DEFINE E == end[e]
           F == end'[e]
           X == [E EXCEPT !.out = IF E.good THEN "ok" ELSE "failed", !.closed = TRUE]
<1>1. /\ EndOK(e) /\ StreamOK(e) /\ StreamOK(Other(e)) /\ Other(e) \in Ends /\ Other(e) # e
      /\ end \in [Ends -> EndType] /\ eof \in [Ends -> BOOLEAN] /\ (reset => trouble)
      /\ Last(e) = LastAt(e)
  BY EndFacts
<1>2. /\ E \in EndType
      /\ E.at \in Nat /\ E.buf \in Seq(Cell) /\ E.length \in Nat \cup {Nothing}
      /\ E.said \in MessageType \cup {Nothing} /\ E.body \in Seq(Cell) /\ E.sent \in Nat
      /\ E.good \in BOOLEAN /\ E.out \in {"on", "ok", "failed"} /\ E.closed \in BOOLEAN
  BY EndFields
<1>3. /\ end' = [end EXCEPT ![e] = X]
      /\ eof' = [eof EXCEPT ![Other(e)] = TRUE]
      /\ UNCHANGED <<proto, disk, in, reset, kept, trouble>>
      /\ E.at = LastAt(e) /\ E.out = "on"
  BY <1>1 DEF Return, Working
<1>4. /\ X \in EndType
      /\ X.buf = E.buf /\ X.length = E.length /\ X.said = E.said /\ X.body = E.body
      /\ X.sent = E.sent /\ X.good = E.good /\ X.at = E.at
      /\ X.out = (IF E.good THEN "ok" ELSE "failed") /\ X.closed = TRUE
  BY <1>2 DEF EndType
<1> HIDE DEF X
<1>5. F = X /\ end'[Other(e)] = end[Other(e)] /\ end' \in [Ends -> EndType]
  BY <1>3, <1>4, Becomes
<1>6. /\ F.buf = E.buf /\ F.length = E.length /\ F.said = E.said /\ F.body = E.body
      /\ F.sent = E.sent /\ F.good = E.good /\ F.at = E.at
      /\ F.out = (IF E.good THEN "ok" ELSE "failed") /\ F.closed = TRUE
  BY <1>4, <1>5
<1>7. CloseAt(e) < LastAt(e) /\ LastAt(e) \in Nat /\ CloseAt(e) \in Nat
  BY PlaceTable
<1> HIDE DEF E, F
<1>8. KeepsOther(e)
  BY <1>1, <1>3, <1>5, <1>6 DEF KeepsOther, E, F
<1>9. Types'
  BY <1>1, <1>3, <1>5 DEF Types, WireInv
<1>10. /\ Source' = Source /\ Readable' = Readable /\ Bodied(e)' = Bodied(e)
       /\ WriteAt(e)' = WriteAt(e) /\ HearAt(e)' = HearAt(e)
       /\ CloseAt(e)' = CloseAt(e) /\ LastAt(e)' = LastAt(e)
  BY <1>3, Fixed
<1>11. EndOK(e)'
  <2>1. Within(e)'
    BY <1>1, <1>6, <1>10 DEF EndOK, Within, Working, Wanted, E, F
  <2>2. Course(e)'
    BY <1>1, <1>3, <1>6, <1>7, <1>10 DEF EndOK, Course, E, F
  <2>3. Outcome(e)'
    BY <1>1, <1>3, <1>5, <1>6, <1>10 DEF EndOK, Outcome, E, F
  <2>4. QED
    BY <2>1, <2>2, <2>3 DEF EndOK
<1>12. StreamOK(e)'
  BY <1>1, <1>3, <1>6, <1>8, AsReceiver DEF E, F
<1>13. StreamOK(Other(e))'
  BY <1>1, <1>3, <1>6, <1>8, AsSender DEF E, F
<1>14. KeptWhole'
  BY <1>3, KeptStays DEF WireInv
<1>15. QED
  BY <1>1, <1>3, <1>8, <1>9, <1>11, <1>12, <1>13, <1>14, StepKeeps

LEMMA BreakKeeps ==
    ASSUME WireInv, Break
    PROVE  WireInv'
<1>1. /\ reset' = TRUE /\ trouble' = TRUE
      /\ UNCHANGED <<proto, disk, in, eof, end, kept>>
  BY DEF Break
<1>2. ASSUME NEW e \in Ends
      PROVE  KeepsOther(e)
  BY <1>1 DEF KeepsOther
<1>3. ASSUME NEW e \in Ends
      PROVE  EndOK(e)' /\ StreamOK(e)'
  <2>1. /\ Other(e) \in Ends /\ Other(Other(e)) = e
        /\ EndOK(e) /\ StreamOK(e)
    BY Others, EndFacts
  <2>2. KeepsOther(e) /\ KeepsOther(Other(e))
    BY <1>2, <2>1
  <2>3. EndOK(e)'
    <3> DEFINE f == Other(e)
    <3>1. f \in Ends /\ KeepsOther(f) /\ Other(f) = e
      BY <2>1, <2>2
    <3> HIDE DEF f
    <3>2. EndOK(Other(f))'
      BY <2>1, <3>1, OtherStaysOK
    <3>3. QED
      BY <3>1, <3>2
  <2>4. StreamOK(e)'
    BY <1>1, <2>1, <2>2, AsReceiver
  <2>5. QED
    BY <2>3, <2>4
<1>4. Types' /\ KeptWhole'
  BY <1>1, KeptStays DEF WireInv, Types
<1>5. QED
  BY <1>1, <1>3, <1>4 DEF WireInv

\* A Write on a stream whose other end has returned fails only when that one has
\* failed: one that has succeeded has had everything.
LEMMA FailKeeps ==
    ASSUME WireInv, NEW e \in Ends, Fail(e)
    PROVE  WireInv'
<1> DEFINE f == Other(e)
<1>1. /\ f \in Ends /\ Other(f) = e /\ EndOK(e) /\ EndOK(f) /\ (reset => trouble)
      /\ proto \in Protocols /\ trouble \in BOOLEAN
      /\ (Bodied(f) <=> ~Bodied(e))
  BY EndFacts, Others
<1>2. ResetAt(e) /\ UNCHANGED <<proto, disk, in, eof, kept, trouble>>
      /\ (reset \/ (At(e, "send") /\ end[e].sent < Len(Source) /\ end[f].closed))
  BY DEF Fail
<1> HIDE DEF f
<1>3. CASE reset
  BY <1>1, <1>2, <1>3, ResetKeeps
<1>4. CASE At(e, "send") /\ end[e].sent < Len(Source) /\ end[f].closed
  <2>1. Bodied(e) /\ end[e].at = WriteAt(e) + 1
    BY <1>1, <1>4, Places
  <2>2. end[f].out # "on"
    BY <1>1, <1>4 DEF EndOK, Within, Working
  <2>3. end[f].out \in {"on", "ok", "failed"}
    BY <1>1, EndFields
  <2>4. CASE end[f].out = "failed"
    <3>1. trouble
      BY <1>1, <2>4 DEF EndOK, Outcome
    <3>2. QED
      BY <1>1, <1>2, <3>1, ResetKeeps
  <2>5. CASE end[f].out = "ok"
    <3>1. end[f].at = LastAt(f) /\ end[f].good
      BY <1>1, <2>5 DEF EndOK, Outcome
    <3>2. ~Bodied(f) /\ end[f].at > HearAt(f) + 1
      BY <1>1, <2>1, <3>1, PlaceTable
    <3>3. Readable /\ (trouble \/ end[e].sent = Len(Source))
      BY <1>1, <3>1, <3>2 DEF EndOK, Outcome
    <3>4. Len(Source) \in Nat
      <4>1. disk \in Files
        BY EndFacts
      <4>2. Source \in Seq(BlobCell)
        BY <1>1, <3>3, <4>1, SourceOpens
      <4>3. QED
        BY <4>2, LenProperties
    <3>5. trouble
      BY <1>4, <3>3, <3>4
    <3>6. QED
      BY <1>1, <1>2, <3>5, ResetKeeps
  <2>6. QED
    BY <2>2, <2>3, <2>4, <2>5
<1>5. QED
  BY <1>2, <1>3, <1>4

-----------------------------------------------------------------------------
(* Reading.                                                                *)
(***************************************************************************)
LEMMA ComingCells ==
    ASSUME WireInv, NEW s \in Ends
    PROVE  /\ Coming(s) \in Seq(Cell)
           /\ Len(Coming(s)) = end[s].sent
           /\ end[s].sent # 0 => Bodied(s) /\ Readable /\ end[s].sent <= Len(Source)
           /\ Readable => /\ Announced <= Len(Source) /\ Len(Source) \in Nat
                          /\ ~Cut => Announced = Len(Source)
           /\ Announced \in Nat
<1>1. /\ EndOK(s) /\ end[s].sent \in Nat
      /\ proto \in Protocols /\ disk \in Files
  BY EndFacts, EndFields
<1>2. end[s].sent # 0 => Bodied(s) /\ Readable /\ end[s].sent <= Len(Source)
  BY <1>1 DEF EndOK, Within
<1>3. /\ Readable => /\ Source \in Seq(BlobCell) /\ Announced <= Len(Source)
                     /\ Len(Source) \in Nat
                     /\ ~Cut => Announced = Len(Source)
      /\ Announced \in Nat
  BY <1>1, SourceOpens, LenProperties
<1>4. CASE end[s].sent = 0
  <2>1. Coming(s) = <<>>
    BY <1>4 DEF Coming, FirstOf
  <2>2. <<>> \in Seq(Cell) /\ Len(<<>>) = 0
    BY EmptySeq
  <2>3. QED
    BY <1>2, <1>3, <1>4, <2>1, <2>2
<1>5. CASE end[s].sent # 0
  <2>1. Source \in Seq(BlobCell) /\ Len(Source) \in Nat
    BY <1>2, <1>3, <1>5
  <2>2. end[s].sent \in 0 .. Len(Source)
    BY <1>1, <1>2, <1>5, <2>1
  <2>3. Coming(s) \in Seq(BlobCell) /\ Len(Coming(s)) = end[s].sent
    BY <2>1, <2>2, FirstOfSeq DEF Coming
  <2>4. QED
    BY <1>2, <1>3, <2>3, BlobCells
<1>6. QED
  BY <1>4, <1>5

\* Each Read takes from the front what the message still wants, and puts it at the
\* end of the buffer.
LEMMA ReadFullKeeps ==
    ASSUME WireInv, NEW e \in Ends, ReadFull(e)
    PROVE  WireInv'
<1> DEFINE E == end[e]
           F == end'[e]
<1>1. /\ EndOK(e) /\ StreamOK(e) /\ StreamOK(Other(e)) /\ Other(e) \in Ends /\ Other(e) # e
      /\ end \in [Ends -> EndType] /\ in \in [Ends -> Seq(Cell)] /\ (reset => trouble)
      /\ proto \in Protocols
  BY EndFacts
<1>2. /\ E \in EndType
      /\ E.at \in Nat /\ E.buf \in Seq(Cell) /\ E.length \in Nat \cup {Nothing}
      /\ E.said \in MessageType \cup {Nothing} /\ E.body \in Seq(Cell) /\ E.sent \in Nat
      /\ E.good \in BOOLEAN /\ E.out \in {"on", "ok", "failed"} /\ E.closed \in BOOLEAN
  BY EndFields
<1>3. PICK k \in 1 .. Len(in[e]) :
        /\ k <= Wanted(e) - Len(E.buf)
        /\ end' = [end EXCEPT ![e].buf = @ \o SubSeq(in[e], 1, k)]
        /\ in' = [in EXCEPT ![e] = SubSeq(@, k + 1, Len(@))]
  BY DEF ReadFull, ReadSome, EndType
<1>4. /\ UNCHANGED <<proto, disk, eof, reset, kept, trouble>>
      /\ E.at = HearAt(e)
  BY <1>1, Places DEF ReadFull
<1> DEFINE b == Cat(E.buf, SubSeq(in[e], 1, k))
           r == SubSeq(in[e], k + 1, Len(in[e]))
           X == [E EXCEPT !.buf = b]
<1>5. in[e] \in Seq(Cell)
  BY <1>1
<1>6. b \in Seq(Cell) /\ r \in Seq(Cell) /\ Len(b) = Len(E.buf) + k /\ Cat(b, r) = Cat(E.buf, in[e])
  <2> DEFINE a == E.buf
             s == in[e]
  <2>1. a \in Seq(Cell) /\ s \in Seq(Cell) /\ k \in 1 .. Len(s)
    BY <1>2, <1>5
  <2> HIDE DEF a, s
  <2>2. /\ Cat(a, SubSeq(s, 1, k)) \in Seq(Cell)
        /\ SubSeq(s, k + 1, Len(s)) \in Seq(Cell)
        /\ Len(Cat(a, SubSeq(s, 1, k))) = Len(a) + k
        /\ Cat(Cat(a, SubSeq(s, 1, k)), SubSeq(s, k + 1, Len(s))) = Cat(a, s)
    BY <2>1, ReadOn
  <2>3. QED
    BY <2>2, Zenon DEF a, s
<1>7. end' = [end EXCEPT ![e] = X] /\ in' = [in EXCEPT ![e] = r]
  BY <1>3 DEF Cat
<1> HIDE DEF b, r
<1>8. /\ X \in EndType
      /\ X.buf = b /\ X.length = E.length /\ X.said = E.said /\ X.body = E.body
      /\ X.sent = E.sent /\ X.good = E.good /\ X.at = E.at
      /\ X.out = E.out /\ X.closed = E.closed
  BY <1>2, <1>6 DEF EndType
<1> HIDE DEF X
<1>9. F = X /\ end'[Other(e)] = end[Other(e)] /\ end' \in [Ends -> EndType]
  BY <1>7, <1>8, Becomes
<1>10. /\ F.buf = b /\ F.length = E.length /\ F.said = E.said /\ F.body = E.body
       /\ F.sent = E.sent /\ F.good = E.good /\ F.at = E.at
       /\ F.out = E.out /\ F.closed = E.closed
  BY <1>8, <1>9
<1>11. in'[e] = r /\ in'[Other(e)] = in[Other(e)] /\ in' \in [Ends -> Seq(Cell)]
  BY <1>1, <1>6, <1>7
<1> HIDE DEF E, F
<1>12. KeepsOther(e)
  BY <1>4, <1>9, <1>10 DEF KeepsOther, E, F
<1>13. Types'
  BY <1>4, <1>9, <1>11 DEF Types, WireInv
<1>14. /\ Source' = Source /\ Readable' = Readable /\ Bodied(e)' = Bodied(e)
       /\ WriteAt(e)' = WriteAt(e) /\ HearAt(e)' = HearAt(e)
       /\ CloseAt(e)' = CloseAt(e) /\ LastAt(e)' = LastAt(e)
  BY <1>4, Fixed
<1>15. EndOK(e)'
  <2>1. Within(e)'
    <3>1. Within(e)
      BY <1>1 DEF EndOK
    <3>2. Wanted(e)' = Wanted(e)
      BY <1>10 DEF Wanted, E, F
    <3>3. Wanted(e) \in Nat /\ Len(E.buf) \in Nat
      <4>1. lengthPrefixSize \in Nat
        BY DEF lengthPrefixSize
      <4>2. Len(E.buf) \in Nat
        BY <1>2, LenProperties
      <4>3. QED
        BY <1>2, <4>1, <4>2 DEF Wanted, E
    <3>4. Len(F.buf) <= Wanted(e)
      BY <1>3, <1>6, <1>10, <3>3
    <3>5. QED
      BY <1>10, <1>14, <3>1, <3>2, <3>4 DEF Within, Working, E, F
  <2>2. Course(e)'
    BY <1>1, <1>4, <1>10, <1>14 DEF EndOK, Course, E, F
  <2>3. Outcome(e)'
    BY <1>1, <1>4, <1>9, <1>10, <1>14 DEF EndOK, Outcome, E, F
  <2>4. QED
    BY <2>1, <2>2, <2>3 DEF EndOK
<1>16. StreamOK(e)'
  <2>1. E.said = Nothing
    BY <1>1, <1>4, PlaceTable DEF EndOK, Course, E
  <2>2. ~Silent(e)
    <3>1. in[e] # <<>>
      BY <1>3, <1>5, EmptySeq
    <3>2. QED
      BY <3>1 DEF Silent
  <2>3. PICK m \in MessageType, len \in 1 .. MaxHeaderBytes : Spoken(e, m, len)
    BY <1>1, <2>2 DEF StreamOK
  <2>4. ~Heard(e, m)
    BY <2>1, NothingAssumption DEF Heard, E
  <2>5. Coming(Other(e))' = Coming(Other(e))
    BY <1>9, <1>14 DEF Coming
  <2>6. Framed(e, m, len) => Framed(e, m, len)'
    BY <1>6, <1>10, <1>11, <2>5 DEF Framed, E, F
  <2>7. Prefixed(e, m, len) => Prefixed(e, m, len)'
    BY <1>6, <1>10, <1>11, <2>5 DEF Prefixed, E, F
  <2>8. end'[Other(e)].at > WriteAt(Other(e))' /\ Says(Other(e), m)'
    <3>1. WriteAt(Other(e))' = WriteAt(Other(e))
      BY <1>1, <1>4, Fixed
    <3>2. end[Other(e)].at > WriteAt(Other(e)) /\ Says(Other(e), m)
      BY <2>3 DEF Spoken
    <3>3. QED
      BY <1>1, <1>9, <1>12, <3>1, <3>2, StillSays
  <2>9. Spoken(e, m, len)'
    BY <2>3, <2>4, <2>6, <2>7, <2>8 DEF Spoken
  <2>10. QED
    BY <2>9 DEF StreamOK
<1>17. StreamOK(Other(e))'
  BY <1>1, <1>10, <1>11, <1>12, AsSender DEF E, F
<1>18. KeptWhole'
  BY <1>4, KeptStays DEF WireInv
<1>19. QED
  BY <1>1, <1>4, <1>12, <1>13, <1>15, <1>16, <1>17, <1>18, StepKeeps

\* A Read of the body, no further than the message has said.
LEMMA TakeKeeps ==
    ASSUME WireInv, NEW e \in Ends, Take(e)
    PROVE  WireInv'
<1> DEFINE E == end[e]
           F == end'[e]
<1>1. /\ EndOK(e) /\ StreamOK(e) /\ StreamOK(Other(e)) /\ Other(e) \in Ends /\ Other(e) # e
      /\ end \in [Ends -> EndType] /\ in \in [Ends -> Seq(Cell)] /\ (reset => trouble)
      /\ proto \in Protocols
  BY EndFacts
<1>2. /\ E \in EndType
      /\ E.at \in Nat /\ E.buf \in Seq(Cell) /\ E.length \in Nat \cup {Nothing}
      /\ E.said \in MessageType \cup {Nothing} /\ E.body \in Seq(Cell) /\ E.sent \in Nat
      /\ E.good \in BOOLEAN /\ E.out \in {"on", "ok", "failed"} /\ E.closed \in BOOLEAN
  BY EndFields
<1>3. PICK k \in 1 .. Len(in[e]) :
        /\ k <= E.said.bytes - Len(E.body)
        /\ end' = [end EXCEPT ![e].body = @ \o SubSeq(in[e], 1, k)]
        /\ in' = [in EXCEPT ![e] = SubSeq(@, k + 1, Len(@))]
  BY DEF Take, ReadSome, EndType
<1>4. /\ UNCHANGED <<proto, disk, eof, reset, kept, trouble>>
      /\ ~Bodied(e) /\ E.at = HearAt(e) + 1
  BY <1>1, Places DEF Take
<1> DEFINE b == Cat(E.body, SubSeq(in[e], 1, k))
           r == SubSeq(in[e], k + 1, Len(in[e]))
           X == [E EXCEPT !.body = b]
<1>5. in[e] \in Seq(Cell)
  BY <1>1
<1>6. b \in Seq(Cell) /\ r \in Seq(Cell) /\ Len(b) = Len(E.body) + k /\ Cat(b, r) = Cat(E.body, in[e])
  <2> DEFINE a == E.body
             s == in[e]
  <2>1. a \in Seq(Cell) /\ s \in Seq(Cell) /\ k \in 1 .. Len(s)
    BY <1>2, <1>5
  <2> HIDE DEF a, s
  <2>2. /\ Cat(a, SubSeq(s, 1, k)) \in Seq(Cell)
        /\ SubSeq(s, k + 1, Len(s)) \in Seq(Cell)
        /\ Len(Cat(a, SubSeq(s, 1, k))) = Len(a) + k
        /\ Cat(Cat(a, SubSeq(s, 1, k)), SubSeq(s, k + 1, Len(s))) = Cat(a, s)
    BY <2>1, ReadOn
  <2>3. QED
    BY <2>2, Zenon DEF a, s
<1>7. end' = [end EXCEPT ![e] = X] /\ in' = [in EXCEPT ![e] = r]
  BY <1>3 DEF Cat
<1> HIDE DEF b, r
<1>8. /\ X \in EndType
      /\ X.buf = E.buf /\ X.length = E.length /\ X.said = E.said /\ X.body = b
      /\ X.sent = E.sent /\ X.good = E.good /\ X.at = E.at
      /\ X.out = E.out /\ X.closed = E.closed
  BY <1>2, <1>6 DEF EndType
<1> HIDE DEF X
<1>9. F = X /\ end'[Other(e)] = end[Other(e)] /\ end' \in [Ends -> EndType]
  BY <1>7, <1>8, Becomes
<1>10. /\ F.buf = E.buf /\ F.length = E.length /\ F.said = E.said /\ F.body = b
       /\ F.sent = E.sent /\ F.good = E.good /\ F.at = E.at
       /\ F.out = E.out /\ F.closed = E.closed
  BY <1>8, <1>9
<1>11. in'[e] = r /\ in'[Other(e)] = in[Other(e)] /\ in' \in [Ends -> Seq(Cell)]
  BY <1>1, <1>6, <1>7
<1> HIDE DEF E, F
<1>12. KeepsOther(e)
  BY <1>4, <1>9, <1>10 DEF KeepsOther, E, F
<1>13. Types'
  BY <1>4, <1>9, <1>11 DEF Types, WireInv
<1>14. /\ Source' = Source /\ Readable' = Readable /\ Bodied(e)' = Bodied(e)
       /\ WriteAt(e)' = WriteAt(e) /\ HearAt(e)' = HearAt(e)
       /\ CloseAt(e)' = CloseAt(e) /\ LastAt(e)' = LastAt(e)
  BY <1>4, Fixed
<1>15. E.said # Nothing /\ E.said \in MessageType
  BY <1>1, <1>2, <1>4 DEF EndOK, Course, E
<1>16. EndOK(e)'
  <2>1. Within(e)'
    <3>1. Within(e)
      BY <1>1 DEF EndOK
    <3>2. E.said.bytes \in Nat /\ Len(E.body) \in Nat
      BY <1>2, <1>15, LenProperties DEF MessageType
    <3>3. Len(F.body) <= E.said.bytes
      BY <1>3, <1>6, <1>10, <3>2
    <3>4. QED
      BY <1>10, <1>14, <1>15, <3>1, <3>3 DEF Within, Working, Wanted, E, F
  <2>2. Course(e)'
    BY <1>1, <1>4, <1>10, <1>14 DEF EndOK, Course, E, F
  <2>3. Outcome(e)'
    BY <1>1, <1>4, <1>9, <1>10, <1>14 DEF EndOK, Outcome, E, F
  <2>4. QED
    BY <2>1, <2>2, <2>3 DEF EndOK
<1>17. StreamOK(e)'
  <2>1. PICK m \in MessageType, len \in 1 .. MaxHeaderBytes : Spoken(e, m, len)
    BY <1>1, <1>15 DEF StreamOK, Silent, E
  <2>2. Heard(e, m)
    BY <1>15, <2>1 DEF Spoken, Framed, Prefixed, E
  <2>3. Coming(Other(e))' = Coming(Other(e))
    BY <1>9, <1>14 DEF Coming
  <2>4. Heard(e, m)'
    BY <1>6, <1>10, <1>11, <1>14, <1>4, <2>2, <2>3 DEF Heard, E, F
  <2>5. end'[Other(e)].at > WriteAt(Other(e))' /\ Says(Other(e), m)'
    <3>1. WriteAt(Other(e))' = WriteAt(Other(e))
      BY <1>1, <1>4, Fixed
    <3>2. end[Other(e)].at > WriteAt(Other(e)) /\ Says(Other(e), m)
      BY <2>1 DEF Spoken
    <3>3. QED
      BY <1>1, <1>9, <1>12, <3>1, <3>2, StillSays
  <2>6. Spoken(e, m, len)'
    BY <2>4, <2>5 DEF Spoken
  <2>7. QED
    BY <2>6 DEF StreamOK
<1>18. StreamOK(Other(e))'
  BY <1>1, <1>10, <1>11, <1>12, AsSender DEF E, F
<1>19. KeptWhole'
  BY <1>4, KeptStays DEF WireInv
<1>20. QED
  BY <1>1, <1>4, <1>12, <1>13, <1>16, <1>17, <1>18, <1>19, StepKeeps

\* A full buffer holds what has been written, no more and no less: the prefix, and
\* then the message.
LEMMA BufferFull ==
    ASSUME WireInv, NEW e \in Ends, At(e, "hear")
    PROVE  /\ Len(end[e].buf) = Wanted(e) =>
                \E m \in MessageType, len \in 1 .. MaxHeaderBytes :
                    /\ end[Other(e)].at > WriteAt(Other(e)) /\ Says(Other(e), m)
                    /\ end[e].length = Nothing =>
                         /\ end[e].buf = PutUint32(len)
                         /\ in[e] = Cat(Json(m, len), Coming(Other(e)))
                    /\ end[e].length # Nothing =>
                         /\ end[e].buf = Json(m, len)
                         /\ in[e] = Coming(Other(e))
           /\ Len(end[e].buf) < Wanted(e) =>
                Silent(e) \/ in[e] # <<>>
<1> DEFINE E == end[e]
           c == Coming(Other(e))
           b == E.buf
           s == in[e]
<1>1. /\ EndOK(e) /\ StreamOK(e) /\ Other(e) \in Ends
      /\ in \in [Ends -> Seq(Cell)] /\ proto \in Protocols
  BY EndFacts
<1>2. E.buf \in Seq(Cell) /\ E.length \in Nat \cup {Nothing} /\ Len(E.buf) \in Nat
  BY EndFields, LenProperties
<1>3. E.at = HearAt(e)
  BY <1>1, Places
<1>4. E.said = Nothing
  BY <1>1, <1>3, PlaceTable DEF EndOK, Course
<1>5. c \in Seq(Cell) /\ s \in Seq(Cell) /\ b \in Seq(Cell)
  BY <1>1, <1>2, ComingCells
<1>6. CASE Silent(e)
  <2>1. b = <<>> /\ E.length = Nothing
    BY <1>6 DEF Silent
  <2>2. Len(b) = 0
    BY <2>1, EmptySeq
  <2>3. Wanted(e) = 4
    BY <2>1 DEF Wanted, lengthPrefixSize
  <2>4. QED
    BY <1>6, <2>2, <2>3
<1>7. ASSUME NEW m \in MessageType, NEW len \in 1 .. MaxHeaderBytes, Spoken(e, m, len)
      PROVE  /\ Len(b) = Wanted(e) =>
                    /\ end[Other(e)].at > WriteAt(Other(e)) /\ Says(Other(e), m)
                    /\ E.length = Nothing => b = PutUint32(len) /\ s = Cat(Json(m, len), c)
                    /\ E.length # Nothing => b = Json(m, len) /\ s = c
             /\ Len(b) < Wanted(e) => s # <<>>
  <2>1. Json(m, len) \in Seq(Cell) /\ Len(Json(m, len)) = len
    BY JsonDecodes
  <2>2. PutUint32(len) \in Seq(Cell) /\ Len(PutUint32(len)) = 4
    BY PrefixCells
  <2>3. Cat(Json(m, len), c) \in Seq(Cell)
    BY <1>5, <2>1, CatSeq
  <2>4. ~Heard(e, m)
    BY <1>4, NothingAssumption DEF Heard
  <2>5. CASE Framed(e, m, len)
    <3>1. E.length = Nothing /\ Cat(b, s) = Cat(PutUint32(len), Cat(Json(m, len), c))
      BY <2>5 DEF Framed
    <3>2. Wanted(e) = 4
      BY <3>1 DEF Wanted, lengthPrefixSize
    <3> HIDE DEF b, s, c, E
    <3>3. Len(b) = Wanted(e) => b = PutUint32(len) /\ s = Cat(Json(m, len), c)
      BY <1>5, <2>2, <2>3, <3>1, <3>2, SplitAt
    <3>4. Len(b) < Wanted(e) => s # <<>>
      BY <1>5, <2>2, <2>3, <3>1, <3>2, MoreToCome
    <3>5. QED
      BY <1>7, <3>1, <3>3, <3>4 DEF Spoken
  <2>6. CASE Prefixed(e, m, len)
    <3>1. E.length = len /\ Cat(b, s) = Cat(Json(m, len), c)
      BY <2>6 DEF Prefixed
    <3>2. E.length # Nothing
      BY <3>1, WireAssumption, NothingAssumption
    <3>3. Wanted(e) = len
      BY <3>1, <3>2 DEF Wanted
    <3> HIDE DEF b, s, c, E
    <3>4. Len(b) = Wanted(e) => b = Json(m, len) /\ s = c
      BY <1>5, <2>1, <3>1, <3>3, SplitAt
    <3>5. Len(b) < Wanted(e) => s # <<>>
      BY <1>5, <2>1, <3>1, <3>3, MoreToCome
    <3>6. QED
      BY <1>7, <3>2, <3>4, <3>5 DEF Spoken
  <2>7. QED
    BY <1>7, <2>4, <2>5, <2>6 DEF Spoken
<1>8. QED
  BY <1>1, <1>6, <1>7 DEF StreamOK

\* A stream that ends within a message is one whose other end had nothing to say.
LEMMA ReadEOFKeeps ==
    ASSUME WireInv, NEW e \in Ends, ReadEOF(e)
    PROVE  WireInv'
<1> DEFINE f == Other(e)
<1>1. /\ f \in Ends /\ Other(f) = e /\ EndOK(f) /\ trouble \in BOOLEAN
  BY EndFacts, Others
<1>2. /\ At(e, "hear") /\ Len(end[e].buf) < Wanted(e) /\ in[e] = <<>> /\ eof[e]
      /\ ResetAt(e) /\ UNCHANGED <<proto, disk, in, eof, kept, trouble>>
  BY DEF ReadEOF
<1>3. Silent(e)
  BY <1>2, BufferFull
<1> HIDE DEF f
<1>4. end[f].at <= WriteAt(f) \/ ~end[f].good
  BY <1>3 DEF Silent, f
<1>5. end[f].at > CloseAt(f) /\ end[f].at \in Nat
  BY <1>1, <1>2, EndFields DEF EndOK, Course
<1>6. WriteAt(f) <= CloseAt(f) /\ WriteAt(f) \in Nat /\ CloseAt(f) \in Nat
  BY <1>1, PlaceTable
<1>7. ~end[f].good
  BY <1>4, <1>5, <1>6
<1>8. trouble
  BY <1>1, <1>7 DEF EndOK, Outcome
<1>9. QED
  BY <1>1, <1>2, <1>8, ResetKeeps

\* The length that is read is the length that was written, and never too long.
LEMMA ReadPrefixKeeps ==
    ASSUME WireInv, NEW e \in Ends, ReadPrefix(e)
    PROVE  WireInv'
<1> DEFINE E == end[e]
           F == end'[e]
           c == Coming(Other(e))
<1>1. /\ EndOK(e) /\ StreamOK(e) /\ StreamOK(Other(e)) /\ Other(e) \in Ends /\ Other(e) # e
      /\ end \in [Ends -> EndType] /\ in \in [Ends -> Seq(Cell)] /\ (reset => trouble)
      /\ proto \in Protocols
  BY EndFacts
<1>2. /\ E \in EndType
      /\ E.at \in Nat /\ E.buf \in Seq(Cell) /\ E.length \in Nat \cup {Nothing}
      /\ E.said \in MessageType \cup {Nothing} /\ E.body \in Seq(Cell) /\ E.sent \in Nat
      /\ E.good \in BOOLEAN /\ E.out \in {"on", "ok", "failed"} /\ E.closed \in BOOLEAN
  BY EndFields
<1>3. At(e, "hear") /\ Len(E.buf) = Wanted(e) /\ E.length = Nothing
  BY DEF ReadPrefix, Filled
<1>4. E.at = HearAt(e)
  BY <1>1, <1>3, Places
<1>5. E.said = Nothing
  BY <1>1, <1>4, PlaceTable DEF EndOK, Course
<1>6. PICK m \in MessageType, len \in 1 .. MaxHeaderBytes :
        /\ end[Other(e)].at > WriteAt(Other(e)) /\ Says(Other(e), m)
        /\ E.buf = PutUint32(len)
        /\ in[e] = Cat(Json(m, len), c)
  BY <1>3, BufferFull
<1>7. len \in Nat /\ len <= MaxHeaderBytes /\ len # Nothing /\ MaxHeaderBytes \in Nat
  BY WireAssumption, NothingAssumption
<1>8. Uint32(E.buf) = len
  BY <1>6, <1>7, LengthCarried
<1> DEFINE X == [E EXCEPT !.length = len, !.buf = <<>>]
<1>9. /\ end' = [end EXCEPT ![e] = X]
      /\ UNCHANGED <<proto, disk, in, eof, reset, kept, trouble>>
  <2>1. ~(Uint32(E.buf) > MaxHeaderBytes)
    BY <1>7, <1>8
  <2>2. end' = [end EXCEPT ![e].length = Uint32(E.buf), ![e].buf = <<>>]
    BY <2>1 DEF ReadPrefix
  <2>3. UNCHANGED <<proto, disk, in, eof, reset, kept, trouble>>
    BY <2>1 DEF ReadPrefix
  <2>4. end' = [end EXCEPT ![e] = X]
    BY <1>1, <1>2, <1>8, <2>2
  <2>5. QED
    BY <2>3, <2>4
<1>10. <<>> \in Seq(Cell) /\ Len(<<>>) = 0
  BY EmptySeq
<1>11. /\ X \in EndType
       /\ X.buf = <<>> /\ X.length = len /\ X.said = E.said /\ X.body = E.body
       /\ X.sent = E.sent /\ X.good = E.good /\ X.at = E.at
       /\ X.out = E.out /\ X.closed = E.closed
  BY <1>2, <1>7, <1>10 DEF EndType
<1> HIDE DEF X
<1>12. F = X /\ end'[Other(e)] = end[Other(e)] /\ end' \in [Ends -> EndType]
  BY <1>9, <1>11, Becomes
<1>13. /\ F.buf = <<>> /\ F.length = len /\ F.said = E.said /\ F.body = E.body
       /\ F.sent = E.sent /\ F.good = E.good /\ F.at = E.at
       /\ F.out = E.out /\ F.closed = E.closed
  BY <1>11, <1>12
<1> HIDE DEF E, F
<1>14. KeepsOther(e)
  BY <1>9, <1>12, <1>13 DEF KeepsOther, E, F
<1>15. Types'
  BY <1>9, <1>12 DEF Types, WireInv
<1>16. /\ Source' = Source /\ Readable' = Readable /\ Bodied(e)' = Bodied(e)
       /\ WriteAt(e)' = WriteAt(e) /\ HearAt(e)' = HearAt(e)
       /\ CloseAt(e)' = CloseAt(e) /\ LastAt(e)' = LastAt(e)
  BY <1>9, Fixed
<1>17. EndOK(e)'
  <2>1. Within(e)'
    <3>1. Within(e)
      BY <1>1 DEF EndOK
    <3>2. Wanted(e)' = len
      BY <1>7, <1>13 DEF Wanted, F
    <3>3. Len(F.buf) <= len
      BY <1>7, <1>10, <1>13
    <3>4. QED
      BY <1>7, <1>13, <1>16, <3>1, <3>2, <3>3 DEF Within, Working, E, F
  <2>2. Course(e)'
    BY <1>1, <1>9, <1>13, <1>16 DEF EndOK, Course, E, F
  <2>3. Outcome(e)'
    BY <1>1, <1>9, <1>12, <1>13, <1>16 DEF EndOK, Outcome, E, F
  <2>4. QED
    BY <2>1, <2>2, <2>3 DEF EndOK
<1>18. StreamOK(e)'
  <2>1. Coming(Other(e))' = c
    BY <1>12, <1>16 DEF Coming
  <2>2. Prefixed(e, m, len)'
    <3>1. Json(m, len) \in Seq(Cell) /\ c \in Seq(Cell)
      BY <1>1, JsonDecodes, ComingCells
    <3>2. Cat(Json(m, len), c) \in Seq(Cell)
      BY <3>1, CatSeq
    <3>3. Cat(<<>>, Cat(Json(m, len), c)) = Cat(Json(m, len), c)
      BY <3>2, CatEmpty
    <3> HIDE DEF c
    <3>4. Cat(F.buf, in'[e]) = Cat(Json(m, len), c)
      BY <1>6, <1>9, <1>13, <3>3
    <3>5. QED
      BY <1>5, <1>13, <2>1, <3>4 DEF Prefixed, E, F
  <2>3. end'[Other(e)].at > WriteAt(Other(e))' /\ Says(Other(e), m)'
    <3>1. WriteAt(Other(e))' = WriteAt(Other(e))
      BY <1>1, <1>9, Fixed
    <3>2. QED
      BY <1>1, <1>6, <1>12, <1>14, <3>1, StillSays
  <2>4. Spoken(e, m, len)'
    BY <2>2, <2>3 DEF Spoken
  <2>5. QED
    BY <2>4 DEF StreamOK
<1>19. StreamOK(Other(e))'
  BY <1>1, <1>9, <1>13, <1>14, AsSender DEF E, F
<1>20. KeptWhole'
  BY <1>9, KeptStays DEF WireInv
<1>21. QED
  BY <1>1, <1>9, <1>14, <1>15, <1>17, <1>18, <1>19, <1>20, StepKeeps

LEMMA RepliesAt ==
    ASSUME proto \in Protocols
    PROVE  Replying("server") = WriteAt("server")
<1>1. CASE proto = "get"
  <2>1. Script("server") = <<"hear", "open", "write", "send", "close">>
    BY <1>1 DEF Script
  <2>2. /\ DOMAIN Script("server") = 1 .. 5
        /\ Script("server")[1] = "hear" /\ Script("server")[2] = "open"
        /\ Script("server")[3] = "write" /\ Script("server")[4] = "send"
        /\ Script("server")[5] = "close"
    BY <2>1
  <2>3. \A i \in 1 .. 5 : i = 1 \/ i = 2 \/ i = 3 \/ i = 4 \/ i = 5
    OBVIOUS
  <2>4. 3 \in 1 .. 5 /\ \A i \in DOMAIN Script("server") : Script("server")[i] = "write" <=> i = 3
    BY <2>2, <2>3
  <2>5. Replying("server") = 3
    BY <2>2, <2>4 DEF Replying
  <2>6. QED
    BY <2>5 DEF WriteAt
<1>2. CASE proto # "get"
  <2>1. Script("server") = <<"hear", "take", "write">>
    BY <1>2 DEF Script
  <2>2. /\ DOMAIN Script("server") = 1 .. 3
        /\ Script("server")[1] = "hear" /\ Script("server")[2] = "take"
        /\ Script("server")[3] = "write"
    BY <2>1
  <2>3. \A i \in 1 .. 3 : i = 1 \/ i = 2 \/ i = 3
    OBVIOUS
  <2>4. 3 \in 1 .. 3 /\ \A i \in DOMAIN Script("server") : Script("server")[i] = "write" <=> i = 3
    BY <2>2, <2>3
  <2>5. Replying("server") = 3
    BY <2>2, <2>4 DEF Replying
  <2>6. QED
    BY <2>5 DEF WriteAt
<1>3. QED
  BY <1>1, <1>2

\* The message that is decoded is the one that was encoded: an end that goes on
\* has heard that it may, and one that does not has trouble behind it.
LEMMA ReadPayloadKeeps ==
    ASSUME WireInv, NEW e \in Ends, ReadPayload(e)
    PROVE  WireInv'
<1> DEFINE E == end[e]
           F == end'[e]
           c == Coming(Other(e))
<1>1. /\ EndOK(e) /\ StreamOK(e) /\ StreamOK(Other(e)) /\ Other(e) \in Ends /\ Other(e) # e
      /\ end \in [Ends -> EndType] /\ in \in [Ends -> Seq(Cell)] /\ (reset => trouble)
      /\ proto \in Protocols /\ trouble \in BOOLEAN /\ Last(e) = LastAt(e)
  BY EndFacts
<1>2. /\ E \in EndType
      /\ E.at \in Nat /\ E.buf \in Seq(Cell) /\ E.length \in Nat \cup {Nothing}
      /\ E.said \in MessageType \cup {Nothing} /\ E.body \in Seq(Cell) /\ E.sent \in Nat
      /\ E.good \in BOOLEAN /\ E.out \in {"on", "ok", "failed"} /\ E.closed \in BOOLEAN
  BY EndFields
<1>3. At(e, "hear") /\ Len(E.buf) = Wanted(e) /\ E.length # Nothing
  BY DEF ReadPayload, Filled
<1>4. E.at = HearAt(e)
  BY <1>1, <1>3, Places
<1>5. E.said = Nothing /\ E.good
  BY <1>1, <1>4, PlaceTable DEF EndOK, Course
<1>6. PICK m \in MessageType, len \in 1 .. MaxHeaderBytes :
        /\ end[Other(e)].at > WriteAt(Other(e)) /\ Says(Other(e), m)
        /\ E.buf = Json(m, len)
        /\ in[e] = c
  BY <1>3, BufferFull
<1>7. Unmarshal(E.buf) = m /\ m # Nothing
  BY <1>6, JsonDecodes, NothingAssumption
<1>8. m.ok \in BOOLEAN
  BY DEF MessageType
<1>9. PICK g \in BOOLEAN, a \in Nat :
        /\ end' = [end EXCEPT ![e].said = m, ![e].good = g, ![e].at = a]
        /\ UNCHANGED <<proto, disk, in, eof, reset, kept>>
        /\ trouble' \in BOOLEAN /\ (trouble => trouble')
        /\ \/ g = TRUE /\ m.ok /\ a = E.at + 1
           \/ g = FALSE /\ ~m.ok /\ a = LastAt(e)
           \/ g = FALSE /\ trouble' /\ e = "server" /\ a = WriteAt(e)
  <2>1. /\ UNCHANGED <<proto, disk, in, eof, reset, kept>>
        /\ \/ /\ end' = [end EXCEPT ![e].said = m, ![e].good = m.ok,
                                    ![e].at = IF m.ok THEN E.at + 1 ELSE LastAt(e)]
              /\ UNCHANGED trouble
           \/ /\ e = "server"
              /\ end' = [end EXCEPT ![e].said = m, ![e].good = FALSE, ![e].at = Replying(e)]
              /\ trouble' = TRUE
    BY <1>1, <1>7 DEF ReadPayload
  <2>2. E.at + 1 \in Nat /\ LastAt(e) \in Nat /\ WriteAt(e) \in Nat
    BY <1>2, PlaceTable
  <2>3. e = "server" => Replying(e) = WriteAt(e)
    BY <1>1, RepliesAt
  <2>4. CASE /\ end' = [end EXCEPT ![e].said = m, ![e].good = m.ok,
                                   ![e].at = IF m.ok THEN E.at + 1 ELSE LastAt(e)]
             /\ UNCHANGED trouble
    <3>1. CASE m.ok = TRUE
      BY <1>1, <2>1, <2>2, <2>4, <3>1
    <3>2. CASE m.ok = FALSE
      BY <1>1, <2>1, <2>2, <2>4, <3>2
    <3>3. QED
      BY <1>8, <3>1, <3>2
  <2>5. CASE /\ e = "server"
             /\ end' = [end EXCEPT ![e].said = m, ![e].good = FALSE, ![e].at = Replying(e)]
             /\ trouble' = TRUE
    BY <2>1, <2>2, <2>3, <2>5
  <2>6. QED
    BY <2>1, <2>4, <2>5
<1> DEFINE X == [E EXCEPT !.said = m, !.good = g, !.at = a]
<1>10. end' = [end EXCEPT ![e] = X]
  BY <1>1, <1>2, <1>9
<1>11. /\ X \in EndType
       /\ X.buf = E.buf /\ X.length = E.length /\ X.said = m /\ X.body = E.body
       /\ X.sent = E.sent /\ X.good = g /\ X.at = a
       /\ X.out = E.out /\ X.closed = E.closed
  BY <1>2, <1>7 DEF EndType
<1> HIDE DEF X
<1>12. F = X /\ end'[Other(e)] = end[Other(e)] /\ end' \in [Ends -> EndType]
  BY <1>10, <1>11, Becomes
<1>13. /\ F.buf = E.buf /\ F.length = E.length /\ F.said = m /\ F.body = E.body
       /\ F.sent = E.sent /\ F.good = g /\ F.at = a
       /\ F.out = E.out /\ F.closed = E.closed
  BY <1>11, <1>12
<1> HIDE DEF E, F, c
<1>14. KeepsOther(e)
  BY <1>9, <1>12, <1>13 DEF KeepsOther, E, F
<1>15. Types'
  BY <1>9, <1>12 DEF Types, WireInv
<1>16. /\ Source' = Source /\ Readable' = Readable /\ Bodied(e)' = Bodied(e)
       /\ WriteAt(e)' = WriteAt(e) /\ HearAt(e)' = HearAt(e)
       /\ CloseAt(e)' = CloseAt(e) /\ LastAt(e)' = LastAt(e)
  BY <1>9, Fixed
<1>17. E.body = <<>>
  BY <1>1, <1>5 DEF EndOK, Within, E
<1>18. /\ Bodied(Other(e)) <=> ~Bodied(e)
       /\ e = "client" <=> Other(e) = "server"
       /\ (~m.ok => trouble)
       /\ (m.ok /\ Bodied(Other(e)) => Readable)
       /\ (m.ok /\ Other(e) = "server" /\ ~Bodied(Other(e)) => kept # Nothing)
  BY <1>6, Others DEF Says
<1>19. EndOK(e)'
  <2>1. Within(e)'
    <3>1. Within(e)
      BY <1>1 DEF EndOK
    <3>2. F.at \in 1 .. LastAt(e)
      BY <1>4, <1>9, <1>13, PlaceTable
    <3>3. QED
      BY <1>13, <1>16, <1>17, <3>1, <3>2 DEF Within, Working, Wanted, E, F
  <2>2. Course(e)'
    <3>1. Course(e)
      BY <1>1 DEF EndOK
    <3>2. CASE e = "client" /\ Bodied(e)
      <4>1. WriteAt(e) = 2 /\ CloseAt(e) = 4 /\ HearAt(e) = 5 /\ LastAt(e) = 6
        BY <3>2, PlaceTable
      <4>2. QED
        BY <1>4, <1>5, <1>7, <1>9, <1>13, <1>16, <3>1, <3>2, <4>1 DEF Course, E, F
    <3>3. CASE e = "server" /\ ~Bodied(e)
      <4>1. HearAt(e) = 1 /\ WriteAt(e) = 3 /\ CloseAt(e) = 3 /\ LastAt(e) = 4
        BY <3>3, PlaceTable
      <4>2. QED
        BY <1>4, <1>5, <1>7, <1>9, <1>13, <1>16, <3>1, <3>3, <4>1 DEF Course, E, F
    <3>4. CASE e = "client" /\ ~Bodied(e)
      <4>1. WriteAt(e) = 1 /\ CloseAt(e) = 2 /\ HearAt(e) = 3 /\ LastAt(e) = 5
        BY <3>4, PlaceTable
      <4>2. QED
        BY <1>4, <1>5, <1>7, <1>9, <1>13, <1>16, <3>1, <3>4, <4>1 DEF Course, E, F
    <3>5. CASE e = "server" /\ Bodied(e)
      <4>1. HearAt(e) = 1 /\ WriteAt(e) = 3 /\ CloseAt(e) = 5 /\ LastAt(e) = 6
        BY <3>5, PlaceTable
      <4>2. QED
        BY <1>4, <1>5, <1>7, <1>9, <1>13, <1>16, <1>18, <3>1, <3>5, <4>1 DEF Course, E, F
    <3>6. QED
      BY <3>2, <3>3, <3>4, <3>5 DEF Ends
  <2>3. Outcome(e)'
    <3>1. Outcome(e)
      BY <1>1 DEF EndOK
    <3>2. F.out = "on"
      BY <1>3, <1>13 DEF At, Working, E
    <3>3. ~F.good => trouble'
      BY <1>9, <1>13, <1>18
    <3>4. F.good => F.at = HearAt(e) + 1 /\ m.ok
      BY <1>4, <1>9, <1>13
    <3>5. ~(~Bodied(e) /\ F.at > HearAt(e) + 1 /\ F.good)
      BY <3>4, PlaceTable
    <3>6. e = "client" /\ F.at = LastAt(e) /\ F.good => kept' # Nothing
      <4>1. SUFFICES ASSUME e = "client", F.at = LastAt(e), F.good
                     PROVE  kept # Nothing
        BY <1>9
      <4>2. Bodied(e)
        BY <3>4, <4>1, PlaceTable
      <4>3. QED
        BY <1>18, <3>4, <4>1, <4>2
    <3>7. QED
      BY <1>16, <3>2, <3>3, <3>5, <3>6 DEF Outcome, F
  <2>4. QED
    BY <2>1, <2>2, <2>3 DEF EndOK
<1>20. StreamOK(e)'
  <2>1. Coming(Other(e))' = c
    BY <1>12, <1>16 DEF Coming, c
  <2>2. Heard(e, m)'
    <3>1. c \in Seq(Cell)
      BY <1>1, ComingCells DEF c
    <3>2. Cat(<<>>, c) = c
      BY <3>1, CatEmpty
    <3>3. Cat(F.body, in'[e]) = c
      BY <1>6, <1>9, <1>13, <1>17, <3>2
    <3>4. QED
      BY <1>13, <2>1, <3>3 DEF Heard, F
  <2>3. end'[Other(e)].at > WriteAt(Other(e))' /\ Says(Other(e), m)'
    <3>1. WriteAt(Other(e))' = WriteAt(Other(e))
      BY <1>1, <1>9, Fixed
    <3>2. QED
      BY <1>1, <1>6, <1>12, <1>14, <3>1, StillSays
  <2>4. Spoken(e, m, len)'
    BY <2>2, <2>3 DEF Spoken
  <2>5. QED
    BY <2>4 DEF StreamOK
<1>21. StreamOK(Other(e))'
  <2>1. E.at > WriteAt(e) => F.at > WriteAt(e)
    BY <1>4, <1>9, <1>13, PlaceTable
  <2>2. E.at <= WriteAt(e) => F.at <= WriteAt(e) \/ (F.at = LastAt(e) /\ ~F.good)
    BY <1>4, <1>9, <1>13, PlaceTable
  <2>3. ~(E.at = LastAt(e))
    BY <1>4, PlaceTable
  <2>4. QED
    BY <1>1, <1>9, <1>13, <1>14, <2>1, <2>2, <2>3, AsSender DEF E, F
<1>22. KeptWhole'
  BY <1>9, KeptStays DEF WireInv
<1>23. QED
  BY <1>1, <1>9, <1>14, <1>15, <1>19, <1>20, <1>21, <1>22, StepKeeps

\* What has come of a body when as much of it has come as was announced: as much of
\* the source.  When it ends before that, its sender had trouble.
LEMMA BodyHere ==
    ASSUME WireInv, NEW e \in Ends, ~Bodied(e), end[e].at = HearAt(e) + 1
    PROVE  /\ end[e].said \in MessageType /\ end[e].said # Nothing
           /\ end[e].said.size = disk.size
           /\ Readable
           /\ Len(end[e].body) = end[e].said.bytes =>
                /\ end[e].body = FirstOf(Source, Announced)
                /\ trouble \/ end[Other(e)].sent = Len(Source)
           /\ Len(end[e].body) # end[e].said.bytes /\ eof[e] /\ in[e] = <<>> => trouble
<1> DEFINE E == end[e]
           s == Other(e)
<1>1. /\ EndOK(e) /\ StreamOK(e) /\ EndOK(s) /\ s \in Ends /\ Other(s) = e /\ Bodied(s)
      /\ in \in [Ends -> Seq(Cell)] /\ trouble \in BOOLEAN
      /\ proto \in Protocols /\ disk \in Files /\ (Cut => trouble)
  BY EndFacts, Others DEF WireInv
<1>2. E.said \in MessageType \cup {Nothing} /\ E.body \in Seq(Cell) /\ Len(E.body) \in Nat
  BY EndFields, LenProperties
<1>3. E.said # Nothing /\ E.said.ok
  BY <1>1 DEF EndOK, Course
<1>4. PICK m \in MessageType, len \in 1 .. MaxHeaderBytes : Spoken(e, m, len)
  BY <1>1, <1>3 DEF StreamOK, Silent
<1>5. Heard(e, m)
  BY <1>3, <1>4 DEF Spoken, Framed, Prefixed
<1>6. E.said = m /\ Cat(E.body, in[e]) = Coming(s) /\ Says(s, m)
  BY <1>4, <1>5 DEF Spoken, Heard
<1>7. m.bytes = Announced /\ m.size = disk.size /\ Readable
  BY <1>1, <1>3, <1>6 DEF Says
<1>8. /\ Coming(s) \in Seq(Cell) /\ Len(Coming(s)) = end[s].sent
      /\ end[s].sent # 0 => end[s].sent <= Len(Source)
      /\ Announced \in Nat /\ Announced <= Len(Source) /\ (~Cut => Announced = Len(Source))
      /\ Len(Source) \in Nat /\ end[s].sent \in Nat
  BY <1>1, <1>7, ComingCells, EndFields
<1>9. Source \in Seq(Cell) /\ Source \in Seq(BlobCell)
  BY <1>1, <1>7, SourceOpens, BlobCells
<1>10. in[e] \in Seq(Cell) /\ Len(in[e]) \in Nat /\ Len(E.body) + Len(in[e]) = end[s].sent
  <2> DEFINE b == E.body
             q == in[e]
             c == Coming(s)
  <2>1. b \in Seq(Cell) /\ q \in Seq(Cell) /\ Cat(b, q) = c /\ Len(c) = end[s].sent
    BY <1>1, <1>2, <1>6, <1>8
  <2> HIDE DEF b, q, c
  <2>2. Len(q) \in Nat /\ Len(b) + Len(q) = end[s].sent
    BY <2>1, CatSeq, LenProperties
  <2>3. QED
    BY <2>1, <2>2 DEF b, q
<1>11. ASSUME Len(E.body) = E.said.bytes
       PROVE  E.body = FirstOf(Source, Announced) /\ (trouble \/ end[s].sent = Len(Source))
  <2>1. Len(E.body) = Announced
    BY <1>6, <1>7, <1>11
  <2>2. end[s].sent \in 0 .. Len(Source)
    BY <1>8
  <2>3. trouble \/ end[s].sent = Len(Source)
    BY <1>1, <1>2, <1>8, <1>10, <2>1
  <2> DEFINE b == E.body
             q == in[e]
             z == Source
             n == end[s].sent
  <2>4. /\ b \in Seq(Cell) /\ q \in Seq(Cell) /\ z \in Seq(Cell) /\ n \in 0 .. Len(z)
        /\ Cat(b, q) = FirstOf(z, n)
    BY <1>2, <1>6, <1>9, <1>10, <2>2 DEF Coming
  <2> HIDE DEF b, q, z, n
  <2>5. b = FirstOf(z, Len(b))
    BY <2>4, FirstOfFirst
  <2>6. QED
    BY <2>1, <2>3, <2>5 DEF b, z
<1>12. ASSUME Len(E.body) # E.said.bytes, eof[e], in[e] = <<>>
       PROVE  trouble
  <2>1. Len(in[e]) = 0
    BY <1>12, EmptySeq
  <2>2. Cut \/ end[s].sent # Len(Source)
    BY <1>2, <1>6, <1>7, <1>8, <1>10, <1>12, <2>1
  <2>3. end[s].at > CloseAt(s) /\ end[s].at \in Nat
    BY <1>1, <1>12, EndFields DEF EndOK, Course
  <2>4. CloseAt(s) = WriteAt(s) + 2 /\ WriteAt(s) \in Nat
    BY <1>1, PlaceTable
  <2>5. end[s].at > WriteAt(s) + 1
    BY <2>3, <2>4
  <2>6. QED
    BY <1>1, <2>2, <2>5 DEF EndOK, Course
<1>13. QED
  BY <1>2, <1>3, <1>6, <1>7, <1>11, <1>12

\* The version that is recorded is the sender's file, as it was announced.
LEMMA VersionWhole ==
    ASSUME proto \in Protocols, disk \in Files, Readable,
           NEW e, end[e].body = FirstOf(Source, Announced), end[e].said.size = disk.size
    PROVE  /\ Version(e) # Nothing
           /\ Version(e).size = disk.size
           /\ Version(e).blob = IF proto = "share" THEN Encrypted(Plaintext(disk.size))
                                                  ELSE SubSeq(Blob, 1, disk.left)
           /\ disk.sealed /\ (proto = "share" \/ ~Cut) =>
                Decrypted(Version(e).blob) = Plaintext(disk.size)
<1> DEFINE p == Plaintext(disk.size)
<1>1. disk.size \in Nat
  BY WireAssumption DEF Files
<1>2. p \in Seq(BlobCell) /\ Len(p) = disk.size
  BY <1>1, CellsOf DEF Plaintext
<1>3. /\ Source \in Seq(BlobCell) /\ (proto = "share" => Source = p)
      /\ disk.sealed => Decrypted(Blob) = p
      /\ Blob \in Seq(BlobCell) /\ disk.left \in 0 .. Len(Blob) /\ Len(Blob) \in Nat
  BY SourceOpens, LenProperties
<1> HIDE DEF p
<1>4. CASE proto = "share"
  <2>1. end[e].body = p
    <3>1. Announced = Len(p) /\ Source = p
      BY <1>2, <1>3, <1>4 DEF Announced
    <3>2. FirstOf(p, Len(p)) = p
      BY <1>2, FirstOfAll
    <3>3. QED
      BY <3>1, <3>2
  <2>2. Version(e) = [blob |-> Encrypted(p), size |-> disk.size]
    BY <1>2, <1>4, <2>1 DEF Version
  <2>3. Encrypted(p) \in Seq(BlobCell) /\ Decrypted(Encrypted(p)) = p
    BY <1>2, DecryptsWhatIsEncrypted
  <2>4. Version(e) \in [blob : Seq(BlobCell), size : Nat]
    BY <1>1, <2>2, <2>3
  <2>5. Version(e) # Nothing
    BY <2>4, NothingAssumption
  <2>6. QED
    BY <1>4, <2>2, <2>3, <2>5 DEF p
<1>5. CASE proto # "share"
  <2> DEFINE b == FirstOf(Blob, disk.left)
  <2>1. b = SubSeq(Blob, 1, disk.left)
    BY <1>3, FirstIsSubSeq
  <2>2. b \in Seq(BlobCell)
    BY <1>3, FirstOfSeq
  <2>3. ~Cut => b = Blob
    <3>1. ~Cut => disk.left = Len(Blob)
      BY <1>3 DEF Cut
    <3>2. FirstOf(Blob, Len(Blob)) = Blob
      BY <1>3, FirstOfAll
    <3>3. QED
      BY <3>1, <3>2
  <2>4. Source = Blob /\ Announced = disk.left
    BY <1>5 DEF Source, Announced
  <2>5. end[e].body = b
    BY <2>4
  <2> HIDE DEF b
  <2>6. Version(e) = [blob |-> b, size |-> disk.size]
    BY <1>5, <2>5 DEF Version
  <2>7. Version(e) \in [blob : Seq(BlobCell), size : Nat]
    BY <1>1, <2>2, <2>6
  <2>8. Version(e) # Nothing
    BY <2>7, NothingAssumption
  <2>9. Version(e).size = disk.size /\ Version(e).blob = b
    BY <2>6
  <2>10. /\ disk.sealed /\ ~Cut => Decrypted(b) = p
    BY <1>3, <2>3
  <2>11. QED
    BY <1>5, <2>1, <2>8, <2>9, <2>10 DEF p
<1>6. QED
  BY <1>4, <1>5

LEMMA TakenKeeps ==
    ASSUME WireInv, NEW e \in Ends, Taken(e)
    PROVE  WireInv'
<1> DEFINE E == end[e]
           F == end'[e]
           full == Len(E.body) = E.said.bytes
<1>1. /\ EndOK(e) /\ StreamOK(e) /\ StreamOK(Other(e)) /\ Other(e) \in Ends /\ Other(e) # e
      /\ end \in [Ends -> EndType] /\ in \in [Ends -> Seq(Cell)] /\ (reset => trouble)
      /\ proto \in Protocols /\ disk \in Files
      /\ trouble \in BOOLEAN
  BY EndFacts
<1>2. /\ E \in EndType
      /\ E.at \in Nat /\ E.buf \in Seq(Cell) /\ E.length \in Nat \cup {Nothing}
      /\ E.said \in MessageType \cup {Nothing} /\ E.body \in Seq(Cell) /\ E.sent \in Nat
      /\ E.good \in BOOLEAN /\ E.out \in {"on", "ok", "failed"} /\ E.closed \in BOOLEAN
  BY EndFields
<1>3. ~Bodied(e) /\ E.at = HearAt(e) + 1 /\ E.out = "on"
  BY <1>1, Places DEF Taken, At, Working
<1>4. /\ E.said \in MessageType /\ E.said # Nothing /\ E.said.size = disk.size
      /\ Readable
      /\ full => /\ E.body = FirstOf(Source, Announced)
                 /\ trouble \/ end[Other(e)].sent = Len(Source)
      /\ ~full /\ eof[e] /\ in[e] = <<>> => trouble
  BY <1>3, BodyHere
<1>5. UNCHANGED <<proto, disk, in, eof, trouble>> /\ (full \/ (eof[e] /\ in[e] = <<>>))
  BY DEF Taken
<1>6. CASE ~full /\ e # "server"
  <2>1. ResetAt(e) /\ UNCHANGED kept /\ trouble
    BY <1>4, <1>5, <1>6 DEF Taken
  <2>2. QED
    BY <1>1, <1>5, <2>1, ResetKeeps
<1>7. CASE full \/ e = "server"
  <2>1. PICK g \in BOOLEAN :
          /\ end' = [end EXCEPT ![e].at = E.at + 1, ![e].good = g]
          /\ UNCHANGED reset
          /\ full => kept' = Version(e) /\ g = E.good
          /\ ~full => kept' = kept /\ g = FALSE /\ trouble
    <3>1. CASE full
      <4>1. /\ end' = [end EXCEPT ![e].at = E.at + 1]
            /\ UNCHANGED reset /\ kept' = Version(e)
        BY <3>1 DEF Taken
      <4>2. end' = [end EXCEPT ![e].at = E.at + 1, ![e].good = E.good]
        BY <1>1, <1>2, <4>1 DEF EndType
      <4>3. QED
        BY <1>2, <3>1, <4>1, <4>2
    <3>2. CASE ~full
      <4>1. e = "server" /\ trouble
        BY <1>4, <1>5, <1>7, <3>2
      <4>2. /\ end' = [end EXCEPT ![e].at = E.at + 1, ![e].good = FALSE]
            /\ UNCHANGED reset /\ UNCHANGED kept
        BY <3>2, <4>1 DEF Taken
      <4>3. QED
        BY <3>2, <4>1, <4>2
    <3>3. QED
      BY <3>1, <3>2
  <2> DEFINE X == [E EXCEPT !.at = E.at + 1, !.good = g]
  <2>2. end' = [end EXCEPT ![e] = X]
    BY <1>1, <1>2, <2>1
  <2> HIDE DEF full
  <2>3. /\ X \in EndType
        /\ X.buf = E.buf /\ X.length = E.length /\ X.said = E.said /\ X.body = E.body
        /\ X.sent = E.sent /\ X.good = g /\ X.at = E.at + 1
        /\ X.out = E.out /\ X.closed = E.closed
    <3>1. E \in EndType /\ E.at + 1 \in Nat
      BY <1>2
    <3> HIDE DEF E
    <3>2. X \in EndType
      BY <3>1 DEF EndType
    <3>3. /\ X.buf = E.buf /\ X.length = E.length /\ X.said = E.said /\ X.body = E.body
          /\ X.sent = E.sent /\ X.out = E.out /\ X.closed = E.closed
      BY <3>1 DEF EndType
    <3>4. X.good = g /\ X.at = E.at + 1
      BY <3>1 DEF EndType
    <3>5. QED
      BY <3>2, <3>3, <3>4
  <2> HIDE DEF X
  <2>4. F = X /\ end'[Other(e)] = end[Other(e)] /\ end' \in [Ends -> EndType]
    BY <2>2, <2>3, Becomes
  <2>5. /\ F.buf = E.buf /\ F.length = E.length /\ F.said = E.said /\ F.body = E.body
        /\ F.sent = E.sent /\ F.good = g /\ F.at = E.at + 1
        /\ F.out = E.out /\ F.closed = E.closed
    BY <2>3, <2>4
  <2>6. full => Version(e) # Nothing
    BY <1>1, <1>4, VersionWhole
  <2>7. full => /\ Version(e).size = disk.size
                /\ Version(e).blob = IF proto = "share" THEN Encrypted(Plaintext(disk.size))
                                                       ELSE SubSeq(Blob, 1, disk.left)
                /\ disk.sealed /\ (proto = "share" \/ ~Cut) =>
                     Decrypted(Version(e).blob) = Plaintext(disk.size)
    BY <1>1, <1>4, VersionWhole
  <2> HIDE DEF E, F
  <2>8. KeepsOther(e)
    BY <1>5, <2>1, <2>4, <2>5, <2>6 DEF KeepsOther, E, F
  <2>9. Types'
    BY <1>5, <2>1, <2>4 DEF Types, WireInv
  <2>10. /\ Source' = Source /\ Readable' = Readable /\ Bodied(e)' = Bodied(e)
         /\ WriteAt(e)' = WriteAt(e) /\ HearAt(e)' = HearAt(e)
         /\ CloseAt(e)' = CloseAt(e) /\ LastAt(e)' = LastAt(e)
    BY <1>5, Fixed
  <2>11. /\ HearAt(e) \in Nat /\ LastAt(e) \in Nat /\ HearAt(e) + 1 < LastAt(e)
    BY <1>3, PlaceTable
  <2>12. EndOK(e)'
    <3>1. Within(e)'
      <4>1. Within(e)
        BY <1>1 DEF EndOK
      <4>2. F.at \in 1 .. LastAt(e)
        BY <1>2, <1>3, <2>5, <2>11
      <4>3. QED
        BY <2>5, <2>10, <4>1, <4>2 DEF Within, Working, Wanted, E, F
    <3>2. Course(e)'
      <4>1. eof[Other(e)] => E.at > CloseAt(e)
        BY <1>1 DEF EndOK, Course, E
      <4>2. F.at > E.at /\ F.at \in Nat /\ CloseAt(e) \in Nat
        BY <1>2, <2>5, PlaceTable
      <4>3. eof'[Other(e)] => F.at > CloseAt(e)
        BY <1>2, <1>5, <4>1, <4>2
      <4>4. ~(F.at <= HearAt(e)) /\ F.at # HearAt(e) + 1
        BY <1>3, <2>5, <2>11
      <4>5. QED
        BY <1>3, <2>10, <4>3, <4>4 DEF Course, F
    <3>3. Outcome(e)'
      <4>1. F.out = "on"
        BY <1>3, <2>5
      <4>2. ~F.good => trouble
        BY <1>1, <2>1, <2>5 DEF EndOK, Outcome, E
      <4>3. F.good => kept' # Nothing /\ (trouble \/ end[Other(e)].sent = Len(Source))
        BY <1>4, <2>1, <2>5, <2>6
      <4>4. QED
        BY <1>4, <1>5, <2>4, <2>10, <4>1, <4>2, <4>3 DEF Outcome, F
    <3>4. QED
      BY <3>1, <3>2, <3>3 DEF EndOK
  <2>13. StreamOK(e)'
    BY <1>1, <1>2, <1>3, <1>5, <2>5, <2>8, <2>11, AsReceiver DEF E, F
  <2>14. StreamOK(Other(e))'
    <3>1. E.at > WriteAt(e) => F.at > WriteAt(e)
      BY <1>3, <2>5, PlaceTable
    <3>2. E.at <= WriteAt(e) => F.at <= WriteAt(e)
      BY <1>3, <2>5, PlaceTable
    <3>3. ~(E.at = LastAt(e))
      BY <1>3, PlaceTable
    <3>4. QED
      BY <1>1, <1>5, <2>5, <2>8, <3>1, <3>2, <3>3, AsSender DEF E, F
  <2>15. KeptWhole'
    <3>1. CASE full
      <4>1. Blob' = Blob /\ Cut' = Cut /\ kept' = Version(e) /\ UNCHANGED <<proto, disk>>
        BY <1>5, <2>1, <3>1, Fixed
      <4> DEFINE v == Version(e)
      <4>2. /\ v.size = disk.size
            /\ v.blob = IF proto = "share" THEN Encrypted(Plaintext(disk.size))
                                           ELSE SubSeq(Blob, 1, disk.left)
            /\ disk.sealed /\ (proto = "share" \/ ~Cut) =>
                 Decrypted(v.blob) = Plaintext(disk.size)
        BY <2>7, <3>1
      <4> HIDE DEF v
      <4>3. kept' = v
        BY <4>1 DEF v
      <4>4. /\ Encrypted(Plaintext(disk.size))' = Encrypted(Plaintext(disk.size))
            /\ Plaintext(disk.size)' = Plaintext(disk.size)
            /\ Decrypted(kept.blob)' = Decrypted(v.blob)
            /\ SubSeq(Blob, 1, disk.left)' = SubSeq(Blob, 1, disk.left)
        BY <4>1, <4>3 DEF Encrypted, Plaintext, Decrypted, Cells
      <4>5. QED
        BY <4>1, <4>2, <4>3, <4>4 DEF KeptWhole
    <3>2. CASE ~full
      BY <1>5, <2>1, <3>2, KeptStays DEF WireInv
    <3>3. QED
      BY <3>1, <3>2
  <2>16. QED
    BY <1>1, <1>5, <2>1, <2>8, <2>9, <2>12, <2>13, <2>14, <2>15, StepKeeps
<1>8. QED
  BY <1>6, <1>7

-----------------------------------------------------------------------------
(* Writing.                                                                *)
(***************************************************************************)
LEMMA MessageSays ==
    ASSUME WireInv, NEW e \in Ends, end[e].at = WriteAt(e)
    PROVE  Message(e) \in MessageType /\ Says(e, Message(e))
<1>1. /\ EndOK(e) /\ proto \in Protocols /\ disk \in Files
      /\ end[e].good \in BOOLEAN
  BY EndFacts, EndFields
<1>2. (\E i \in DOMAIN Script(e) : Script(e)[i] = "send") <=> Bodied(e)
  BY <1>1, Places
<1>3. Message(e) = [ok |-> end[e].good, bytes |-> IF Bodied(e) THEN Announced ELSE 0,
                    size |-> IF Bodied(e) THEN disk.size ELSE 0]
  BY <1>2 DEF Message
<1>4. Announced \in Nat /\ disk.size \in 0 .. Longest /\ 0 \in 0 .. Longest
  BY <1>1, SourceOpens, WireAssumption DEF Files
<1>5. Message(e) \in MessageType
  BY <1>1, <1>3, <1>4 DEF MessageType
<1>6. /\ Message(e).ok = end[e].good
      /\ Bodied(e) => Message(e).bytes = Announced /\ Message(e).size = disk.size
  BY <1>3
<1>7. end[e].good \/ trouble
  BY <1>1 DEF EndOK, Outcome
<1>8. end[e].good /\ Bodied(e) => Readable
  <2>1. end[e].at >= WriteAt(e)
    BY <1>1, PlaceTable
  <2>2. QED
    BY <1>1, <2>1 DEF EndOK, Course
<1>9. end[e].good /\ e = "server" /\ ~Bodied(e) => kept # Nothing
  <2>1. e = "server" /\ ~Bodied(e) => end[e].at > HearAt(e) + 1
    BY PlaceTable
  <2>2. QED
    BY <1>1, <2>1 DEF EndOK, Outcome
<1>10. QED
  BY <1>5, <1>6, <1>7, <1>8, <1>9 DEF Says

\* Before an end writes, the other has heard nothing of it: what it then has before
\* it is the frame.
LEMMA WriteKeeps ==
    ASSUME WireInv, NEW e \in Ends, Write(e)
    PROVE  WireInv'
<1> DEFINE E == end[e]
           F == end'[e]
           f == Other(e)
<1>1. /\ EndOK(e) /\ StreamOK(e) /\ StreamOK(f) /\ f \in Ends /\ f # e /\ Other(f) = e
      /\ end \in [Ends -> EndType] /\ in \in [Ends -> Seq(Cell)] /\ (reset => trouble)
      /\ proto \in Protocols /\ Last(e) = LastAt(e) /\ trouble \in BOOLEAN
  BY EndFacts, Others
<1>2. /\ E \in EndType
      /\ E.at \in Nat /\ E.buf \in Seq(Cell) /\ E.length \in Nat \cup {Nothing}
      /\ E.said \in MessageType \cup {Nothing} /\ E.body \in Seq(Cell) /\ E.sent \in Nat
      /\ E.good \in BOOLEAN /\ E.out \in {"on", "ok", "failed"} /\ E.closed \in BOOLEAN
  BY EndFields
<1>3. E.at = WriteAt(e) /\ E.out = "on"
  BY <1>1, Places DEF Write, At, Working
<1>4. PICK m \in MessageType : m = Message(e) /\ Says(e, m)
  BY <1>3, MessageSays
<1>5. PICK len \in 1 .. MaxHeaderBytes + 1 :
        /\ UNCHANGED <<proto, disk, eof, kept>>
        /\ IF len > MaxHeaderBytes
             THEN ResetAt(e) /\ trouble' = TRUE /\ UNCHANGED in
             ELSE /\ in' = [in EXCEPT ![f] = @ \o Frame(m, len)]
                  /\ end' = [end EXCEPT ![e].at = IF E.good THEN @ + 1 ELSE Last(e)]
                  /\ UNCHANGED <<reset, trouble>>
  BY <1>4 DEF Write
<1>6. CASE len > MaxHeaderBytes
  BY <1>5, <1>6, ResetKeeps
<1>7. CASE ~(len > MaxHeaderBytes)
  <2>1. len \in 1 .. MaxHeaderBytes
    BY <1>7, WireAssumption
  <2> DEFINE a == IF E.good THEN E.at + 1 ELSE LastAt(e)
             X == [E EXCEPT !.at = a]
             s == in[f]
             z == Frame(m, len)
  <2>2. a \in Nat
    BY <1>2, PlaceTable
  <2>3. /\ end' = [end EXCEPT ![e] = X]
        /\ in' = [in EXCEPT ![f] = Cat(s, z)]
        /\ UNCHANGED <<proto, disk, eof, kept, reset, trouble>>
    BY <1>1, <1>2, <1>5, <1>7 DEF Cat
  <2> HIDE DEF a
  <2>4. /\ X \in EndType
        /\ X.buf = E.buf /\ X.length = E.length /\ X.said = E.said /\ X.body = E.body
        /\ X.sent = E.sent /\ X.good = E.good /\ X.at = a
        /\ X.out = E.out /\ X.closed = E.closed
    BY <1>2, <2>2 DEF EndType
  <2> HIDE DEF X
  <2>5. F = X /\ end'[f] = end[f] /\ end' \in [Ends -> EndType]
    BY <2>3, <2>4, Becomes
  <2>6. /\ F.buf = E.buf /\ F.length = E.length /\ F.said = E.said /\ F.body = E.body
        /\ F.sent = E.sent /\ F.good = E.good /\ F.at = a
        /\ F.out = E.out /\ F.closed = E.closed
    BY <2>4, <2>5
  <2>7. /\ Json(m, len) \in Seq(Cell) /\ PutUint32(len) \in Seq(Cell)
    BY <1>4, <2>1, JsonDecodes, PrefixCells
  <2>8. z = Cat(PutUint32(len), Json(m, len)) /\ z \in Seq(Cell)
    <3>1. z = Cat(PutUint32(len), Json(m, len))
      BY DEF Frame, Cat
    <3> HIDE DEF z
    <3>2. QED
      BY <2>7, <3>1, CatSeq
  <2>9. s \in Seq(Cell)
    BY <1>1
  <2> HIDE DEF s, z
  <2>10. Cat(s, z) \in Seq(Cell)
    BY <2>8, <2>9, CatSeq
  <2>11. in'[f] = Cat(s, z) /\ in'[e] = in[e] /\ in' \in [Ends -> Seq(Cell)]
    BY <1>1, <2>3, <2>10
  <2>12. /\ WriteAt(e) \in Nat /\ LastAt(e) \in Nat /\ WriteAt(e) < LastAt(e)
         /\ a > WriteAt(e) /\ a <= LastAt(e)
         /\ (a = WriteAt(e) + 1 /\ E.good) \/ (a = LastAt(e) /\ ~E.good)
    BY <1>2, <1>3, PlaceTable DEF a
  <2> HIDE DEF E, F
  <2>13. KeepsOther(e)
    BY <2>3, <2>5, <2>6 DEF KeepsOther, E, F
  <2>14. Types'
    BY <2>3, <2>5, <2>11 DEF Types, WireInv
  <2>15. /\ Source' = Source /\ Readable' = Readable /\ Bodied(e)' = Bodied(e)
         /\ WriteAt(e)' = WriteAt(e) /\ HearAt(e)' = HearAt(e)
         /\ CloseAt(e)' = CloseAt(e) /\ LastAt(e)' = LastAt(e)
    BY <2>3, Fixed
  <2>16. EndOK(e)'
    <3>1. Within(e)'
      <4>1. Within(e)
        BY <1>1 DEF EndOK
      <4>2. F.at \in 1 .. LastAt(e)
        BY <2>2, <2>6, <2>12
      <4>3. QED
        BY <2>6, <2>15, <4>1, <4>2 DEF Within, Working, Wanted, E, F
    <3>2. Course(e)'
      <4>1. Course(e) /\ (~E.good => trouble)
        BY <1>1 DEF EndOK, Outcome, E
      <4>2. CASE e = "client" /\ Bodied(e)
        <5>1. WriteAt(e) = 2 /\ CloseAt(e) = 4 /\ HearAt(e) = 5 /\ LastAt(e) = 6
          BY <4>2, PlaceTable
        <5>2. QED
          BY <1>3, <2>3, <2>6, <2>12, <2>15, <4>1, <4>2, <5>1 DEF Course, E, F
      <4>3. CASE e = "server" /\ ~Bodied(e)
        <5>1. HearAt(e) = 1 /\ WriteAt(e) = 3 /\ CloseAt(e) = 3 /\ LastAt(e) = 4
          BY <4>3, PlaceTable
        <5>2. QED
          BY <1>3, <2>3, <2>6, <2>12, <2>15, <4>1, <4>3, <5>1 DEF Course, E, F
      <4>4. CASE e = "client" /\ ~Bodied(e)
        <5>1. WriteAt(e) = 1 /\ CloseAt(e) = 2 /\ HearAt(e) = 3 /\ LastAt(e) = 5
          BY <4>4, PlaceTable
        <5>2. QED
          BY <1>3, <2>3, <2>6, <2>12, <2>15, <4>1, <4>4, <5>1 DEF Course, E, F
      <4>5. CASE e = "server" /\ Bodied(e)
        <5>1. HearAt(e) = 1 /\ WriteAt(e) = 3 /\ CloseAt(e) = 5 /\ LastAt(e) = 6
          BY <4>5, PlaceTable
        <5>2. a = 4 \/ (a = 6 /\ ~E.good /\ trouble)
          BY <2>12, <4>1, <5>1
        <5>3. a = 4 => Readable
          BY <1>3, <2>12, <4>1, <4>5, <5>1 DEF Course, E
        <5>4. QED
          BY <1>3, <2>3, <2>6, <2>15, <4>1, <4>5, <5>1, <5>2, <5>3 DEF Course, E, F
      <4>6. QED
        BY <4>2, <4>3, <4>4, <4>5 DEF Ends
    <3>3. Outcome(e)'
      <4>1. Outcome(e)
        BY <1>1 DEF EndOK
      <4>2. F.out = "on" /\ F.good = E.good
        BY <1>3, <2>6 DEF E
      <4>3. ~Bodied(e) /\ F.at > HearAt(e) + 1 /\ E.good => e = "server" /\ E.at > HearAt(e) + 1
        BY <1>3, <2>6, <2>12, PlaceTable
      <4>4. ~(e = "client" /\ F.at = LastAt(e) /\ E.good)
        BY <1>3, <2>6, <2>12, PlaceTable
      <4>5. QED
        BY <2>3, <2>5, <2>15, <4>1, <4>2, <4>3, <4>4 DEF Outcome, E, F, f
    <3>4. QED
      BY <3>1, <3>2, <3>3 DEF EndOK
  <2>17. StreamOK(e)'
    <3>1. ~Bodied(e) /\ F.at = HearAt(e) + 1 => E.at = HearAt(e) + 1
      BY <1>3, <2>6, <2>12, PlaceTable
    <3>2. QED
      BY <1>1, <2>6, <2>11, <2>13, <3>1, AsReceiver DEF E, F
  <2>18. StreamOK(f)'
    <3>1. Silent(f)
      <4>1. ~(E.at > WriteAt(e))
        BY <1>3, <2>12
      <4>2. QED
        BY <1>1, <4>1 DEF StreamOK, Spoken, E
    <3>2. /\ end[f].said = Nothing /\ end[f].length = Nothing /\ end[f].buf = <<>>
          /\ s = <<>> /\ E.sent = 0
      BY <1>1, <3>1 DEF Silent, s, E
    <3>3. Coming(e)' = <<>>
      BY <2>6, <3>2 DEF Coming, FirstOf, F
    <3>4. Cat(s, z) = z /\ Cat(<<>>, z) = z
      BY <2>8, <3>2, CatEmpty
    <3>5. Cat(Json(m, len), <<>>) = Json(m, len)
      BY <2>7, CatEmpty
    <3>6. Framed(f, m, len)'
      BY <1>1, <2>5, <2>8, <2>11, <3>2, <3>3, <3>4, <3>5 DEF Framed
    <3>7. F.at > WriteAt(e) /\ Says(e, m)'
      BY <1>4, <2>6, <2>12, <2>13, StillSays
    <3>8. Spoken(f, m, len)'
      BY <1>1, <2>15, <3>6, <3>7 DEF Spoken, F
    <3>9. QED
      BY <1>4, <2>1, <3>8 DEF StreamOK
  <2>19. KeptWhole'
    BY <2>3, KeptStays DEF WireInv
  <2>20. QED
    BY <1>1, <2>3, <2>13, <2>14, <2>16, <2>17, <2>18, <2>19, StepKeeps DEF f
<1>8. QED
  BY <1>6, <1>7

\* A cell of the body goes behind what is on its way.  An end that stops before the
\* body is out has trouble.
LEMMA SendKeeps ==
    ASSUME WireInv, NEW e \in Ends, Send(e)
    PROVE  WireInv'
<1> DEFINE E == end[e]
           F == end'[e]
           f == Other(e)
           more == E.sent < Len(Source)
<1>1. /\ EndOK(e) /\ StreamOK(e) /\ StreamOK(f) /\ f \in Ends /\ f # e /\ Other(f) = e
      /\ end \in [Ends -> EndType] /\ in \in [Ends -> Seq(Cell)] /\ (reset => trouble)
      /\ proto \in Protocols /\ disk \in Files
      /\ trouble \in BOOLEAN
  BY EndFacts, Others
<1>2. /\ E \in EndType
      /\ E.at \in Nat /\ E.buf \in Seq(Cell) /\ E.length \in Nat \cup {Nothing}
      /\ E.said \in MessageType \cup {Nothing} /\ E.body \in Seq(Cell) /\ E.sent \in Nat
      /\ E.good \in BOOLEAN /\ E.out \in {"on", "ok", "failed"} /\ E.closed \in BOOLEAN
  BY EndFields
<1>3. Bodied(e) /\ E.at = WriteAt(e) + 1 /\ E.out = "on"
  BY <1>1, Places DEF Send, At, Working
<1>4. Readable
  BY <1>1, <1>3 DEF EndOK, Course
<1>5. /\ Source \in Seq(BlobCell) /\ Source \in Seq(Cell) /\ Len(Source) \in Nat
      /\ E.sent # 0 => E.sent <= Len(Source)
  BY <1>1, <1>4, SourceOpens, BlobCells, ComingCells
<1>6. UNCHANGED <<proto, disk, eof, reset, kept>>
  BY DEF Send
<1>7. /\ Source' = Source /\ Readable' = Readable /\ Bodied(e)' = Bodied(e)
      /\ WriteAt(e)' = WriteAt(e) /\ HearAt(e)' = HearAt(e)
      /\ CloseAt(e)' = CloseAt(e) /\ LastAt(e)' = LastAt(e)
  BY <1>6, Fixed
<1>8. /\ WriteAt(e) \in Nat /\ CloseAt(e) = WriteAt(e) + 2 /\ CloseAt(e) < LastAt(e)
      /\ LastAt(e) \in Nat /\ HearAt(e) \in Nat
      /\ e = "client" => HearAt(e) = CloseAt(e) + 1 /\ HearAt(e) < LastAt(e)
      /\ e # "client" => HearAt(e) < WriteAt(e)
  BY <1>3, PlaceTable
<1>9. KeptWhole'
  BY <1>6, KeptStays DEF WireInv
<1>10. CASE more /\ in' = [in EXCEPT ![f] = Append(@, Source[E.sent + 1])]
                 /\ end' = [end EXCEPT ![e].sent = @ + 1] /\ UNCHANGED trouble
  <2> DEFINE X == [E EXCEPT !.sent = E.sent + 1]
             s == in[f]
             x == Source[E.sent + 1]
  <2>1. /\ end' = [end EXCEPT ![e] = X]
        /\ in' = [in EXCEPT ![f] = Append(s, x)]
        /\ trouble' = trouble
    BY <1>1, <1>2, <1>10
  <2>2. /\ X \in EndType
        /\ X.buf = E.buf /\ X.length = E.length /\ X.said = E.said /\ X.body = E.body
        /\ X.sent = E.sent + 1 /\ X.good = E.good /\ X.at = E.at
        /\ X.out = E.out /\ X.closed = E.closed
    BY <1>2 DEF EndType
  <2> HIDE DEF X
  <2>3. F = X /\ end'[f] = end[f] /\ end' \in [Ends -> EndType]
    BY <2>1, <2>2, Becomes
  <2>4. /\ F.buf = E.buf /\ F.length = E.length /\ F.said = E.said /\ F.body = E.body
        /\ F.sent = E.sent + 1 /\ F.good = E.good /\ F.at = E.at
        /\ F.out = E.out /\ F.closed = E.closed
    BY <2>2, <2>3
  <2>5. s \in Seq(Cell)
    BY <1>1
  <2>6. E.sent \in Nat /\ E.sent < Len(Source)
    BY <1>2, <1>10
  <2>7. /\ FirstOf(Source, E.sent + 1) = Append(FirstOf(Source, E.sent), x)
        /\ x \in Cell
    <3> DEFINE n == E.sent
               z == Source
    <3>1. n \in Nat /\ n < Len(z) /\ z \in Seq(Cell)
      BY <1>5, <2>6
    <3> HIDE DEF n, z
    <3>2. /\ FirstOf(z, n + 1) = Append(FirstOf(z, n), z[n + 1])
          /\ z[n + 1] \in Cell
      BY <3>1, FirstOfGrows
    <3>3. QED
      BY <3>2, Zenon DEF n, z
  <2> HIDE DEF s, x
  <2>8. Append(s, x) \in Seq(Cell)
    BY <2>5, <2>7, AppendProperties
  <2>9. in'[f] = Append(s, x) /\ in'[e] = in[e] /\ in' \in [Ends -> Seq(Cell)]
    BY <1>1, <2>1, <2>8
  <2> HIDE DEF E, F
  <2>10. KeepsOther(e)
    <3>1. E.sent # Len(Source)
      BY <1>5, <2>6
    <3>2. QED
      BY <1>6, <2>1, <2>3, <3>1 DEF KeepsOther, E, f
  <2>11. Types'
    BY <1>1, <1>6, <2>1, <2>3, <2>9 DEF Types, WireInv
  <2>12. EndOK(e)'
    <3>1. Within(e)'
      <4>1. Within(e)
        BY <1>1 DEF EndOK
      <4>2. F.sent <= Len(Source)
        BY <1>5, <2>4, <2>6
      <4>3. QED
        BY <1>3, <1>4, <1>7, <2>4, <4>1, <4>2 DEF Within, Working, Wanted, E, F
    <3>2. Course(e)'
      <4>1. ~(F.at > WriteAt(e) + 1)
        BY <1>3, <1>8, <2>4
      <4>2. QED
        BY <1>1, <1>6, <1>7, <2>1, <2>4, <4>1 DEF EndOK, Course, E, F
    <3>3. Outcome(e)'
      BY <1>1, <1>3, <1>6, <1>7, <2>1, <2>3, <2>4 DEF EndOK, Outcome, E, F, f
    <3>4. QED
      BY <3>1, <3>2, <3>3 DEF EndOK
  <2>13. StreamOK(e)'
    BY <1>1, <2>4, <2>9, <2>10, AsReceiver DEF E, F
  <2>14. StreamOK(f)'
    <3> DEFINE b == end[f].buf
               d == end[f].body
               c == Coming(e)
    <3>1. ~Silent(f)
      <4>1. ~(E.at <= WriteAt(e)) /\ E.at # LastAt(e)
        BY <1>3, <1>8
      <4>2. QED
        BY <1>1, <4>1 DEF Silent, E
    <3>2. PICK m \in MessageType, len \in 1 .. MaxHeaderBytes : Spoken(f, m, len)
      BY <1>1, <3>1 DEF StreamOK
    <3>3. /\ b \in Seq(Cell) /\ d \in Seq(Cell) /\ c \in Seq(Cell)
          /\ Json(m, len) \in Seq(Cell) /\ PutUint32(len) \in Seq(Cell)
      BY <1>1, EndFields, ComingCells, JsonDecodes, PrefixCells
    <3>4. Coming(e)' = Append(c, x)
      BY <1>7, <2>4, <2>7 DEF Coming, E, F
    <3>5. Cat(Json(m, len), c) \in Seq(Cell)
      BY <3>3, CatSeq
    <3> HIDE DEF b, c, d
    <3>6. /\ Cat(b, Append(s, x)) = Append(Cat(b, s), x)
          /\ Cat(d, Append(s, x)) = Append(Cat(d, s), x)
          /\ Cat(Json(m, len), Append(c, x)) = Append(Cat(Json(m, len), c), x)
          /\ Cat(PutUint32(len), Append(Cat(Json(m, len), c), x))
               = Append(Cat(PutUint32(len), Cat(Json(m, len), c)), x)
      <4> DEFINE p == PutUint32(len)
                 h == Json(m, len)
      <4>1. p \in Seq(Cell) /\ h \in Seq(Cell) /\ c \in Seq(Cell) /\ Cat(h, c) \in Seq(Cell)
            /\ b \in Seq(Cell) /\ d \in Seq(Cell) /\ s \in Seq(Cell) /\ x \in Cell
        BY <2>5, <2>7, <3>3, <3>5
      <4> HIDE DEF p, h
      <4>2. Cat(b, Append(s, x)) = Append(Cat(b, s), x)
        BY <4>1, WriteOn
      <4>3. Cat(d, Append(s, x)) = Append(Cat(d, s), x)
        BY <4>1, WriteOn
      <4>4. Cat(h, Append(c, x)) = Append(Cat(h, c), x)
        BY <4>1, WriteOn
      <4>5. Cat(p, Append(Cat(h, c), x)) = Append(Cat(p, Cat(h, c)), x)
        BY <4>1, WriteOn
      <4>6. QED
        BY <4>2, <4>3, <4>4, <4>5, Zenon DEF p, h
    <3>7. Framed(f, m, len) => Framed(f, m, len)'
      <4>1. SUFFICES ASSUME Framed(f, m, len)
                     PROVE  Framed(f, m, len)'
        OBVIOUS
      <4>2. Cat(b, s) = Cat(PutUint32(len), Cat(Json(m, len), c))
        BY <1>1, <4>1 DEF Framed, b, c, s
      <4>3. Cat(b, Append(s, x)) = Cat(PutUint32(len), Cat(Json(m, len), Append(c, x)))
        BY <3>6, <4>2
      <4>4. Cat(b, in'[f]) = Cat(PutUint32(len), Cat(Json(m, len), Coming(e)'))
        BY <2>9, <3>4, <4>3
      <4>5. QED
        BY <1>1, <2>3, <4>1, <4>4 DEF Framed, b
    <3>8. Prefixed(f, m, len) => Prefixed(f, m, len)'
      BY <1>1, <2>3, <2>9, <3>4, <3>6 DEF Prefixed, b, c, s
    <3>9. Bodied(f)' = Bodied(f) /\ HearAt(f)' = HearAt(f)
      BY <1>1, <1>6, Fixed
    <3>10. Heard(f, m) => Heard(f, m)'
      BY <1>1, <2>3, <2>9, <3>4, <3>6, <3>9 DEF Heard, d, c, s
    <3>11. F.at > WriteAt(e) /\ Says(e, m)'
      BY <1>1, <1>3, <1>8, <2>4, <2>10, <3>2, StillSays DEF Spoken
    <3>12. Spoken(f, m, len)'
      BY <1>1, <1>7, <3>2, <3>7, <3>8, <3>10, <3>11 DEF Spoken, F
    <3>13. QED
      BY <3>12 DEF StreamOK
  <2>15. QED
    BY <1>1, <1>6, <1>9, <2>1, <2>10, <2>11, <2>12, <2>13, <2>14, StepKeeps DEF f
<1>11. CASE end' = [end EXCEPT ![e].at = @ + 1] /\ UNCHANGED in
            /\ trouble' = (trouble \/ more)
  <2> DEFINE X == [E EXCEPT !.at = E.at + 1]
  <2>1. /\ end' = [end EXCEPT ![e] = X] /\ in' = in
        /\ trouble' \in BOOLEAN /\ (trouble => trouble') /\ (more => trouble')
    BY <1>1, <1>2, <1>11
  <2>2. /\ X \in EndType
        /\ X.buf = E.buf /\ X.length = E.length /\ X.said = E.said /\ X.body = E.body
        /\ X.sent = E.sent /\ X.good = E.good /\ X.at = E.at + 1
        /\ X.out = E.out /\ X.closed = E.closed
    BY <1>2 DEF EndType
  <2> HIDE DEF X
  <2>3. F = X /\ end'[f] = end[f] /\ end' \in [Ends -> EndType]
    BY <2>1, <2>2, Becomes
  <2>4. /\ F.buf = E.buf /\ F.length = E.length /\ F.said = E.said /\ F.body = E.body
        /\ F.sent = E.sent /\ F.good = E.good /\ F.at = E.at + 1
        /\ F.out = E.out /\ F.closed = E.closed
    BY <2>2, <2>3
  <2>5. more \/ E.sent = Len(Source)
    BY <1>2, <1>5
  <2> HIDE DEF E, F
  <2>6. KeepsOther(e)
    BY <1>6, <2>1, <2>3, <2>4 DEF KeepsOther, E, F
  <2>7. Types'
    BY <1>6, <2>1, <2>3 DEF Types, WireInv
  <2>8. EndOK(e)'
    <3>1. Within(e)'
      <4>1. Within(e)
        BY <1>1 DEF EndOK
      <4>2. F.at \in 1 .. LastAt(e)
        BY <1>2, <1>3, <1>8, <2>4
      <4>3. QED
        BY <1>7, <2>4, <4>1, <4>2 DEF Within, Working, Wanted, E, F
    <3>2. Course(e)'
      <4>1. Course(e)
        BY <1>1 DEF EndOK
      <4>2. trouble' \/ F.sent = Len(Source)
        BY <2>1, <2>4, <2>5
      <4>3. F.at = WriteAt(e) + 2 /\ (F.at <= HearAt(e) => E.at <= HearAt(e))
        BY <1>3, <1>8, <2>4
      <4>4. eof'[f] => FALSE
        BY <1>3, <1>6, <1>8, <4>1 DEF Course, E
      <4>5. QED
        BY <1>3, <1>4, <1>7, <1>8, <2>4, <4>1, <4>2, <4>3, <4>4 DEF Course, E, F
    <3>3. Outcome(e)'
      <4>1. ~(F.at = LastAt(e) /\ e = "client")
        BY <1>3, <1>8, <2>4
      <4>2. QED
        BY <1>1, <1>3, <1>6, <1>7, <2>1, <2>3, <2>4, <4>1 DEF EndOK, Outcome, E, F
    <3>4. QED
      BY <3>1, <3>2, <3>3 DEF EndOK
  <2>9. StreamOK(e)'
    BY <1>1, <1>3, <2>1, <2>4, <2>6, AsReceiver DEF E, F
  <2>10. StreamOK(f)'
    <3>1. E.at > WriteAt(e) /\ F.at > WriteAt(e) /\ ~(E.at <= WriteAt(e)) /\ E.at # LastAt(e)
      BY <1>3, <1>8, <2>4
    <3>2. QED
      BY <1>1, <2>1, <2>4, <2>6, <3>1, AsSender DEF E, F
  <2>11. QED
    BY <1>1, <1>6, <1>9, <2>1, <2>6, <2>7, <2>8, <2>9, <2>10, StepKeeps
<1>12. QED
  BY <1>10, <1>11 DEF Send

-----------------------------------------------------------------------------
(* The theorems.                                                           *)
(***************************************************************************)
LEMMA InitKeeps == Init => WireInv
<1> SUFFICES ASSUME Init
             PROVE  WireInv
  OBVIOUS
<1>1. /\ Start \in EndType
      /\ Start.at = 1 /\ Start.buf = <<>> /\ Start.length = Nothing /\ Start.said = Nothing
      /\ Start.body = <<>> /\ Start.sent = 0 /\ Start.good = TRUE /\ Start.out = "on"
      /\ Start.closed = FALSE
  <2>1. <<>> \in Seq(Cell)
    BY EmptySeq
  <2>2. QED
    BY <2>1 DEF Start, EndType
<1>2. /\ proto \in Protocols /\ disk \in Files
      /\ in = [e \in Ends |-> <<>>] /\ eof = [e \in Ends |-> FALSE] /\ reset = FALSE
      /\ end = [e \in Ends |-> Start] /\ kept = Nothing /\ trouble = Cut
      /\ trouble \in BOOLEAN
  BY DEF Init, Cut
<1> HIDE DEF Init
<1>3. Types
  <2>1. <<>> \in Seq(Cell)
    BY EmptySeq
  <2>2. in \in [Ends -> Seq(Cell)] /\ eof \in [Ends -> BOOLEAN] /\ end \in [Ends -> EndType]
    BY <1>1, <1>2, <2>1
  <2>3. QED
    BY <1>2, <2>2 DEF Types
<1>4. ASSUME NEW e \in Ends
      PROVE  EndOK(e) /\ StreamOK(e)
  <2>1. Other(e) \in Ends /\ end[e] = Start /\ end[Other(e)] = Start /\ in[e] = <<>> /\ ~eof[Other(e)]
    BY <1>2, Others
  <2>2. /\ 1 <= LastAt(e) /\ 1 <= HearAt(e) /\ 1 <= WriteAt(e) /\ 1 <= WriteAt(Other(e))
        /\ LastAt(e) \in Nat /\ HearAt(e) \in Nat /\ WriteAt(e) \in Nat /\ WriteAt(Other(e)) \in Nat
        /\ 1 < LastAt(e) /\ (Bodied(e) => 1 < WriteAt(e))
    BY <1>2, <2>1, PlaceTable
  <2>3. Within(e)
    <3>1. Len(end[e].buf) = 0 /\ Wanted(e) = 4
      BY <1>1, <2>1 DEF Wanted, lengthPrefixSize
    <3>2. /\ end[e].at = 1 /\ end[e].closed = FALSE /\ end[e].out = "on" /\ end[e].length = Nothing
          /\ end[e].body = <<>> /\ end[e].sent = 0
      BY <1>1, <2>1
    <3>3. 1 \in 1 .. LastAt(e)
      BY <2>2
    <3>4. end[e].closed = ~Working(e)
      BY <3>2 DEF Working
    <3>5. Len(end[e].buf) <= Wanted(e)
      BY <3>1
    <3>6. QED
      BY <3>2, <3>3, <3>4, <3>5 DEF Within
  <2>4. Course(e)
    BY <1>1, <2>1, <2>2 DEF Course
  <2>5. Outcome(e)
    BY <1>1, <2>1, <2>2 DEF Outcome
  <2>6. Silent(e)
    BY <1>1, <2>1, <2>2 DEF Silent
  <2>7. QED
    BY <2>3, <2>4, <2>5, <2>6 DEF EndOK, StreamOK
<1>5. QED
  BY <1>2, <1>3, <1>4 DEF WireInv, KeptWhole

LEMMA NextKeeps == WireInv /\ [Next]_vars => WireInv'
<1> SUFFICES ASSUME WireInv, [Next]_vars
             PROVE  WireInv'
  OBVIOUS
<1>1. CASE Break
  BY <1>1, BreakKeeps
<1>2. ASSUME NEW e \in Ends, Step(e)
      PROVE  WireInv'
  <2>1. CASE Open(e)
    BY <2>1, OpenKeeps
  <2>2. CASE Write(e)
    BY <2>2, WriteKeeps
  <2>3. CASE Send(e)
    BY <2>3, SendKeeps
  <2>4. CASE CloseWrite(e)
    BY <2>4, CloseWriteKeeps
  <2>5. CASE ReadFull(e)
    BY <2>5, ReadFullKeeps
  <2>6. CASE ReadPrefix(e)
    BY <2>6, ReadPrefixKeeps
  <2>7. CASE ReadPayload(e)
    BY <2>7, ReadPayloadKeeps
  <2>8. CASE ReadEOF(e)
    BY <2>8, ReadEOFKeeps
  <2>9. CASE Take(e)
    BY <2>9, TakeKeeps
  <2>10. CASE Taken(e)
    BY <2>10, TakenKeeps
  <2>11. CASE Return(e)
    BY <2>11, ReturnKeeps
  <2>12. CASE Fail(e)
    BY <2>12, FailKeeps
  <2>13. QED
    BY <1>2, <2>1, <2>2, <2>3, <2>4, <2>5, <2>6, <2>7, <2>8, <2>9, <2>10, <2>11, <2>12 DEF Step
<1>3. CASE UNCHANGED vars
  <2>1. UNCHANGED <<proto, disk, in, eof, reset, end, kept, trouble>>
    BY <1>3 DEF vars
  <2>2. ASSUME NEW e \in Ends
        PROVE  KeepsOther(e)
    BY <2>1 DEF KeepsOther
  <2>3. ASSUME NEW e \in Ends
        PROVE  EndOK(e)' /\ StreamOK(e)'
    <3>1. Other(e) \in Ends /\ Other(Other(e)) = e /\ EndOK(e) /\ StreamOK(e)
      BY Others, EndFacts
    <3>2. EndOK(e)'
      <4> DEFINE f == Other(e)
      <4>1. f \in Ends /\ KeepsOther(f) /\ Other(f) = e
        BY <2>2, <3>1
      <4> HIDE DEF f
      <4>2. EndOK(Other(f))'
        BY <3>1, <4>1, OtherStaysOK
      <4>3. QED
        BY <4>1, <4>2
    <3>3. StreamOK(e)'
      BY <2>1, <2>2, <3>1, AsReceiver
    <3>4. QED
      BY <3>2, <3>3
  <2>4. Types' /\ KeptWhole' /\ Cut' = Cut
    BY <2>1, KeptStays, Fixed DEF WireInv, Types
  <2>5. QED
    BY <2>1, <2>3, <2>4 DEF WireInv
<1>4. QED
  BY <1>1, <1>2, <1>3 DEF Next

LEMMA WireInvariant == Spec => []WireInv
<1>1. QED
  BY InitKeeps, NextKeeps, PTL DEF Spec

\* Every variable holds what its type allows, and no reader has taken more cells
\* than are its own: four for the prefix, as many as the prefix says for the message,
\* as many as the message announces for the body (ReadMessage, io.LimitReader).
THEOREM TypesHold == Spec => []TypeOK
<1>1. WireInv => TypeOK
  <2> SUFFICES ASSUME WireInv
               PROVE  TypeOK
    OBVIOUS
  <2>1. Types /\ \A e \in Ends : EndOK(e)
    BY DEF WireInv
  <2>2. ASSUME NEW e \in Ends
        PROVE  /\ end[e].at \in 1 .. Last(e)
               /\ end[e].length \in {Nothing} \cup 0 .. MaxHeaderBytes
               /\ end[e].said \in {Nothing} \cup MessageType
               /\ end[e].out \in {"on", "ok", "failed"}
               /\ end[e].good \in BOOLEAN
               /\ end[e].closed = ~Working(e)
               /\ Len(end[e].buf) <= Wanted(e)
               /\ end[e].body # <<>> => Len(end[e].body) <= end[e].said.bytes
               /\ end[e].sent <= Longest + HeaderSize
    <3>1. Within(e) /\ Last(e) = LastAt(e)
      BY EndFacts DEF EndOK
    <3>2. /\ end[e].length \in Nat \cup {Nothing} /\ end[e].said \in MessageType \cup {Nothing}
          /\ end[e].out \in {"on", "ok", "failed"} /\ end[e].good \in BOOLEAN
          /\ end[e].sent \in Nat
      BY EndFields
    <3>3. Longest \in Nat /\ HeaderSize \in Nat /\ MaxHeaderBytes \in Nat
      BY WireAssumption
    <3>4. end[e].length \in {Nothing} \cup 0 .. MaxHeaderBytes
      BY <3>1, <3>2, <3>3 DEF Within
    <3>5. end[e].sent <= Longest + HeaderSize
      <4>1. CASE end[e].sent = 0
        BY <3>3, <4>1
      <4>2. CASE end[e].sent # 0
        <5>1. Readable /\ end[e].sent <= Len(Source)
          BY <3>1, <4>2 DEF Within
        <5>2. Len(Source) <= Longest + HeaderSize /\ Source \in Seq(BlobCell)
          BY <2>1, <5>1, SourceOpens DEF Types
        <5>3. Len(Source) \in Nat
          BY <5>2, LenProperties
        <5>4. QED
          BY <3>2, <3>3, <5>1, <5>2, <5>3
      <4>3. QED
        BY <4>1, <4>2
    <3>6. QED
      BY <3>1, <3>2, <3>4, <3>5 DEF Within
  <2>3. QED
    BY <2>1, <2>2 DEF TypeOK, Types
<1>2. QED
  BY <1>1, WireInvariant, PTL

\* What a receiver records is its sender's file as it was announced, and so whole if
\* it was whole then, in whatever pieces it came and whatever broke (handleStore,
\* handleShare, fetchBlob).
THEOREM RecordedWhole == Spec => []KeptWhole
<1>1. WireInv => KeptWhole
  BY DEF WireInv
<1>2. QED
  BY <1>1, WireInvariant, PTL

\* A push or a get that has succeeded is recorded on the other side, or on this one.
THEOREM SuccessIsKept == Spec => []OkMeansKept
<1>1. WireInv => OkMeansKept
  <2>1. "client" \in Ends
    BY DEF Ends
  <2>2. QED
    BY <2>1 DEF WireInv, EndOK, Outcome, OkMeansKept
<1>2. QED
  BY <1>1, WireInvariant, PTL

\* No exchange fails without a cause: the counts that are announced are the counts
\* that are sent, so no receiver finds a good body short (Announced, metaFromEntry).
THEOREM FailuresHaveCauses == Spec => []FailsForCause
<1>1. WireInv => FailsForCause
  BY DEF WireInv, EndOK, Outcome, FailsForCause
<1>2. QED
  BY <1>1, WireInvariant, PTL
=============================================================================
