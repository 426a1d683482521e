---------------------------- MODULE FramingProofs ----------------------------
(* Proofs about RequestFraming: for messages that are not chunked, of any  *)
(* length, cut by TCP in any way, whatever other messages the connection   *)
(* carries; and about the decoder of chunked bodies, for any number of     *)
(* chunks.                                                                 *)
EXTENDS RequestFraming, DataInduction

(* The client says nothing of Transfer-Encoding, and no line of the body   *)
(* passes for a field.                                                     *)
Plain(m) == m.framing # "chunked" /\ FieldsInHeader(m)

-----------------------------------------------------------------------------
(* What FlattenSeq computes: its local function exists, and joins the      *)
(* pieces it has come to.                                                  *)
Joins(g, ss, k) ==
    g = [i \in 1..k |-> IF i = 1 THEN ss[i] ELSE g[i - 1] \o ss[i]]

LEMMA JoinsExists ==
    ASSUME NEW ss, NEW n \in Nat \ {0} PROVE \E g : Joins(g, ss, n)
<1> DEFINE T == {k \in Nat : k > 0 => \E g : Joins(g, ss, k)}
<1>1. 0 \in T
  OBVIOUS
<1>2. ASSUME NEW k \in Nat, k \in T PROVE k + 1 \in T
  <2>1. CASE k = 0
    <3> DEFINE h == [i \in 1..1 |-> ss[i]]
    <3>1. Joins(h, ss, 1)
      BY DEF Joins
    <3> QED
      BY <2>1, <3>1
  <2>2. CASE k > 0
    <3>1. PICK g : Joins(g, ss, k)
      BY <1>2, <2>2
    <3> DEFINE h == [i \in 1..(k + 1) |-> IF i <= k THEN g[i] ELSE g[k] \o ss[k + 1]]
    <3>2. ASSUME NEW i \in 1..(k + 1)
          PROVE  h[i] = IF i = 1 THEN ss[i] ELSE h[i - 1] \o ss[i]
      <4>1. CASE i <= k
        <5>1. i \in 1..k /\ h[i] = g[i] /\ (i # 1 => h[i - 1] = g[i - 1])
          BY <4>1
        <5> HIDE DEF h
        <5> QED
          BY <3>1, <5>1 DEF Joins
      <4>2. CASE i = k + 1
        BY <2>2, <4>2
      <4> QED
        BY <4>1, <4>2
    <3>3. Joins(h, ss, k + 1)
      <4>1. h = [i \in 1..(k + 1) |-> h[i]]
        OBVIOUS
      <4> HIDE DEF h
      <4> QED
        BY <3>2, <4>1 DEF Joins
    <3> QED
      BY <3>3
  <2> QED
    BY <1>2, <2>1, <2>2
<1> HIDE DEF T
<1>3. n \in T
  BY <1>1, <1>2, NumbersByStep
<1> QED
  BY <1>3 DEF T

LEMMA JoinsType ==
    ASSUME NEW S, NEW ss \in Seq(Seq(S)), Len(ss) > 0, NEW g, Joins(g, ss, Len(ss))
    PROVE  g[Len(ss)] \in Seq(S)
<1> DEFINE n == Len(ss)
           T == {k \in 1..n : g[k] \in Seq(S)}
<1>1. n \in Nat /\ \A i \in 1..n : ss[i] \in Seq(S)
  BY LenProperties, ElementOfSeq
<1>2. \A i \in 1..n : g[i] = IF i = 1 THEN ss[i] ELSE g[i - 1] \o ss[i]
  BY DEF Joins
<1> HIDE DEF n
<1>3. 1 \in T
  BY <1>1, <1>2 DEF n
<1>4. ASSUME NEW i \in 1..(n - 1), i \in T PROVE i + 1 \in T
  <2>1. i + 1 \in 1..n /\ i + 1 # 1 /\ (i + 1) - 1 = i
    BY <1>1
  <2>2. g[i + 1] = g[i] \o ss[i + 1] /\ ss[i + 1] \in Seq(S)
    <3> HIDE DEF T
    <3> QED
      BY <1>1, <1>2, <2>1
  <2>3. g[i] \in Seq(S)
    BY <1>4
  <2>4. g[i + 1] \in Seq(S)
    BY <2>2, <2>3, ConcatProperties
  <2> QED
    BY <2>1, <2>4
<1> HIDE DEF T
<1>5. n \in T
  <2>1. n > 0 /\ n \in 1..n
    BY <1>1 DEF n
  <2> QED
    BY <1>1, <1>3, <1>4, <2>1, IndicesByStep
<1> QED
  BY <1>5 DEF T, n

LEMMA FlattenType ==
    ASSUME NEW S, NEW ss \in Seq(Seq(S))
    PROVE  FlattenSeq(ss) \in Seq(S)
<1>1. CASE Len(ss) = 0
  BY <1>1, EmptySeq DEF FlattenSeq
<1>2. CASE Len(ss) # 0
  <2> DEFINE n == Len(ss)
             flatten == CHOOSE g : Joins(g, ss, n)
  <2>1. n \in Nat \ {0}
    BY <1>2, LenProperties
  <2>2. Joins(flatten, ss, n)
    BY <2>1, JoinsExists
  <2>3. FlattenSeq(ss) = flatten[n]
    BY <1>2 DEF FlattenSeq, Joins
  <2> QED
    BY <2>1, <2>2, <2>3, JoinsType
<1> QED
  BY <1>1, <1>2

-----------------------------------------------------------------------------
(* Sequences.                                                              *)

LEMMA Joined ==
    ASSUME NEW S, NEW s \in Seq(S), NEW t \in Seq(S)
    PROVE  s \o t \in Seq(S) /\ Len(s \o t) = Len(s) + Len(t)
BY ConcatProperties

LEMMA PairFacts ==
    ASSUME NEW S, NEW x \in S, NEW y \in S
    PROVE  <<x, y>> \in Seq(S) /\ Len(<<x, y>>) = 2
OBVIOUS

(* What is behind the first six units.                                     *)
LEMMA BehindHeader ==
    ASSUME NEW S, NEW h \in Seq(S), NEW d \in Seq(S), Len(h) = 6
    PROVE  SubSeq(h \o d, 7, Len(h \o d)) = d
<1>1. Len(d) \in Nat /\ Len(h \o d) = 6 + Len(d) /\ h \o d \in Seq(S)
  BY Joined, LenProperties
<1>2. CASE Len(d) = 0
  <2>1. d = <<>>
    BY <1>2, EmptySeq
  <2>2. SubSeq(h \o d, 7, 6) = <<>>
    BY SubSeqEmpty
  <2> QED
    BY <1>1, <1>2, <2>1, <2>2
<1>3. CASE Len(d) # 0
  <2>1. 7 \in Len(h) + 1 .. Len(h) + Len(d) /\ 6 + Len(d) \in Len(h) + 1 .. Len(h) + Len(d)
    BY <1>1, <1>3
  <2>2. SubSeq(h \o d, 7, 6 + Len(d)) = SubSeq(d, 7 - Len(h), (6 + Len(d)) - Len(h))
    BY <2>1, SubSeqOfConcat2
  <2>3. 7 - Len(h) = 1 /\ (6 + Len(d)) - Len(h) = Len(d)
    BY <1>1
  <2>4. SubSeq(d, 1, Len(d)) = d
    BY SubSeqFull
  <2> QED
    BY <1>1, <2>2, <2>3, <2>4, Zenon
<1> QED
  BY <1>1, <1>2, <1>3

LEMMA Shortened ==
    ASSUME NEW S, NEW s \in Seq(S), NEW k \in 1..Len(s), NEW b, b = SubSeq(s, 1, k)
    PROVE  /\ Len(b) = k
           /\ \A unit : LinesBegun(b, unit) \subseteq LinesBegun(s, unit)
           /\ k >= 6 => Len(SubSeq(b, 7, k)) = k - 6
<1>1. /\ Len(s) \in Nat /\ k \in Nat /\ k <= Len(s)
      /\ \A i \in 1..k : s[i] \in S
  BY LenProperties, ElementOfSeq
<1>2. b \in Seq(S) /\ Len(b) = k /\ \A i \in 1..k : b[i] = s[i]
  BY <1>1, SubSeqProperties
<1>3. \A unit : LinesBegun(b, unit) \subseteq LinesBegun(s, unit)
  <2> SUFFICES ASSUME NEW unit,
                      NEW i \in 2..Len(b), b[i] = unit, b[i - 1] \in {"LF", "TE"}
               PROVE  i \in 2..Len(s) /\ s[i] = unit /\ s[i - 1] \in {"LF", "TE"}
    BY DEF LinesBegun
  <2>1. i \in 1..k /\ i - 1 \in 1..k /\ i \in 2..Len(s)
    BY <1>1, <1>2
  <2> QED
    BY <1>2, <2>1
<1>4. ASSUME k >= 6 PROVE Len(SubSeq(b, 7, k)) = k - 6
  <2>1. \A i \in 7..k : b[i] \in S
    BY <1>1, <1>2
  <2> QED
    BY <1>1, <1>4, <2>1, SubSeqProperties
<1> QED
  BY <1>2, <1>3, <1>4

-----------------------------------------------------------------------------
(* A plain message and what is read of it.                                 *)

Units == STRING \cup {"0", "x", "CR", "LF"}

LEMMA HeaderFacts ==
    ASSUME NEW m \in Messages
    PROVE  Header(m) \in Seq(Units) /\ Len(Header(m)) = 6
<1> DEFINE start == <<"x", m.last>>
<1>1. m.last \in {"0", "x"}
  BY MessageAssumption
<1>2. "x" \in Units /\ m.last \in Units /\ "CR" \in Units /\ "LF" \in Units
  BY <1>1 DEF Units
<1>3. start \in Seq(Units) /\ Len(start) = 2
  BY <1>2, PairFacts
<1>4. CRLF \in Seq(Units) /\ Len(CRLF) = 2
  BY <1>2, PairFacts DEF CRLF
<1> HIDE DEF start
<1>5. /\ start \o CRLF \in Seq(Units)
      /\ Len(start \o CRLF) = Len(start) + Len(CRLF)
  BY <1>3, <1>4, Joined, Zenon
<1>6. /\ (start \o CRLF) \o CRLF \in Seq(Units)
      /\ Len((start \o CRLF) \o CRLF) = Len(start \o CRLF) + Len(CRLF)
  BY <1>4, <1>5, Joined, Zenon
<1>7. Len((start \o CRLF) \o CRLF) = 6
  BY <1>3, <1>4, <1>5, <1>6
<1> QED
  BY <1>6, <1>7 DEF Header, start

LEMMA StreamFacts ==
    ASSUME NEW m \in Messages, Plain(m)
    PROVE  /\ Body(m) \in Seq(STRING) /\ Body(m) \in Seq(Units) /\ Len(Body(m)) \in Nat
           /\ Stream(m) = Header(m) \o Body(m) /\ Stream(m) \in Seq(Units)
           /\ Len(Stream(m)) = 6 + Len(Body(m))
           /\ m.framing = "none" => Len(Body(m)) = 0
<1>1. m.pieces \in Seq(Seq(STRING)) /\ (m.framing = "none" => m.pieces = <<>>)
  BY MessageAssumption
<1>2. Body(m) \in Seq(STRING) /\ Body(m) \in Seq(Units) /\ Len(Body(m)) \in Nat
  <2>1. Body(m) \in Seq(STRING)
    BY <1>1, FlattenType DEF Body
  <2>2. STRING \subseteq Units
    BY DEF Units
  <2> QED
    BY <2>1, <2>2, SeqMonotonic, LenProperties
<1>3. Stream(m) = Header(m) \o Body(m)
  BY DEF Stream, Coded, Plain
<1>4. m.framing = "none" => Len(Body(m)) = 0
  BY <1>1, EmptySeq DEF Body, FlattenSeq
<1>5. Header(m) \in Seq(Units) /\ Len(Header(m)) = 6
  BY HeaderFacts
<1>6. /\ Header(m) \o Body(m) \in Seq(Units)
      /\ Len(Header(m) \o Body(m)) = Len(Header(m)) + Len(Body(m))
  BY <1>2, <1>5, Joined
<1> QED
  BY <1>2, <1>3, <1>4, <1>5, <1>6

Prefix(m, k) == SubSeq(Stream(m), 1, k)
Announced(m) == [chunked |-> FALSE, size |-> Len(Body(m))]

LEMMA PrefixFacts ==
    ASSUME NEW m \in Messages, Plain(m), NEW k \in 1..Len(Stream(m)),
           NEW b, b = Prefix(m, k)
    PROVE  /\ HeaderIn(b, m) <=> k >= 6
           /\ ~BareField(b)
           /\ ParseHeader(b, m) = Announced(m)
           /\ k >= 6 => Len(Data(b, m)) = k - 6
           /\ k = Len(Stream(m)) => Data(b, m) = Body(m)
<1>1. Stream(m) \in Seq(Units) /\ Stream(m) = Header(m) \o Body(m)
  BY StreamFacts
<1>2. Header(m) \in Seq(Units) /\ Len(Header(m)) = 6
  BY HeaderFacts
<1>3. /\ Len(b) = k
      /\ \A unit : LinesBegun(b, unit) \subseteq LinesBegun(Stream(m), unit)
      /\ k >= 6 => Len(SubSeq(b, 7, k)) = k - 6
  <2>1. b = SubSeq(Stream(m), 1, k)
    BY Zenon DEF Prefix
  <2> QED
    BY <1>1, <2>1, Shortened
<1>4. ParseHeader(b, m) = Announced(m)
  <2>1. ~EncodingLine(b) /\ m.framing \in {"none", "length"}
    BY <1>3, MessageAssumption DEF Plain, FieldsInHeader, EncodingLine
  <2>2. Coded(m) = Body(m)
    BY DEF Coded, Plain
  <2> QED
    BY <2>1, <2>2, StreamFacts DEF ParseHeader, Announced
<1>5. Data(b, m) = SubSeq(b, 7, k)
  <2>1. Len(Header(m)) + 1 = 7
    BY <1>2
  <2> QED
    BY <1>3, <2>1, Zenon DEF Data
<1>6. ASSUME k = Len(Stream(m)) PROVE Data(b, m) = Body(m)
  <2>1. b = Stream(m)
    BY <1>1, <1>6, SubSeqFull, Zenon DEF Prefix
  <2>2. SubSeq(Stream(m), 7, Len(Stream(m))) = Body(m)
    BY <1>1, <1>2, StreamFacts, BehindHeader, Zenon
  <2> QED
    BY <1>5, <1>6, <2>1, <2>2, Zenon
<1>7. HeaderIn(b, m) <=> k >= 6
  BY <1>2, <1>3 DEF HeaderIn
<1>8. ~BareField(b)
  BY <1>3 DEF Plain, FieldsInHeader, BareField
<1> QED
  BY <1>3, <1>4, <1>5, <1>6, <1>7, <1>8

-----------------------------------------------------------------------------
(* The invariant: as long as a plain message is not over, the first pass   *)
(* knows its length and nothing is answered; when it is over, it has been  *)
(* served with its body.  Where all messages are plain, the Request's own  *)
(* buffer is never used.                                                   *)
FirstPassInv ==
    IF headerSeen THEN req = Announced(msg) ELSE req = NoRequest /\ outcome = "none"
OutcomeInv ==
    IF outcome = "none" THEN fed < Len(Stream(msg)) /\ body = <<>>
    ELSE fed = Len(Stream(msg)) /\ outcome = "served" /\ body = Body(msg)
PlainInv == fed \in 0..Len(Stream(msg)) /\ FirstPassInv /\ OutcomeInv
AllPlain == \A m \in Messages : Plain(m)
FramingInv ==
    /\ msg \in Messages /\ headerSeen \in BOOLEAN /\ count \in 0..MaxMessages
    /\ Plain(msg) => PlainInv
    /\ AllPlain => digits = <<>>

LEMMA BodyParsed ==
    ASSUME NEW m \in Messages, Plain(m), NEW b, NEW d,
           ParseHeader(b, m) = Announced(m), Data(b, m) = Body(m)
    PROVE  ParseBody(b, m, d) = [result |-> "served", body |-> Body(m), digits |-> d]
<1>1. Len(Body(m)) = 0 => Body(m) = <<>>
  BY StreamFacts, EmptySeq
<1> QED
  BY <1>1 DEF ParseBody, NoBody, Raw, Announced

(* A read of a plain message, whatever came before it.                     *)
LEMMA PlainRead ==
    ASSUME msg \in Messages, Plain(msg), PlainInv, HandleRead
    PROVE  PlainInv' /\ digits' = digits
<1>1. /\ msg' = msg /\ outcome = "none"
      /\ fed \in Nat /\ Len(Stream(msg)) \in Nat
      /\ Len(Stream(msg)) = 6 + Len(Body(msg)) /\ Len(Body(msg)) \in Nat
  BY StreamFacts DEF PlainInv, HandleRead
<1>2. PICK n \in 1..(Len(Stream(msg)) - fed) :
        LET b == SubSeq(Stream(msg), 1, fed + n) IN
        /\ fed' = fed + n
        /\ \/ NoHeader(b) \/ NotWhole(b) \/ Whole(b)
           \/ FirstPassThrows(b) \/ SecondPassThrows(b)
  BY DEF HandleRead
<1> DEFINE b == SubSeq(Stream(msg), 1, fed + n)
           k == fed + n
<1>3. k \in 1..Len(Stream(msg)) /\ fed' = k
  BY <1>1, <1>2
<1>4. b = Prefix(msg, k)
  BY DEF Prefix
<1> HIDE DEF b, k
<1>5. /\ HeaderIn(b, msg) <=> k >= 6
      /\ ~BareField(b)
      /\ ParseHeader(b, msg) = Announced(msg)
      /\ k >= 6 => Len(Data(b, msg)) = k - 6
      /\ k = Len(Stream(msg)) => Data(b, msg) = Body(msg)
  BY <1>1, <1>3, <1>4, PrefixFacts
<1>6. FirstPass(b) = Announced(msg)
  BY <1>5 DEF FirstPass, PlainInv, FirstPassInv
<1>7. HeaderIn(b, msg) =>
         (Complete(b, msg, FirstPass(b)) <=> k = Len(Stream(msg)))
  <2> SUFFICES ASSUME HeaderIn(b, msg)
               PROVE  Complete(b, msg, FirstPass(b)) <=> k = Len(Stream(msg))
    OBVIOUS
  <2>1. Complete(b, msg, FirstPass(b)) <=> Len(Data(b, msg)) >= Len(Body(msg))
    BY <1>6 DEF Complete, Announced
  <2> QED
    BY <1>1, <1>3, <1>5, <2>1
<1>8. CASE NoHeader(b)
  <2>1. k < Len(Stream(msg))
    BY <1>1, <1>3, <1>5, <1>8 DEF NoHeader
  <2>2. UNCHANGED <<headerSeen, req, digits, outcome, body>>
    BY <1>8 DEF NoHeader
  <2> QED
    BY <1>1, <1>3, <2>1, <2>2 DEF PlainInv, FirstPassInv, OutcomeInv, Announced
<1>9. CASE NotWhole(b)
  <2>1. k < Len(Stream(msg))
    BY <1>1, <1>3, <1>7, <1>9 DEF NotWhole
  <2>2. headerSeen' = TRUE /\ req' = Announced(msg) /\ UNCHANGED <<digits, outcome, body>>
    BY <1>6, <1>9 DEF NotWhole
  <2> QED
    BY <1>1, <1>3, <2>1, <2>2 DEF PlainInv, FirstPassInv, OutcomeInv, Announced
<1>10. CASE Whole(b)
  <2>1. k = Len(Stream(msg)) /\ Data(b, msg) = Body(msg)
    BY <1>5, <1>7, <1>10 DEF Whole
  <2>2. /\ headerSeen' = TRUE /\ req' = Announced(msg)
        /\ outcome' = "served" /\ body' = Body(msg) /\ digits' = digits
    BY <1>1, <1>5, <1>10, <2>1, BodyParsed DEF Whole
  <2> QED
    BY <1>1, <1>3, <2>1, <2>2 DEF PlainInv, FirstPassInv, OutcomeInv, Announced
<1>11. ~FirstPassThrows(b) /\ ~SecondPassThrows(b)
  BY <1>5 DEF FirstPassThrows, SecondPassThrows
<1> QED
  BY <1>2, <1>8, <1>9, <1>10, <1>11 DEF b, k

LEMMA ReadKeeps == ASSUME FramingInv, HandleRead PROVE FramingInv'
<1>1. msg \in Messages /\ msg' = msg /\ count' = count
  BY DEF FramingInv, HandleRead
<1>2. headerSeen' \in BOOLEAN
  BY DEF FramingInv, HandleRead, NoHeader, NotWhole, Whole, FirstPassThrows, SecondPassThrows
<1>3. Plain(msg') = Plain(msg)
  BY <1>1
<1>4. Plain(msg) => PlainInv' /\ digits' = digits
  BY PlainRead DEF FramingInv
<1>5. AllPlain => Plain(msg)
  BY <1>1 DEF AllPlain
<1> QED
  BY <1>1, <1>2, <1>3, <1>4, <1>5 DEF FramingInv, AllPlain

LEMMA Begun ==
    ASSUME NEW m \in Messages, Plain(m)
    PROVE  0 \in 0..Len(Stream(m)) /\ 0 < Len(Stream(m))
<1>1. Len(Stream(m)) = 6 + Len(Body(m)) /\ Len(Body(m)) \in Nat
  BY StreamFacts
<1> QED
  BY <1>1

LEMMA FramingStep == ASSUME FramingInv, [Next]_vars PROVE FramingInv'
<1>1. CASE HandleWrite
  <2>1. msg' \in Messages
    BY <1>1 DEF HandleWrite
  <2>2. count' \in 0..MaxMessages
    <3>1. count \in 0..MaxMessages /\ count < MaxMessages /\ count' = count + 1
      BY <1>1 DEF HandleWrite, FramingInv
    <3> QED
      BY <3>1, BoundAssumption
  <2>3. /\ fed' = 0 /\ headerSeen' = FALSE /\ req' = NoRequest
        /\ outcome' = "none" /\ body' = <<>> /\ digits' = digits
    BY <1>1 DEF HandleWrite
  <2>4. ASSUME Plain(msg)' PROVE PlainInv'
    <3>1. Len(Stream(msg)') = Len(Stream(msg'))
      OBVIOUS
    <3>2. fed' \in 0..Len(Stream(msg')) /\ fed' < Len(Stream(msg'))
      BY <2>1, <2>3, <2>4, Begun
    <3>3. FirstPassInv'
      BY <2>3, Zenon DEF FirstPassInv, NoRequest
    <3>4. OutcomeInv'
      BY <2>3, <3>2 DEF OutcomeInv
    <3> QED
      BY <3>2, <3>3, <3>4 DEF PlainInv
  <2> QED
    BY <2>1, <2>2, <2>3, <2>4 DEF FramingInv, AllPlain
<1>2. CASE UNCHANGED vars
  BY <1>2 DEF vars, FramingInv, PlainInv, FirstPassInv, OutcomeInv, Announced, AllPlain
<1> QED
  BY <1>1, <1>2, ReadKeeps DEF Next

LEMMA FramingAlways == Spec => []FramingInv
<1>1. Init => FramingInv
  <2> SUFFICES ASSUME Init PROVE FramingInv
    OBVIOUS
  <2>1. /\ msg \in Messages /\ fed = 0 /\ headerSeen = FALSE /\ req = NoRequest
        /\ outcome = "none" /\ body = <<>> /\ digits = <<>> /\ count = 0
    BY DEF Init
  <2>2. count \in 0..MaxMessages
    BY <2>1, BoundAssumption
  <2>3. ASSUME Plain(msg) PROVE PlainInv
    <3>1. fed \in 0..Len(Stream(msg)) /\ fed < Len(Stream(msg))
      BY <2>1, <2>3, Begun
    <3>2. FirstPassInv
      BY <2>1, Zenon DEF FirstPassInv, NoRequest
    <3>3. OutcomeInv
      BY <2>1, <3>1 DEF OutcomeInv
    <3> QED
      BY <3>1, <3>2, <3>3 DEF PlainInv
  <2> QED
    BY <2>1, <2>2, <2>3 DEF FramingInv
<1> QED
  BY <1>1, FramingStep, PTL DEF Spec

(* However many messages a connection carries, however long they are and   *)
(* wherever TCP cuts them, no answer is given to half a message that is    *)
(* not chunked and has no line in its body that passes for a field: not    *)
(* even behind messages that are or have.                                  *)
THEOREM NoEarlyAnswer == Spec => [](msg.framing # "chunked" => NeverBeforeTheEnd)
<1>1. FramingInv => (msg.framing # "chunked" => NeverBeforeTheEnd)
  BY DEF FramingInv, PlainInv, OutcomeInv, NeverBeforeTheEnd, Plain
<1> QED
  BY <1>1, FramingAlways, PTL

(* And such a message that is over is answered: nothing is left to wait    *)
(* for.                                                                    *)
THEOREM AnswerInTime == Spec => [](msg.framing # "chunked" => AnsweredAtTheEnd)
<1>1. FramingInv => (msg.framing # "chunked" => AnsweredAtTheEnd)
  <2> SUFFICES ASSUME FramingInv, msg.framing # "chunked" PROVE AnsweredAtTheEnd
    OBVIOUS
  <2>1. Plain(msg) => fed \in Nat
    BY DEF FramingInv, PlainInv
  <2> QED
    BY <2>1 DEF FramingInv, PlainInv, OutcomeInv, AnsweredAtTheEnd, Plain
<1> QED
  BY <1>1, FramingAlways, PTL

(* It is served, with exactly the body the client sent: no unit of it lost *)
(* or taken for the header, and none of an earlier message in it.          *)
THEOREM BodiesArrive == Spec => [](msg.framing # "chunked" => BodyAsSent)
<1>1. FramingInv => (msg.framing # "chunked" => BodyAsSent)
  BY DEF FramingInv, PlainInv, OutcomeInv, BodyAsSent, Plain
<1> QED
  BY <1>1, FramingAlways, PTL

(* The variables keep their types, where all messages are plain.           *)
THEOREM TypeCorrect == ASSUME AllPlain PROVE Spec => []TypeOK
<1>1. FramingInv => TypeOK
  <2> SUFFICES ASSUME FramingInv PROVE TypeOK
    OBVIOUS
  <2>0. msg \in Messages /\ Plain(msg) /\ PlainInv /\ digits = <<>>
    BY DEF FramingInv, AllPlain
  <2>1. Body(msg) \in Seq(STRING) /\ Len(Body(msg)) \in Nat
    BY <2>0, StreamFacts
  <2>2. <<>> \in Seq(STRING) /\ <<>> \in Seq(DOMAIN Digits)
    BY EmptySeq
  <2>3. req \in [chunked : BOOLEAN, size : Nat]
    <3>1. Announced(msg) \in [chunked : BOOLEAN, size : Nat]
      BY <2>1 DEF Announced
    <3>2. NoRequest \in [chunked : BOOLEAN, size : Nat]
      BY DEF NoRequest
    <3>3. req = Announced(msg) \/ req = NoRequest
      BY <2>0 DEF PlainInv, FirstPassInv
    <3> QED
      BY <3>1, <3>2, <3>3
  <2>4. body \in Seq(STRING) /\ outcome \in {"none", "served", "400", "500", "undefined"}
    BY <2>0, <2>1, <2>2 DEF PlainInv, OutcomeInv
  <2> QED
    BY <2>0, <2>2, <2>3, <2>4 DEF FramingInv, PlainInv, TypeOK
<1> QED
  BY <1>1, FramingAlways, PTL

-----------------------------------------------------------------------------
(* The decoder of chunked bodies.  Run(s, w) takes the characters of w one *)
(* after the other, so a run over joined words is one run after the other. *)
Runs(f, s, w) == f = [i \in 0..Len(w) |-> IF i = 0 THEN s ELSE Step(f[i - 1], w[i])]

LEMMA RunExists ==
    ASSUME NEW s, NEW w, Len(w) \in Nat
    PROVE  \E f : Runs(f, s, w) /\ Run(s, w) = f[Len(w)]
<1> DEFINE R(f, k) == f = [i \in 0..k |-> IF i = 0 THEN s ELSE Step(f[i - 1], w[i])]
           T == {k \in Nat : \E f : R(f, k)}
<1>1. 0 \in T
  <2> DEFINE h == [i \in 0..0 |-> s]
  <2>1. h = [i \in 0..0 |-> IF i = 0 THEN s ELSE Step(h[i - 1], w[i])]
    OBVIOUS
  <2> QED
    BY <2>1
<1>2. ASSUME NEW k \in Nat, k \in T PROVE k + 1 \in T
  <2>1. PICK g : R(g, k)
    BY <1>2
  <2> DEFINE h == [i \in 0..(k + 1) |-> IF i <= k THEN g[i] ELSE Step(g[k], w[k + 1])]
  <2>2. ASSUME NEW i \in 0..(k + 1)
        PROVE  h[i] = IF i = 0 THEN s ELSE Step(h[i - 1], w[i])
    <3>1. CASE i <= k
      <4>1. i \in 0..k /\ h[i] = g[i] /\ (i # 0 => h[i - 1] = g[i - 1])
        BY <3>1
      <4>2. g[i] = IF i = 0 THEN s ELSE Step(g[i - 1], w[i])
        BY <2>1, <4>1
      <4> HIDE DEF h
      <4> QED
        BY <4>1, <4>2
    <3>2. CASE i = k + 1
      <4>1. h[i] = Step(g[k], w[k + 1]) /\ h[i - 1] = g[k] /\ i # 0
        BY <3>2
      <4> HIDE DEF h
      <4> QED
        BY <3>2, <4>1
    <3> QED
      BY <3>1, <3>2
  <2>3. R(h, k + 1)
    <3>1. h = [i \in 0..(k + 1) |-> h[i]]
      OBVIOUS
    <3> HIDE DEF h
    <3> QED
      BY <2>2, <3>1
  <2> HIDE DEF h, R
  <2> QED
    BY <2>3
<1> HIDE DEF T
<1>3. Len(w) \in T
  BY <1>1, <1>2, NumbersByStep
<1> DEFINE after == CHOOSE f : R(f, Len(w))
<1>4. R(after, Len(w))
  BY <1>3 DEF T
<1>5. Run(s, w) = after[Len(w)]
  BY Zenon DEF Run
<1> QED
  BY <1>4, <1>5 DEF Runs

LEMMA RunSteps ==
    ASSUME NEW s, NEW w, Len(w) \in Nat, NEW f, Runs(f, s, w)
    PROVE  f[0] = s /\ \A i \in 1..Len(w) : f[i] = Step(f[i - 1], w[i])
BY DEF Runs

LEMMA RunIs ==
    ASSUME NEW s, NEW w, Len(w) \in Nat, NEW g, g[0] = s,
           \A i \in 1..Len(w) : g[i] = Step(g[i - 1], w[i])
    PROVE  Run(s, w) = g[Len(w)]
<1>1. PICK f : Runs(f, s, w) /\ Run(s, w) = f[Len(w)]
  BY RunExists
<1> DEFINE T == {k \in Nat : k <= Len(w) => f[k] = g[k]}
<1>2. /\ f[0] = s
      /\ \A i \in 1..Len(w) : f[i] = Step(f[i - 1], w[i])
  BY <1>1 DEF Runs
<1>3. 0 \in T
  BY <1>2
<1>4. ASSUME NEW k \in Nat, k \in T PROVE k + 1 \in T
  <2> SUFFICES ASSUME k + 1 <= Len(w) PROVE f[k + 1] = g[k + 1]
    OBVIOUS
  <2>1. k + 1 \in 1..Len(w) /\ (k + 1) - 1 = k /\ f[k] = g[k]
    BY <1>4
  <2>2. f[k + 1] = Step(f[(k + 1) - 1], w[k + 1]) /\ g[k + 1] = Step(g[(k + 1) - 1], w[k + 1])
    BY <1>2, <2>1
  <2> QED
    BY <2>1, <2>2, Zenon
<1> HIDE DEF T
<1>5. Len(w) \in T
  BY <1>3, <1>4, NumbersByStep
<1> QED
  BY <1>1, <1>5 DEF T

LEMMA RunNothing == ASSUME NEW s PROVE Run(s, <<>>) = s
<1>1. PICK f : Runs(f, s, <<>>) /\ Run(s, <<>>) = f[Len(<<>>)]
  BY RunExists, EmptySeq
<1> QED
  BY <1>1 DEF Runs

LEMMA RunOne == ASSUME NEW s, NEW c PROVE Run(s, <<c>>) = Step(s, c)
<1>1. PICK f : Runs(f, s, <<c>>) /\ Run(s, <<c>>) = f[Len(<<c>>)]
  BY RunExists
<1>2. Len(<<c>>) = 1 /\ <<c>>[1] = c
  OBVIOUS
<1>3. f[0] = s /\ f[1] = Step(f[0], <<c>>[1])
  BY <1>1, <1>2 DEF Runs
<1> QED
  BY <1>1, <1>2, <1>3

LEMMA RunJoined ==
    ASSUME NEW S, NEW u \in Seq(S), NEW v \in Seq(S), NEW s
    PROVE  Run(s, u \o v) = Run(Run(s, u), v)
<1> DEFINE m == Len(u)
           n == Len(v)
           w == u \o v
<1>1. /\ m \in Nat /\ n \in Nat /\ Len(w) = m + n
      /\ \A i \in 1..m : w[i] = u[i]
      /\ \A i \in 1..n : w[m + i] = v[i]
  BY LenProperties, ConcatProperties
<1>2. PICK f : Runs(f, s, u) /\ Run(s, u) = f[m]
  BY <1>1, RunExists
<1>3. PICK g : Runs(g, Run(s, u), v) /\ Run(Run(s, u), v) = g[n]
  BY <1>1, RunExists
<1> HIDE DEF m, n, w
<1>4. /\ f[0] = s
      /\ \A i \in 1..m : f[i] = Step(f[i - 1], u[i])
      /\ g[0] = f[m]
      /\ \A i \in 1..n : g[i] = Step(g[i - 1], v[i])
  <2>1. Len(u) \in Nat /\ Len(v) \in Nat
    BY <1>1 DEF m, n
  <2> QED
    BY <1>2, <1>3, <2>1, RunSteps DEF m, n
<1> DEFINE h == [i \in 0..(m + n) |-> IF i <= m THEN f[i] ELSE g[i - m]]
<1>5. h[0] = s /\ h[m + n] = g[n]
  <2>1. h[0] = f[0] /\ (n = 0 => h[m + n] = f[m]) /\ (n # 0 => h[m + n] = g[(m + n) - m])
    BY <1>1
  <2>2. (m + n) - m = n
    BY <1>1
  <2> HIDE DEF h
  <2> QED
    BY <1>4, <2>1, <2>2, Zenon
<1>6. ASSUME NEW i \in 1..(m + n) PROVE h[i] = Step(h[i - 1], w[i])
  <2>1. CASE i <= m
    <3>1. i \in 1..m /\ h[i] = f[i] /\ h[i - 1] = f[i - 1]
      BY <1>1, <2>1
    <3> QED
      BY <1>1, <1>4, <3>1, Zenon
  <2>2. CASE i > m
    <3> DEFINE j == i - m
    <3>1. j \in 1..n /\ i = m + j
      BY <1>1, <2>2
    <3>2. h[i] = g[j]
      BY <1>1, <2>2
    <3>3. h[i - 1] = g[j - 1]
      <4>1. CASE j = 1
        BY <1>1, <1>4, <4>1
      <4>2. CASE j # 1
        BY <1>1, <2>2, <3>1, <4>2
      <4> QED
        BY <4>1, <4>2
    <3> HIDE DEF j, h
    <3>4. g[j] = Step(g[j - 1], v[j]) /\ w[i] = v[j]
      BY <1>1, <1>4, <3>1
    <3> QED
      BY <3>2, <3>3, <3>4, Zenon
  <2> QED
    BY <1>1, <2>1, <2>2
<1> HIDE DEF h
<1>7. Len(w) \in Nat
  BY <1>1
<1>8. Run(s, w) = h[Len(w)]
  BY <1>1, <1>5, <1>6, <1>7, RunIs, ZenonT(40)
<1> QED
  BY <1>1, <1>3, <1>5, <1>8 DEF w

(* A state of the decoder that has not come to an end.                     *)
At(state, ds, size, read, b) ==
    [state |-> state, digits |-> ds, size |-> size, read |-> read,
     body |-> b, result |-> "reading"]
AtSize(size, b) == At("CHUNK_SIZE", <<>>, size, 0, b)

SizeDigits == <<"1", "2", "3", "4", "5">>

LEMMA NumberOfOne == ASSUME NEW c, Digits[c] \in Nat PROVE Number(<<c>>) = Digits[c]
<1> DEFINE R(f) == f = [i \in 0..Len(<<c>>) |->
                          IF i = 0 THEN 0 ELSE 16 * f[i - 1] + Digits[<<c>>[i]]]
           h == [i \in 0..1 |-> IF i = 0 THEN 0 ELSE Digits[c]]
           n == CHOOSE f : R(f)
<1>1. Len(<<c>>) = 1 /\ <<c>>[1] = c
  OBVIOUS
<1>2. R(h)
  <2>1. ASSUME NEW i \in 0..1
        PROVE  h[i] = IF i = 0 THEN 0 ELSE 16 * h[i - 1] + Digits[<<c>>[i]]
    <3>1. CASE i = 0
      BY <3>1
    <3>2. CASE i = 1
      <4>1. h[1] = Digits[c] /\ h[0] = 0 /\ 1 - 1 = 0
        OBVIOUS
      <4> HIDE DEF h
      <4> QED
        BY <1>1, <3>2, <4>1
    <3> QED
      BY <3>1, <3>2
  <2>2. h = [i \in 0..1 |-> h[i]]
    OBVIOUS
  <2> HIDE DEF h
  <2> QED
    BY <1>1, <2>1, <2>2
<1> HIDE DEF h
<1>3. R(n)
  BY <1>2, Zenon
<1>4. Number(<<c>>) = n[1]
  BY <1>1, Zenon DEF Number
<1>5. n[0] = 0 /\ n[1] = 16 * n[0] + Digits[c]
  <2> HIDE DEF n
  <2>1. /\ DOMAIN n = 0..1
        /\ \A i \in 0..1 : n[i] = IF i = 0 THEN 0 ELSE 16 * n[i - 1] + Digits[<<c>>[i]]
    BY <1>1, <1>3
  <2>2. 1 - 1 = 0 /\ 0 \in 0..1 /\ 1 \in 0..1
    OBVIOUS
  <2> QED
    BY <1>1, <2>1, <2>2
<1> QED
  BY <1>4, <1>5

LEMMA DigitValues ==
    /\ Digits["0"] = 0 /\ "0" \in DOMAIN Digits
    /\ \A k \in 1..5 : Digits[SizeDigits[k]] = k /\ SizeDigits[k] \in DOMAIN Digits
BY DEF Digits, SizeDigits

LEMMA DigitRead ==
    ASSUME NEW c \in DOMAIN Digits, NEW z, NEW b
    PROVE  Step(AtSize(z, b), c) = At("CHUNK_SIZE", <<c>>, z, 0, b)
BY DEF Step, AtSize, At, InSize

LEMMA SizeEnds ==
    ASSUME NEW c \in DOMAIN Digits, NEW z, NEW b, Digits[c] \in Nat
    PROVE  /\ Step(At("CHUNK_SIZE", <<c>>, z, 0, b), "CR")
                = At("CHUNK_LF", <<>>, Digits[c], 0, b)
           /\ Step(At("CHUNK_SIZE", <<c>>, z, 0, b), "SEMICOLON")
                = At("CHUNK_EXT", <<>>, Digits[c], 0, b)
<1>1. "CR" \notin DOMAIN Digits /\ "SEMICOLON" \notin DOMAIN Digits
  BY DEF Digits
<1>2. <<c>> # <<>>
  OBVIOUS
<1>3. Number(<<c>>) = Digits[c]
  BY NumberOfOne
<1> QED
  BY <1>1, <1>2, <1>3 DEF Step, At, InSize

LEMMA ExtSteps ==
    ASSUME NEW z, NEW b
    PROVE  /\ Step(At("CHUNK_EXT", <<>>, z, 0, b), "x") = At("CHUNK_EXT", <<>>, z, 0, b)
           /\ Step(At("CHUNK_EXT", <<>>, z, 0, b), "CR") = At("CHUNK_LF", <<>>, z, 0, b)
BY DEF Step, At, InExt

LEMMA LineFeedBehind ==
    ASSUME NEW z, NEW r \in Nat \ {0}, NEW b
    PROVE  Step(At("CHUNK_LF", <<>>, z, r, b), "LF") = AtSize(z, b)
<1> DEFINE s == At("CHUNK_LF", <<>>, z, r, b)
<1>1. s.result = "reading" /\ s.state = "CHUNK_LF" /\ s.read = r /\ r > 0
  BY DEF At
<1>2. [s EXCEPT !.read = 0, !.state = "CHUNK_SIZE"] = AtSize(z, b)
  <2>1. [s EXCEPT !.read = 0, !.state = "CHUNK_SIZE"]
          = [[s EXCEPT !.read = 0] EXCEPT !.state = "CHUNK_SIZE"]
    BY Zenon
  <2>2. [s EXCEPT !.read = 0] = At("CHUNK_LF", <<>>, z, 0, b)
    BY DEF At
  <2>3. [At("CHUNK_LF", <<>>, z, 0, b) EXCEPT !.state = "CHUNK_SIZE"] = AtSize(z, b)
    BY DEF At, AtSize
  <2> QED
    BY <2>1, <2>2, <2>3, Zenon
<1> HIDE DEF s
<1>3. Step(s, "LF") = InLF(s, "LF")
  BY <1>1 DEF Step
<1>4. InLF(s, "LF") = [s EXCEPT !.read = 0, !.state = "CHUNK_SIZE"]
  BY <1>1 DEF InLF
<1> QED
  BY <1>2, <1>3, <1>4, Zenon DEF s

LEMMA LineFeedBefore ==
    ASSUME NEW z \in Nat, NEW b
    PROVE  Step(At("CHUNK_LF", <<>>, z, 0, b), "LF")
             = At(IF z = 0 THEN "CHUNK_TRAILER" ELSE "CHUNK_DATA", <<>>, z, 0, b)
BY DEF Step, At, InLF

LEMMA DataStep ==
    ASSUME NEW z \in Nat, NEW r \in Nat, NEW b, NEW c
    PROVE  Step(At("CHUNK_DATA", <<>>, z, r, b), c)
             = At(IF r + 1 = z THEN "CHUNK_CR" ELSE "CHUNK_DATA", <<>>, z, r + 1, Append(b, c))
BY DEF Step, At, InData

LEMMA DataEnds ==
    ASSUME NEW z, NEW r, NEW b
    PROVE  Step(At("CHUNK_CR", <<>>, z, r, b), "CR") = At("CHUNK_LF", <<>>, z, r, b)
BY DEF Step, At, InCR

Served(s, b) ==
    \E z : s = [state |-> "CHUNK_COMPLETE", digits |-> <<>>, size |-> z, read |-> 0,
                body |-> b, result |-> "served"]
LEMMA TrailerSteps ==
    ASSUME NEW z, NEW b
    PROVE  /\ Step(At("CHUNK_TRAILER", <<>>, z, 0, b), "x") = At("CHUNK_TRAILER", <<>>, z, 0, b)
           /\ Step(At("CHUNK_TRAILER", <<>>, z, 0, b), "CR") = At("TRAILER_FINAL_LF", <<>>, z, 0, b)
           /\ Served(Step(At("TRAILER_FINAL_LF", <<>>, z, 0, b), "LF"), b)
BY DEF Step, At, InTrailer, InFinalLF, Served

LEMMA ServedStays == ASSUME NEW s, NEW b, Served(s, b), NEW c PROVE Step(s, c) = s
BY DEF Step, Served

LEMMA RunTwo == ASSUME NEW s, NEW c, NEW d PROVE Run(s, <<c, d>>) = Step(Step(s, c), d)
<1> DEFINE w == <<c, d>>
<1>1. Len(w) = 2 /\ w[1] = c /\ w[2] = d
  OBVIOUS
<1> HIDE DEF w
<1>2. Len(w) \in Nat
  BY <1>1
<1>3. PICK f : Runs(f, s, w) /\ Run(s, w) = f[Len(w)]
  BY <1>2, RunExists
<1>4. f[0] = s /\ \A i \in 1..Len(w) : f[i] = Step(f[i - 1], w[i])
  BY <1>2, <1>3, RunSteps
<1>5. f[1] = Step(f[0], w[1]) /\ f[2] = Step(f[1], w[2])
  <2>1. 1 - 1 = 0 /\ 2 - 1 = 1 /\ 1 \in 1..Len(w) /\ 2 \in 1..Len(w)
    BY <1>1
  <2> QED
    BY <1>4, <2>1
<1> QED
  BY <1>1, <1>3, <1>4, <1>5, Zenon DEF w

Chars == STRING \cup {"0", "1", "2", "3", "4", "5", "x", "SEMICOLON", "CR", "LF", "NUL"}

LEMMA ConcatFacts ==
    ASSUME NEW S, NEW u \in Seq(S), NEW v \in Seq(S)
    PROVE  /\ Len(u) \in Nat /\ Len(v) \in Nat
           /\ u \o v \in Seq(S) /\ Len(u \o v) = Len(u) + Len(v)
           /\ \A j \in 1..Len(u) : (u \o v)[j] = u[j]
           /\ \A j \in 1..Len(v) : (u \o v)[Len(u) + j] = v[j]
<1>1. Len(u) \in Nat /\ Len(v) \in Nat
  BY LenProperties
<1> QED
  BY <1>1, ConcatProperties

LEMMA ConcatAt ==
    ASSUME NEW S, NEW u \in Seq(S), NEW v \in Seq(S), NEW m, NEW n, Len(u) = m, Len(v) = n,
           NEW w, w = u \o v
    PROVE  /\ m \in Nat /\ n \in Nat
           /\ w \in Seq(S) /\ Len(w) = m + n
           /\ \A j \in 1..m : w[j] = u[j]
           /\ \A j \in 1..n : w[m + j] = v[j]
<1> DEFINE x == u \o v
<1>1. x \in Seq(S)
  BY ConcatFacts
<1>2. Len(x) = Len(u) + Len(v) /\ Len(u) \in Nat /\ Len(v) \in Nat
  BY ConcatFacts
<1>3. \A j \in 1..Len(u) : x[j] = u[j]
  BY ConcatFacts
<1>4. \A j \in 1..Len(v) : x[Len(u) + j] = v[j]
  BY ConcatFacts
<1> QED
  BY <1>1, <1>2, <1>3, <1>4, Zenon

(* What has been read of p, behind b.                                      *)
Filled(b, p, i) == b \o SubSeq(p, 1, i)
LEMMA FilledFacts ==
    ASSUME NEW S, NEW b \in Seq(S), NEW p \in Seq(S)
    PROVE  /\ Filled(b, p, 0) = b
           /\ Filled(b, p, Len(p)) = b \o p
           /\ \A i \in 1..Len(p) : Filled(b, p, i) = Append(Filled(b, p, i - 1), p[i])
<1>1. Len(b) \in Nat /\ Len(p) \in Nat /\ \A i \in 1..Len(p) : p[i] \in S
  BY LenProperties, ElementOfSeq
<1>2. Filled(b, p, 0) = b
  <2>1. SubSeq(p, 1, 0) = <<>>
    BY SubSeqEmpty
  <2> QED
    BY <2>1, ConcatEmptySeq DEF Filled
<1>3. Filled(b, p, Len(p)) = b \o p
  BY SubSeqFull DEF Filled
<1>4. ASSUME NEW i \in 1..Len(p) PROVE Filled(b, p, i) = Append(Filled(b, p, i - 1), p[i])
  <2> DEFINE u == SubSeq(p, 1, i - 1)
             v == SubSeq(p, 1, i)
  <2>1. u \in Seq(S) /\ Len(u) = i - 1 /\ \A j \in 1..(i - 1) : u[j] = p[j]
    <3>1. i - 1 \in Nat /\ i - 1 <= Len(p) /\ \A j \in 1..(i - 1) : p[j] \in S
      BY <1>1
    <3> QED
      BY <3>1, SubSeqProperties
  <2>2. v \in Seq(S) /\ Len(v) = i /\ \A j \in 1..i : v[j] = p[j]
    <3>1. i \in Nat /\ i <= Len(p) /\ \A j \in 1..i : p[j] \in S
      BY <1>1
    <3> QED
      BY <3>1, SubSeqProperties
  <2> HIDE DEF u, v
  <2>3. v = Append(u, p[i])
    <3> DEFINE w == Append(u, p[i])
    <3>1. /\ w \in Seq(S) /\ Len(w) = i /\ w[i] = p[i]
          /\ \A j \in 1..(i - 1) : w[j] = u[j]
      BY <1>1, <2>1, AppendProperties, SMTT(30)
    <3> HIDE DEF w
    <3>2. \A j \in 1..i : w[j] = v[j]
      <4>1. \A j \in 1..i : j = i \/ (j \in 1..(i - 1) /\ j \in 1..Len(p))
        BY <1>1
      <4>2. \A j \in 1..(i - 1) : w[j] = v[j]
        <5>1. \A j \in 1..(i - 1) : j \in 1..i
          OBVIOUS
        <5> QED
          BY <2>1, <2>2, <3>1, <5>1, Zenon
      <4>3. i \in 1..i
        BY <1>1
      <4> QED
        BY <2>2, <3>1, <4>1, <4>2, <4>3, Zenon
    <3> QED
      BY <2>2, <3>1, <3>2, SeqEqual DEF w
  <2>4. b \o Append(u, p[i]) = Append(b \o u, p[i])
    <3> DEFINE a == Append(u, p[i])
               bu == b \o u
               l == b \o a
               r == Append(bu, p[i])
               m == Len(b)
    <3>1. /\ a \in Seq(S) /\ Len(a) = i /\ a[i] = p[i]
          /\ \A j \in 1..(i - 1) : a[j] = u[j]
      BY <1>1, <2>1, AppendProperties
    <3> HIDE DEF a
    <3>2. /\ m \in Nat /\ l \in Seq(S) /\ Len(l) = m + i
          /\ \A j \in 1..m : l[j] = b[j]
          /\ \A j \in 1..i : l[m + j] = a[j]
      <4>1. Len(b) = m
        OBVIOUS
      <4> HIDE DEF m
      <4>2. l = b \o a
        OBVIOUS
      <4> HIDE DEF l
      <4>3. a \in Seq(S) /\ Len(a) = i
        BY <3>1
      <4>4. m \in Nat /\ l \in Seq(S) /\ Len(l) = m + Len(a)
        <5>1. Len(b) \in Nat /\ b \o a \in Seq(S) /\ Len(b \o a) = Len(b) + Len(a)
          BY <4>3, ConcatFacts
        <5> QED
          BY <4>1, <4>2, <5>1, Zenon
      <4>5. \A j \in 1..m : l[j] = b[j]
        BY <4>1, <4>2, <4>3, ConcatAt
      <4>6. \A j \in 1..Len(a) : l[m + j] = a[j]
        BY <4>1, <4>2, <4>3, ConcatAt
      <4> QED
        BY <4>3, <4>4, <4>5, <4>6, Zenon
    <3>3. /\ bu \in Seq(S) /\ Len(bu) = m + (i - 1)
          /\ \A j \in 1..m : bu[j] = b[j]
          /\ \A j \in 1..(i - 1) : bu[m + j] = u[j]
      <4>1. bu = b \o u /\ Len(b) = m
        OBVIOUS
      <4>2. u \in Seq(S) /\ Len(u) = i - 1
        BY <2>1
      <4> HIDE DEF bu, m
      <4>3. bu \in Seq(S) /\ Len(bu) = m + (i - 1)
        <5>1. Len(b) \in Nat /\ b \o u \in Seq(S) /\ Len(b \o u) = Len(b) + Len(u)
          BY <4>2, ConcatFacts
        <5> QED
          BY <4>1, <4>2, <5>1, Zenon
      <4>4. \A j \in 1..m : bu[j] = b[j]
        BY <4>1, <4>2, ConcatAt
      <4>5. \A j \in 1..Len(u) : bu[m + j] = u[j]
        BY <4>1, <4>2, ConcatAt
      <4> QED
        BY <4>2, <4>3, <4>4, <4>5, Zenon
    <3> HIDE DEF bu, l, m
    <3>4. /\ r \in Seq(S) /\ Len(r) = m + i
          /\ \A j \in 1..(m + (i - 1)) : r[j] = bu[j]
          /\ r[m + i] = p[i]
      <4>1. /\ r \in Seq(S) /\ Len(r) = Len(bu) + 1
            /\ \A j \in 1..Len(bu) : r[j] = bu[j]
            /\ r[Len(bu) + 1] = p[i]
        BY <1>1, <3>3, AppendProperties
      <4>2. Len(bu) + 1 = m + i
        BY <1>1, <3>2, <3>3
      <4> QED
        BY <3>3, <4>1, <4>2, Zenon
    <3> HIDE DEF r
    <3>5. ASSUME NEW j \in 1..(m + i) PROVE l[j] = r[j]
      <4>1. CASE j <= m
        <5>1. j \in 1..m /\ j \in 1..(m + (i - 1))
          BY <3>2, <4>1
        <5> QED
          BY <3>2, <3>3, <3>4, <5>1, Zenon
      <4>2. CASE j > m
        <5> DEFINE k == j - m
        <5>1. k \in 1..i /\ j = m + k
          BY <3>2, <4>2
        <5> HIDE DEF k
        <5>2. CASE k = i
          BY <3>1, <3>2, <3>4, <5>1, <5>2
        <5>3. CASE k # i
          <6>1. k \in 1..(i - 1) /\ j \in 1..(m + (i - 1))
            BY <3>2, <5>1, <5>3
          <6> QED
            BY <3>1, <3>2, <3>3, <3>4, <5>1, <6>1, Zenon
        <5> QED
          BY <5>2, <5>3
      <4> QED
        BY <3>2, <4>1, <4>2
    <3>6. l = r
      <4>1. \A j \in 1..Len(l) : l[j] = r[j]
        BY <3>2, <3>5
      <4> QED
        BY <3>2, <3>4, <4>1, SeqEqual
    <3> QED
      BY <3>6 DEF l, r, a, bu
  <2> QED
    BY <2>3, <2>4 DEF Filled, u, v
<1> QED
  BY <1>2, <1>3, <1>4

LEMMA DataRun ==
    ASSUME NEW S, NEW b \in Seq(S), NEW p \in Seq(S), Len(p) # 0
    PROVE  Run(At("CHUNK_DATA", <<>>, Len(p), 0, b), p)
             = At("CHUNK_CR", <<>>, Len(p), Len(p), b \o p)
<1> DEFINE z == Len(p)
           f(i) == At(IF i = z THEN "CHUNK_CR" ELSE "CHUNK_DATA", <<>>, z, i, Filled(b, p, i))
           g == [i \in 0..z |-> f(i)]
<1>1. z \in Nat /\ z # 0
  BY LenProperties
<1> HIDE DEF z
<1>2. g[0] = At("CHUNK_DATA", <<>>, z, 0, b)
  <2>1. Filled(b, p, 0) = b
    BY FilledFacts
  <2> QED
    BY <1>1, <2>1
<1>3. g[z] = At("CHUNK_CR", <<>>, z, z, b \o p)
  <2>1. Filled(b, p, z) = b \o p
    BY FilledFacts DEF z
  <2>2. g[z] = f(z) /\ f(z) = At("CHUNK_CR", <<>>, z, z, Filled(b, p, z))
    BY <1>1
  <2> QED
    BY <2>1, <2>2, Zenon
<1>4. ASSUME NEW i \in 1..z PROVE g[i] = Step(g[i - 1], p[i])
  <2>1. /\ i - 1 \in Nat /\ i - 1 # z /\ (i - 1) + 1 = i
        /\ g[i] = f(i) /\ g[i - 1] = f(i - 1)
    BY <1>1
  <2>2. g[i - 1] = At("CHUNK_DATA", <<>>, z, i - 1, Filled(b, p, i - 1))
    BY <2>1
  <2> HIDE DEF g, f
  <2>3. Step(g[i - 1], p[i])
          = At(IF (i - 1) + 1 = z THEN "CHUNK_CR" ELSE "CHUNK_DATA", <<>>, z, (i - 1) + 1,
               Append(Filled(b, p, i - 1), p[i]))
    <3>1. \A data, c : Step(At("CHUNK_DATA", <<>>, z, i - 1, data), c)
                        = At(IF (i - 1) + 1 = z THEN "CHUNK_CR" ELSE "CHUNK_DATA", <<>>,
                             z, (i - 1) + 1, Append(data, c))
      BY <1>1, <2>1, DataStep
    <3> QED
      BY <2>2, <3>1, Zenon
  <2>4. Filled(b, p, i) = Append(Filled(b, p, i - 1), p[i])
    BY FilledFacts DEF z
  <2> QED
    BY <2>1, <2>3, <2>4 DEF f
<1> HIDE DEF g
<1>5. Run(At("CHUNK_DATA", <<>>, z, 0, b), p) = g[Len(p)]
  BY <1>1, <1>2, <1>4, RunIs DEF z
<1> QED
  BY <1>3, <1>5 DEF z

LEMMA CharFacts ==
    /\ \A k \in 1..5 : SizeDigits[k] \in Chars
    /\ STRING \subseteq Chars
    /\ {"0", "x", "SEMICOLON", "CR", "LF", "NUL"} \subseteq Chars
<1>1. /\ SizeDigits[1] = "1" /\ SizeDigits[2] = "2" /\ SizeDigits[3] = "3"
      /\ SizeDigits[4] = "4" /\ SizeDigits[5] = "5"
  BY DEF SizeDigits
<1>2. {"1", "2", "3", "4", "5"} \subseteq Chars
  BY Zenon DEF Chars
<1>3. ASSUME NEW k \in 1..5 PROVE SizeDigits[k] \in Chars
  <2>1. k = 1 \/ k = 2 \/ k = 3 \/ k = 4 \/ k = 5
    OBVIOUS
  <2> QED
    BY <1>1, <1>2, <2>1
<1>4. STRING \subseteq Chars /\ {"0", "x", "SEMICOLON", "CR", "LF", "NUL"} \subseteq Chars
  BY Zenon DEF Chars
<1> QED
  BY <1>3, <1>4

LEMMA ChunkRun ==
    ASSUME NEW m, m.ext \in BOOLEAN, NEW p \in Seq(Chars), Len(p) \in 1..5,
           NEW z, NEW b \in Seq(Chars)
    PROVE  Chunk(m, p) \in Seq(Chars) /\ Run(AtSize(z, b), Chunk(m, p)) = AtSize(Len(p), b \o p)
<1> DEFINE c == SizeDigits[Len(p)]
           ext == IF m.ext THEN <<"SEMICOLON", "x">> ELSE <<>>
           n == Len(p)
<1>1. Digits[c] = n /\ c \in DOMAIN Digits /\ n \in Nat /\ n # 0 /\ c \in Chars
  <2>1. n \in 1..5
    OBVIOUS
  <2>2. Digits[c] = n /\ c \in DOMAIN Digits
    BY <2>1, DigitValues
  <2>3. c \in Chars
    BY <2>1, CharFacts
  <2> HIDE DEF c, n
  <2> QED
    BY <2>1, <2>2, <2>3
<1>2. <<c>> \in Seq(Chars) /\ ext \in Seq(Chars) /\ CRLF \in Seq(Chars)
  <2>1. <<c>> \in Seq(Chars)
    BY <1>1
  <2>2. <<"SEMICOLON", "x">> \in Seq(Chars) /\ <<"CR", "LF">> \in Seq(Chars)
    <3>1. "SEMICOLON" \in Chars /\ "x" \in Chars /\ "CR" \in Chars /\ "LF" \in Chars
      BY CharFacts, Zenon
    <3> QED
      BY <3>1, PairFacts
  <2>3. <<>> \in Seq(Chars)
    BY EmptySeq
  <2> QED
    BY <2>1, <2>2, <2>3, Zenon DEF CRLF
<1>3. Chunk(m, p) = (((<<c>> \o ext) \o CRLF) \o p) \o CRLF
  BY Zenon DEF Chunk, SizeDigits
<1> HIDE DEF c, ext, n
<1>4. Run(AtSize(z, b), <<c>>) = At("CHUNK_SIZE", <<c>>, z, 0, b)
  BY <1>1, RunOne, DigitRead
<1> DEFINE s == Run(At("CHUNK_SIZE", <<c>>, z, 0, b), ext)
<1>5. Step(s, "CR") = At("CHUNK_LF", <<>>, n, 0, b)
  <2>1. CASE m.ext
    <3>1. s = Step(Step(At("CHUNK_SIZE", <<c>>, z, 0, b), "SEMICOLON"), "x")
      <4>1. ext = <<"SEMICOLON", "x">>
        BY <2>1 DEF ext
      <4>2. s = Run(At("CHUNK_SIZE", <<c>>, z, 0, b), <<"SEMICOLON", "x">>)
        BY <4>1, Zenon
      <4>3. Run(At("CHUNK_SIZE", <<c>>, z, 0, b), <<"SEMICOLON", "x">>)
              = Step(Step(At("CHUNK_SIZE", <<c>>, z, 0, b), "SEMICOLON"), "x")
        BY RunTwo
      <4> QED
        BY <4>2, <4>3, Zenon
    <3>2. Step(At("CHUNK_SIZE", <<c>>, z, 0, b), "SEMICOLON") = At("CHUNK_EXT", <<>>, n, 0, b)
      BY <1>1, SizeEnds
    <3> QED
      BY <3>1, <3>2, ExtSteps
  <2>2. CASE ~m.ext
    <3>1. s = At("CHUNK_SIZE", <<c>>, z, 0, b)
      BY <2>2, RunNothing DEF ext
    <3> QED
      BY <1>1, <3>1, SizeEnds
  <2> QED
    BY <2>1, <2>2
<1>6. Run(s, CRLF) = At("CHUNK_DATA", <<>>, n, 0, b)
  <2>1. Run(s, CRLF) = Step(Step(s, "CR"), "LF")
    BY RunTwo DEF CRLF
  <2> HIDE DEF s
  <2> QED
    BY <1>1, <1>5, <2>1, LineFeedBefore
<1> HIDE DEF s
<1>7. Run(At("CHUNK_DATA", <<>>, n, 0, b), p) = At("CHUNK_CR", <<>>, n, n, b \o p)
  BY <1>1, DataRun DEF n
<1>8. Run(At("CHUNK_CR", <<>>, n, n, b \o p), CRLF) = AtSize(n, b \o p)
  <2>1. Run(At("CHUNK_CR", <<>>, n, n, b \o p), CRLF)
          = Step(Step(At("CHUNK_CR", <<>>, n, n, b \o p), "CR"), "LF")
    BY RunTwo DEF CRLF
  <2>2. Step(At("CHUNK_CR", <<>>, n, n, b \o p), "CR") = At("CHUNK_LF", <<>>, n, n, b \o p)
    BY DataEnds
  <2>3. Step(At("CHUNK_LF", <<>>, n, n, b \o p), "LF") = AtSize(n, b \o p)
    BY <1>1, LineFeedBehind
  <2> QED
    BY <2>1, <2>2, <2>3
<1> DEFINE w1 == <<c>> \o ext
           w2 == w1 \o CRLF
           w3 == w2 \o p
<1>9. w1 \in Seq(Chars) /\ w2 \in Seq(Chars) /\ w3 \in Seq(Chars) /\ w3 \o CRLF \in Seq(Chars)
  <2>1. w1 \in Seq(Chars)
    BY <1>2, ConcatProperties
  <2> HIDE DEF w1
  <2>2. w2 \in Seq(Chars)
    BY <1>2, <2>1, ConcatProperties
  <2> HIDE DEF w2
  <2>3. w3 \in Seq(Chars)
    BY <1>2, <2>2, ConcatProperties
  <2> HIDE DEF w3
  <2>4. w3 \o CRLF \in Seq(Chars)
    BY <1>2, <2>3, ConcatProperties
  <2> QED
    BY <2>1, <2>2, <2>3, <2>4
<1>10. Run(AtSize(z, b), w1) = s
  <2>1. Run(AtSize(z, b), <<c>> \o ext) = Run(Run(AtSize(z, b), <<c>>), ext)
    BY <1>2, RunJoined
  <2> QED
    BY <1>4, <2>1, Zenon DEF s
<1> HIDE DEF w1
<1>11. Run(AtSize(z, b), w2) = At("CHUNK_DATA", <<>>, n, 0, b)
  BY <1>2, <1>6, <1>9, <1>10, RunJoined
<1> HIDE DEF w2
<1>12. Run(AtSize(z, b), w3) = At("CHUNK_CR", <<>>, n, n, b \o p)
  BY <1>2, <1>7, <1>9, <1>11, RunJoined
<1> HIDE DEF w3
<1>13. Run(AtSize(z, b), w3 \o CRLF) = AtSize(n, b \o p)
  BY <1>2, <1>8, <1>9, <1>12, RunJoined
<1> QED
  BY <1>3, <1>9, <1>13 DEF w1, w2, w3, n

LEMMA FlattenJoins ==
    ASSUME NEW ss, Len(ss) \in Nat \ {0}
    PROVE  \E g : Joins(g, ss, Len(ss)) /\ FlattenSeq(ss) = g[Len(ss)]
<1> DEFINE n == Len(ss)
           flatten == CHOOSE g : Joins(g, ss, n)
<1>1. n # 0
  OBVIOUS
<1>2. Joins(flatten, ss, n)
  BY JoinsExists
<1>3. FlattenSeq(ss) = flatten[n]
  BY <1>1 DEF FlattenSeq, Joins
<1> QED
  BY <1>2, <1>3

LEMMA JoinsSteps ==
    ASSUME NEW ss, NEW n \in Nat \ {0}, NEW g, Joins(g, ss, n)
    PROVE  g[1] = ss[1] /\ \A i \in 1..(n - 1) : g[i + 1] = g[i] \o ss[i + 1]
<1>1. \A i \in 1..n : g[i] = IF i = 1 THEN ss[i] ELSE g[i - 1] \o ss[i]
  BY DEF Joins
<1>2. ASSUME NEW i \in 1..(n - 1) PROVE g[i + 1] = g[i] \o ss[i + 1]
  <2>1. i + 1 \in 1..n /\ i + 1 # 1 /\ (i + 1) - 1 = i
    OBVIOUS
  <2> QED
    BY <1>1, <2>1
<1>3. g[1] = ss[1]
  <2>1. 1 \in 1..n
    OBVIOUS
  <2> QED
    BY <1>1, <2>1
<1> QED
  BY <1>2, <1>3

(* The chunks one after the other: their data is joined.                   *)
ChunksOf(m, ps, cs) ==
    /\ m.ext \in BOOLEAN /\ ps \in Seq(Seq(Chars)) /\ Len(cs) = Len(ps)
    /\ \A i \in 1..Len(ps) : Len(ps[i]) \in 1..5 /\ cs[i] = Chunk(m, ps[i])
Inverted(cs, ps) ==
    /\ FlattenSeq(cs) \in Seq(Chars) /\ FlattenSeq(ps) \in Seq(Chars)
    /\ \E z : Run(AtSize(0, <<>>), FlattenSeq(cs)) = AtSize(z, FlattenSeq(ps))
LEMMA ChunksRun ==
    ASSUME NEW m, NEW ps, NEW cs, ChunksOf(m, ps, cs)
    PROVE  Inverted(cs, ps)
<1> USE DEF Inverted
<1>0. /\ m.ext \in BOOLEAN /\ ps \in Seq(Seq(Chars)) /\ Len(cs) = Len(ps)
      /\ \A i \in 1..Len(ps) : Len(ps[i]) \in 1..5 /\ cs[i] = Chunk(m, ps[i])
  BY DEF ChunksOf
<1> DEFINE n == Len(ps)
<1>1. n \in Nat /\ DOMAIN ps = 1..n /\ \A i \in 1..n : ps[i] \in Seq(Chars)
  BY <1>0, LenProperties, ElementOfSeq
<1>2. ASSUME NEW i \in 1..n, NEW z, NEW b \in Seq(Chars)
      PROVE  /\ cs[i] \in Seq(Chars)
             /\ Run(AtSize(z, b), cs[i]) = AtSize(Len(ps[i]), b \o ps[i])
  <2>1. cs[i] = Chunk(m, ps[i]) /\ ps[i] \in Seq(Chars) /\ Len(ps[i]) \in 1..5
    BY <1>0, <1>1
  <2> QED
    BY <1>0, <2>1, ChunkRun
<1>3. Len(cs) = n /\ \A i \in 1..n : cs[i] \in Seq(Chars)
  <2>1. Len(cs) = n
    BY <1>0
  <2>2. <<>> \in Seq(Chars)
    BY EmptySeq
  <2>3. ASSUME NEW i \in 1..n PROVE cs[i] \in Seq(Chars)
    BY <1>2, <2>2
  <2> QED
    BY <2>1, <2>3
<1>4. FlattenSeq(ps) \in Seq(Chars)
  BY <1>0, FlattenType
<1>5. CASE n = 0
  <2>1. FlattenSeq(cs) = <<>> /\ FlattenSeq(ps) = <<>>
    BY <1>3, <1>5 DEF FlattenSeq
  <2>2. Run(AtSize(0, <<>>), <<>>) = AtSize(0, <<>>)
    BY RunNothing
  <2>3. <<>> \in Seq(Chars)
    BY EmptySeq
  <2> QED
    BY <2>1, <2>2, <2>3
<1>6. CASE n # 0
  <2>1. PICK g : Joins(g, cs, n) /\ FlattenSeq(cs) = g[n]
    BY <1>1, <1>3, <1>6, FlattenJoins
  <2>2. PICK h : Joins(h, ps, n) /\ FlattenSeq(ps) = h[n]
    BY <1>1, <1>6, FlattenJoins
  <2> HIDE DEF n
  <2>3. g[1] = cs[1] /\ \A i \in 1..(n - 1) : g[i + 1] = g[i] \o cs[i + 1]
    <3>1. n \in Nat \ {0} /\ Joins(g, cs, n)
      BY <1>1, <1>6, <2>1
    <3> QED
      BY <3>1, JoinsSteps
  <2>4. h[1] = ps[1] /\ \A i \in 1..(n - 1) : h[i + 1] = h[i] \o ps[i + 1]
    <3>1. n \in Nat \ {0} /\ Joins(h, ps, n)
      BY <1>1, <1>6, <2>2
    <3> QED
      BY <3>1, JoinsSteps
  <2> DEFINE T == {i \in 1..n : /\ g[i] \in Seq(Chars) /\ h[i] \in Seq(Chars)
                                /\ \E z : Run(AtSize(0, <<>>), g[i]) = AtSize(z, h[i])}
  <2>5. 1 \in T
    <3>1. 1 \in 1..n /\ cs[1] \in Seq(Chars) /\ ps[1] \in Seq(Chars) /\ <<>> \in Seq(Chars)
      BY <1>1, <1>3, <1>6, EmptySeq
    <3>2. Run(AtSize(0, <<>>), cs[1]) = AtSize(Len(ps[1]), <<>> \o ps[1])
      BY <1>2, <3>1
    <3>3. <<>> \o ps[1] = ps[1]
      BY <3>1, ConcatEmptySeq
    <3> QED
      BY <2>3, <2>4, <3>1, <3>2, <3>3
  <2>6. ASSUME NEW i \in 1..(n - 1), i \in T PROVE i + 1 \in T
    <3>1. g[i] \in Seq(Chars) /\ h[i] \in Seq(Chars)
      BY <2>6
    <3>2. PICK z : Run(AtSize(0, <<>>), g[i]) = AtSize(z, h[i])
      BY <2>6
    <3>3. i + 1 \in 1..n
      BY <1>1
    <3>4. /\ cs[i + 1] \in Seq(Chars)
          /\ Run(AtSize(z, h[i]), cs[i + 1]) = AtSize(Len(ps[i + 1]), h[i] \o ps[i + 1])
      BY <1>2, <3>1, <3>3
    <3>5. Run(AtSize(0, <<>>), g[i] \o cs[i + 1]) = Run(Run(AtSize(0, <<>>), g[i]), cs[i + 1])
      <4> DEFINE u == g[i]
                 v == cs[i + 1]
      <4>1. u \in Seq(Chars) /\ v \in Seq(Chars)
        BY <3>1, <3>4
      <4> HIDE DEF u, v
      <4>2. Run(AtSize(0, <<>>), u \o v) = Run(Run(AtSize(0, <<>>), u), v)
        BY <4>1, RunJoined
      <4> QED
        BY <4>2 DEF u, v
    <3>6. g[i] \o cs[i + 1] \in Seq(Chars) /\ h[i] \o ps[i + 1] \in Seq(Chars)
      BY <1>1, <3>1, <3>3, <3>4, ConcatProperties
    <3>7. g[i + 1] = g[i] \o cs[i + 1] /\ h[i + 1] = h[i] \o ps[i + 1]
      BY <2>3, <2>4
    <3>8. Run(AtSize(0, <<>>), g[i + 1]) = AtSize(Len(ps[i + 1]), h[i + 1])
      BY <3>2, <3>4, <3>5, <3>7, Zenon
    <3>9. g[i + 1] \in Seq(Chars) /\ h[i + 1] \in Seq(Chars)
      BY <3>6, <3>7, Zenon
    <3> QED
      BY <3>3, <3>8, <3>9, Zenon
  <2> HIDE DEF T
  <2>7. n \in T
    <3>1. n > 0 /\ n \in 1..n
      BY <1>1, <1>6
    <3> QED
      BY <1>1, <2>5, <2>6, <3>1, IndicesByStep
  <2>8. g[n] \in Seq(Chars) /\ \E z : Run(AtSize(0, <<>>), g[n]) = AtSize(z, h[n])
    BY <2>7 DEF T
  <2> QED
    BY <1>4, <2>1, <2>2, <2>8, Zenon
<1> QED
  BY <1>5, <1>6

LEMMA LineEnds ==
    ASSUME NEW z, NEW b, NEW s, s = At("CHUNK_TRAILER", <<>>, z, 0, b)
    PROVE  Served(Run(s, CRLF), b)
<1>1. Run(s, CRLF) = Step(Step(s, "CR"), "LF")
  BY RunTwo DEF CRLF
<1> QED
  BY <1>1, TrailerSteps

LEMMA ServedRuns ==
    ASSUME NEW s, NEW b, Served(s, b)
    PROVE  Run(s, CRLF) = s /\ \A c : Run(s, <<c>>) = s
<1>1. \A c : Step(s, c) = s
  BY ServedStays
<1>2. Run(s, CRLF) = Step(Step(s, "CR"), "LF")
  BY RunTwo DEF CRLF
<1>3. \A c : Run(s, <<c>>) = Step(s, c)
  BY RunOne
<1> QED
  BY <1>1, <1>2, <1>3, Zenon

(* The last chunk, the trailer and what lies behind them.                  *)
LEMMA EndRun ==
    ASSUME NEW t \in BOOLEAN, NEW z, NEW b, NEW f \in Seq(Chars), NEW s,
           Run(s, f) = AtSize(z, b)
    PROVE  Served(Run(s, (f \o <<"0">> \o CRLF
                            \o (IF t THEN <<"x">> \o CRLF ELSE <<>>) \o CRLF) \o <<"NUL">>), b)
<1> DEFINE trailer == IF t THEN <<"x">> \o CRLF ELSE <<>>
           w1 == f \o <<"0">>
           w2 == w1 \o CRLF
           w3 == w2 \o trailer
           w4 == w3 \o CRLF
<1>1. /\ CRLF \in Seq(Chars) /\ <<"0">> \in Seq(Chars)
      /\ <<"x">> \in Seq(Chars) /\ <<"NUL">> \in Seq(Chars)
  <2>1. "0" \in Chars /\ "x" \in Chars /\ "CR" \in Chars /\ "LF" \in Chars /\ "NUL" \in Chars
    BY CharFacts, Zenon
  <2> QED
    BY <2>1, PairFacts DEF CRLF
<1>2. trailer \in Seq(Chars)
  BY <1>1, EmptySeq, ConcatProperties
<1>3. w1 \in Seq(Chars)
  BY <1>1, ConcatProperties
<1>4. Run(s, w1) = At("CHUNK_SIZE", <<"0">>, z, 0, b)
  <2>1. Run(s, f \o <<"0">>) = Run(Run(s, f), <<"0">>)
    BY <1>1, RunJoined
  <2>2. Run(AtSize(z, b), <<"0">>) = Step(AtSize(z, b), "0")
    BY RunOne
  <2>3. Step(AtSize(z, b), "0") = At("CHUNK_SIZE", <<"0">>, z, 0, b)
    BY DigitValues, DigitRead
  <2> QED
    BY <2>1, <2>2, <2>3, Zenon
<1> HIDE DEF w1, trailer
<1>5. w2 \in Seq(Chars)
  BY <1>1, <1>3, ConcatProperties
<1>6. Run(s, w2) = At("CHUNK_TRAILER", <<>>, 0, 0, b)
  <2>1. Run(s, w1 \o CRLF) = Run(Run(s, w1), CRLF)
    BY <1>1, <1>3, RunJoined
  <2>2. Run(At("CHUNK_SIZE", <<"0">>, z, 0, b), CRLF)
          = Step(Step(At("CHUNK_SIZE", <<"0">>, z, 0, b), "CR"), "LF")
    BY RunTwo DEF CRLF
  <2>3. Step(At("CHUNK_SIZE", <<"0">>, z, 0, b), "CR") = At("CHUNK_LF", <<>>, 0, 0, b)
    BY DigitValues, SizeEnds
  <2>4. Step(At("CHUNK_LF", <<>>, 0, 0, b), "LF") = At("CHUNK_TRAILER", <<>>, 0, 0, b)
    BY LineFeedBefore
  <2> QED
    BY <1>4, <2>1, <2>2, <2>3, <2>4, Zenon
<1> HIDE DEF w2
<1>7. w3 \in Seq(Chars)
  BY <1>2, <1>5, ConcatProperties
<1>8. Run(s, w3) = Run(At("CHUNK_TRAILER", <<>>, 0, 0, b), trailer)
  BY <1>2, <1>5, <1>6, RunJoined
<1> HIDE DEF w3
<1>9. w4 \in Seq(Chars)
  BY <1>1, <1>7, ConcatProperties
<1>10. Run(s, w4) = Run(Run(s, w3), CRLF)
  BY <1>1, <1>7, RunJoined
<1> HIDE DEF w4
<1>11. Run(s, w4 \o <<"NUL">>) = Run(Run(s, w4), <<"NUL">>)
  BY <1>1, <1>9, RunJoined
<1>12. Served(Run(s, w4), b)
  <2>1. CASE t
    <3>1. trailer = <<"x">> \o CRLF
      BY <2>1 DEF trailer
    <3>2. Run(At("CHUNK_TRAILER", <<>>, 0, 0, b), <<"x">> \o CRLF)
            = Run(Run(At("CHUNK_TRAILER", <<>>, 0, 0, b), <<"x">>), CRLF)
      BY <1>1, RunJoined
    <3>3. Run(At("CHUNK_TRAILER", <<>>, 0, 0, b), <<"x">>) = At("CHUNK_TRAILER", <<>>, 0, 0, b)
      BY RunOne, TrailerSteps
    <3>4. Served(Run(At("CHUNK_TRAILER", <<>>, 0, 0, b), CRLF), b)
      BY LineEnds
    <3>5. Served(Run(s, w3), b)
      BY <1>8, <3>1, <3>2, <3>3, <3>4, Zenon
    <3> QED
      BY <1>10, <3>5, ServedRuns
  <2>2. CASE ~t
    <3>1. trailer = <<>>
      BY <2>2 DEF trailer
    <3>2. Run(s, w3) = At("CHUNK_TRAILER", <<>>, 0, 0, b)
      BY <1>8, <3>1, RunNothing
    <3> QED
      BY <1>10, <3>2, LineEnds
  <2> QED
    BY <2>1, <2>2
<1>13. Served(Run(s, w4 \o <<"NUL">>), b)
  BY <1>11, <1>12, ServedRuns
<1> QED
  BY <1>13 DEF w4, w3, w2, w1, trailer

(* A body in chunks, decoded from its first character.                     *)
InChunks(m) ==
    /\ m.framing = "chunked" /\ m.ext \in BOOLEAN /\ m.trailer \in BOOLEAN
    /\ m.pieces \in Seq(Seq(STRING))
    /\ \A i \in DOMAIN m.pieces : Len(m.pieces[i]) \in 1..5
LEMMA CodedRun ==
    ASSUME NEW m, InChunks(m)
    PROVE  /\ Decode(<<>>, Coded(m)).result = "served"
           /\ Decode(<<>>, Coded(m)).body = Body(m)
<1> DEFINE ps == m.pieces
           cs == [i \in DOMAIN ps |-> Chunk(m, ps[i])]
           s == Run(AtSize(0, <<>>), Coded(m) \o <<"NUL">>)
<1>0. /\ m.framing = "chunked" /\ m.ext \in BOOLEAN /\ m.trailer \in BOOLEAN
      /\ m.pieces \in Seq(Seq(STRING))
      /\ \A i \in DOMAIN m.pieces : Len(m.pieces[i]) \in 1..5
  BY Zenon DEF InChunks
<1>1. ps \in Seq(Seq(Chars)) /\ \A i \in 1..Len(ps) : Len(ps[i]) \in 1..5
  <2>1. STRING \subseteq Chars
    BY CharFacts
  <2>2. Seq(STRING) \subseteq Seq(Chars)
    BY <2>1, SeqMonotonic
  <2>3. Seq(Seq(STRING)) \subseteq Seq(Seq(Chars))
    BY <2>2, SeqMonotonic
  <2>4. DOMAIN ps = 1..Len(ps)
    BY <1>0, LenProperties
  <2> QED
    BY <1>0, <2>3, <2>4
<1>2. PICK z : /\ FlattenSeq(cs) \in Seq(Chars)
               /\ Run(AtSize(0, <<>>), FlattenSeq(cs)) = AtSize(z, FlattenSeq(ps))
  <2> HIDE DEF ps
  <2>1. Len(cs) = Len(ps) /\ \A i \in 1..Len(ps) : cs[i] = Chunk(m, ps[i])
    <3>1. DOMAIN ps = 1..Len(ps) /\ Len(ps) \in Nat
      BY <1>1, LenProperties
    <3> QED
      BY <3>1
  <2> HIDE DEF cs
  <2> QED
    <3>1. ChunksOf(m, ps, cs)
      BY <1>0, <1>1, <2>1 DEF ChunksOf
    <3>2. Inverted(cs, ps)
      BY <3>1, ChunksRun
    <3> QED
      BY <3>2 DEF Inverted
<1>3. Coded(m) = FlattenSeq(cs) \o <<"0">> \o CRLF
                   \o (IF m.trailer THEN <<"x">> \o CRLF ELSE <<>>) \o CRLF
  BY <1>0, Zenon DEF Coded
<1>4. Served(s, FlattenSeq(ps))
  <2> HIDE DEF ps, cs
  <2>1. Served(Run(AtSize(0, <<>>), (FlattenSeq(cs) \o <<"0">> \o CRLF
                 \o (IF m.trailer THEN <<"x">> \o CRLF ELSE <<>>) \o CRLF) \o <<"NUL">>),
               FlattenSeq(ps))
    BY <1>0, <1>2, EndRun
  <2> QED
    BY <1>3, <2>1, Zenon
<1>5. Decoding(<<>>) = AtSize(0, <<>>)
  BY DEF Decoding, AtSize, At
<1>6. Decode(<<>>, Coded(m)) = [s EXCEPT !.result = IF @ = "reading" THEN "undefined" ELSE @]
  BY <1>5, Zenon DEF Decode
<1> HIDE DEF s
<1>7. PICK y : s = [state |-> "CHUNK_COMPLETE", digits |-> <<>>, size |-> y, read |-> 0,
                    body |-> Body(m), result |-> "served"]
  BY <1>4 DEF Served, Body
<1> QED
  BY <1>6, <1>7

Rechunked(m, e, t) == [m EXCEPT !.framing = "chunked", !.ext = e, !.trailer = t]
LEMMA RechunkedFacts ==
    ASSUME NEW m \in Messages, NEW e \in BOOLEAN, NEW t \in BOOLEAN,
           \A i \in DOMAIN m.pieces : Len(m.pieces[i]) \in 1..5
    PROVE  InChunks(Rechunked(m, e, t)) /\ Body(Rechunked(m, e, t)) = Body(m)
<1> DEFINE a == [m EXCEPT !.framing = "chunked"]
           b == [a EXCEPT !.ext = e]
           c == Rechunked(m, e, t)
<1>1. m \in [framing : {"none", "length", "chunked"}, last : {"0", "x"},
             multipart : BOOLEAN, pieces : Seq(Seq(STRING)), ext : BOOLEAN, trailer : BOOLEAN]
  BY MessageAssumption
<1>2. c = [b EXCEPT !.trailer = t]
  BY Zenon DEF Rechunked
<1>3. DOMAIN m = {"framing", "last", "multipart", "pieces", "ext", "trailer"}
      /\ m.pieces \in Seq(Seq(STRING))
  BY <1>1
<1>4. c.framing = "chunked" /\ c.ext = e /\ c.trailer = t /\ c.pieces = m.pieces
  BY <1>2, <1>3
<1> HIDE DEF c
<1>5. InChunks(c)
  BY <1>3, <1>4, Zenon DEF InChunks
<1>6. Body(c) = Body(m)
  BY <1>4, Zenon DEF Body
<1> QED
  BY <1>5, <1>6 DEF c

(* However a body is cut into chunks of a digit's size, with or without    *)
(* extensions and a trailer: started at its first character, the decoder   *)
(* gives it back, and finds its end.                                       *)
THEOREM DecodingInverts == Spec => []DecoderInverts
<1>1. Init => msg \in Messages
  BY DEF Init
<1>2. msg \in Messages /\ [Next]_vars => (msg \in Messages)'
  BY DEF Next, HandleRead, HandleWrite, vars
<1>3. msg \in Messages => DecoderInverts
  <2> SUFFICES ASSUME msg \in Messages,
                      \A i \in DOMAIN msg.pieces : Len(msg.pieces[i]) \in 1..5,
                      NEW e \in BOOLEAN, NEW t \in BOOLEAN
               PROVE  /\ Decode(<<>>, Coded(Rechunked(msg, e, t))).result = "served"
                      /\ Decode(<<>>, Coded(Rechunked(msg, e, t))).body = Body(msg)
    BY Zenon DEF DecoderInverts, Rechunked
  <2>1. InChunks(Rechunked(msg, e, t)) /\ Body(Rechunked(msg, e, t)) = Body(msg)
    BY RechunkedFacts
  <2> QED
    BY <2>1, CodedRun
<1> QED
  BY <1>1, <1>2, <1>3, PTL DEF Spec
=============================================================================
