---------------------------- MODULE ParserProofs ----------------------------
(* The parser's verdict and its tree, for every set of texts: the two      *)
(* passes with their shared depth accept exactly what is well formed, and  *)
(* the tree they build is the text's.                                      *)
EXTENDS RouteProofs

-----------------------------------------------------------------------------
(* The levels of a text.                                                   *)

Turn(text, i) == IF Opening(text, i) THEN 1 ELSE IF Closing(text, i) THEN -1 ELSE 0
Sums(f, text, m) == f = [i \in 0..m |-> IF i = 0 THEN 0 ELSE f[i - 1] + Turn(text, i)]

LEMMA SumsExist ==
    ASSUME NEW text, NEW n \in Nat
    PROVE  \E f : Sums(f, text, n) /\ \A i \in 0..n : f[i] \in Int
<1> DEFINE T == {m \in Nat : \E f : Sums(f, text, m) /\ \A i \in 0..m : f[i] \in Int}
<1>1. 0 \in T
  <2> DEFINE f == [i \in 0..0 |-> 0]
  <2>1. Sums(f, text, 0) /\ \A i \in 0..0 : f[i] \in Int
    BY DEF Sums
  <2> QED
    BY <2>1
<1>2. ASSUME NEW m \in Nat, m \in T PROVE m + 1 \in T
  <2>1. PICK f : Sums(f, text, m) /\ \A i \in 0..m : f[i] \in Int
    BY <1>2
  <2>0. Turn(text, m + 1) \in Int
    BY DEF Turn
  <2> DEFINE h == [i \in 0..(m + 1) |-> IF i <= m THEN f[i] ELSE f[m] + Turn(text, m + 1)]
  <2>2. ASSUME NEW i \in 0..(m + 1)
        PROVE  h[i] \in Int /\ h[i] = IF i = 0 THEN 0 ELSE h[i - 1] + Turn(text, i)
    <3>1. CASE i <= m
      <4>1. i \in 0..m /\ h[i] = f[i] /\ (i # 0 => h[i - 1] = f[i - 1])
        BY <3>1
      <4> HIDE DEF h
      <4> QED
        BY <2>1, <4>1 DEF Sums
    <3>2. CASE i = m + 1
      <4>1. h[i] = f[m] + Turn(text, i) /\ h[i - 1] = f[m] /\ i # 0 /\ f[m] \in Int
        BY <2>1, <3>2
      <4> HIDE DEF h
      <4> QED
        BY <2>0, <3>2, <4>1
    <3> QED
      BY <3>1, <3>2
  <2>3. Sums(h, text, m + 1)
    <3>1. h = [i \in 0..(m + 1) |-> h[i]]
      OBVIOUS
    <3> HIDE DEF h
    <3> QED
      BY <2>2, <3>1 DEF Sums
  <2>4. \A i \in 0..(m + 1) : h[i] \in Int
    BY <2>2
  <2> HIDE DEF h
  <2> QED
    BY <2>3, <2>4
<1> HIDE DEF T
<1>3. n \in T
  BY <1>1, <1>2, NumbersByStep
<1> QED
  BY <1>3 DEF T

(* What the proofs need of the levels: each element opens, closes or does  *)
(* neither.                                                                *)
Levels(text, level) ==
    /\ Len(text) \in Nat /\ DOMAIN text = 1..Len(text)
    /\ level[0] = 0 /\ \A i \in 0..Len(text) : level[i] \in Int
    /\ \A i \in 1..Len(text) :
          /\ Opening(text, i) => level[i] = level[i - 1] + 1
          /\ Closing(text, i) => level[i] = level[i - 1] - 1
          /\ ~Opening(text, i) /\ ~Closing(text, i) => level[i] = level[i - 1]

LEMMA LevelSteps ==
    ASSUME NEW text \in Files
    PROVE  Levels(text, Level(text))
<1> DEFINE L == Level(text)
           n == Len(text)
<1>1. n \in Nat /\ DOMAIN text = 1..n
  BY FilesAssumption, SeqFacts
<1>2. L = CHOOSE f : Sums(f, text, n)
  BY DEF Level, Sums, Turn
<1> HIDE DEF L
<1>3. PICK f : Sums(f, text, n) /\ \A i \in 0..n : f[i] \in Int
  BY <1>1, SumsExist
<1>4. Sums(L, text, n)
  BY <1>2, <1>3
<1>5. \A i \in 0..n : L[i] = IF i = 0 THEN 0 ELSE L[i - 1] + Turn(text, i)
  BY <1>4 DEF Sums
<1> DEFINE T == {m \in Nat : m \in 0..n => L[m] \in Int}
<1>6. 0 \in T
  BY <1>5
<1>7. ASSUME NEW m \in Nat, m \in T PROVE m + 1 \in T
  <2> SUFFICES ASSUME m + 1 \in 0..n PROVE L[m + 1] \in Int
    OBVIOUS
  <2>1. m \in 0..n /\ m + 1 # 0 /\ (m + 1) - 1 = m /\ L[m] \in Int
    BY <1>1, <1>7
  <2>2. L[m + 1] = L[m] + Turn(text, m + 1)
    BY <1>5, <2>1
  <2> QED
    BY <2>1, <2>2 DEF Turn
<1> HIDE DEF T
<1>8. Nat \subseteq T
  BY <1>6, <1>7, NumbersByStep
<1>9. \A i \in 0..n : L[i] \in Int
  BY <1>1, <1>8 DEF T
<1>10. ASSUME NEW i \in 1..n
       PROVE  /\ Opening(text, i) => L[i] = L[i - 1] + 1
              /\ Closing(text, i) => L[i] = L[i - 1] - 1
              /\ ~Opening(text, i) /\ ~Closing(text, i) => L[i] = L[i - 1]
  <2>1. L[i] = L[i - 1] + Turn(text, i) /\ L[i - 1] \in Int
    BY <1>1, <1>5, <1>9
  <2>2. ~(Opening(text, i) /\ Closing(text, i))
    BY DEF Opening, Closing
  <2> QED
    BY <2>1, <2>2 DEF Turn
<1>11. L[0] = 0
  BY <1>1, <1>5
<1> QED
  BY <1>1, <1>9, <1>10, <1>11 DEF Levels, L

(* No more blocks are open than elements have been read.                   *)
LEMMA LevelBound ==
    ASSUME NEW text \in Files, NEW p \in 0..Len(text)
    PROVE  Level(text)[p] <= p
<1> DEFINE L == Level(text)
           T == {i \in Nat : i \in 0..Len(text) => L[i] <= i}
<1>1. Levels(text, L)
  BY LevelSteps
<1> HIDE DEF L
<1>2. Len(text) \in Nat
  BY <1>1 DEF Levels
<1>3. 0 \in T
  BY <1>1 DEF Levels
<1>4. ASSUME NEW i \in Nat, i \in T PROVE i + 1 \in T
  <2> SUFFICES ASSUME i + 1 \in 0..Len(text) PROVE L[i + 1] <= i + 1
    OBVIOUS
  <2>1. i \in 0..Len(text) /\ i + 1 \in 1..Len(text) /\ (i + 1) - 1 = i /\ L[i] <= i
    BY <1>2, <1>4
  <2>2. L[i] \in Int /\ L[i + 1] \in {L[i] + 1, L[i] - 1, L[i]}
    BY <1>1, <2>1 DEF Levels
  <2> QED
    BY <2>1, <2>2
<1> HIDE DEF T
<1>5. p \in T
  BY <1>2, <1>3, <1>4, NumbersByStep
<1> QED
  BY <1>2, <1>5 DEF T, L

-----------------------------------------------------------------------------
(* Blocks that are open: b is before i if the levels stay at least its own *)
(* from b on, and i stands in b if moreover they end there.                *)

Open(text, b, i) ==
    /\ b \in 1..(i - 1) /\ Opening(text, b)
    /\ \A k \in b..(i - 1) : Level(text)[k] >= Level(text)[b]
Around(text, b, i) == Open(text, b, i) /\ Level(text)[i - 1] = Level(text)[b]

LEMMA GreatestNumber ==
    ASSUME NEW n \in Nat, NEW T, T \subseteq 0..n, T # {}
    PROVE  \E i \in T : \A j \in T : j <= i
<1> DEFINE U == {n - i : i \in T}
<1>1. U \subseteq Nat
  OBVIOUS
<1>2. \A j \in T : n - j \in U
  OBVIOUS
<1>3. \A u \in U : \E i \in T : u = n - i
  OBVIOUS
<1> HIDE DEF U
<1>0. U # {}
  BY <1>2
<1>4. PICK u \in U : \A v \in U : u <= v
  BY <1>0, <1>1, LeastNumber
<1>5. PICK i \in T : u = n - i
  BY <1>3
<1>6. ASSUME NEW j \in T PROVE j <= i
  <2>1. n - j \in U /\ u <= n - j /\ i \in 0..n /\ j \in 0..n
    BY <1>2, <1>4
  <2> QED
    BY <1>5, <2>1
<1> QED
  BY <1>6

(* Two blocks an element could stand in are the same.                      *)
LEMMA AroundUnique ==
    ASSUME NEW text \in Files, NEW i \in 1..(Len(text) + 1), NEW b, NEW c,
           Around(text, b, i), Around(text, c, i)
    PROVE  b = c
<1> DEFINE L == Level(text)
<1>1. Levels(text, L)
  BY LevelSteps
<1> HIDE DEF L
<1>2. Len(text) \in Nat /\ i \in Int
  BY <1>1 DEF Levels
<1>3. ASSUME NEW x \in Int, NEW y \in Int, Around(text, x, i), Around(text, y, i), x < y PROVE FALSE
  <2>1. /\ x \in 1..(i - 1) /\ y \in 1..(i - 1) /\ Opening(text, y)
        /\ L[x] = L[y] /\ L[x] = L[i - 1] /\ \A k \in x..(i - 1) : L[k] >= L[x]
    BY <1>3 DEF Around, Open, L
  <2>2. /\ y \in 1..Len(text) /\ y \in 0..Len(text) /\ y - 1 \in 0..Len(text)
        /\ y - 1 \in x..(i - 1)
    BY <1>2, <1>3, <2>1
  <2>3. L[y] = L[y - 1] + 1 /\ L[y - 1] \in Int /\ L[y] \in Int
    BY <1>1, <2>1, <2>2 DEF Levels
  <2>4. L[y - 1] >= L[y]
    BY <2>1, <2>2
  <2> QED
    BY <2>3, <2>4
<1>4. b \in Int /\ c \in Int
  BY <1>2 DEF Around, Open
<1> QED
  BY <1>3, <1>4

(* An element at a level above 0 stands in some block.                     *)
LEMMA AroundExists ==
    ASSUME NEW text \in Files, NEW i \in 1..(Len(text) + 1), Level(text)[i - 1] >= 1
    PROVE  \E b : Around(text, b, i)
<1> DEFINE L == Level(text)
           T == {k \in 0..(i - 1) : L[k] < L[i - 1]}
<1>1. Levels(text, L)
  BY LevelSteps
<1>2. L[i - 1] >= 1
  OBVIOUS
<1> HIDE DEF L
<1>3. Len(text) \in Nat /\ i - 1 \in Nat /\ i - 1 \in 0..Len(text) /\ L[i - 1] \in Int /\ L[0] = 0
  BY <1>1 DEF Levels
<1>4. 0 \in T /\ T \subseteq 0..(i - 1)
  BY <1>2, <1>3
<1>5. PICK k \in T : \A j \in T : j <= k
  BY <1>3, <1>4, GreatestNumber
<1> DEFINE b == k + 1
<1>6. k \in 0..(i - 1) /\ L[k] < L[i - 1] /\ k # i - 1
  BY <1>3
<1>7. /\ b \in 1..(i - 1) /\ b \in 1..Len(text) /\ b - 1 = k /\ k \in 0..Len(text)
      /\ b \in 0..Len(text)
  BY <1>3, <1>6
<1>8. \A j \in b..(i - 1) : L[j] >= L[i - 1] /\ L[j] \in Int
  <2> SUFFICES ASSUME NEW j \in b..(i - 1) PROVE L[j] >= L[i - 1] /\ L[j] \in Int
    OBVIOUS
  <2>1. j \in 0..(i - 1) /\ j \in 0..Len(text) /\ ~(j <= k)
    BY <1>3, <1>6
  <2>2. L[j] \in Int /\ j \notin T
    BY <1>1, <1>5, <2>1 DEF Levels
  <2>3. ~(L[j] < L[i - 1])
    BY <2>1, <2>2
  <2> QED
    BY <1>3, <2>2, <2>3
<1>9. L[b] >= L[i - 1] /\ L[b] \in Int /\ L[k] \in Int
  BY <1>1, <1>7, <1>8 DEF Levels
<1> HIDE DEF b
<1>10. Opening(text, b) /\ L[b] = L[k] + 1
  <2>1. /\ Opening(text, b) => L[b] = L[k] + 1
        /\ Closing(text, b) => L[b] = L[k] - 1
        /\ ~Opening(text, b) /\ ~Closing(text, b) => L[b] = L[k]
    BY <1>1, <1>7 DEF Levels
  <2> QED
    BY <1>3, <1>6, <1>9, <2>1
<1>11. L[b] = L[i - 1]
  BY <1>3, <1>6, <1>9, <1>10
<1>12. Around(text, b, i)
  BY <1>7, <1>8, <1>10, <1>11 DEF Around, Open, L
<1> QED
  BY <1>12

(* Encloser is the block that is open and ends there, or none.             *)
LEMMA EncloserAround ==
    ASSUME NEW text \in Files, NEW i \in 1..(Len(text) + 1)
    PROVE  /\ Level(text)[i - 1] >= 1 => Around(text, Encloser(text, i), i)
           /\ Level(text)[i - 1] <= 0 => Encloser(text, i) = 0
<1> DEFINE L == Level(text)
           opened == {j \in 1..(i - 1) : Opening(text, j) /\ L[j] = L[i - 1]}
<1>1. Levels(text, L)
  BY LevelSteps
<1>2. Encloser(text, i) = IF L[i - 1] <= 0 \/ opened = {} THEN 0 ELSE Max(opened)
  BY DEF Encloser
<1>3. Len(text) \in Nat /\ i - 1 \in 0..Len(text) /\ L[i - 1] \in Int
  BY <1>1 DEF Levels
<1>4. ASSUME L[i - 1] >= 1 PROVE Around(text, Encloser(text, i), i)
  <2>1. PICK b : Around(text, b, i)
    BY <1>4, AroundExists
  <2>2. /\ b \in 1..(i - 1) /\ Opening(text, b) /\ L[b] = L[i - 1]
        /\ \A k \in b..(i - 1) : L[k] >= L[b]
    BY <2>1 DEF Around, Open
  <2>3. b \in opened /\ opened \subseteq Nat
    BY <2>2
  <2> HIDE DEF L
  <2>4. ASSUME NEW j \in opened PROVE j <= b
    <3> SUFFICES ASSUME b < j PROVE FALSE
      BY <2>2, <2>3, <1>3
    <3>1. j \in 1..(i - 1) /\ Opening(text, j) /\ L[j] = L[i - 1]
      OBVIOUS
    <3>2. j \in 1..Len(text) /\ j - 1 \in 0..Len(text) /\ j - 1 \in b..(i - 1)
      BY <1>3, <2>2, <3>1
    <3>3. L[j] = L[j - 1] + 1 /\ L[j - 1] \in Int /\ L[j - 1] >= L[b]
      BY <1>1, <2>2, <3>1, <3>2 DEF Levels
    <3> QED
      BY <2>2, <3>1, <3>3
  <2> HIDE DEF opened
  <2>5. Max(opened) = b
    BY <2>3, <2>4, MaxIs
  <2>6. Encloser(text, i) = b
    BY <1>2, <1>3, <1>4, <2>3, <2>5
  <2> QED
    BY <2>1, <2>6
<1> QED
  BY <1>2, <1>4

(* No element closes what is not open.                                     *)
Nested(text) == \A k \in 0..Len(text) : Level(text)[k] >= 0

LEMMA EncloserFacts ==
    ASSUME NEW text \in Files, Nested(text), NEW i \in 1..(Len(text) + 1)
    PROVE  LET e == Encloser(text, i) IN
           /\ Len(text) \in Nat /\ Level(text)[i - 1] \in Nat
           /\ e \in 0..(i - 1) /\ (e = 0 <=> Level(text)[i - 1] = 0)
           /\ e # 0 => Around(text, e, i) /\ Opening(text, e)
           /\ \A b : Around(text, b, i) => b = e
<1> DEFINE L == Level(text)
           e == Encloser(text, i)
<1>1. Levels(text, L)
  BY LevelSteps
<1> HIDE DEF L
<1>2. Len(text) \in Nat /\ i - 1 \in 0..Len(text) /\ L[i - 1] \in Int /\ L[i - 1] >= 0
  BY <1>1 DEF Levels, Nested, L
<1>3. /\ L[i - 1] >= 1 => Around(text, e, i)
      /\ L[i - 1] <= 0 => e = 0
  BY EncloserAround DEF L
<1> HIDE DEF e
<1>4. CASE L[i - 1] >= 1
  <2>1. Around(text, e, i) /\ e \in 1..(i - 1) /\ Opening(text, e)
    BY <1>3, <1>4 DEF Around, Open
  <2>2. \A b : Around(text, b, i) => b = e
    BY <2>1, AroundUnique
  <2> QED
    BY <1>2, <1>4, <2>1, <2>2 DEF L, e
<1>5. CASE L[i - 1] = 0
  <2>1. e = 0
    BY <1>3, <1>5
  <2>2. ASSUME NEW b, Around(text, b, i) PROVE FALSE
    <3>1. b \in 1..(i - 1) /\ Opening(text, b) /\ L[b] = 0
      BY <1>5, <2>2 DEF Around, Open, L
    <3>2. b \in 1..Len(text) /\ b - 1 \in 0..Len(text)
      BY <1>2, <3>1
    <3>3. L[b] = L[b - 1] + 1 /\ L[b - 1] \in Int /\ L[b - 1] >= 0
      BY <1>1, <3>1, <3>2 DEF Levels, Nested, L
    <3> QED
      BY <3>1, <3>3
  <2> QED
    BY <1>2, <1>5, <2>1, <2>2 DEF L, e
<1> QED
  BY <1>2, <1>4, <1>5

LEMMA OpenFacts ==
    ASSUME NEW text \in Files, Nested(text), NEW i \in 1..(Len(text) + 1), NEW b,
           Open(text, b, i)
    PROVE  /\ b \in 1..Len(text) /\ b < i /\ Level(text)[b] \in Nat /\ Level(text)[b] >= 1
           /\ Level(text)[b] <= Level(text)[i - 1]
           /\ Level(text)[b] = Level(text)[b - 1] + 1
           /\ Level(text)[b] = Level(text)[i - 1] <=> b = Encloser(text, i)
<1> DEFINE L == Level(text)
<1>1. Levels(text, L)
  BY LevelSteps
<1> HIDE DEF L
<1>2. /\ b \in 1..(i - 1) /\ Opening(text, b) /\ \A k \in b..(i - 1) : L[k] >= L[b]
  BY DEF Open, L
<1>3. /\ b \in 1..Len(text) /\ b \in 0..Len(text) /\ b - 1 \in 0..Len(text) /\ b < i
      /\ i - 1 \in b..(i - 1)
  BY <1>1, <1>2 DEF Levels
<1>4. /\ L[b] = L[b - 1] + 1 /\ L[b - 1] \in Int /\ L[b] \in Int /\ L[b - 1] >= 0
      /\ L[b] <= L[i - 1]
  <2>1. L[b] = L[b - 1] + 1 /\ L[b - 1] \in Int /\ L[b] \in Int
    BY <1>1, <1>2, <1>3 DEF Levels
  <2>2. L[b - 1] >= 0
    BY <1>3 DEF Nested, L
  <2>3. L[i - 1] >= L[b] /\ L[i - 1] \in Nat
    BY <1>2, <1>3, EncloserFacts DEF L
  <2> QED
    BY <2>1, <2>2, <2>3
<1>5. L[b] = L[i - 1] => b = Encloser(text, i)
  BY EncloserFacts DEF Around, L
<1>6. b = Encloser(text, i) => L[b] = L[i - 1]
  <2> SUFFICES ASSUME b = Encloser(text, i) PROVE L[b] = L[i - 1]
    OBVIOUS
  <2>1. b # 0
    BY <1>2
  <2> QED
    BY <2>1, EncloserFacts DEF Around, L
<1> QED
  BY <1>3, <1>4, <1>5, <1>6 DEF L

(* What an element does to the blocks that are open.                       *)
LEMMA OpenAfter ==
    ASSUME NEW text \in Files, Nested(text), NEW i \in 1..Len(text), NEW b
    PROVE  Open(text, b, i + 1) <=>
              \/ b = i /\ Opening(text, i)
              \/ Open(text, b, i) /\ ~(Closing(text, i) /\ b = Encloser(text, i))
<1> DEFINE L == Level(text)
<1>1. Levels(text, L)
  BY LevelSteps
<1> HIDE DEF L
<1>0. Len(text) \in Nat /\ i \in 1..(Len(text) + 1) /\ i \in 0..Len(text) /\ i - 1 \in 0..Len(text)
  BY <1>1 DEF Levels
<1>2. /\ L[i] \in Int /\ L[i - 1] \in Int
      /\ Opening(text, i) => L[i] = L[i - 1] + 1
      /\ Closing(text, i) => L[i] = L[i - 1] - 1
      /\ ~Opening(text, i) /\ ~Closing(text, i) => L[i] = L[i - 1]
  BY <1>0, <1>1 DEF Levels
<1>3. CASE b = i
  <2>1. ~Open(text, b, i)
    BY <1>0, <1>3 DEF Open
  <2>2. Opening(text, i) => Open(text, b, i + 1)
    <3>1. \A k \in i..((i + 1) - 1) : k = i
      OBVIOUS
    <3> QED
      BY <1>2, <1>3, <3>1 DEF Open, L
  <2>3. Open(text, b, i + 1) => Opening(text, i)
    BY <1>3 DEF Open
  <2> QED
    BY <1>3, <2>1, <2>2, <2>3
<1>4. CASE b # i
  <2>1. b \in 1..((i + 1) - 1) <=> b \in 1..(i - 1)
    BY <1>0, <1>4
  <2>2. b \in 1..(i - 1) =>
          ((\A k \in b..((i + 1) - 1) : L[k] >= L[b]) <=>
              (\A k \in b..(i - 1) : L[k] >= L[b]) /\ L[i] >= L[b])
    <3> SUFFICES ASSUME b \in 1..(i - 1)
                 PROVE  (\A k \in b..((i + 1) - 1) : L[k] >= L[b]) <=>
                          (\A k \in b..(i - 1) : L[k] >= L[b]) /\ L[i] >= L[b]
      OBVIOUS
    <3>1. \A k : k \in b..((i + 1) - 1) <=> k \in b..(i - 1) \/ k = i
      BY <1>0
    <3> QED
      BY <3>1, Zenon
  <2>3. Open(text, b, i + 1) <=> Open(text, b, i) /\ L[i] >= L[b]
    BY <2>1, <2>2 DEF Open, L
  <2>4. ASSUME Open(text, b, i) PROVE L[i] >= L[b] <=> ~(Closing(text, i) /\ b = Encloser(text, i))
    <3>1. /\ L[b] \in Nat /\ L[b] <= L[i - 1]
          /\ L[b] = L[i - 1] <=> b = Encloser(text, i)
      BY <1>0, <2>4, OpenFacts DEF L
    <3>2. CASE Closing(text, i)
      BY <1>2, <3>1, <3>2
    <3>3. CASE ~Closing(text, i)
      BY <1>2, <3>1, <3>3
    <3> QED
      BY <3>2, <3>3
  <2> QED
    BY <1>4, <2>3, <2>4
<1> QED
  BY <1>3, <1>4

(* What an element does to the block the next one stands in: leaving one   *)
(* goes back to the one it was opened in.                                  *)
LEMMA EncloserAfter ==
    ASSUME NEW text \in Files, Nested(text), NEW i \in 1..Len(text)
    PROVE  /\ Opening(text, i) => Encloser(text, i + 1) = i
           /\ ~Opening(text, i) /\ ~Closing(text, i) =>
                 Encloser(text, i + 1) = Encloser(text, i)
           /\ Closing(text, i) =>
                 /\ Encloser(text, i) \in 1..(i - 1)
                 /\ Encloser(text, i + 1) = Encloser(text, Encloser(text, i))
<1> DEFINE L == Level(text)
           e == Encloser(text, i)
<1>1. Levels(text, L)
  BY LevelSteps
<1> HIDE DEF L, e
<1>0. /\ Len(text) \in Nat /\ i \in 1..(Len(text) + 1) /\ i \in 0..Len(text)
      /\ i - 1 \in 0..Len(text) /\ i + 1 \in 1..(Len(text) + 1) /\ (i + 1) - 1 = i
  BY <1>1 DEF Levels
<1>2. /\ L[i] \in Int /\ L[i - 1] \in Int /\ L[i] >= 0 /\ L[i - 1] >= 0
      /\ Opening(text, i) => L[i] = L[i - 1] + 1
      /\ Closing(text, i) => L[i] = L[i - 1] - 1
      /\ ~Opening(text, i) /\ ~Closing(text, i) => L[i] = L[i - 1]
  BY <1>0, <1>1 DEF Levels, Nested, L
<1>3. /\ e \in 0..(i - 1) /\ (e = 0 <=> L[i - 1] = 0)
      /\ e # 0 => Around(text, e, i) /\ Opening(text, e)
  BY <1>0, EncloserFacts DEF L, e
<1>4. /\ Encloser(text, i + 1) = 0 <=> L[i] = 0
      /\ \A b : Around(text, b, i + 1) => b = Encloser(text, i + 1)
  BY <1>0, EncloserFacts DEF L
<1>5. \A b : Open(text, b, i + 1) /\ L[b] = L[i] => b = Encloser(text, i + 1)
  BY <1>0, <1>4 DEF Around, L
<1>6. ASSUME Opening(text, i) PROVE Encloser(text, i + 1) = i
  BY <1>5, <1>6, OpenAfter
<1>7. ASSUME ~Opening(text, i), ~Closing(text, i) PROVE Encloser(text, i + 1) = e
  <2>1. CASE e = 0
    BY <1>2, <1>3, <1>4, <1>7, <2>1
  <2>2. CASE e # 0
    BY <1>2, <1>3, <1>5, <1>7, <2>2, OpenAfter DEF Around, L
  <2> QED
    BY <2>1, <2>2
<1>8. ASSUME Closing(text, i)
      PROVE  e \in 1..(i - 1) /\ Encloser(text, i + 1) = Encloser(text, e)
  <2>1. e \in 1..(i - 1) /\ Around(text, e, i)
    BY <1>2, <1>3, <1>8
  <2>2. /\ e \in 1..Len(text) /\ e \in 1..(Len(text) + 1) /\ e - 1 \in 0..Len(text)
    BY <1>0, <2>1
  <2>3. L[e] = L[i - 1] /\ L[e] = L[e - 1] + 1 /\ L[e - 1] \in Int
    BY <1>1, <2>1, <2>2 DEF Levels, Around, Open, L
  <2>4. L[e - 1] = L[i]
    BY <1>2, <1>8, <2>3
  <2> DEFINE c == Encloser(text, e)
  <2>5. /\ c \in 0..(e - 1) /\ (c = 0 <=> L[e - 1] = 0) /\ (c # 0 => Around(text, c, e))
    BY <2>2, EncloserFacts DEF L
  <2> HIDE DEF c
  <2>6. CASE c = 0
    BY <1>4, <2>1, <2>4, <2>5, <2>6 DEF c
  <2>7. CASE c # 0
    <3>1. /\ c \in 1..(e - 1) /\ Opening(text, c) /\ L[c] = L[e - 1]
          /\ \A k \in c..(e - 1) : L[k] >= L[c]
      BY <2>5, <2>7 DEF Around, Open, L
    <3>2. \A k \in e..(i - 1) : L[k] >= L[e]
      BY <2>1 DEF Around, Open, L
    <3>3. ASSUME NEW k \in c..(i - 1) PROVE L[k] >= L[c]
      <4>1. CASE k \in c..(e - 1)
        BY <3>1, <4>1
      <4>2. CASE k \in e..(i - 1)
        <5>1. L[k] \in Int /\ L[k] >= L[e]
          BY <1>0, <1>1, <2>1, <3>2, <4>2 DEF Levels
        <5> QED
          BY <2>3, <3>1, <5>1
      <4> QED
        BY <2>1, <3>1, <4>1, <4>2
    <3>4. Open(text, c, i)
      BY <2>1, <3>1, <3>3 DEF Open, L
    <3>5. c # e
      BY <2>1, <3>1
    <3>6. Open(text, c, i + 1)
      BY <3>4, <3>5, OpenAfter DEF e
    <3> QED
      BY <1>5, <2>1, <2>4, <3>1, <3>6 DEF c
  <2> QED
    BY <2>1, <2>6, <2>7 DEF c
<1> QED
  BY <1>6, <1>7, <1>8 DEF e

-----------------------------------------------------------------------------
(* The numbers of the nodes.                                               *)

Upto(text, i) == {j \in NodeBlocks(text) : j <= i}

LEMMA UptoFacts ==
    ASSUME NEW text \in Files, NEW i \in 0..Len(text)
    PROVE  /\ Len(text) \in Nat /\ NodeBlocks(text) \subseteq 1..Len(text)
           /\ IsFiniteSet(Upto(text, i)) /\ Cardinality(Upto(text, i)) \in Nat
           /\ i = 0 => Cardinality(Upto(text, i)) = 0
           /\ i > 0 => Cardinality(Upto(text, i)) =
                         Cardinality(Upto(text, i - 1)) + (IF i \in NodeBlocks(text) THEN 1 ELSE 0)
           /\ i = Len(text) => Upto(text, i) = NodeBlocks(text)
<1>1. Len(text) \in Nat /\ DOMAIN text = 1..Len(text)
  BY FilesAssumption, SeqFacts
<1>2. NodeBlocks(text) \subseteq 1..Len(text)
  BY <1>1 DEF NodeBlocks, Blocks
<1>3. ASSUME NEW k \in 0..Len(text)
      PROVE  IsFiniteSet(Upto(text, k)) /\ Cardinality(Upto(text, k)) \in Nat
  <2>1. Upto(text, k) \subseteq 1..Len(text)
    BY <1>2 DEF Upto
  <2>2. IsFiniteSet(1..Len(text))
    BY <1>1, FS_Interval
  <2> QED
    BY <2>1, <2>2, FS_Subset, FS_CardinalityType
<1>4. i = 0 => Upto(text, i) = {}
  BY <1>1, <1>2 DEF Upto
<1>5. i > 0 => Cardinality(Upto(text, i)) =
                 Cardinality(Upto(text, i - 1)) + (IF i \in NodeBlocks(text) THEN 1 ELSE 0)
  <2> SUFFICES ASSUME i > 0
               PROVE  Cardinality(Upto(text, i)) =
                        Cardinality(Upto(text, i - 1)) + (IF i \in NodeBlocks(text) THEN 1 ELSE 0)
    OBVIOUS
  <2>1. i - 1 \in 0..Len(text)
    BY <1>1
  <2>2. IsFiniteSet(Upto(text, i - 1)) /\ Cardinality(Upto(text, i - 1)) \in Nat
    BY <1>3, <2>1
  <2>3. i \notin Upto(text, i - 1)
    BY <1>1 DEF Upto
  <2>4. CASE i \in NodeBlocks(text)
    <3>1. Upto(text, i) = Upto(text, i - 1) \cup {i}
      BY <1>1, <1>2, <2>4 DEF Upto
    <3> QED
      BY <2>2, <2>3, <2>4, <3>1, FS_AddElement
  <2>5. CASE i \notin NodeBlocks(text)
    <3>1. Upto(text, i) = Upto(text, i - 1)
      BY <1>1, <1>2, <2>5 DEF Upto
    <3> QED
      BY <2>2, <2>5, <3>1
  <2> QED
    BY <2>4, <2>5
<1>6. i = Len(text) => Upto(text, i) = NodeBlocks(text)
  BY <1>1, <1>2 DEF Upto
<1> QED
  BY <1>1, <1>2, <1>3, <1>4, <1>5, <1>6, FS_EmptySet

LEMMA NodeOfFacts ==
    ASSUME NEW text \in Files, NEW b
    PROVE  /\ b \in NodeBlocks(text) =>
                 /\ b \in 1..Len(text) /\ NodeOf(text, b) \in Nat /\ NodeOf(text, b) >= 2
                 /\ NodeOf(text, b) = 1 + Cardinality(Upto(text, b))
           /\ b \notin NodeBlocks(text) => NodeOf(text, b) = 1
<1>1. b \notin NodeBlocks(text) => NodeOf(text, b) = 1
  BY DEF NodeOf
<1>2. ASSUME b \in NodeBlocks(text)
      PROVE  /\ b \in 1..Len(text) /\ NodeOf(text, b) \in Nat /\ NodeOf(text, b) >= 2
             /\ NodeOf(text, b) = 1 + Cardinality(Upto(text, b))
  <2>1. Len(text) \in Nat /\ NodeBlocks(text) \subseteq 1..Len(text)
    <3>1. Len(text) \in Nat /\ DOMAIN text = 1..Len(text)
      BY FilesAssumption, SeqFacts
    <3> QED
      BY <3>1 DEF NodeBlocks, Blocks
  <2>2. b \in 1..Len(text) /\ b \in 0..Len(text) /\ b - 1 \in 0..Len(text) /\ b > 0
    BY <1>2, <2>1
  <2>3. NodeOf(text, b) = 1 + Cardinality(Upto(text, b))
    BY <1>2 DEF NodeOf, Upto
  <2>4. Cardinality(Upto(text, b)) = Cardinality(Upto(text, b - 1)) + 1
    BY <1>2, <2>2, UptoFacts
  <2>5. Cardinality(Upto(text, b - 1)) \in Nat
    BY <2>2, UptoFacts
  <2> QED
    BY <2>2, <2>3, <2>4, <2>5
<1> QED
  BY <1>1, <1>2

LEMMA NodesApart ==
    ASSUME NEW text \in Files, NEW b, NEW c, b \in NodeBlocks(text), b # c
    PROVE  NodeOf(text, b) # NodeOf(text, c)
<1>1. NodeOf(text, b) >= 2 /\ b \in 1..Len(text) /\ Len(text) \in Nat
  BY NodeOfFacts, UptoFacts, FilesAssumption, SeqFacts
<1>2. ASSUME NEW x \in NodeBlocks(text), NEW y \in NodeBlocks(text), x < y
      PROVE  NodeOf(text, x) # NodeOf(text, y)
  <2>1. /\ x \in 1..Len(text) /\ y \in 1..Len(text)
        /\ NodeOf(text, x) = 1 + Cardinality(Upto(text, x))
        /\ NodeOf(text, y) = 1 + Cardinality(Upto(text, y))
    BY NodeOfFacts
  <2>2. y \in 0..Len(text) /\ y - 1 \in 0..Len(text) /\ y > 0 /\ x \in 0..Len(text) /\ x <= y - 1
    BY <1>1, <1>2, <2>1
  <2>3. Upto(text, x) \subseteq Upto(text, y - 1)
    <3>1. NodeBlocks(text) \subseteq 1..Len(text)
      BY <2>2, UptoFacts
    <3> QED
      BY <1>1, <2>1, <2>2, <3>1 DEF Upto
  <2>4. IsFiniteSet(Upto(text, y - 1)) /\ Cardinality(Upto(text, y - 1)) \in Nat
    BY <2>2, UptoFacts
  <2>5. Cardinality(Upto(text, x)) <= Cardinality(Upto(text, y - 1))
    BY <2>3, <2>4, FS_Subset
  <2>6. Cardinality(Upto(text, y)) = Cardinality(Upto(text, y - 1)) + 1
    BY <2>2, UptoFacts
  <2>7. Cardinality(Upto(text, x)) \in Nat
    BY <2>2, UptoFacts
  <2> QED
    BY <2>1, <2>4, <2>5, <2>6, <2>7
<1>3. CASE c \notin NodeBlocks(text)
  BY <1>1, <1>3, NodeOfFacts
<1>4. CASE c \in NodeBlocks(text)
  <2>1. c \in 1..Len(text)
    BY <1>4, NodeOfFacts
  <2> QED
    BY <1>1, <1>2, <1>4, <2>1
<1> QED
  BY <1>3, <1>4

-----------------------------------------------------------------------------
(* Filling a node, one directive after the other.                          *)

Fills(f, text, new, places, m) ==
    f = [i \in 0..m |->
            CASE i = 0 -> new
              [] i \in places -> FillDirective(f[i - 1], text[i].words)
              [] OTHER -> f[i - 1]]
Next1(text, places, i, n) == IF i \in places THEN FillDirective(n, text[i].words) ELSE n

LEMMA FillsExists ==
    ASSUME NEW text, NEW new, NEW places, 0 \notin places, NEW n \in Nat
    PROVE  \E f : Fills(f, text, new, places, n)
<1> DEFINE T == {m \in Nat : \E f : Fills(f, text, new, places, m)}
<1>1. 0 \in T
  <2> DEFINE f == [i \in 0..0 |-> new]
  <2>1. Fills(f, text, new, places, 0)
    BY DEF Fills
  <2> QED
    BY <2>1
<1>2. ASSUME NEW m \in Nat, m \in T PROVE m + 1 \in T
  <2>1. PICK f : Fills(f, text, new, places, m)
    BY <1>2
  <2> DEFINE h == [i \in 0..(m + 1) |-> IF i <= m THEN f[i] ELSE Next1(text, places, m + 1, f[m])]
  <2>2. ASSUME NEW i \in 0..(m + 1)
        PROVE  h[i] = CASE i = 0 -> new
                        [] i \in places -> FillDirective(h[i - 1], text[i].words)
                        [] OTHER -> h[i - 1]
    <3>1. CASE i <= m
      <4>1. i \in 0..m /\ h[i] = f[i] /\ (i # 0 => h[i - 1] = f[i - 1])
        BY <3>1
      <4> HIDE DEF h
      <4>2. f[i] = CASE i = 0 -> new
                     [] i \in places -> FillDirective(f[i - 1], text[i].words)
                     [] OTHER -> f[i - 1]
        BY <2>1, <4>1 DEF Fills
      <4> QED
        BY <4>1, <4>2
    <3>2. CASE i = m + 1
      <4>1. h[i] = Next1(text, places, i, f[m]) /\ h[i - 1] = f[m] /\ i # 0
        BY <3>2
      <4> HIDE DEF h
      <4> QED
        BY <4>1 DEF Next1
    <3> QED
      BY <3>1, <3>2
  <2>3. Fills(h, text, new, places, m + 1)
    <3>1. h = [i \in 0..(m + 1) |-> h[i]]
      OBVIOUS
    <3> HIDE DEF h
    <3> QED
      BY <2>2, <3>1 DEF Fills
  <2> HIDE DEF h
  <2> QED
    BY <2>3
<1> HIDE DEF T
<1>3. n \in T
  BY <1>1, <1>2, NumbersByStep
<1> QED
  BY <1>3 DEF T

LEMMA FillsAgree ==
    ASSUME NEW text, NEW new, NEW places, 0 \notin places, NEW m \in Nat,
           NEW f, Fills(f, text, new, places, m), NEW g, Fills(g, text, new, places, m + 1)
    PROVE  f[m] = g[m]
<1> DEFINE T == {k \in Nat : k \in 0..m => f[k] = g[k]}
<1>1. \A i \in 0..m : f[i] = CASE i = 0 -> new
                               [] i \in places -> FillDirective(f[i - 1], text[i].words)
                               [] OTHER -> f[i - 1]
  BY DEF Fills
<1>2. \A i \in 0..(m + 1) : g[i] = CASE i = 0 -> new
                               [] i \in places -> FillDirective(g[i - 1], text[i].words)
                               [] OTHER -> g[i - 1]
  BY DEF Fills
<1>3. 0 \in T
  BY <1>1, <1>2
<1>4. ASSUME NEW k \in Nat, k \in T PROVE k + 1 \in T
  <2> SUFFICES ASSUME k + 1 \in 0..m PROVE f[k + 1] = g[k + 1]
    OBVIOUS
  <2>1. k \in 0..m /\ k + 1 # 0 /\ (k + 1) - 1 = k /\ k + 1 \in 0..(m + 1) /\ f[k] = g[k]
    BY <1>4
  <2>2. f[k + 1] = Next1(text, places, k + 1, f[k])
    BY <1>1, <2>1 DEF Next1
  <2>3. g[k + 1] = Next1(text, places, k + 1, g[k])
    BY <1>2, <2>1 DEF Next1
  <2> QED
    BY <2>1, <2>2, <2>3
<1> HIDE DEF T
<1>5. m \in T
  BY <1>3, <1>4, NumbersByStep
<1> QED
  BY <1>5 DEF T

LEMMA FilledSteps ==
    ASSUME NEW text, NEW new, NEW places, 0 \notin places
    PROVE  /\ Filled(text, new, places, 0) = new
           /\ \A m \in Nat : Filled(text, new, places, m + 1) =
                 Next1(text, places, m + 1, Filled(text, new, places, m))
<1> DEFINE F(m) == CHOOSE f : Fills(f, text, new, places, m)
<1>1. \A m \in Nat : Fills(F(m), text, new, places, m)
  BY FillsExists
<1>2. \A m : Filled(text, new, places, m) = F(m)[m]
  BY DEF Filled, Fills
<1> HIDE DEF F
<1>3. F(0)[0] = new
  BY <1>1 DEF Fills
<1>4. ASSUME NEW m \in Nat PROVE F(m + 1)[m + 1] = Next1(text, places, m + 1, F(m)[m])
  <2>1. Fills(F(m), text, new, places, m) /\ Fills(F(m + 1), text, new, places, m + 1)
    BY <1>1
  <2>2. F(m)[m] = F(m + 1)[m]
    BY <2>1, FillsAgree
  <2>3. F(m + 1)[m + 1] = Next1(text, places, m + 1, F(m + 1)[m])
    <3>1. m + 1 \in 0..(m + 1) /\ m + 1 # 0 /\ (m + 1) - 1 = m
      OBVIOUS
    <3> QED
      BY <2>1, <3>1 DEF Fills, Next1
  <2> QED
    BY <2>2, <2>3
<1> QED
  BY <1>2, <1>3, <1>4

LEMMA FilledOneMore ==
    ASSUME NEW text, NEW new, NEW places, 0 \notin places, NEW m \in Nat
    PROVE  Filled(text, new, places, m + 1) =
              Next1(text, places, m + 1, Filled(text, new, places, m))
BY FilledSteps

LEMMA FilledNone ==
    ASSUME NEW text, NEW new, NEW places, 0 \notin places, NEW n \in Nat,
           \A i \in places : ~(i <= n)
    PROVE  Filled(text, new, places, n) = new
<1> DEFINE T == {m \in Nat : m <= n => Filled(text, new, places, m) = new}
<1>1. 0 \in T
  BY FilledSteps
<1>2. ASSUME NEW m \in Nat, m \in T PROVE m + 1 \in T
  <2> SUFFICES ASSUME m + 1 <= n PROVE Filled(text, new, places, m + 1) = new
    OBVIOUS
  <2>1. Filled(text, new, places, m) = new /\ m + 1 \notin places
    BY <1>2
  <2>2. Filled(text, new, places, m + 1) =
           Next1(text, places, m + 1, Filled(text, new, places, m))
    BY FilledSteps
  <2> QED
    BY <2>1, <2>2 DEF Next1
<1> HIDE DEF T
<1>3. n \in T
  BY <1>1, <1>2, NumbersByStep
<1> QED
  BY <1>3 DEF T

-----------------------------------------------------------------------------
(* What the parser keeps, in both passes.                                  *)

(* DetectNextType takes element i for something, where level says how many *)
(* blocks are open before it.                                              *)
Lonely(text, i) ==
    /\ text[i].end = "close" /\ text[i].words = <<>>
    /\ \A j \in (i + 1)..Len(text) : text[j].end = "none" /\ text[j].words = <<>>
Typed(text, i) ==
    /\ Lonely(text, i) => Level(text)[i - 1] = 1
    /\ \/ IsDirective(text[i])
       \/ IsBlock(text[i]) /\ \E j \in i..Len(text) : text[j].end = "close"
       \/ IsBlockEnd(text[i]) /\ Level(text)[i - 1] > 0

Detected(text, i, n) ==
    IF Lonely(text, i) /\ n # 1 THEN "BAD_TYPE"
    ELSE CASE IsDirective(text[i]) -> "DIRECTIVE"
           [] IsBlock(text[i]) /\ \E j \in i..Len(text) : text[j].end = "close" -> "BLOCK"
           [] IsBlockEnd(text[i]) /\ n > 0 -> "BLOCK_END"
           [] OTHER -> "BAD_TYPE"

(* The first pass has taken the elements before p, at nesting n; the second *)
(* takes all of them, from the nesting that the first has left.            *)
FirstFits(text, p, n) ==
    /\ n = Level(text)[p - 1]
    /\ \A i \in 1..(p - 1) : Typed(text, i) /\ Level(text)[i] >= 0
SecondFits(text, p, d, n) ==
    /\ \A i \in 1..Len(text) : Typed(text, i)
    /\ Nested(text) /\ d = Level(text)[p - 1]
    /\ n = Level(text)[Len(text)] + Level(text)[p - 1]

(* No server or location is outermost, of those before element p.          *)
NoStray(text, p) == \A b \in NodeBlocks(text) : b < p => Level(text)[b] # 1

(* Where directives go, whether or not a block strayed.                    *)
DirectedTo(text, p, t, c) ==
    /\ Level(text)[p - 1] >= 2 => c = NodeOf(text, Encloser(text, p))
    /\ Level(text)[p - 1] <= 1 => (c = 1 <=> NoStray(text, p))
Hanging(text, p, t) ==
    \A b \in NodeBlocks(text) : b < p =>
        /\ Level(text)[b] >= 3 => t[NodeOf(text, b)].back_ref = NodeOf(text, Encloser(text, b))
        /\ Level(text)[b] = 2 => (t[NodeOf(text, b)].back_ref = 1 <=> NoStray(text, b))
Numbered(text, p, t) ==
    /\ Len(t) = 1 + Cardinality(Upto(text, p - 1))
    /\ \A n \in DOMAIN t : n = 1 \/ \E b \in NodeBlocks(text) : b < p /\ NodeOf(text, b) = n
Known(text, p) ==
    \A b \in Blocks(text) : b < p => Plain(text, b) \/ b \in NodeBlocks(text)

(* What holds as long as none did.                                         *)
DirectivesIn(text, b, p) ==
    {j \in 1..(p - 1) : IsDirective(text[j]) /\ Encloser(text, j) = b}
PathOf(text, b) == IF Word(text, b) = "location" THEN text[b].words[2] ELSE Empty
NewOf(text, b) ==
    IF b = 0 THEN NewNode("http", 0, Empty)
    ELSE NewNode(Word(text, b), NodeOf(text, Encloser(text, b)), PathOf(text, b))
Hung(text, b, n) ==
    /\ n.type = TypeOf(text, b)
    /\ b # 0 => n.back_ref = NodeOf(text, Encloser(text, b)) /\ n.path = PathOf(text, b)
Ported(text, b, p, n) ==
    n.port = Unset <=> \A j \in DirectivesIn(text, b, p) : Word(text, j) # "listen"
AllHung(text, p, t) ==
    \A b \in {0} \cup NodeBlocks(text) : b < p => Hung(text, b, t[NodeOf(text, b)])
AllPorted(text, p, t) ==
    \A b \in NodeBlocks(text) : b < p => Ported(text, b, p, t[NodeOf(text, b)])
FilledUpto(text, b, m) == Filled(text, NewOf(text, b), DirectivesOf(text, NodeOf(text, b)), m)
AllFilled(text, p, t) ==
    \A b \in {0} \cup NodeBlocks(text) :
        b < p => t[NodeOf(text, b)] = FilledUpto(text, b, p - 1)
ServersIn(t) == {n \in DOMAIN t : t[n].type = "server"}
AllNearest(text, p, t) ==
    \A b \in NodeBlocks(text) :
        b < p => /\ Up(t, NodeOf(text, b), ServersIn(t)) = NodeOf(text, ServerOf(text, b))
                 /\ ServerOf(text, b) \in Bodies(text, "server")
Accepted(text, p) ==
    \A j \in 1..(p - 1) :
        IsDirective(text[j]) => Accepts(TypeOf(text, Encloser(text, j)), text[j].words)
Nests(text, b) ==
    \/ Plain(text, b)
    \/ b \in Bodies(text, "server") /\ TypeOf(text, Encloser(text, b)) = "http"
    \/ b \in Bodies(text, "location") /\ TypeOf(text, Encloser(text, b)) # "http"
Nesting(text, p) == \A b \in Blocks(text) : b < p => Nests(text, b)
Counted(text, p, c) ==
    \A b \in 1..(p - 1) : Open(text, b, p) =>
        (c[Level(text)[b]] = 0 <=> DirectivesIn(text, b, p) = {})
Closed(text, p) ==
    \A b \in Blocks(text) : b < p /\ ~Open(text, b, p) => DirectivesIn(text, b, p) # {}

NodesFit(text, p, t) ==
    /\ AllHung(text, p, t) /\ AllPorted(text, p, t)
    /\ AllFilled(text, p, t) /\ AllNearest(text, p, t)
Kept(text, p, t, c) ==
    /\ NodesFit(text, p, t) /\ Accepted(text, p) /\ Nesting(text, p)
    /\ Counted(text, p, c) /\ Closed(text, p)

Placed(text, p, t, c) ==
    /\ DirectedTo(text, p, t, c) /\ Hanging(text, p, t)
    /\ Numbered(text, p, t) /\ Known(text, p)

(* A text that the first pass has gone through.                            *)
Gone(text) ==
    /\ Nested(text) /\ Outermost(text)
    /\ \A i \in 1..Len(text) : Typed(text, i)

LEMMA ElementCases ==
    ASSUME NEW text \in Files, NEW i \in 1..Len(text), Typed(text, i)
    PROVE  /\ Len(text) \in Nat /\ i \in DOMAIN text
           /\ Opening(text, i) <=> IsBlock(text[i])
           /\ Opening(text, i) <=> i \in Blocks(text)
           /\ Closing(text, i) <=> IsBlockEnd(text[i])
           /\ IsDirective(text[i]) <=> ~Opening(text, i) /\ ~Closing(text, i)
           /\ ~(Opening(text, i) /\ Closing(text, i))
<1>1. Len(text) \in Nat /\ DOMAIN text = 1..Len(text)
  BY FilesAssumption, SeqFacts
<1> QED
  BY <1>1 DEF Typed, Opening, Closing, IsBlock, IsBlockEnd, IsDirective, Blocks

LEMMA BlockOpens ==
    ASSUME NEW text \in Files, NEW b \in Blocks(text)
    PROVE  /\ b \in 1..Len(text) /\ Opening(text, b) /\ IsBlock(text[b])
           /\ Len(text) \in Nat /\ Level(text)[b] = Level(text)[b - 1] + 1
           /\ Level(text)[b] \in Int /\ Level(text)[b - 1] \in Int
<1>1. Levels(text, Level(text))
  BY LevelSteps
<1>2. /\ b \in 1..Len(text) /\ Opening(text, b) /\ IsBlock(text[b]) /\ Len(text) \in Nat
  BY <1>1 DEF Levels, Blocks, Opening, IsBlock
<1>3. b \in 0..Len(text) /\ b - 1 \in 0..Len(text)
  BY <1>2
<1> QED
  BY <1>1, <1>2, <1>3 DEF Levels

LEMMA NoStrayAfter ==
    ASSUME NEW text \in Files, NEW p \in 1..Len(text)
    PROVE  NoStray(text, p + 1) <=> NoStray(text, p) /\ ~(p \in NodeBlocks(text) /\ Level(text)[p] = 1)
<1>1. Len(text) \in Nat /\ NodeBlocks(text) \subseteq 1..Len(text)
  BY UptoFacts, FilesAssumption, SeqFacts
<1>2. \A b \in NodeBlocks(text) : b < p + 1 <=> b < p \/ b = p
  BY <1>1
<1> QED
  BY <1>2 DEF NoStray

(* The block an element stands in is a node's from the second level on.    *)
LEMMA EnclosingNode ==
    ASSUME NEW text \in Files, Gone(text), NEW i \in 1..(Len(text) + 1), Known(text, i)
    PROVE  /\ Level(text)[i - 1] >= 2 => Encloser(text, i) \in NodeBlocks(text)
           /\ Level(text)[i - 1] <= 1 /\ NoStray(text, i) =>
                 NodeOf(text, Encloser(text, i)) = 1 /\ Encloser(text, i) \notin NodeBlocks(text)
<1> DEFINE e == Encloser(text, i)
           L == Level(text)
<1>1. /\ L[i - 1] \in Nat /\ e \in 0..(i - 1) /\ (e = 0 <=> L[i - 1] = 0)
      /\ e # 0 => Around(text, e, i) /\ Opening(text, e)
      /\ Len(text) \in Nat
  BY EncloserFacts DEF Gone
<1> HIDE DEF e, L
<1>2. ASSUME e # 0 PROVE e \in Blocks(text) /\ e < i /\ L[e] = L[i - 1]
  <2>1. e \in 1..Len(text) /\ e < i /\ Opening(text, e)
    BY <1>1, <1>2
  <2>2. e \in Blocks(text)
    BY <2>1, ElementCases DEF Gone
  <2> QED
    BY <1>1, <1>2, <2>1, <2>2 DEF Around, L
<1>3. ASSUME L[i - 1] >= 2 PROVE e \in NodeBlocks(text)
  <2>1. e # 0 /\ L[e] # 1
    BY <1>1, <1>2, <1>3
  <2>2. e \in Blocks(text) /\ ~Plain(text, e)
    BY <1>2, <2>1 DEF Gone, Outermost, L
  <2> QED
    BY <1>2, <2>1, <2>2 DEF Known
<1>4. ASSUME L[i - 1] <= 1, NoStray(text, i) PROVE e \notin NodeBlocks(text)
  <2> SUFFICES ASSUME e \in NodeBlocks(text) PROVE FALSE
    OBVIOUS
  <2>1. e \in 1..Len(text)
    BY NodeOfFacts
  <2>2. e < i /\ L[e] = L[i - 1] /\ L[i - 1] # 0
    BY <1>1, <1>2, <2>1
  <2>3. L[e] = 1
    BY <1>1, <1>4, <2>2
  <2> QED
    BY <1>4, <2>2, <2>3 DEF NoStray, L
<1> QED
  BY <1>3, <1>4, NodeOfFacts DEF e, L

(* Up to element p - 1 the nodes are numbered as in the tree.              *)
LEMMA NodeInTree ==
    ASSUME NEW text \in Files, NEW p \in 1..(Len(text) + 1), NEW t, Numbered(text, p, t),
           NEW b, b < p
    PROVE  /\ Len(t) \in Nat /\ Len(t) >= 1
           /\ b \in NodeBlocks(text) => NodeOf(text, b) \in 2..Len(t)
           /\ b \notin NodeBlocks(text) => NodeOf(text, b) = 1
<1>1. Len(text) \in Nat
  BY FilesAssumption, SeqFacts
<1>2. p - 1 \in 0..Len(text)
  BY <1>1
<1>3. Len(t) = 1 + Cardinality(Upto(text, p - 1))
  BY DEF Numbered
<1>4. Cardinality(Upto(text, p - 1)) \in Nat /\ IsFiniteSet(Upto(text, p - 1))
  BY <1>2, UptoFacts
<1>5. ASSUME b \in NodeBlocks(text) PROVE NodeOf(text, b) \in 2..Len(t)
  <2>1. /\ b \in 1..Len(text) /\ NodeOf(text, b) \in Nat /\ NodeOf(text, b) >= 2
        /\ NodeOf(text, b) = 1 + Cardinality(Upto(text, b))
    BY <1>5, NodeOfFacts
  <2>2. b <= p - 1
    BY <1>1, <2>1
  <2>3. NodeBlocks(text) \subseteq 1..Len(text)
    BY <1>2, UptoFacts
  <2>4. Upto(text, b) \subseteq Upto(text, p - 1)
    BY <1>1, <2>1, <2>2, <2>3 DEF Upto
  <2>5. Cardinality(Upto(text, b)) <= Cardinality(Upto(text, p - 1))
    BY <1>4, <2>4, FS_Subset
  <2>6. Cardinality(Upto(text, b)) \in Nat
    BY <1>4, <2>4, FS_Subset, FS_CardinalityType
  <2> QED
    BY <1>3, <1>4, <2>1, <2>5, <2>6
<1> QED
  BY <1>3, <1>4, <1>5, NodeOfFacts

-----------------------------------------------------------------------------
(* Where directives go after one more element.                             *)

SameRefs(t, u) ==
    /\ DOMAIN u = DOMAIN t /\ Len(u) = Len(t)
    /\ \A n \in DOMAIN t : u[n].back_ref = t[n].back_ref
Grown(t, u, node) ==
    /\ DOMAIN t = 1..Len(t) /\ DOMAIN u = 1..Len(u) /\ Len(u) = Len(t) + 1
    /\ u[Len(u)] = node /\ \A n \in 1..Len(t) : u[n] = t[n]

LEMMA LevelAt ==
    ASSUME NEW text \in Files, Nested(text), NEW p \in 1..Len(text)
    PROVE  LET L == Level(text) IN
           /\ Len(text) \in Nat /\ p - 1 \in 0..Len(text) /\ p \in 1..(Len(text) + 1)
           /\ p + 1 \in 1..(Len(text) + 1) /\ (p + 1) - 1 = p
           /\ L[p - 1] \in Nat /\ L[p] \in Nat
           /\ Opening(text, p) => L[p] = L[p - 1] + 1
           /\ Closing(text, p) => L[p] = L[p - 1] - 1 /\ L[p - 1] >= 1
           /\ ~Opening(text, p) /\ ~Closing(text, p) => L[p] = L[p - 1]
<1> DEFINE L == Level(text)
<1>1. Levels(text, L)
  BY LevelSteps
<1> HIDE DEF L
<1>2. /\ Len(text) \in Nat /\ p - 1 \in 0..Len(text) /\ p \in 0..Len(text)
      /\ p \in 1..(Len(text) + 1) /\ p + 1 \in 1..(Len(text) + 1) /\ (p + 1) - 1 = p
  BY <1>1 DEF Levels
<1>3. /\ L[p - 1] \in Int /\ L[p] \in Int /\ L[p - 1] >= 0 /\ L[p] >= 0
      /\ Opening(text, p) => L[p] = L[p - 1] + 1
      /\ Closing(text, p) => L[p] = L[p - 1] - 1
      /\ ~Opening(text, p) /\ ~Closing(text, p) => L[p] = L[p - 1]
  BY <1>1, <1>2 DEF Levels, Nested, L
<1> QED
  BY <1>2, <1>3 DEF L

(* An element that is no node and closes nothing.                          *)
LEMMA PlacedBeyond ==
    ASSUME NEW text \in Files, Gone(text), NEW p \in 1..Len(text), NEW t, NEW c,
           Placed(text, p, t, c), ~Closing(text, p), p \notin NodeBlocks(text),
           p \in Blocks(text) => Plain(text, p), NEW u, SameRefs(t, u), DOMAIN t = 1..Len(t)
    PROVE  Placed(text, p + 1, u, c)
<1> DEFINE L == Level(text)
<1> USE DEF Placed
<1>1. /\ Len(text) \in Nat /\ p - 1 \in 0..Len(text) /\ p \in 1..(Len(text) + 1)
      /\ p + 1 \in 1..(Len(text) + 1) /\ (p + 1) - 1 = p
      /\ L[p - 1] \in Nat /\ L[p] \in Nat
      /\ Opening(text, p) => L[p] = L[p - 1] + 1
      /\ ~Opening(text, p) => L[p] = L[p - 1]
  BY LevelAt DEF Gone
<1>2. NoStray(text, p + 1) <=> NoStray(text, p)
  BY NoStrayAfter
<1>3. Opening(text, p) => Plain(text, p) /\ L[p] = 1
  BY ElementCases DEF Gone, Outermost
<1> HIDE DEF L
<1>4. DirectedTo(text, p + 1, u, c)
  <2>1. CASE Opening(text, p)
    <3>1. L[p] = 1 /\ L[p - 1] = 0
      BY <1>1, <1>3, <2>1
    <3> QED
      BY <1>1, <1>2, <3>1 DEF DirectedTo, L
  <2>2. CASE ~Opening(text, p)
    <3>1. L[p] = L[p - 1] /\ Encloser(text, p + 1) = Encloser(text, p)
      BY <1>1, <2>2, EncloserAfter DEF Gone
    <3> QED
      BY <1>1, <1>2, <3>1 DEF DirectedTo, L
  <2> QED
    BY <2>1, <2>2
<1>5. \A b \in NodeBlocks(text) : b < p + 1 <=> b < p
  <2>1. NodeBlocks(text) \subseteq 1..Len(text)
    BY <1>1, UptoFacts
  <2> QED
    BY <1>1, <2>1
<1>6. Hanging(text, p + 1, u)
  <2> SUFFICES ASSUME NEW b \in NodeBlocks(text), b < p
               PROVE  u[NodeOf(text, b)].back_ref = t[NodeOf(text, b)].back_ref
    BY <1>5, Zenon DEF Hanging, Placed
  <2>1. NodeOf(text, b) \in 2..Len(t) /\ Len(t) \in Nat
    BY <1>1, NodeInTree
  <2> QED
    BY <2>1 DEF SameRefs
<1>7. Numbered(text, p + 1, u)
  <2>1. Cardinality(Upto(text, p)) = Cardinality(Upto(text, p - 1))
    <3>1. p \in 0..Len(text) /\ p > 0
      BY <1>1
    <3>2. Cardinality(Upto(text, p - 1)) \in Nat
      BY <1>1, UptoFacts
    <3> QED
      BY <3>1, <3>2, UptoFacts
  <2> QED
    BY <1>1, <1>5, <2>1 DEF Numbered, SameRefs
<1>8. Known(text, p + 1)
  <2> SUFFICES ASSUME NEW b \in Blocks(text), b < p + 1
               PROVE  Plain(text, b) \/ b \in NodeBlocks(text)
    BY DEF Known
  <2>1. b < p \/ b = p
    BY <1>1, BlockOpens
  <2> QED
    BY <2>1 DEF Known
<1> QED
  BY <1>4, <1>6, <1>7, <1>8

(* A server or a location gets the next number and hangs where directives  *)
(* went so far.                                                            *)
LEMMA PlacedNode ==
    ASSUME NEW text \in Files, Gone(text), NEW p \in 1..Len(text), NEW t, NEW c,
           Placed(text, p, t, c), p \in NodeBlocks(text),
           NEW u, NEW node, Grown(t, u, node), node.back_ref = c
    PROVE  Placed(text, p + 1, u, Len(t) + 1) /\ NodeOf(text, p) = Len(t) + 1
<1> DEFINE L == Level(text)
<1> USE DEF Placed
<1>0. p \in Blocks(text) /\ Opening(text, p)
  BY BlockOpens DEF NodeBlocks
<1>1. /\ Len(text) \in Nat /\ p - 1 \in 0..Len(text) /\ p \in 1..(Len(text) + 1)
      /\ p + 1 \in 1..(Len(text) + 1) /\ (p + 1) - 1 = p
      /\ L[p - 1] \in Nat /\ L[p] \in Nat /\ L[p] = L[p - 1] + 1
  BY <1>0, LevelAt DEF Gone
<1>2. NoStray(text, p + 1) <=> NoStray(text, p) /\ L[p] # 1
  BY NoStrayAfter
<1> HIDE DEF L
<1>3. Len(t) = 1 + Cardinality(Upto(text, p - 1)) /\ Cardinality(Upto(text, p - 1)) \in Nat
  BY <1>1, UptoFacts DEF Numbered
<1>4. NodeOf(text, p) = Len(t) + 1 /\ Len(u) = 1 + Cardinality(Upto(text, p)) /\ Len(u) = Len(t) + 1
  <2>1. p \in 0..Len(text) /\ p > 0
    BY <1>1
  <2>2. Cardinality(Upto(text, p)) = Cardinality(Upto(text, p - 1)) + 1
    BY <2>1, UptoFacts
  <2> QED
    BY <1>3, <2>2, NodeOfFacts DEF Grown
<1>5. DirectedTo(text, p + 1, u, Len(t) + 1)
  <2>1. Encloser(text, p + 1) = p
    BY <1>0, EncloserAfter DEF Gone
  <2>2. Len(t) + 1 # 1
    BY <1>3
  <2> QED
    BY <1>1, <1>2, <1>4, <2>1, <2>2 DEF DirectedTo, L
<1>6. \A b \in NodeBlocks(text) : b < p + 1 <=> b < p \/ b = p
  <2>1. NodeBlocks(text) \subseteq 1..Len(text)
    BY <1>1, UptoFacts
  <2> QED
    BY <1>1, <2>1
<1>7. Hanging(text, p + 1, u)
  <2> SUFFICES ASSUME NEW b \in NodeBlocks(text), b < p + 1
               PROVE  /\ L[b] >= 3 => u[NodeOf(text, b)].back_ref = NodeOf(text, Encloser(text, b))
                      /\ L[b] = 2 => (u[NodeOf(text, b)].back_ref = 1 <=> NoStray(text, b))
    BY DEF Hanging, L
  <2>1. CASE b < p
    <3>1. NodeOf(text, b) \in 1..Len(t)
      BY <1>1, <2>1, NodeInTree
    <3>2. u[NodeOf(text, b)] = t[NodeOf(text, b)]
      BY <3>1 DEF Grown
    <3> QED
      BY <2>1, <3>2 DEF Hanging, L
  <2>2. CASE b = p
    <3>1. u[NodeOf(text, b)].back_ref = c
      BY <1>4, <2>2 DEF Grown
    <3>2. L[p] >= 3 => L[p - 1] >= 2
      BY <1>1
    <3>3. L[p] = 2 => L[p - 1] <= 1
      BY <1>1
    <3> QED
      BY <2>2, <3>1, <3>2, <3>3 DEF DirectedTo, L
  <2> QED
    BY <1>6, <2>1, <2>2
<1>8. Numbered(text, p + 1, u)
  <2>1. ASSUME NEW n \in DOMAIN u
        PROVE  n = 1 \/ \E b \in NodeBlocks(text) : b < p + 1 /\ NodeOf(text, b) = n
    <3>1. CASE n = Len(t) + 1
      BY <1>4, <1>6, <3>1
    <3>2. CASE n # Len(t) + 1
      <4>1. n \in DOMAIN t
        BY <1>3, <3>2 DEF Grown
      <4> QED
        BY <1>6, <4>1 DEF Numbered
    <3> QED
      BY <3>1, <3>2
  <2> QED
    BY <1>1, <1>4, <2>1 DEF Numbered
<1>9. Known(text, p + 1)
  <2> SUFFICES ASSUME NEW b \in Blocks(text), b < p + 1
               PROVE  Plain(text, b) \/ b \in NodeBlocks(text)
    BY DEF Known
  <2>1. b < p \/ b = p
    BY <1>1, BlockOpens
  <2> QED
    BY <2>1 DEF Known
<1> QED
  BY <1>4, <1>5, <1>7, <1>8, <1>9

(* At the end of a block the pointer goes up, from the second level on.    *)
LEMMA PlacedUp ==
    ASSUME NEW text \in Files, Gone(text), NEW p \in 1..Len(text), NEW t, NEW c,
           Placed(text, p, t, c), Closing(text, p),
           NEW d, d = IF Level(text)[p - 1] = 1 THEN c ELSE t[c].back_ref
    PROVE  Placed(text, p + 1, t, d)
<1> DEFINE L == Level(text)
           e == Encloser(text, p)
<1> USE DEF Placed
<1>1. /\ Len(text) \in Nat /\ p - 1 \in 0..Len(text) /\ p \in 1..(Len(text) + 1)
      /\ p + 1 \in 1..(Len(text) + 1) /\ (p + 1) - 1 = p
      /\ L[p - 1] \in Nat /\ L[p] \in Nat /\ L[p] = L[p - 1] - 1 /\ L[p - 1] >= 1
  BY LevelAt DEF Gone
<1>0. ~Opening(text, p) /\ p \notin Blocks(text) /\ p \notin NodeBlocks(text)
  BY ElementCases DEF Gone, NodeBlocks
<1>2. NoStray(text, p + 1) <=> NoStray(text, p)
  BY <1>0, NoStrayAfter
<1>3. e \in 1..(p - 1) /\ Encloser(text, p + 1) = Encloser(text, e) /\ Around(text, e, p)
  <2>1. e \in 1..(p - 1) /\ Encloser(text, p + 1) = Encloser(text, e)
    BY EncloserAfter DEF Gone
  <2>2. e # 0
    BY <2>1
  <2> QED
    BY <1>1, <2>1, <2>2, EncloserFacts DEF Gone
<1> HIDE DEF L, e
<1>4. DirectedTo(text, p + 1, t, d)
  <2>1. CASE L[p - 1] = 1
    <3>1. d = c /\ L[p] = 0
      BY <1>1, <2>1 DEF L
    <3> QED
      BY <1>1, <1>2, <2>1, <3>1 DEF DirectedTo, L
  <2>2. CASE L[p - 1] >= 2
    <3>1. d = t[c].back_ref /\ c = NodeOf(text, e)
      BY <1>1, <2>2 DEF DirectedTo, L, e
    <3>2. e \in NodeBlocks(text) /\ e < p /\ L[e] = L[p - 1]
      BY <1>1, <1>3, <2>2, EnclosingNode DEF Around, L, e
    <3>3. CASE L[p - 1] >= 3
      <4>1. d = NodeOf(text, Encloser(text, e))
        BY <3>1, <3>2, <3>3 DEF Hanging, L
      <4>2. L[p] >= 2 /\ ~(L[p] <= 1)
        BY <1>1, <3>3
      <4> QED
        BY <1>1, <1>3, <4>1, <4>2 DEF DirectedTo, L
    <3>4. CASE L[p - 1] = 2
      <4>1. d = 1 <=> NoStray(text, e)
        BY <3>1, <3>2, <3>4 DEF Hanging, L
      <4>2. L[p] = 1
        BY <1>1, <3>4
      <4>3. NoStray(text, e) <=> NoStray(text, p)
        <5>1. ASSUME NEW b \in NodeBlocks(text), b < p, ~(b < e) PROVE L[b] # 1
          <6>1. b \in Int
            BY NodeOfFacts
          <6>2. b \in e..(p - 1)
            BY <1>1, <1>3, <5>1, <6>1
          <6>3. L[b] >= L[e]
            BY <1>3, <6>2 DEF Around, Open, L
          <6> QED
            BY <3>2, <3>4, <6>3
        <5>2. \A b \in NodeBlocks(text) : b < e => b < p
          <6>1. NodeBlocks(text) \subseteq 1..Len(text)
            BY <1>1, UptoFacts
          <6> QED
            BY <1>1, <1>3, <6>1
        <5> QED
          BY <5>1, <5>2 DEF NoStray, L
      <4> QED
        BY <1>1, <1>2, <4>1, <4>2, <4>3 DEF DirectedTo, L
    <3> QED
      BY <1>1, <2>2, <3>3, <3>4
  <2> QED
    BY <1>1, <2>1, <2>2
<1>5. \A b \in Blocks(text) : b < p + 1 <=> b < p
  <2>1. \A b \in Blocks(text) : b \in Int /\ b # p
    BY <1>0, BlockOpens
  <2> QED
    BY <1>1, <2>1
<1>6. NodeBlocks(text) \subseteq Blocks(text)
  BY DEF NodeBlocks
<1>7. Hanging(text, p + 1, t)
  BY <1>5, <1>6, Zenon DEF Hanging
<1>8. Numbered(text, p + 1, t)
  <2>1. Cardinality(Upto(text, p)) = Cardinality(Upto(text, p - 1))
    <3>1. p \in 0..Len(text) /\ p > 0
      BY <1>1
    <3>2. Cardinality(Upto(text, p - 1)) \in Nat
      BY <1>1, UptoFacts
    <3> QED
      BY <1>0, <3>1, <3>2, UptoFacts
  <2> QED
    BY <1>1, <1>5, <1>6, <2>1 DEF Numbered
<1>9. Known(text, p + 1)
  BY <1>5, Zenon DEF Known
<1> QED
  BY <1>4, <1>7, <1>8, <1>9

-----------------------------------------------------------------------------
(* What is kept as long as no block strays, after one more element.        *)

LEMMA StandsAt ==
    ASSUME NEW text \in Files, Gone(text), NEW p \in 1..(Len(text) + 1), NEW t, NEW c,
           Placed(text, p, t, c), NoStray(text, p)
    PROVE  LET e == Encloser(text, p) IN
           /\ c = NodeOf(text, e) /\ c \in 1..Len(t) /\ Len(t) \in Nat
           /\ e \in 0..(p - 1)
           /\ \A b \in {0} \cup NodeBlocks(text) :
                 NodeOf(text, b) = c <=> IF e \in NodeBlocks(text) THEN b = e ELSE b = 0
<1> DEFINE e == Encloser(text, p)
<1>1. e \in 0..(p - 1) /\ Level(text)[p - 1] \in Nat /\ Len(text) \in Nat
  BY EncloserFacts DEF Gone
<1>2. /\ Level(text)[p - 1] >= 2 => e \in NodeBlocks(text)
      /\ Level(text)[p - 1] <= 1 => NodeOf(text, e) = 1
  BY EnclosingNode DEF Placed
<1> HIDE DEF e
<1>3. c = NodeOf(text, e)
  BY <1>1, <1>2 DEF Placed, DirectedTo, e
<1>4. e < p
  BY <1>1
<1>5. c \in 1..Len(t) /\ Len(t) \in Nat
  BY <1>3, <1>4, NodeInTree DEF Placed
<1>6. 0 \notin NodeBlocks(text)
  BY UptoFacts, NodeOfFacts
<1>7. ASSUME NEW b \in {0} \cup NodeBlocks(text)
      PROVE  NodeOf(text, b) = c <=> IF e \in NodeBlocks(text) THEN b = e ELSE b = 0
  <2>1. CASE e \in NodeBlocks(text)
    BY <1>3, <2>1, NodesApart
  <2>2. CASE e \notin NodeBlocks(text)
    <3>1. c = 1
      BY <1>3, <2>2, NodeOfFacts
    <3>2. b \in NodeBlocks(text) => NodeOf(text, b) # 1
      <4>1. b \in NodeBlocks(text) => NodeOf(text, b) >= 2
        BY NodeOfFacts
      <4> QED
        BY <4>1
    <3>3. b = 0 => NodeOf(text, b) = 1
      BY <1>6, NodeOfFacts
    <3> QED
      BY <1>6, <2>2, <3>1, <3>2, <3>3
  <2> QED
    BY <2>1, <2>2
<1> QED
  BY <1>1, <1>3, <1>5, <1>7 DEF e

(* The directives of a block, after one more element.                      *)
LEMMA DirectivesAfter ==
    ASSUME NEW text \in Files, NEW p \in 1..Len(text), NEW b
    PROVE  /\ IsDirective(text[p]) /\ Encloser(text, p) = b =>
                 DirectivesIn(text, b, p + 1) = DirectivesIn(text, b, p) \cup {p}
           /\ ~(IsDirective(text[p]) /\ Encloser(text, p) = b) =>
                 DirectivesIn(text, b, p + 1) = DirectivesIn(text, b, p)
<1>1. Len(text) \in Nat
  BY FilesAssumption, SeqFacts
<1>2. 1..((p + 1) - 1) = 1..(p - 1) \cup {p}
  BY <1>1
<1> QED
  BY <1>2 DEF DirectivesIn

LEMMA NoneInside ==
    ASSUME NEW text \in Files, Nested(text), NEW b \in 1..Len(text)
    PROVE  /\ DirectivesIn(text, b, b + 1) = {}
           /\ \A j \in DirectivesOf(text, NodeOf(text, b)) : b \in NodeBlocks(text) => ~(j <= b)
<1>1. Len(text) \in Nat /\ DOMAIN text = 1..Len(text)
  BY FilesAssumption, SeqFacts
<1>2. \A j \in 1..Len(text) : Encloser(text, j) \in 0..(j - 1)
  BY <1>1, EncloserFacts
<1>3. DirectivesIn(text, b, b + 1) = {}
  BY <1>1, <1>2 DEF DirectivesIn
<1>4. ASSUME NEW j \in DirectivesOf(text, NodeOf(text, b)), b \in NodeBlocks(text), j <= b
      PROVE  FALSE
  <2>1. j \in 1..Len(text) /\ NodeOf(text, Encloser(text, j)) = NodeOf(text, b)
    BY <1>1 DEF DirectivesOf
  <2>2. Encloser(text, j) = b
    BY <1>4, <2>1, NodesApart
  <2> QED
    BY <1>1, <1>2, <1>4, <2>1, <2>2
<1> QED
  BY <1>3, <1>4

LEMMA FillPort ==
    ASSUME NEW n, NEW bound, Sound(n, bound), NEW w, Accepts(n.type, w)
    PROVE  FillDirective(n, w).port = Unset <=> w[1] # "listen" /\ n.port = Unset
<1>1. CASE w[1] = "listen"
  BY <1>1 DEF FillDirective, Listen, Accepts, Sound
<1>2. CASE w[1] = "error_page"
  BY <1>2 DEF FillDirective, Pages, Sound
<1>3. CASE w[1] \notin {"listen", "error_page"}
  BY <1>3 DEF FillDirective, Sound
<1> QED
  BY <1>1, <1>2, <1>3

(* One more step of filling.                                               *)
LEMMA FilledAfter ==
    ASSUME NEW text \in Files, NEW p \in 1..Len(text), NEW b
    PROVE  FilledUpto(text, b, p) =
              IF IsDirective(text[p]) /\ NodeOf(text, Encloser(text, p)) = NodeOf(text, b)
              THEN FillDirective(FilledUpto(text, b, p - 1), text[p].words)
              ELSE FilledUpto(text, b, p - 1)
<1> DEFINE places == DirectivesOf(text, NodeOf(text, b))
           new == NewOf(text, b)
<1>1. Len(text) \in Nat /\ DOMAIN text = 1..Len(text)
  BY FilesAssumption, SeqFacts
<1>2. 0 \notin places
  BY <1>1 DEF DirectivesOf
<1>3. p \in places <=> IsDirective(text[p]) /\ NodeOf(text, Encloser(text, p)) = NodeOf(text, b)
  BY <1>1 DEF DirectivesOf
<1> HIDE DEF places, new
<1>4. p - 1 \in Nat /\ (p - 1) + 1 = p
  BY <1>1
<1>5. Filled(text, new, places, p) = Next1(text, places, p, Filled(text, new, places, p - 1))
  <2>1. PICK m \in Nat : m = p - 1 /\ m + 1 = p
    BY <1>4
  <2>2. Filled(text, new, places, m + 1) = Next1(text, places, m + 1, Filled(text, new, places, m))
    BY <1>2, FilledOneMore
  <2> QED
    BY <2>1, <2>2
<1> QED
  BY <1>3, <1>5 DEF FilledUpto, Next1, places, new

(* The part that only reads the text: which directives were accepted,      *)
(* which blocks nest, and the counts at the levels that are open.          *)
LEMMA AcceptedAfter ==
    ASSUME NEW text \in Files, NEW p \in 1..Len(text), Accepted(text, p),
           IsDirective(text[p]) => Accepts(TypeOf(text, Encloser(text, p)), text[p].words)
    PROVE  Accepted(text, p + 1)
<1>1. Len(text) \in Nat
  BY FilesAssumption, SeqFacts
<1>2. \A j \in 1..((p + 1) - 1) : j \in 1..(p - 1) \/ j = p
  BY <1>1
<1> QED
  BY <1>2 DEF Accepted

LEMMA NestingAfter ==
    ASSUME NEW text \in Files, NEW p \in 1..Len(text), Nesting(text, p),
           p \in Blocks(text) => Nests(text, p)
    PROVE  Nesting(text, p + 1)
<1>1. \A b \in Blocks(text) : b < p + 1 => b < p \/ b = p
  BY BlockOpens
<1> QED
  BY <1>1 DEF Nesting

LEMMA CountedAfter ==
    ASSUME NEW text \in Files, Gone(text), NEW p \in 1..Len(text),
           NEW c \in [0..Len(text) -> Nat], NEW d \in [0..Len(text) -> Nat],
           Counted(text, p, c),
           IsDirective(text[p]) => d = [c EXCEPT ![Level(text)[p - 1]] = @ + 1],
           Opening(text, p) => d = [c EXCEPT ![Level(text)[p - 1] + 1] = 0],
           Closing(text, p) => d = c
    PROVE  Counted(text, p + 1, d)
<1> DEFINE L == Level(text)
<1>1. /\ Len(text) \in Nat /\ p - 1 \in 0..Len(text) /\ p \in 1..(Len(text) + 1)
      /\ p + 1 \in 1..(Len(text) + 1) /\ (p + 1) - 1 = p
      /\ L[p - 1] \in Nat /\ L[p] \in Nat
      /\ Opening(text, p) => L[p] = L[p - 1] + 1
      /\ ~Opening(text, p) /\ ~Closing(text, p) => L[p] = L[p - 1]
  BY LevelAt DEF Gone
<1>2. IsDirective(text[p]) <=> ~Opening(text, p) /\ ~Closing(text, p)
  BY ElementCases DEF Gone
<1> HIDE DEF L
<1> SUFFICES ASSUME NEW b \in 1..((p + 1) - 1), Open(text, b, p + 1)
             PROVE  d[L[b]] = 0 <=> DirectivesIn(text, b, p + 1) = {}
  BY DEF Counted, L
<1>3. L[b] \in Nat /\ L[b] >= 1 /\ L[b] <= L[p] /\ b \in 1..Len(text)
      /\ (L[b] = L[p] <=> b = Encloser(text, p + 1))
  BY <1>1, OpenFacts, SMTT(30) DEF Gone, L
<1>4. \/ b = p /\ Opening(text, p)
      \/ Open(text, b, p) /\ ~(Closing(text, p) /\ b = Encloser(text, p))
  BY OpenAfter DEF Gone
<1>5. ASSUME Open(text, b, p)
      PROVE  /\ L[b] <= L[p - 1] /\ (L[b] = L[p - 1] <=> b = Encloser(text, p))
             /\ (c[L[b]] = 0 <=> DirectivesIn(text, b, p) = {})
             /\ b \in 1..(p - 1)
  <2>1. L[b] <= L[p - 1] /\ (L[b] = L[p - 1] <=> b = Encloser(text, p))
    BY <1>1, <1>5, OpenFacts DEF Gone, L
  <2>2. b \in 1..(p - 1)
    BY <1>5 DEF Open
  <2> QED
    BY <1>5, <2>1, <2>2 DEF Counted, L
<1>6. CASE Opening(text, p)
  <2>1. d = [c EXCEPT ![L[p - 1] + 1] = 0]
    BY <1>6 DEF L
  <2>2. CASE b = p
    <3>1. DirectivesIn(text, b, p + 1) = {}
      BY <2>2, NoneInside DEF Gone
    <3>2. L[p - 1] + 1 \in DOMAIN c
      <4>1. L[p - 1] + 1 <= Len(text)
        <5>1. L[p] <= p
          BY <1>1, LevelBound DEF Gone, L
        <5> QED
          BY <1>1, <1>6, <5>1
      <4> QED
        BY <1>1, <4>1
    <3> QED
      BY <1>1, <1>6, <2>1, <2>2, <3>1, <3>2
  <2>3. CASE b # p
    <3>1. Open(text, b, p)
      BY <1>4, <2>3
    <3>2. L[b] # L[p - 1] + 1
      BY <1>1, <1>3, <1>5, <3>1
    <3>3. d[L[b]] = c[L[b]]
      BY <2>1, <3>2
    <3>4. DirectivesIn(text, b, p + 1) = DirectivesIn(text, b, p)
      BY <1>2, <1>6, DirectivesAfter
    <3> QED
      BY <1>5, <3>1, <3>3, <3>4
  <2> QED
    BY <2>2, <2>3
<1>7. CASE Closing(text, p)
  <2>1. Open(text, b, p)
    BY <1>4, <1>7, ElementCases DEF Gone
  <2>2. DirectivesIn(text, b, p + 1) = DirectivesIn(text, b, p)
    BY <1>2, <1>7, DirectivesAfter
  <2> QED
    BY <1>5, <1>7, <2>1, <2>2
<1>8. CASE ~Opening(text, p) /\ ~Closing(text, p)
  <2>1. Open(text, b, p) /\ IsDirective(text[p])
    BY <1>2, <1>4, <1>8
  <2>2. d = [c EXCEPT ![L[p - 1]] = c[L[p - 1]] + 1]
    BY <2>1 DEF L
  <2>3. CASE b = Encloser(text, p)
    <3>1. L[b] = L[p - 1] /\ L[b] \in 0..Len(text)
      <4>1. L[p] <= p
        BY <1>1, LevelBound DEF Gone, L
      <4> QED
        BY <1>1, <1>5, <1>8, <2>1, <2>3, <4>1
    <3>2. c[L[b]] \in Nat /\ d[L[b]] = c[L[b]] + 1
      BY <2>2, <3>1
    <3>3. DirectivesIn(text, b, p + 1) = DirectivesIn(text, b, p) \cup {p}
      BY <2>1, <2>3, DirectivesAfter
    <3>4. d[L[b]] # 0
      BY <3>2
    <3>5. DirectivesIn(text, b, p + 1) # {}
      BY <3>3
    <3> QED
      BY <3>4, <3>5
  <2>4. CASE b # Encloser(text, p)
    <3>1. d[L[b]] = c[L[b]]
      BY <1>5, <2>1, <2>2, <2>4
    <3>2. DirectivesIn(text, b, p + 1) = DirectivesIn(text, b, p)
      BY <2>4, DirectivesAfter
    <3> QED
      BY <1>5, <2>1, <3>1, <3>2
  <2> QED
    BY <2>3, <2>4
<1> QED
  BY <1>6, <1>7, <1>8

LEMMA ClosedAfter ==
    ASSUME NEW text \in Files, Gone(text), NEW p \in 1..Len(text), Closed(text, p),
           Closing(text, p) => DirectivesIn(text, Encloser(text, p), p) # {}
    PROVE  Closed(text, p + 1)
<1> SUFFICES ASSUME NEW b \in Blocks(text), b < p + 1, ~Open(text, b, p + 1)
             PROVE  DirectivesIn(text, b, p + 1) # {}
  BY DEF Closed
<1>1. b \in 1..Len(text) /\ Opening(text, b) /\ Len(text) \in Nat
  BY BlockOpens
<1>2. DirectivesIn(text, b, p) \subseteq DirectivesIn(text, b, p + 1)
  BY DirectivesAfter
<1>3. b # p
  BY <1>1, OpenAfter DEF Gone
<1>4. b < p
  BY <1>1, <1>3
<1>5. CASE Open(text, b, p)
  <2>1. Closing(text, p) /\ b = Encloser(text, p)
    BY <1>5, OpenAfter DEF Gone
  <2> QED
    BY <1>2, <2>1
<1>6. CASE ~Open(text, b, p)
  BY <1>2, <1>4, <1>6 DEF Closed
<1> QED
  BY <1>5, <1>6

(* The part that reads the tree, after a directive: the node of the block  *)
(* around it takes it, and no other node changes.                          *)
FilledAt(t, u, c, w) ==
    /\ DOMAIN t = 1..Len(t) /\ DOMAIN u = 1..Len(u) /\ Len(u) = Len(t)
    /\ u[c] = FillDirective(t[c], w) /\ \A n \in DOMAIN t : n # c => u[n] = t[n]
    /\ \A n \in DOMAIN t : SameNode(t[n], u[n])

LEMMA BeforeOrAt ==
    ASSUME NEW text \in Files, NEW p \in 1..Len(text), NEW b \in {0} \cup NodeBlocks(text)
    PROVE  b < p + 1 <=> b < p \/ b = p
<1>1. Len(text) \in Nat /\ NodeBlocks(text) \subseteq 1..Len(text)
  BY UptoFacts, FilesAssumption, SeqFacts
<1> QED
  BY <1>1

LEMMA NodesByDirective ==
    ASSUME NEW text \in Files, Gone(text), NEW p \in 1..Len(text), NEW t, NEW c,
           Placed(text, p, t, c), NoStray(text, p), IsDirective(text[p]), NodesFit(text, p, t),
           NEW u, FilledAt(t, u, c, text[p].words), Hangs(t), Hangs(u),
           NEW bound, Sound(t[c], bound), Accepts(t[c].type, text[p].words)
    PROVE  NodesFit(text, p + 1, u)
<1> DEFINE w == text[p].words
           e == Encloser(text, p)
<1>1. /\ Len(text) \in Nat /\ p \in 1..(Len(text) + 1) /\ (p + 1) - 1 = p
      /\ p \notin Blocks(text) /\ p \notin NodeBlocks(text) /\ p # 0
  BY ElementCases, LevelAt DEF Gone, NodeBlocks
<1>2. /\ c = NodeOf(text, e) /\ c \in 1..Len(t) /\ Len(t) \in Nat
      /\ \A b \in {0} \cup NodeBlocks(text) :
            NodeOf(text, b) = c <=> IF e \in NodeBlocks(text) THEN b = e ELSE b = 0
  BY <1>1, StandsAt
<1> HIDE DEF w, e
<1>3. ASSUME NEW b \in {0} \cup NodeBlocks(text), b < p + 1
      PROVE  b < p /\ NodeOf(text, b) \in DOMAIN t
  <2>1. b < p
    BY <1>1, <1>3, BeforeOrAt
  <2>2. NodeOf(text, b) \in 1..Len(t)
    BY <1>1, <2>1, NodeInTree DEF Placed
  <2> QED
    BY <2>1, <2>2 DEF FilledAt
<1>4. AllHung(text, p + 1, u)
  <2> SUFFICES ASSUME NEW b \in {0} \cup NodeBlocks(text), b < p + 1
               PROVE  Hung(text, b, u[NodeOf(text, b)])
    BY DEF AllHung
  <2>1. Hung(text, b, t[NodeOf(text, b)]) /\ SameNode(t[NodeOf(text, b)], u[NodeOf(text, b)])
    BY <1>3 DEF NodesFit, AllHung, FilledAt
  <2> QED
    BY <2>1 DEF Hung, SameNode
<1>5. AllPorted(text, p + 1, u)
  <2> SUFFICES ASSUME NEW b \in NodeBlocks(text), b < p + 1
               PROVE  Ported(text, b, p + 1, u[NodeOf(text, b)])
    BY DEF AllPorted
  <2>1. Ported(text, b, p, t[NodeOf(text, b)]) /\ NodeOf(text, b) \in DOMAIN t
    BY <1>3 DEF NodesFit, AllPorted
  <2>2. CASE b = e
    <3>1. NodeOf(text, b) = c
      BY <1>2, <2>2
    <3>2. DirectivesIn(text, b, p + 1) = DirectivesIn(text, b, p) \cup {p}
      BY <2>2, DirectivesAfter DEF e
    <3>3. u[c] = FillDirective(t[c], w)
      BY DEF FilledAt, w
    <3>4. u[c].port = Unset <=> w[1] # "listen" /\ t[c].port = Unset
      BY <3>3, FillPort DEF w
    <3>5. Word(text, p) = w[1]
      BY DEF Word, w
    <3> QED
      BY <2>1, <3>1, <3>2, <3>4, <3>5 DEF Ported
  <2>3. CASE b # e
    <3>1. NodeOf(text, b) # c
      <4>1. b # 0
        BY UptoFacts, NodeOfFacts
      <4> QED
        BY <1>2, <2>3, <4>1
    <3>2. DirectivesIn(text, b, p + 1) = DirectivesIn(text, b, p)
      BY <2>3, DirectivesAfter DEF e
    <3>3. u[NodeOf(text, b)] = t[NodeOf(text, b)]
      BY <2>1, <3>1 DEF FilledAt
    <3> QED
      BY <2>1, <3>2, <3>3 DEF Ported
  <2> QED
    BY <2>2, <2>3
<1>6. AllFilled(text, p + 1, u)
  <2> SUFFICES ASSUME NEW b \in {0} \cup NodeBlocks(text), b < p + 1
               PROVE  u[NodeOf(text, b)] = FilledUpto(text, b, p)
    BY <1>1 DEF AllFilled
  <2>1. t[NodeOf(text, b)] = FilledUpto(text, b, p - 1) /\ NodeOf(text, b) \in DOMAIN t
    BY <1>3 DEF NodesFit, AllFilled
  <2>2. FilledUpto(text, b, p) = IF c = NodeOf(text, b)
                                THEN FillDirective(FilledUpto(text, b, p - 1), w)
                                ELSE FilledUpto(text, b, p - 1)
    BY <1>2, FilledAfter DEF w, e
  <2>3. u[NodeOf(text, b)] = IF c = NodeOf(text, b) THEN FillDirective(t[NodeOf(text, b)], w)
                             ELSE t[NodeOf(text, b)]
    BY <2>1 DEF FilledAt, w
  <2> QED
    BY <2>1, <2>2, <2>3
<1>7. AllNearest(text, p + 1, u)
  <2>1. \A k \in 1..Len(t) : u[k].back_ref = t[k].back_ref /\ (k \in ServersIn(u) <=> k \in ServersIn(t))
    BY <1>2 DEF FilledAt, SameNode, ServersIn
  <2>2. Len(t) <= Len(u)
    BY <1>2 DEF FilledAt
  <2>3. \A n \in 0..Len(t) : Up(u, n, ServersIn(u)) = Up(t, n, ServersIn(t))
    BY <2>1, <2>2, SameWayUp
  <2> SUFFICES ASSUME NEW b \in NodeBlocks(text), b < p + 1
               PROVE  /\ Up(u, NodeOf(text, b), ServersIn(u)) = NodeOf(text, ServerOf(text, b))
                      /\ ServerOf(text, b) \in Bodies(text, "server")
    BY DEF AllNearest
  <2>4. b < p /\ NodeOf(text, b) \in 1..Len(t)
    BY <1>3 DEF FilledAt
  <2>5. /\ Up(t, NodeOf(text, b), ServersIn(t)) = NodeOf(text, ServerOf(text, b))
        /\ ServerOf(text, b) \in Bodies(text, "server")
    BY <2>4 DEF NodesFit, AllNearest
  <2> QED
    BY <1>2, <2>3, <2>4, <2>5
<1> QED
  BY <1>4, <1>5, <1>6, <1>7 DEF NodesFit

(* After an element that is no directive and no node the tree is the same. *)
LEMMA NodesBeyond ==
    ASSUME NEW text \in Files, NEW p \in 1..Len(text), NEW t, NodesFit(text, p, t),
           ~IsDirective(text[p]), p \notin NodeBlocks(text)
    PROVE  NodesFit(text, p + 1, t)
<1>1. Len(text) \in Nat /\ p # 0 /\ (p + 1) - 1 = p
  BY FilesAssumption, SeqFacts
<1>2. \A b \in {0} \cup NodeBlocks(text) : b < p + 1 => b < p
  BY <1>1, BeforeOrAt
<1>3. AllHung(text, p + 1, t)
  BY <1>2, Zenon DEF NodesFit, AllHung
<1>4. \A b : DirectivesIn(text, b, p + 1) = DirectivesIn(text, b, p)
  BY DirectivesAfter
<1>5. AllPorted(text, p + 1, t)
  BY <1>2, <1>4 DEF NodesFit, AllPorted, Ported
<1>6. \A b : FilledUpto(text, b, p) = FilledUpto(text, b, p - 1)
  BY FilledAfter
<1>7. AllFilled(text, p + 1, t)
  BY <1>1, <1>2, <1>6 DEF NodesFit, AllFilled
<1>8. AllNearest(text, p + 1, t)
  BY <1>2, Zenon DEF NodesFit, AllNearest
<1> QED
  BY <1>3, <1>5, <1>7, <1>8 DEF NodesFit

(* A location that stands in a node has the server of that node.           *)
LEMMA SameServer ==
    ASSUME NEW text \in Files, Gone(text), NEW p \in 1..Len(text), Known(text, p),
           Nesting(text, p), NoStray(text, p), Encloser(text, p) \in NodeBlocks(text),
           p \notin Bodies(text, "server")
    PROVE  ServerOf(text, p) = ServerOf(text, Encloser(text, p))
<1> DEFINE L == Level(text)
           e == Encloser(text, p)
           Upon(i) == {j \in Bodies(text, "server") : j <= i}
<1>1. /\ Len(text) \in Nat /\ p \in 1..(Len(text) + 1) /\ e \in 0..(p - 1)
      /\ L[p - 1] \in Nat /\ (e # 0 => Around(text, e, p))
  BY EncloserFacts, LevelAt DEF Gone
<1> HIDE DEF L, e
<1>2. e \in 1..(p - 1) /\ Around(text, e, p) /\ e \in NodeBlocks(text)
  BY <1>1, NodeOfFacts DEF e
<1>3. L[e] \in Nat /\ L[e] >= 2
  <2>1. e \in 1..Len(text) /\ e < p
    BY <1>1, <1>2
  <2>2. L[e] \in Nat /\ L[e] >= 1
    BY <1>1, <1>2, OpenFacts DEF Gone, Around, L
  <2>3. L[e] # 1
    BY <1>2, <2>1 DEF NoStray, L
  <2> QED
    BY <2>2, <2>3
<1>4. ASSUME NEW s \in Bodies(text, "server"), s <= p PROVE s <= e
  <2> SUFFICES ASSUME ~(s <= e) PROVE FALSE
    OBVIOUS
  <2>1. s \in NodeBlocks(text) /\ Word(text, s) = "server" /\ s \in 1..Len(text) /\ s # p
    BY <1>4, NodeOfFacts DEF Bodies
  <2>2. s \in e..(p - 1) /\ s - 1 \in e..(p - 1) /\ s < p /\ s \in 1..(Len(text) + 1)
    BY <1>1, <1>2, <1>4, <2>1
  <2>3. L[s - 1] >= L[e] /\ L[s - 1] \in Nat
    BY <1>2, <2>1, <2>2, LevelAt DEF Around, Open, Gone, L
  <2>4. L[s - 1] >= 2
    BY <1>3, <2>3
  <2>5. Known(text, s)
    <3> SUFFICES ASSUME NEW b \in Blocks(text), b < s PROVE b < p
      BY Zenon DEF Known
    <3>1. b \in Int
      BY BlockOpens
    <3> QED
      BY <1>1, <2>2, <3>1
  <2>6. Encloser(text, s) \in NodeBlocks(text)
    BY <2>2, <2>4, <2>5, EnclosingNode DEF L
  <2>7. TypeOf(text, Encloser(text, s)) # "http"
    BY <2>6 DEF TypeOf, NodeBlocks
  <2>8. s \in Blocks(text) /\ ~Plain(text, s)
    BY <2>1 DEF NodeBlocks, Plain
  <2> QED
    BY <2>1, <2>2, <2>7, <2>8 DEF Nesting, Nests, Bodies
<1>5. Upon(p) = Upon(e)
  <2>1. \A s \in Bodies(text, "server") : s \in Int
    BY NodeOfFacts DEF Bodies
  <2>2. \A s \in Bodies(text, "server") : s <= e => s <= p
    BY <1>1, <1>2, <2>1
  <2> QED
    BY <1>4, <2>2
<1>6. ServerOf(text, p) = Max(Upon(p)) /\ ServerOf(text, e) = Max(Upon(e))
  BY DEF ServerOf
<1> QED
  BY <1>5, <1>6 DEF e

(* A server or a location becomes a node of its own, still empty.          *)
LEMMA NodesByNode ==
    ASSUME NEW text \in Files, Gone(text), NEW p \in 1..Len(text), NEW t, NEW c,
           Placed(text, p, t, c), NoStray(text, p), p \in NodeBlocks(text),
           Nesting(text, p), Nests(text, p), NodesFit(text, p, t),
           NEW u, NEW node, Grown(t, u, node), Hangs(t), Hangs(u),
           node = NewNode(Word(text, p), c, PathOf(text, p))
    PROVE  NodesFit(text, p + 1, u)
<1> DEFINE e == Encloser(text, p)
<1>1. /\ Len(text) \in Nat /\ p \in 1..(Len(text) + 1) /\ (p + 1) - 1 = p /\ p # 0
      /\ ~IsDirective(text[p]) /\ IsBlock(text[p]) /\ p \in Blocks(text)
      /\ Word(text, p) \in {"server", "location"}
  <2>1. p \in Blocks(text) /\ Word(text, p) \in {"server", "location"}
    BY DEF NodeBlocks
  <2>2. IsBlock(text[p]) /\ ~IsDirective(text[p])
    BY <2>1, BlockOpens DEF IsBlock, IsDirective
  <2> QED
    BY <2>1, <2>2, LevelAt DEF Gone
<1>2. /\ c = NodeOf(text, e) /\ c \in 1..Len(t) /\ Len(t) \in Nat /\ e \in 0..(p - 1)
  BY <1>1, StandsAt
<1>3. node.back_ref = c /\ node.type = Word(text, p) /\ node.path = PathOf(text, p) /\ node.port = Unset
  BY DEF NewNode
<1>4. NodeOf(text, p) = Len(t) + 1 /\ u[NodeOf(text, p)] = node
  <2>1. NodeOf(text, p) = Len(t) + 1
    BY <1>3, PlacedNode
  <2> QED
    BY <2>1 DEF Grown
<1> HIDE DEF e
<1>5. ASSUME NEW b \in {0} \cup NodeBlocks(text), b < p + 1, b # p
      PROVE  b < p /\ NodeOf(text, b) \in 1..Len(t) /\ u[NodeOf(text, b)] = t[NodeOf(text, b)]
  <2>1. b < p
    BY <1>5, BeforeOrAt
  <2>2. NodeOf(text, b) \in 1..Len(t)
    BY <1>1, <2>1, NodeInTree DEF Placed
  <2> QED
    BY <2>1, <2>2 DEF Grown
<1>6. AllHung(text, p + 1, u)
  <2> SUFFICES ASSUME NEW b \in {0} \cup NodeBlocks(text), b < p + 1
               PROVE  Hung(text, b, u[NodeOf(text, b)])
    BY DEF AllHung
  <2>1. CASE b = p
    BY <1>2, <1>3, <1>4, <2>1 DEF Hung, TypeOf, e
  <2>2. CASE b # p
    BY <1>5, <2>2 DEF NodesFit, AllHung
  <2> QED
    BY <2>1, <2>2
<1>7. AllPorted(text, p + 1, u)
  <2> SUFFICES ASSUME NEW b \in NodeBlocks(text), b < p + 1
               PROVE  Ported(text, b, p + 1, u[NodeOf(text, b)])
    BY DEF AllPorted
  <2>1. CASE b = p
    <3>1. DirectivesIn(text, p, p + 1) = {}
      BY NoneInside DEF Gone
    <3> QED
      BY <1>3, <1>4, <2>1, <3>1 DEF Ported
  <2>2. CASE b # p
    <3>1. DirectivesIn(text, b, p + 1) = DirectivesIn(text, b, p)
      BY <1>1, DirectivesAfter
    <3> QED
      BY <1>5, <2>2, <3>1 DEF NodesFit, AllPorted, Ported
  <2> QED
    BY <2>1, <2>2
<1>8. AllFilled(text, p + 1, u)
  <2> SUFFICES ASSUME NEW b \in {0} \cup NodeBlocks(text), b < p + 1
               PROVE  u[NodeOf(text, b)] = FilledUpto(text, b, p)
    BY <1>1 DEF AllFilled
  <2>1. CASE b = p
    <3> DEFINE places == DirectivesOf(text, NodeOf(text, p))
    <3>1. \A i \in places : ~(i <= p)
      BY NoneInside DEF Gone
    <3>2. 0 \notin places
      BY <1>1, FilesAssumption, SeqFacts DEF DirectivesOf
    <3> HIDE DEF places
    <3>3. p \in Nat
      BY <1>1
    <3>4. Filled(text, NewOf(text, p), places, p) = NewOf(text, p)
      BY <3>1, <3>2, <3>3, FilledNone
    <3>5. NewOf(text, p) = node
      BY <1>1, <1>2 DEF NewOf, e
    <3> QED
      BY <1>4, <2>1, <3>4, <3>5 DEF FilledUpto, places
  <2>2. CASE b # p
    <3>1. FilledUpto(text, b, p) = FilledUpto(text, b, p - 1)
      BY <1>1, FilledAfter
    <3> QED
      BY <1>5, <2>2, <3>1 DEF NodesFit, AllFilled
  <2> QED
    BY <2>1, <2>2
<1>9. AllNearest(text, p + 1, u)
  <2> DEFINE M == ServersIn(t)
             N == ServersIn(u)
             n == NodeOf(text, p)
  <2>1. n = Len(u) /\ n \in 1..Len(u) /\ Len(u) = Len(t) + 1 /\ n \in DOMAIN u /\ n \in 0..Len(u)
    BY <1>2, <1>4 DEF Grown
  <2>2. \A k \in 1..Len(t) : u[k].back_ref = t[k].back_ref /\ (k \in N <=> k \in M)
    BY <1>2 DEF Grown, ServersIn
  <2>3. n \in N <=> Word(text, p) = "server"
    BY <1>3, <1>4, <2>1 DEF ServersIn
  <2> HIDE DEF M, N
  <2>4. \A k \in 0..Len(t) : Up(u, k, N) = Up(t, k, M)
    BY <1>2, <2>1, <2>2, SameWayUp
  <2> SUFFICES ASSUME NEW b \in NodeBlocks(text), b < p + 1
               PROVE  /\ Up(u, NodeOf(text, b), N) = NodeOf(text, ServerOf(text, b))
                      /\ ServerOf(text, b) \in Bodies(text, "server")
    BY DEF AllNearest, N
  <2>5. CASE b # p
    <3>1. b < p /\ NodeOf(text, b) \in 0..Len(t)
      BY <1>2, <1>5, <2>5
    <3>2. /\ Up(t, NodeOf(text, b), M) = NodeOf(text, ServerOf(text, b))
          /\ ServerOf(text, b) \in Bodies(text, "server")
      BY <3>1 DEF NodesFit, AllNearest, M
    <3> QED
      BY <2>4, <3>1, <3>2
  <2>6. CASE b = p /\ Word(text, p) = "server"
    <3>1. Up(u, n, N) = n
      BY <2>1, <2>3, <2>6, UpSteps
    <3>2. ServerOf(text, p) = p /\ p \in Bodies(text, "server")
      <4> DEFINE A == {j \in Bodies(text, "server") : j <= p}
      <4>1. A \subseteq Nat /\ p \in A /\ \A k \in A : k <= p
        <5>1. \A s \in Bodies(text, "server") : s \in Nat
          BY NodeOfFacts DEF Bodies
        <5>2. p \in Bodies(text, "server") /\ p <= p
          BY <1>1, <2>6 DEF Bodies
        <5> QED
          BY <5>1, <5>2
      <4>2. ServerOf(text, p) = Max(A) /\ p \in Bodies(text, "server")
        BY <2>6 DEF ServerOf, Bodies
      <4> HIDE DEF A
      <4> QED
        BY <4>1, <4>2, MaxIs
    <3> QED
      BY <2>6, <3>1, <3>2
  <2>7. CASE b = p /\ Word(text, p) = "location"
    <3>1. Up(u, n, N) = Up(u, c, N)
      <4>1. n \notin N /\ n # 0 /\ u[n].back_ref = c
        BY <1>3, <1>4, <2>1, <2>3, <2>7
      <4> QED
        BY <2>1, <4>1, UpSteps
    <3>2. e \in NodeBlocks(text)
      <4>1. TypeOf(text, e) # "http"
        BY <2>7 DEF Nests, Bodies, Plain, e
      <4> QED
        BY <4>1 DEF TypeOf
    <3>3. e < p
      BY <1>1, <1>2
    <3>4. /\ Up(t, c, M) = NodeOf(text, ServerOf(text, e))
          /\ ServerOf(text, e) \in Bodies(text, "server")
      BY <1>2, <3>2, <3>3 DEF NodesFit, AllNearest, M
    <3>5. p \notin Bodies(text, "server")
      BY <2>7 DEF Bodies
    <3>6. ServerOf(text, p) = ServerOf(text, e)
      BY <3>2, <3>5, SameServer DEF Placed, e
    <3> QED
      BY <1>2, <2>4, <2>7, <3>1, <3>4, <3>6
  <2> QED
    BY <1>1, <2>5, <2>6, <2>7
<1> QED
  BY <1>6, <1>7, <1>8, <1>9 DEF NodesFit

-----------------------------------------------------------------------------
(* Texts that are not well formed.                                         *)

(* Where no block ends any more the level only rises, and where none is    *)
(* opened it only falls.                                                   *)
LEMMA LevelsAhead ==
    ASSUME NEW text \in Files, NEW i \in 0..Len(text)
    PROVE  LET L == Level(text) IN
           /\ (\A j \in (i + 1)..Len(text) : ~Closing(text, j)) => L[Len(text)] >= L[i]
           /\ (\A j \in (i + 1)..Len(text) : ~Opening(text, j)) => L[Len(text)] <= L[i]
<1> DEFINE L == Level(text)
           n == Len(text)
           up == \A j \in (i + 1)..n : ~Closing(text, j)
           down == \A j \in (i + 1)..n : ~Opening(text, j)
           T == {m \in Nat : m \in i..n => (up => L[m] >= L[i]) /\ (down => L[m] <= L[i])}
<1>1. Levels(text, L)
  BY LevelSteps
<1> HIDE DEF L
<1>2. n \in Nat /\ L[i] \in Int
  BY <1>1 DEF Levels
<1>3. 0 \in T
  BY <1>1, <1>2 DEF Levels
<1>4. ASSUME NEW m \in Nat, m \in T PROVE m + 1 \in T
  <2> SUFFICES ASSUME m + 1 \in i..n
               PROVE  (up => L[m + 1] >= L[i]) /\ (down => L[m + 1] <= L[i])
    OBVIOUS
  <2>1. CASE m + 1 = i
    BY <1>2, <2>1
  <2>2. CASE m + 1 # i
    <3>1. /\ m \in i..n /\ m \in 0..n /\ m + 1 \in 1..n /\ m + 1 \in (i + 1)..n
          /\ (m + 1) - 1 = m /\ (up => L[m] >= L[i]) /\ (down => L[m] <= L[i])
      BY <1>2, <1>4, <2>2
    <3>2. /\ L[m] \in Int
          /\ Opening(text, m + 1) => L[m + 1] = L[m] + 1
          /\ Closing(text, m + 1) => L[m + 1] = L[m] - 1
          /\ ~Opening(text, m + 1) /\ ~Closing(text, m + 1) => L[m + 1] = L[m]
      BY <1>1, <3>1 DEF Levels
    <3>3. up => L[m + 1] >= L[i]
      <4> SUFFICES ASSUME up PROVE L[m + 1] >= L[i]
        OBVIOUS
      <4>1. ~Closing(text, m + 1) /\ L[m] >= L[i]
        BY <3>1
      <4> QED
        BY <1>2, <3>2, <4>1
    <3>4. down => L[m + 1] <= L[i]
      <4> SUFFICES ASSUME down PROVE L[m + 1] <= L[i]
        OBVIOUS
      <4>1. ~Opening(text, m + 1) /\ L[m] <= L[i]
        BY <3>1
      <4> QED
        BY <1>2, <3>2, <4>1
    <3> QED
      BY <3>3, <3>4
  <2> QED
    BY <2>1, <2>2
<1> HIDE DEF T
<1>5. n \in T
  BY <1>2, <1>3, <1>4, NumbersByStep
<1> QED
  BY <1>2, <1>5 DEF T, L

LEMMA LonelyLevel ==
    ASSUME NEW text \in Files, NEW i \in 1..Len(text), Lonely(text, i)
    PROVE  /\ Level(text)[Len(text)] = Level(text)[i - 1] - 1 /\ Level(text)[i - 1] \in Int
           /\ IsBlockEnd(text[i]) /\ ~IsBlock(text[i]) /\ ~IsDirective(text[i])
<1> DEFINE L == Level(text)
<1>1. Levels(text, L)
  BY LevelSteps
<1>2. \A j \in (i + 1)..Len(text) : ~Opening(text, j) /\ ~Closing(text, j)
  BY DEF Lonely, Opening, Closing
<1>3. L[Len(text)] >= L[i] /\ L[Len(text)] <= L[i]
  <2>1. i \in 0..Len(text)
    BY <1>1 DEF Levels
  <2> QED
    BY <1>2, <2>1, LevelsAhead
<1>4. Closing(text, i) /\ ~Opening(text, i)
  BY DEF Lonely, Closing, Opening
<1> HIDE DEF L
<1>5. i - 1 \in 0..Len(text) /\ i \in 0..Len(text) /\ Len(text) \in 0..Len(text)
  BY <1>1 DEF Levels
<1>6. L[i] = L[i - 1] - 1 /\ L[i - 1] \in Int /\ L[i] \in Int /\ L[Len(text)] \in Int
  BY <1>1, <1>4, <1>5 DEF Levels
<1>7. L[Len(text)] = L[i - 1] - 1
  BY <1>3, <1>6
<1> QED
  BY <1>6, <1>7 DEF L, Lonely, IsBlockEnd, IsBlock, IsDirective

(* What the first pass refuses: an element of no type.                     *)
LEMMA UntypedRefused ==
    ASSUME NEW text \in Files, NEW i \in 1..Len(text), ~Typed(text, i)
    PROVE  ~WellFormed(text)
<1> DEFINE L == Level(text)
           n == Len(text)
<1>1. Levels(text, L)
  BY LevelSteps
<1> SUFFICES ASSUME WellFormed(text) PROVE FALSE
  OBVIOUS
<1>2. L[n] = 0 /\ \A k \in 1..n : L[k] >= 0
  BY <1>1 DEF WellFormed, Balanced, Levels
<1>3. WellPlaced(text, i)
  BY <1>1 DEF WellFormed, Levels
<1> HIDE DEF L
<1>4. /\ n \in Nat /\ i - 1 \in 0..n /\ i \in 0..n /\ L[i] \in Int /\ L[i - 1] \in Int /\ L[i] >= 0
      /\ Opening(text, i) => L[i] = L[i - 1] + 1
      /\ Closing(text, i) => L[i] = L[i - 1] - 1
  BY <1>1, <1>2 DEF Levels
<1>5. Lonely(text, i) => L[i - 1] = 1
  <2> SUFFICES ASSUME Lonely(text, i) PROVE L[i - 1] = 1
    OBVIOUS
  <2>1. L[n] = L[i - 1] - 1
    BY LonelyLevel DEF L
  <2> QED
    BY <1>2, <1>4, <2>1
<1>6. IsDirective(text[i]) \/ IsBlock(text[i]) \/ IsBlockEnd(text[i])
  BY <1>3 DEF WellPlaced
<1>7. ASSUME IsBlockEnd(text[i]) PROVE L[i - 1] > 0
  <2>1. Closing(text, i)
    BY <1>7 DEF IsBlockEnd, Closing
  <2> QED
    BY <1>4, <2>1
<1>8. ASSUME IsBlock(text[i]) PROVE \E j \in i..n : text[j].end = "close"
  <2> SUFFICES ASSUME \A j \in i..n : text[j].end # "close" PROVE FALSE
    OBVIOUS
  <2>1. Opening(text, i)
    BY <1>8 DEF IsBlock, Opening
  <2>2. i - 1 \in 0..n /\ (i - 1) + 1 = i
    BY <1>4
  <2>3. \A j \in ((i - 1) + 1)..n : ~Closing(text, j)
    BY <2>2 DEF Closing
  <2>4. \A j \in (i + 1)..n : ~Closing(text, j)
    BY <1>4 DEF Closing
  <2>5. L[n] >= L[i]
    BY <1>4, <2>4, LevelsAhead DEF L
  <2>6. L[i - 1] >= 0
    BY <1>1, <1>2, <1>4 DEF Levels
  <2> QED
    BY <1>2, <1>4, <2>1, <2>5, <2>6
<1> QED
  BY <1>5, <1>6, <1>7, <1>8 DEF Typed, L

(* What no pass notices before the end: a server or a location outermost.  *)
LEMMA StraysRefused ==
    ASSUME NEW text \in Files, Nested(text), NEW p, ~NoStray(text, p)
    PROVE  ~WellFormed(text)
<1> SUFFICES ASSUME WellFormed(text) PROVE FALSE
  OBVIOUS
<1>1. PICK b \in NodeBlocks(text) : Level(text)[b] = 1
  BY DEF NoStray
<1>2. b \in Blocks(text) /\ Word(text, b) \in {"server", "location"}
  BY DEF NodeBlocks
<1>3. b \in 1..Len(text) /\ Level(text)[b - 1] = 0 /\ IsBlock(text[b]) /\ Len(text) \in Nat
  BY <1>1, <1>2, BlockOpens
<1>4. Encloser(text, b) = 0
  BY <1>3, EncloserFacts
<1>5. 0 \notin NodeBlocks(text)
  BY NodeOfFacts
<1>6. TypeOf(text, 0) = "http"
  BY <1>5 DEF TypeOf
<1>7. WellPlaced(text, b)
  BY <1>2 DEF WellFormed, Blocks
<1>8. ~IsDirective(text[b]) /\ ~IsBlockEnd(text[b])
  BY <1>3 DEF IsBlock, IsDirective, IsBlockEnd
<1> QED
  BY <1>2, <1>4, <1>6, <1>7, <1>8 DEF WellPlaced

(* A block that ends without a directive gets none later.                  *)
LEMMA BareRefused ==
    ASSUME NEW text \in Files, Gone(text), NEW p \in 1..Len(text), Closing(text, p),
           DirectivesIn(text, Encloser(text, p), p) = {}
    PROVE  ~WellFormed(text)
<1> DEFINE L == Level(text)
           b == Encloser(text, p)
<1> SUFFICES ASSUME WellFormed(text) PROVE FALSE
  OBVIOUS
<1>1. /\ Len(text) \in Nat /\ p - 1 \in 0..Len(text) /\ p \in 1..(Len(text) + 1)
      /\ L[p - 1] \in Nat /\ L[p] \in Nat /\ L[p] = L[p - 1] - 1 /\ L[p - 1] >= 1
  BY LevelAt DEF Gone
<1>2. b \in 1..(p - 1) /\ Around(text, b, p) /\ Opening(text, b) /\ L[b] = L[p - 1]
  BY <1>1, EncloserFacts DEF Gone, Around
<1> HIDE DEF L, b
<1>3. b \in 1..Len(text) /\ b \in Blocks(text) /\ b \in DOMAIN text
  <2>1. b \in 1..Len(text)
    BY <1>1, <1>2
  <2> QED
    BY <1>2, <2>1, ElementCases DEF Gone
<1>4. WellPlaced(text, b) /\ IsBlock(text[b]) /\ ~IsDirective(text[b]) /\ ~IsBlockEnd(text[b])
  BY <1>3 DEF WellFormed, Blocks, IsBlock, IsDirective, IsBlockEnd
<1>5. PICK j \in DOMAIN text : IsDirective(text[j]) /\ Encloser(text, j) = b
  BY <1>4 DEF WellPlaced
<1>6. j \in 1..Len(text) /\ j \in 1..(Len(text) + 1)
  BY <1>1, FilesAssumption, SeqFacts
<1>7. ~(j < p)
  <2>1. j < p => j \in 1..(p - 1)
    BY <1>1, <1>6
  <2> QED
    BY <1>5, <2>1 DEF DirectivesIn, b
<1>8. j # p
  BY <1>5, ElementCases DEF Gone
<1>9. Around(text, b, j)
  <2>1. b # 0
    BY <1>2
  <2> QED
    BY <1>5, <1>6, <2>1, EncloserFacts DEF Gone
<1>10. p \in b..(j - 1)
  BY <1>1, <1>2, <1>6, <1>7, <1>8
<1>11. L[p] >= L[b]
  BY <1>9, <1>10 DEF Around, Open, L
<1> QED
  BY <1>1, <1>2, <1>11

-----------------------------------------------------------------------------
(* The end of a text that was kept clean.                                  *)

MinimumIn(t) ==
    /\ ServersIn(t) # {}
    /\ \A s \in ServersIn(t) :
          /\ t[s].port # Unset \/ Cardinality(ServersIn(t)) = 1
          /\ \E n \in DOMAIN t : t[n].type = "location" /\ t[n].back_ref = s

(* The servers of the tree are those of the text.                          *)
LEMMA ServersOfText ==
    ASSUME NEW text \in Files, Gone(text), NEW t, NEW c,
           Placed(text, Len(text) + 1, t, c), NodesFit(text, Len(text) + 1, t),
           DOMAIN t = 1..Len(t)
    PROVE  /\ \A b \in NodeBlocks(text) : NodeOf(text, b) \in DOMAIN t
                                          /\ t[NodeOf(text, b)].type = Word(text, b)
           /\ \A n \in DOMAIN t : t[n].type # "http" =>
                 \E b \in NodeBlocks(text) : n = NodeOf(text, b) /\ t[n].type = Word(text, b)
           /\ ServersIn(t) = {NodeOf(text, b) : b \in Bodies(text, "server")}
           /\ Cardinality(ServersIn(t)) = 1 <=> Cardinality(Bodies(text, "server")) = 1
<1>1. Len(text) \in Nat /\ 0 \notin NodeBlocks(text) /\ Len(text) + 1 \in 1..(Len(text) + 1)
  BY FilesAssumption, SeqFacts, NodeOfFacts
<1>2. \A b \in NodeBlocks(text) : b < Len(text) + 1
  BY <1>1, NodeOfFacts
<1>3. ASSUME NEW b \in NodeBlocks(text)
      PROVE  NodeOf(text, b) \in DOMAIN t /\ t[NodeOf(text, b)].type = Word(text, b)
  <2>1. NodeOf(text, b) \in 1..Len(t)
    BY <1>1, <1>2, NodeInTree DEF Placed
  <2> QED
    BY <1>2, <2>1 DEF NodesFit, AllHung, Hung, TypeOf
<1>4. t[1].type = "http"
  <2>1. NodeOf(text, 0) = 1 /\ TypeOf(text, 0) = "http" /\ 0 < Len(text) + 1
    BY <1>1, NodeOfFacts DEF TypeOf
  <2> QED
    BY <2>1 DEF NodesFit, AllHung, Hung
<1>5. ASSUME NEW n \in DOMAIN t, t[n].type # "http"
      PROVE  \E b \in NodeBlocks(text) : n = NodeOf(text, b) /\ t[n].type = Word(text, b)
  <2>1. PICK b \in NodeBlocks(text) : NodeOf(text, b) = n
    BY <1>4, <1>5 DEF Placed, Numbered
  <2> QED
    BY <1>3, <2>1
<1>6. ServersIn(t) = {NodeOf(text, b) : b \in Bodies(text, "server")}
  <2>1. ASSUME NEW n \in ServersIn(t) PROVE \E b \in Bodies(text, "server") : n = NodeOf(text, b)
    <3>1. n \in DOMAIN t /\ t[n].type = "server"
      BY DEF ServersIn
    <3>2. PICK b \in NodeBlocks(text) : n = NodeOf(text, b) /\ t[n].type = Word(text, b)
      BY <1>5, <3>1
    <3> QED
      BY <3>1, <3>2 DEF Bodies
  <2>2. ASSUME NEW b \in Bodies(text, "server") PROVE NodeOf(text, b) \in ServersIn(t)
    BY <1>3 DEF Bodies, ServersIn
  <2> QED
    BY <2>1, <2>2
<1>7. Cardinality(ServersIn(t)) = 1 <=> Cardinality(Bodies(text, "server")) = 1
  <2> DEFINE B == Bodies(text, "server")
             S == ServersIn(t)
  <2>1. IsFiniteSet(B)
    <3>1. IsFiniteSet(NodeBlocks(text))
      <4>1. Upto(text, Len(text)) = NodeBlocks(text) /\ IsFiniteSet(Upto(text, Len(text)))
        BY <1>1, UptoFacts
      <4> QED
        BY <4>1
    <3> QED
      BY <3>1, FS_Subset DEF Bodies
  <2>2. B \subseteq NodeBlocks(text)
    BY DEF Bodies
  <2>3. \A b, d \in B : NodeOf(text, b) = NodeOf(text, d) => b = d
    BY <2>2, NodesApart
  <2>4. S = {NodeOf(text, b) : b \in B}
    BY <1>6
  <2> HIDE DEF B, S
  <2>5. ASSUME Cardinality(B) = 1 PROVE Cardinality(S) = 1
    <3>1. PICK b : B = {b}
      BY <2>1, <2>5, FS_Singleton
    <3>2. S = {NodeOf(text, b)}
      BY <2>4, <3>1
    <3> QED
      BY <3>2, FS_Singleton
  <2>6. ASSUME Cardinality(S) = 1 PROVE Cardinality(B) = 1
    <3>1. IsFiniteSet(S)
      <4>1. Len(t) \in Nat
        BY <1>1, NodeInTree DEF Placed
      <4>2. S \subseteq 1..Len(t) /\ IsFiniteSet(1..Len(t))
        BY <4>1, FS_Interval DEF S, ServersIn
      <4> QED
        BY <4>2, FS_Subset
    <3>2. PICK s : S = {s}
      BY <2>6, <3>1, FS_Singleton
    <3>3. PICK b \in B : s = NodeOf(text, b)
      BY <2>4, <3>2
    <3>4. B = {b}
      BY <2>3, <2>4, <3>2, <3>3
    <3> QED
      BY <3>4, FS_Singleton
  <2> QED
    BY <2>5, <2>6 DEF B, S
<1> QED
  BY <1>3, <1>5, <1>6, <1>7

(* minimum_value_check tests the tree for what the text has to have.       *)
LEMMA CompleteMeans ==
    ASSUME NEW text \in Files, Gone(text), NEW t, NEW c, NEW counted,
           Placed(text, Len(text) + 1, t, c), Kept(text, Len(text) + 1, t, counted),
           DOMAIN t = 1..Len(t)
    PROVE  MinimumIn(t) <=> ServersComplete(text)
<1> DEFINE S == ServersIn(t)
           B == Bodies(text, "server")
           Has(s) == \E n \in DOMAIN t : t[n].type = "location" /\ t[n].back_ref = s
           Holds(b) == \E i \in NodeBlocks(text) : Encloser(text, i) = b
           Listens(b) == \E i \in DOMAIN text : /\ Encloser(text, i) = b
                                               /\ IsDirective(text[i]) /\ Word(text, i) = "listen"
<1>1. NodesFit(text, Len(text) + 1, t) /\ Nesting(text, Len(text) + 1)
  BY DEF Kept
<1>2. /\ \A b \in NodeBlocks(text) : NodeOf(text, b) \in DOMAIN t
                                     /\ t[NodeOf(text, b)].type = Word(text, b)
      /\ \A n \in DOMAIN t : t[n].type # "http" =>
            \E b \in NodeBlocks(text) : n = NodeOf(text, b) /\ t[n].type = Word(text, b)
      /\ S = {NodeOf(text, b) : b \in B}
      /\ Cardinality(S) = 1 <=> Cardinality(B) = 1
  BY <1>1, ServersOfText
<1>3. Len(text) \in Nat /\ DOMAIN text = 1..Len(text) /\ 0 \notin NodeBlocks(text)
  BY FilesAssumption, SeqFacts, NodeOfFacts
<1>4. \A b \in NodeBlocks(text) : b < Len(text) + 1
  BY <1>3, NodeOfFacts
<1>5. B \subseteq NodeBlocks(text) /\ \A b \in B : Word(text, b) = "server"
  BY DEF Bodies
<1>6. ASSUME NEW i \in NodeBlocks(text)
      PROVE  /\ t[NodeOf(text, i)].back_ref = NodeOf(text, Encloser(text, i))
             /\ i \in Blocks(text) /\ Nests(text, i)
  <2>1. Hung(text, i, t[NodeOf(text, i)]) /\ i # 0
    BY <1>1, <1>3, <1>4 DEF NodesFit, AllHung
  <2>2. i \in Blocks(text)
    BY DEF NodeBlocks
  <2> QED
    BY <1>1, <1>4, <2>1, <2>2 DEF Hung, Nesting
<1>7. ASSUME NEW b \in B PROVE Has(NodeOf(text, b)) <=> Holds(b)
  <2>1. ASSUME Has(NodeOf(text, b)) PROVE Holds(b)
    <3>1. PICK n \in DOMAIN t : t[n].type = "location" /\ t[n].back_ref = NodeOf(text, b)
      BY <2>1
    <3>2. PICK i \in NodeBlocks(text) : n = NodeOf(text, i)
      BY <1>2, <3>1
    <3>3. NodeOf(text, Encloser(text, i)) = NodeOf(text, b)
      BY <1>6, <3>1, <3>2
    <3>4. Encloser(text, i) = b
      BY <1>5, <3>3, NodesApart
    <3> QED
      BY <3>4
  <2>2. ASSUME Holds(b) PROVE Has(NodeOf(text, b))
    <3>1. PICK i \in NodeBlocks(text) : Encloser(text, i) = b
      BY <2>2
    <3>2. TypeOf(text, b) = "server"
      BY <1>5 DEF TypeOf
    <3>3. Word(text, i) = "location"
      <4>1. Nests(text, i) /\ Word(text, i) \in {"server", "location"}
        BY <1>6 DEF NodeBlocks
      <4> QED
        BY <3>1, <3>2, <4>1 DEF Nests, Plain, Bodies
    <3> QED
      BY <1>2, <1>6, <3>1, <3>3
  <2> HIDE DEF Has, Holds
  <2> QED
    BY <2>1, <2>2
<1>8. ASSUME NEW b \in B PROVE t[NodeOf(text, b)].port # Unset <=> Listens(b)
  <2>1. t[NodeOf(text, b)].port = Unset <=>
          \A j \in DirectivesIn(text, b, Len(text) + 1) : Word(text, j) # "listen"
    BY <1>1, <1>4, <1>5 DEF NodesFit, AllPorted, Ported
  <2>2. DirectivesIn(text, b, Len(text) + 1) =
           {j \in DOMAIN text : IsDirective(text[j]) /\ Encloser(text, j) = b}
    <3>1. 1..((Len(text) + 1) - 1) = DOMAIN text
      BY <1>3
    <3> QED
      BY <3>1 DEF DirectivesIn
  <2> QED
    BY <2>1, <2>2
<1>9. ServersComplete(text) <=>
        /\ B # {}
        /\ \A b \in B : Holds(b) /\ (Cardinality(B) = 1 \/ Listens(b))
  BY Zenon DEF ServersComplete
<1>10. MinimumIn(t) <=>
        /\ S # {}
        /\ \A s \in S : (t[s].port # Unset \/ Cardinality(S) = 1) /\ Has(s)
  BY Zenon DEF MinimumIn
<1> HIDE DEF S, B, Has, Holds, Listens
<1> QED
  BY <1>2, <1>7, <1>8, <1>9, <1>10

LEMMA EndsWellPlaced ==
    ASSUME NEW text \in Files, Gone(text), NEW t, NEW counted,
           Kept(text, Len(text) + 1, t, counted), NoStray(text, Len(text) + 1),
           Level(text)[Len(text)] = 0
    PROVE  Balanced(text) /\ \A i \in DOMAIN text : WellPlaced(text, i)
<1>1. Len(text) \in Nat /\ DOMAIN text = 1..Len(text)
  BY FilesAssumption, SeqFacts
<1>2. Balanced(text)
  BY <1>1 DEF Balanced, Gone, Nested
<1> SUFFICES ASSUME NEW i \in DOMAIN text PROVE WellPlaced(text, i)
  BY <1>2
<1> DEFINE e == Encloser(text, i)
<1>3. i \in 1..Len(text) /\ i \in 1..((Len(text) + 1) - 1) /\ i \in 1..(Len(text) + 1)
      /\ i < Len(text) + 1
  BY <1>1
<1>4. IsDirective(text[i]) \/ IsBlock(text[i]) \/ IsBlockEnd(text[i])
  BY <1>3 DEF Gone, Typed
<1>5. CASE IsDirective(text[i])
  BY <1>3, <1>5 DEF Kept, Accepted, WellPlaced
<1>6. CASE IsBlock(text[i])
  <2>1. i \in Blocks(text)
    BY <1>6 DEF Blocks
  <2>2. Nests(text, i)
    BY <1>3, <2>1 DEF Kept, Nesting
  <2>3. ~Open(text, i, Len(text) + 1)
    <3> SUFFICES ASSUME Open(text, i, Len(text) + 1) PROVE FALSE
      OBVIOUS
    <3>1. (Len(text) + 1) - 1 = Len(text) /\ Len(text) + 1 \in 1..(Len(text) + 1)
      BY <1>1
    <3>2. Level(text)[i] \in Nat /\ Level(text)[i] >= 1 /\ Level(text)[i] <= Level(text)[Len(text)]
      BY <3>1, OpenFacts DEF Gone
    <3> QED
      BY <3>2
  <2>4. DirectivesIn(text, i, Len(text) + 1) # {}
    BY <1>3, <2>1, <2>3 DEF Kept, Closed
  <2>5. \E j \in DOMAIN text : IsDirective(text[j]) /\ Encloser(text, j) = i
    <3>1. 1..((Len(text) + 1) - 1) = DOMAIN text
      BY <1>1
    <3> QED
      BY <2>4, <3>1 DEF DirectivesIn
  <2>6. i \in Bodies(text, "server") => e # 0
    <3> SUFFICES ASSUME i \in Bodies(text, "server"), e = 0 PROVE FALSE
      OBVIOUS
    <3>1. Level(text)[i - 1] = 0
      BY <1>3, EncloserFacts DEF Gone
    <3>2. Level(text)[i] = 1
      BY <2>1, <3>1, BlockOpens
    <3> QED
      BY <1>3, <3>2 DEF NoStray, Bodies
  <2>7. CASE Plain(text, i)
    <3>1. Word(text, i) \in {"http", "events"}
      BY <2>7 DEF Plain
    <3> QED
      BY <1>6, <2>5, <2>7, <3>1 DEF WellPlaced
  <2>8. CASE i \in Bodies(text, "server") /\ TypeOf(text, e) = "http"
    <3>1. Word(text, i) = "server"
      BY <2>8 DEF Bodies
    <3> QED
      BY <1>6, <2>5, <2>6, <2>8, <3>1 DEF WellPlaced
  <2>9. CASE i \in Bodies(text, "location") /\ TypeOf(text, e) # "http"
    <3>1. Word(text, i) = "location"
      BY <2>9 DEF Bodies
    <3> QED
      BY <1>6, <2>5, <2>9, <3>1 DEF WellPlaced
  <2> QED
    BY <2>2, <2>7, <2>8, <2>9 DEF Nests
<1>7. CASE IsBlockEnd(text[i])
  BY <1>7 DEF WellPlaced
<1> QED
  BY <1>4, <1>5, <1>6, <1>7

(* AddBlock has kept the paths of one server's locations apart.            *)
ApartIn(t) ==
    \A m, n \in DOMAIN t :
        /\ t[m].type = "location" /\ t[n].type = "location" /\ m # n
        /\ Up(t, m, ServersIn(t)) = Up(t, n, ServersIn(t))
        => t[m].path # t[n].path

LEMMA ApartMeans == ASSUME Apart PROVE ApartIn(tree)
<1>1. Servers = ServersIn(tree) /\ Nodes("location") = {n \in DOMAIN tree : tree[n].type = "location"}
  BY DEF Servers, Nodes, ServersIn
<1>2. \A n, N : Nearest(n, N) = Up(tree, n, N)
  BY NearestIsUp
<1> QED
  BY <1>1, <1>2 DEF Apart, ApartIn

LEMMA EndsApart ==
    ASSUME NEW text \in Files, Gone(text), NEW t, NEW c, ApartIn(t),
           Placed(text, Len(text) + 1, t, c), NodesFit(text, Len(text) + 1, t),
           DOMAIN t = 1..Len(t)
    PROVE  PathsDiffer(text)
<1> SUFFICES ASSUME NEW i \in Bodies(text, "location"), NEW j \in Bodies(text, "location"),
                    i # j, ServerOf(text, i) = ServerOf(text, j)
             PROVE  text[i].words[2] # text[j].words[2]
  BY DEF PathsDiffer
<1>1. Len(text) \in Nat /\ 0 \notin NodeBlocks(text)
  BY FilesAssumption, SeqFacts, NodeOfFacts
<1>2. ASSUME NEW b \in Bodies(text, "location")
      PROVE  /\ b \in NodeBlocks(text) /\ NodeOf(text, b) \in DOMAIN t
             /\ t[NodeOf(text, b)].type = "location"
             /\ t[NodeOf(text, b)].path = text[b].words[2]
             /\ Up(t, NodeOf(text, b), ServersIn(t)) = NodeOf(text, ServerOf(text, b))
  <2>1. b \in NodeBlocks(text) /\ Word(text, b) = "location" /\ b # 0
    BY <1>1 DEF Bodies
  <2>2. b < Len(text) + 1
    BY <1>1, <2>1, NodeOfFacts
  <2>3. NodeOf(text, b) \in DOMAIN t /\ t[NodeOf(text, b)].type = "location"
    BY <2>1, ServersOfText
  <2>4. t[NodeOf(text, b)].path = text[b].words[2]
    BY <2>1, <2>2 DEF NodesFit, AllHung, Hung, PathOf
  <2>5. Up(t, NodeOf(text, b), ServersIn(t)) = NodeOf(text, ServerOf(text, b))
    BY <2>1, <2>2 DEF NodesFit, AllNearest
  <2> QED
    BY <2>1, <2>3, <2>4, <2>5
<1>3. NodeOf(text, i) # NodeOf(text, j)
  BY <1>2, NodesApart
<1>4. Up(t, NodeOf(text, i), ServersIn(t)) = Up(t, NodeOf(text, j), ServersIn(t))
  BY <1>2
<1>5. t[NodeOf(text, i)].path # t[NodeOf(text, j)].path
  BY <1>2, <1>3, <1>4 DEF ApartIn
<1> QED
  BY <1>2, <1>5

-----------------------------------------------------------------------------
(* The steps of the two passes.                                            *)

Stepped(type, n) ==
    CASE type = "BLOCK" -> n + 1 [] type = "BLOCK_END" -> n - 1 [] OTHER -> n
Types == {"DIRECTIVE", "BLOCK", "BLOCK_END", "BAD_TYPE"}

LEMMA DetectedIs == \A i : DetectNextType(i) = Detected(file, i, nesting)
BY DEF DetectNextType, Detected, LonelyBrace, Lonely

LEMMA DetectedMeans ==
    ASSUME NEW text, NEW i, NEW n
    PROVE  /\ Detected(text, i, n) \in Types
           /\ Detected(text, i, n) = "DIRECTIVE" => IsDirective(text[i])
           /\ Detected(text, i, n) = "BLOCK" => IsBlock(text[i])
           /\ Detected(text, i, n) = "BLOCK_END" => IsBlockEnd(text[i])
           /\ Detected(text, i, n) # "BAD_TYPE" <=>
                 /\ Lonely(text, i) => n = 1
                 /\ \/ IsDirective(text[i])
                    \/ IsBlock(text[i]) /\ \E j \in i..Len(text) : text[j].end = "close"
                    \/ IsBlockEnd(text[i]) /\ n > 0
BY DEF Detected, Types

LEMMA FirstStep ==
    ASSUME NEW text \in Files, NEW p \in 1..Len(text), NEW n, FirstFits(text, p, n),
           NEW d, d = Detected(text, p, n)
    PROVE  /\ d = "BAD_TYPE" <=> ~Typed(text, p)
           /\ d # "BAD_TYPE" => FirstFits(text, p + 1, Stepped(d, n))
<1> DEFINE L == Level(text)
<1>1. Levels(text, L)
  BY LevelSteps
<1>2. n = L[p - 1] /\ \A i \in 1..(p - 1) : Typed(text, i) /\ L[i] >= 0
  BY DEF FirstFits
<1>3. d = "BAD_TYPE" <=> ~Typed(text, p)
  BY <1>2, DetectedMeans DEF Typed
<1> HIDE DEF L
<1>4. ASSUME d # "BAD_TYPE" PROVE FirstFits(text, p + 1, Stepped(d, n))
  <2>0. /\ Len(text) \in Nat /\ p \in 0..Len(text) /\ p - 1 \in 0..Len(text) /\ (p + 1) - 1 = p
        /\ \A i \in 1..p : i \in 1..(p - 1) \/ i = p
        /\ p - 1 = 0 \/ p - 1 \in 1..(p - 1)
    BY <1>1 DEF Levels
  <2>1. /\ Opening(text, p) <=> d = "BLOCK"
        /\ Closing(text, p) <=> d = "BLOCK_END"
    <3>1. d \in {"DIRECTIVE", "BLOCK", "BLOCK_END"}
      BY <1>4, DetectedMeans DEF Types
    <3>2. /\ d = "DIRECTIVE" => IsDirective(text[p])
          /\ d = "BLOCK" => IsBlock(text[p])
          /\ d = "BLOCK_END" => IsBlockEnd(text[p])
      BY DetectedMeans
    <3> QED
      BY <3>1, <3>2 DEF Opening, Closing, IsDirective, IsBlock, IsBlockEnd
  <2>2. /\ L[p] = Stepped(d, n) /\ L[p - 1] \in Int /\ L[p - 1] >= 0
        /\ (d = "BLOCK_END" => L[p - 1] > 0)
    <3>1. L[p - 1] >= 0
      BY <1>1, <1>2, <2>0 DEF Levels
    <3>2. d = "BLOCK_END" => n > 0
      BY DEF Detected
    <3>3. /\ L[p - 1] \in Int
          /\ Opening(text, p) => L[p] = L[p - 1] + 1
          /\ Closing(text, p) => L[p] = L[p - 1] - 1
          /\ ~Opening(text, p) /\ ~Closing(text, p) => L[p] = L[p - 1]
      BY <1>1, <2>0 DEF Levels
    <3>4. d \in Types
      BY DetectedMeans
    <3>5. L[p] = Stepped(d, n)
      <4>1. CASE d = "BLOCK"
        BY <1>2, <2>1, <3>3, <4>1 DEF Stepped
      <4>2. CASE d = "BLOCK_END"
        BY <1>2, <2>1, <3>3, <4>2 DEF Stepped
      <4>3. CASE d # "BLOCK" /\ d # "BLOCK_END"
        BY <1>2, <2>1, <3>3, <4>3 DEF Stepped
      <4> QED
        BY <4>1, <4>2, <4>3
    <3> QED
      BY <3>1, <3>2, <3>3, <3>5, <1>2
  <2>3. L[p] >= 0
    BY <1>2, <2>2 DEF Stepped
  <2>4. Typed(text, p)
    BY <1>3, <1>4
  <2> QED
    BY <1>2, <2>0, <2>2, <2>3, <2>4 DEF FirstFits, L
<1> QED
  BY <1>3, <1>4

(* The second pass detects what the first one did, though its nesting may  *)
(* be larger.                                                              *)
LEMMA SecondStep ==
    ASSUME NEW text \in Files, NEW p \in 1..Len(text), NEW k, NEW n, SecondFits(text, p, k, n),
           NEW d, d = Detected(text, p, n)
    PROVE  /\ d \in {"DIRECTIVE", "BLOCK", "BLOCK_END"}
           /\ Opening(text, p) <=> d = "BLOCK"
           /\ Closing(text, p) <=> d = "BLOCK_END"
           /\ IsDirective(text[p]) <=> d = "DIRECTIVE"
           /\ SecondFits(text, p + 1, Stepped(d, k), Stepped(d, n))
<1> DEFINE L == Level(text)
<1>1. Levels(text, L)
  BY LevelSteps
<1>2. /\ n = L[Len(text)] + L[p - 1] /\ k = L[p - 1] /\ Typed(text, p) /\ Nested(text)
      /\ \A i \in 1..Len(text) : Typed(text, i)
  BY DEF SecondFits
<1>3. /\ L[p - 1] \in Nat /\ L[p] \in Nat /\ (p + 1) - 1 = p /\ Len(text) \in Nat
      /\ Opening(text, p) => L[p] = L[p - 1] + 1
      /\ Closing(text, p) => L[p] = L[p - 1] - 1
      /\ ~Opening(text, p) /\ ~Closing(text, p) => L[p] = L[p - 1]
  BY <1>2, LevelAt
<1>4. /\ Opening(text, p) <=> IsBlock(text[p])
      /\ Closing(text, p) <=> IsBlockEnd(text[p])
      /\ IsDirective(text[p]) <=> ~Opening(text, p) /\ ~Closing(text, p)
      /\ ~(Opening(text, p) /\ Closing(text, p))
  BY <1>2, ElementCases
<1>5. Lonely(text, p) => L[p - 1] = 1 /\ L[Len(text)] = L[p - 1] - 1
  BY <1>2, LonelyLevel DEF Typed
<1>6. \/ IsDirective(text[p])
      \/ IsBlock(text[p]) /\ \E j \in p..Len(text) : text[j].end = "close"
      \/ IsBlockEnd(text[p]) /\ L[p - 1] > 0
  BY <1>2 DEF Typed
<1> HIDE DEF L
<1>7. L[Len(text)] \in Nat
  <2>1. Len(text) \in 0..Len(text)
    BY <1>3
  <2> QED
    BY <1>1, <1>2, <2>1 DEF Levels, Nested, L
<1>8. n \in Nat /\ (L[p - 1] > 0 => n > 0)
  BY <1>2, <1>3, <1>7
<1>9. Lonely(text, p) => n = 1
  BY <1>2, <1>5
<1>10. d # "BAD_TYPE"
  BY <1>6, <1>8, <1>9, DetectedMeans
<1>11. /\ d \in {"DIRECTIVE", "BLOCK", "BLOCK_END"}
       /\ d = "DIRECTIVE" => IsDirective(text[p])
       /\ d = "BLOCK" => IsBlock(text[p])
       /\ d = "BLOCK_END" => IsBlockEnd(text[p])
  BY <1>10, DetectedMeans DEF Types
<1>12. /\ Opening(text, p) <=> d = "BLOCK"
       /\ Closing(text, p) <=> d = "BLOCK_END"
       /\ IsDirective(text[p]) <=> d = "DIRECTIVE"
  BY <1>4, <1>11
<1>13. Stepped(d, k) = L[p] /\ Stepped(d, n) = L[Len(text)] + L[p]
  BY <1>2, <1>3, <1>7, <1>11, <1>12 DEF Stepped
<1>14. SecondFits(text, p + 1, Stepped(d, k), Stepped(d, n))
  BY <1>2, <1>3, <1>13 DEF SecondFits, L
<1> QED
  BY <1>11, <1>12, <1>14

-----------------------------------------------------------------------------
(* The parser's steps, in the program.                                     *)

Built(text, p, t, c, counted) ==
    Placed(text, p, t, c) /\ (NoStray(text, p) => Kept(text, p, t, counted))
PassInv ==
    /\ stage = "validate" =>
          FirstFits(file, pos, nesting) /\ counts = [d \in 0..Len(file) |-> 0]
    /\ stage = "parse" => SecondFits(file, pos, depth, nesting)
BuildInv ==
    stage = "parse" /\ Outermost(file) => Built(file, pos, tree, current, counts)
Refuses == stage' = "refused" /\ Outermost(file) => ~WellFormed(file)

LEMMA Reads ==
    ASSUME SiteInv, NEW type, Advance(type)
    PROVE  /\ file' = file /\ file \in Files /\ pos \in 1..Len(file) /\ pos' = pos + 1
           /\ type = Detected(file, pos, nesting) /\ nesting' = Stepped(type, nesting)
<1>1. file \in Files /\ CursorType
  BY DEF SiteInv, ParserInv, CursorType
<1> QED
  BY <1>1, AdvanceFacts, DetectedIs DEF Advance, Stepped

LEMMA ValidatePasses ==
    ASSUME SiteInv, PassInv, Validate
    PROVE  PassInv' /\ BuildInv' /\ Refuses /\ file' = file /\ stage' \in {"validate", "refused"}
<1>1. PICK type \in Types : Advance(type) /\ stage' = IF type = "BAD_TYPE" THEN "refused" ELSE stage
  BY DEF Validate, Types
<1>2. stage = "validate" /\ UNCHANGED counts
  BY DEF Validate
<1>3. PICK text, p, n : text = file /\ p = pos /\ n = nesting
  OBVIOUS
<1>4. /\ text \in Files /\ p \in 1..Len(text) /\ FirstFits(text, p, n)
      /\ type = Detected(text, p, n)
      /\ file' = text /\ pos' = p + 1 /\ nesting' = Stepped(type, n)
      /\ counts = [d \in 0..Len(text) |-> 0]
  BY <1>1, <1>2, <1>3, Reads DEF PassInv
<1>5. /\ type = "BAD_TYPE" => ~Typed(text, p)
      /\ type # "BAD_TYPE" => FirstFits(text, p + 1, Stepped(type, n))
  BY <1>4, FirstStep
<1>6. type = "BAD_TYPE" => ~WellFormed(text)
  BY <1>4, <1>5, UntypedRefused
<1> QED
  BY <1>1, <1>2, <1>3, <1>4, <1>5, <1>6 DEF PassInv, BuildInv, Refuses

LEMMA BuiltAtFirst ==
    ASSUME NEW text \in Files, NEW counted
    PROVE  Built(text, 1, <<NewNode("http", 0, Empty)>>, 1, counted)
<1> DEFINE node == NewNode("http", 0, Empty)
           t == <<node>>
<1>1. NodeBlocks(text) \subseteq 1..Len(text) /\ Blocks(text) \subseteq 1..Len(text)
  BY FilesAssumption, SeqFacts DEF NodeBlocks, Blocks
<1>2. \A b \in Blocks(text) : ~(b < 1)
  BY <1>1
<1>3. \A b \in {0} \cup NodeBlocks(text) : b < 1 => b = 0
  BY <1>1
<1>4. node.type = "http"
  BY DEF NewNode
<1>0. Len(text) \in Nat
  BY FilesAssumption, SeqFacts
<1>10. node = NewOf(text, 0)
  BY DEF NewOf
<1>5. Len(t) = 1 /\ t[1] = node /\ DOMAIN t = 1..1
  OBVIOUS
<1> HIDE DEF t, node
<1>6. NodeOf(text, 0) = 1 /\ TypeOf(text, 0) = "http" /\ 0 \notin NodeBlocks(text)
  BY <1>1, NodeOfFacts DEF TypeOf
<1>7. Placed(text, 1, t, 1)
  <2>1. Level(text)[1 - 1] = 0
    BY LevelSteps DEF Levels
  <2>2. Cardinality(Upto(text, 1 - 1)) = 0
    BY <1>0, UptoFacts
  <2>3. NoStray(text, 1)
    BY <1>3, <1>6 DEF NoStray
  <2>4. DirectedTo(text, 1, t, 1)
    BY <2>1, <2>3 DEF DirectedTo
  <2>5. Hanging(text, 1, t)
    BY <1>3, <1>6 DEF Hanging
  <2>6. Numbered(text, 1, t)
    BY <1>5, <2>2 DEF Numbered
  <2>7. Known(text, 1)
    BY <1>2 DEF Known
  <2> QED
    BY <2>4, <2>5, <2>6, <2>7 DEF Placed
<1>8. NodesFit(text, 1, t)
  <2>1. AllHung(text, 1, t)
    BY <1>3, <1>4, <1>5, <1>6 DEF AllHung, Hung
  <2>2. AllPorted(text, 1, t) /\ AllNearest(text, 1, t)
    BY <1>3, <1>6 DEF AllPorted, AllNearest
  <2>3. FilledUpto(text, 0, 0) = node
    <3>1. 0 \notin DirectivesOf(text, NodeOf(text, 0))
      BY FilesAssumption, SeqFacts DEF DirectivesOf
    <3> QED
      BY <1>10, <3>1, FilledSteps DEF FilledUpto
  <2>4. AllFilled(text, 1, t)
    BY <1>3, <1>5, <1>6, <2>3 DEF AllFilled
  <2> QED
    BY <2>1, <2>2, <2>4 DEF NodesFit
<1>9. Accepted(text, 1) /\ Nesting(text, 1) /\ Counted(text, 1, counted) /\ Closed(text, 1)
  BY <1>2 DEF Accepted, Nesting, Counted, Closed
<1> QED
  BY <1>7, <1>8, <1>9 DEF Built, Kept, t, node

LEMMA ValidatedPasses ==
    ASSUME SiteInv, PassInv, Validated
    PROVE  PassInv' /\ BuildInv' /\ file' = file /\ stage' = "parse"
<1>1. /\ stage = "validate" /\ pos > Len(file) /\ stage' = "parse" /\ pos' = 1
      /\ UNCHANGED <<file, nesting, depth, counts, current, tree>>
  BY DEF Validated
<1>2. PICK text, n : text = file /\ n = nesting
  OBVIOUS
<1>3. /\ text \in Files /\ pos = Len(text) + 1 /\ depth = 0 /\ current = 1
      /\ tree = <<NewNode("http", 0, Empty)>> /\ FirstFits(text, Len(text) + 1, n)
  <2>1. CursorType /\ FirstPass /\ Len(file) \in Nat
    BY TextIsSeq DEF SiteInv, ParserInv, CursorType
  <2>2. pos = Len(file) + 1
    BY <1>1, <2>1 DEF CursorType
  <2> QED
    BY <1>1, <1>2, <2>1, <2>2 DEF FirstPass, CursorType, PassInv
<1>4. SecondFits(text, 1, 0, n)
  <2>1. Levels(text, Level(text))
    BY <1>3, LevelSteps
  <2>2. Len(text) \in Nat /\ Level(text)[1 - 1] = 0 /\ Level(text)[Len(text)] \in Int
    BY <2>1 DEF Levels
  <2>3. /\ n = Level(text)[Len(text)]
        /\ \A i \in 1..Len(text) : Typed(text, i) /\ Level(text)[i] >= 0
    BY <1>3, <2>2 DEF FirstFits
  <2>4. Nested(text)
    BY <2>2, <2>3 DEF Nested
  <2> QED
    BY <2>2, <2>3, <2>4 DEF SecondFits
<1>5. PICK counted : counted = counts
  OBVIOUS
<1>6. Built(text, 1, <<NewNode("http", 0, Empty)>>, 1, counted)
  BY <1>3, BuiltAtFirst
<1>7. PICK t : t = tree
  OBVIOUS
<1>8. Built(text, 1, t, 1, counted)
  BY <1>3, <1>6, <1>7, Zenon
<1>9. PassInv'
  BY <1>1, <1>2, <1>3, <1>4 DEF PassInv
<1>10. BuildInv'
  BY <1>1, <1>2, <1>3, <1>5, <1>7, <1>8 DEF BuildInv
<1> QED
  BY <1>1, <1>9, <1>10

(* The node directives go to is of the type of the block around them.      *)
LEMMA TypeHere ==
    ASSUME NEW text \in Files, Gone(text), NEW p \in 1..(Len(text) + 1), NEW t, NEW c,
           Placed(text, p, t, c), NoStray(text, p), AllHung(text, p, t)
    PROVE  /\ c \in 1..Len(t) /\ Len(t) \in Nat
           /\ t[c].type = TypeOf(text, Encloser(text, p))
<1> DEFINE e == Encloser(text, p)
<1>1. /\ c = NodeOf(text, e) /\ c \in 1..Len(t) /\ Len(t) \in Nat /\ e \in 0..(p - 1)
      /\ \A b \in {0} \cup NodeBlocks(text) :
             NodeOf(text, b) = c <=> IF e \in NodeBlocks(text) THEN b = e ELSE b = 0
  BY StandsAt
<1> HIDE DEF e
<1>2. PICK b \in {0} \cup NodeBlocks(text) :
         /\ b < p /\ NodeOf(text, b) = c /\ TypeOf(text, b) = TypeOf(text, e)
  <2>0. 0 \notin NodeBlocks(text) /\ 0 < p /\ e < p
    <3>1. Len(text) \in Nat
      BY FilesAssumption, SeqFacts
    <3> QED
      BY <1>1, <3>1, NodeOfFacts
  <2>1. CASE e \in NodeBlocks(text)
    BY <1>1, <2>0, <2>1
  <2>2. CASE e \notin NodeBlocks(text)
    BY <1>1, <2>0, <2>2 DEF TypeOf
  <2> QED
    BY <2>1, <2>2
<1>3. Hung(text, b, t[c])
  BY <1>2 DEF AllHung
<1> QED
  BY <1>1, <1>2, <1>3 DEF Hung, e

(* What the second pass stands at, and what its tree is.                   *)
LEMMA AtElement ==
    ASSUME SiteInv, PassInv, BuildInv, stage = "parse", Outermost(file), NEW type, Advance(type),
           NEW text, NEW p, NEW t, NEW c, NEW counted,
           text = file, p = pos, t = tree, c = current, counted = counts
    PROVE  /\ text \in Files /\ p \in 1..Len(text) /\ Gone(text) /\ Built(text, p, t, c, counted)
           /\ depth = Level(text)[p - 1] /\ counted \in [0..Len(text) -> Nat]
           /\ file' = text /\ pos' = p + 1
           /\ Opening(text, p) <=> type = "BLOCK"
           /\ Closing(text, p) <=> type = "BLOCK_END"
           /\ IsDirective(text[p]) <=> type = "DIRECTIVE"
           /\ DOMAIN t = 1..Len(t) /\ Hangs(t) /\ \A n \in DOMAIN t : Sound(t[n], n)
<1>1. /\ file' = text /\ text \in Files /\ p \in 1..Len(text) /\ pos' = p + 1
      /\ type = Detected(text, p, nesting)
  BY Reads
<1>2. SecondFits(text, p, depth, nesting)
  BY DEF PassInv
<1>3. /\ Opening(text, p) <=> type = "BLOCK"
      /\ Closing(text, p) <=> type = "BLOCK_END"
      /\ IsDirective(text[p]) <=> type = "DIRECTIVE"
  BY <1>1, <1>2, SecondStep
<1>4. Gone(text) /\ depth = Level(text)[p - 1]
  BY <1>2 DEF Gone, SecondFits
<1>5. Built(text, p, t, c, counted)
  BY DEF BuildInv
<1>6. CursorType /\ TreeSound
  BY DEF SiteInv, ParserInv
<1>7. DOMAIN t = 1..Len(t) /\ Hangs(t) /\ \A n \in DOMAIN t : Sound(t[n], n)
  BY <1>6, TreeHangs DEF TreeSound
<1>8. counted \in [0..Len(text) -> Nat]
  BY <1>6 DEF CursorType
<1> QED
  BY <1>1, <1>3, <1>4, <1>5, <1>7, <1>8

(* The counters of both passes go on together.                             *)
LEMMA PassesOn ==
    ASSUME SiteInv, PassInv, stage = "parse", NEW type, Advance(type),
           stage' # "validate", stage' = "parse" => depth' = Stepped(type, depth)
    PROVE  PassInv'
<1>1. PICK text, p, k, n : text = file /\ p = pos /\ k = depth /\ n = nesting
  OBVIOUS
<1>2. /\ file' = text /\ text \in Files /\ p \in 1..Len(text) /\ pos' = p + 1
      /\ type = Detected(text, p, n) /\ nesting' = Stepped(type, n) /\ SecondFits(text, p, k, n)
  BY <1>1, Reads DEF PassInv
<1>3. SecondFits(text, p + 1, Stepped(type, k), Stepped(type, n))
  BY <1>2, SecondStep
<1> QED
  BY <1>1, <1>2, <1>3 DEF PassInv

LEMMA SameLength ==
    ASSUME NEW m \in Nat, NEW n \in Nat, 1..m = 1..n
    PROVE  m = n
<1>1. m = 0 \/ m \in 1..n
  OBVIOUS
<1>2. n = 0 \/ n \in 1..m
  OBVIOUS
<1> QED
  BY <1>1, <1>2

LEMMA DirectiveBuilds ==
    ASSUME SiteInv, TextInv, PassInv, BuildInv, ParseDirective
    PROVE  PassInv' /\ BuildInv' /\ Refuses /\ file' = file /\ stage' \in {"parse", "refused"}
<1>1. /\ stage = "parse" /\ Advance("DIRECTIVE") /\ UNCHANGED <<depth, current>>
      /\ counts' = [counts EXCEPT ![depth] = @ + 1] /\ stage' \in {"parse", "refused"}
      /\ file' = file
  BY Reads DEF ParseDirective
<1>2. PassInv'
  <2>1. Stepped("DIRECTIVE", depth) = depth
    BY DEF Stepped
  <2> QED
    BY <1>1, <2>1, PassesOn
<1>3. ASSUME Outermost(file)
      PROVE  /\ stage' = "parse" => Built(file, pos, tree, current, counts)'
             /\ stage' = "refused" => ~WellFormed(file)
  <2>1. PICK text, p, t, c, counted, w, u :
           /\ text = file /\ p = pos /\ t = tree /\ c = current /\ counted = counts
           /\ w = file[pos].words /\ u = tree'
    OBVIOUS
  <2>2. /\ text \in Files /\ p \in 1..Len(text) /\ Gone(text) /\ Built(text, p, t, c, counted)
        /\ depth = Level(text)[p - 1] /\ counted \in [0..Len(text) -> Nat]
        /\ file' = text /\ pos' = p + 1 /\ ~Opening(text, p) /\ ~Closing(text, p)
        /\ IsDirective(text[p])
        /\ DOMAIN t = 1..Len(t) /\ Hangs(t) /\ \A n \in DOMAIN t : Sound(t[n], n)
    BY <1>1, <1>3, <2>1, AtElement
  <2>3. Placed(text, p, t, c) /\ (NoStray(text, p) => Kept(text, p, t, counted))
    BY <2>2 DEF Built
  <2>4. p \notin Blocks(text) /\ p \notin NodeBlocks(text)
    BY <2>2 DEF Blocks, NodeBlocks, IsBlock, Opening
  <2>5. CASE c # 0 /\ Accepts(t[c].type, w)
    <3>1. stage' = "parse" /\ u = [t EXCEPT ![c] = FillDirective(@, w)]
      BY <1>1, <2>1, <2>5 DEF ParseDirective
    <3>2. c \in DOMAIN t
      <4>1. c \in 0..Len(t)
        BY <2>1 DEF SiteInv, ParserInv, CursorType
      <4> QED
        BY <2>2, <2>5, <4>1 DEF Hangs
    <3>3. Sound(t[c], c) /\ SameNode(t[c], FillDirective(t[c], w))
      <4>1. Written(t[c])
        BY <2>1, <3>2 DEF TextInv, TreeWritten
      <4> QED
        BY <2>2, <3>2, <4>1, FillWritten
    <3>4. TreeSound'
      BY ParseDirectiveKeeps DEF SiteInv, ParserInv
    <3>5. Hangs(u) /\ DOMAIN u = 1..Len(u)
      <4>1. Hangs(tree)' /\ DOMAIN tree' = 1..Len(tree')
        BY <3>4, SeqFacts DEF TreeSound, Sound, Hangs
      <4> QED
        BY <2>1, <4>1 DEF Hangs
    <3>6. FilledAt(t, u, c, w)
      <4>1. /\ DOMAIN u = DOMAIN t /\ u[c] = FillDirective(t[c], w)
            /\ \A n \in DOMAIN t : n # c => u[n] = t[n]
        BY <3>1, <3>2
      <4>2. Len(u) = Len(t)
        <5>1. Len(u) \in Nat /\ Len(t) \in Nat /\ 1..Len(u) = 1..Len(t)
          BY <2>2, <3>5, <4>1 DEF Hangs
        <5> QED
          BY <5>1, SameLength
      <4>3. \A n \in DOMAIN t : SameNode(t[n], u[n])
        BY <3>3, <4>1 DEF SameNode
      <4> QED
        BY <2>2, <3>5, <4>1, <4>2, <4>3 DEF FilledAt
    <3>7. SameRefs(t, u)
      BY <2>2, <3>5, <3>6 DEF FilledAt, SameRefs, SameNode
    <3>8. Placed(text, p + 1, u, c)
      BY <2>2, <2>3, <2>4, <3>7, PlacedBeyond
    <3>9. PICK k : k = [counted EXCEPT ![Level(text)[p - 1]] = @ + 1]
      OBVIOUS
    <3>10. ASSUME NoStray(text, p + 1) PROVE Kept(text, p + 1, u, k)
      <4>1. NoStray(text, p)
        BY <2>2, <3>10, NoStrayAfter
      <4>2. /\ NodesFit(text, p, t) /\ Accepted(text, p) /\ Nesting(text, p)
            /\ Counted(text, p, counted) /\ Closed(text, p)
        BY <2>3, <4>1 DEF Kept
      <4>3. w = text[p].words
        BY <2>1
      <4>4. NodesFit(text, p + 1, u)
        BY <2>2, <2>3, <2>5, <3>3, <3>5, <3>6, <4>1, <4>2, <4>3, NodesByDirective
      <4>5. t[c].type = TypeOf(text, Encloser(text, p))
        <5>1. p \in 1..(Len(text) + 1)
          BY <2>2, LevelAt DEF Gone
        <5> QED
          BY <2>2, <2>3, <4>1, <4>2, <5>1, TypeHere DEF NodesFit
      <4>6. Accepted(text, p + 1)
        BY <2>2, <2>5, <4>2, <4>3, <4>5, AcceptedAfter
      <4>7. Nesting(text, p + 1)
        BY <2>2, <2>4, <4>2, NestingAfter
      <4>8. Closed(text, p + 1)
        BY <2>2, <4>2, ClosedAfter
      <4>9. k \in [0..Len(text) -> Nat]
        BY <2>2, <3>9
      <4>10. Counted(text, p + 1, k)
        BY <2>2, <3>9, <4>2, <4>9, CountedAfter
      <4> QED
        BY <4>4, <4>6, <4>7, <4>8, <4>10 DEF Kept
    <3>11. counts' = k /\ current' = c
      BY <1>1, <2>1, <2>2, <3>9
    <3>12. Built(text, p + 1, u, c, k)
      BY <3>8, <3>10 DEF Built
    <3> QED
      BY <2>1, <2>2, <3>1, <3>11, <3>12
  <2>6. CASE ~(c # 0 /\ Accepts(t[c].type, w))
    <3>1. stage' = "refused"
      BY <2>1, <2>6 DEF ParseDirective
    <3>2. ASSUME WellFormed(text) PROVE FALSE
      <4>1. NoStray(text, p)
        BY <2>2, <3>2, StraysRefused DEF Gone
      <4>2. AllHung(text, p, t)
        BY <2>3, <4>1 DEF Kept, NodesFit
      <4>3. p \in 1..(Len(text) + 1) /\ p \in DOMAIN text
        BY <2>2, LevelAt, ElementCases DEF Gone
      <4>4. c \in 1..Len(t) /\ Len(t) \in Nat /\ t[c].type = TypeOf(text, Encloser(text, p))
        BY <2>2, <2>3, <4>1, <4>2, <4>3, TypeHere
      <4>5. ~Accepts(TypeOf(text, Encloser(text, p)), text[p].words)
        BY <2>1, <2>6, <4>4
      <4>6. WellPlaced(text, p)
        BY <3>2, <4>3 DEF WellFormed
      <4> QED
        BY <2>2, <4>5, <4>6 DEF WellPlaced, Opening, Closing, IsBlock, IsBlockEnd
    <3> QED
      BY <2>1, <3>1, <3>2
  <2> QED
    BY <2>5, <2>6
<1> QED
  BY <1>1, <1>2, <1>3 DEF BuildInv, Refuses

(* AddBlock's conditions, on a tree and a current node.                    *)
Repeats(t, c, path) ==
    \E n \in DOMAIN t : /\ t[n].type = "location" /\ t[n].path = path
                        /\ Up(t, n, ServersIn(t)) = Up(t, c, ServersIn(t))
AddedIn(t, c, words) ==
    /\ c # 0
    /\ IF t[c].type = "http" THEN words[1] = "server"
       ELSE words[1] = "location" /\ ~Repeats(t, c, words[2])

LEMMA MayAddMeans == \A w : MayAdd(w) <=> AddedIn(tree, current, w)
<1>1. Servers = ServersIn(tree) /\ Nodes("location") = {n \in DOMAIN tree : tree[n].type = "location"}
  BY DEF Servers, Nodes, ServersIn
<1>2. \A n, N : Nearest(n, N) = Up(tree, n, N)
  BY NearestIsUp
<1>3. ASSUME NEW path PROVE Duplicate(path) <=> Repeats(tree, current, path)
  BY <1>1, <1>2 DEF Duplicate, LocationsOf, Repeats
<1> QED
  BY <1>3 DEF MayAdd, AddedIn

(* What it adds nests in what is around it.                                *)
LEMMA AddedNests ==
    ASSUME NEW text \in Files, Gone(text), NEW p \in Blocks(text), NEW t, NEW c,
           AddedIn(t, c, text[p].words)
    PROVE  /\ p \in NodeBlocks(text)
           /\ t[c].type = TypeOf(text, Encloser(text, p)) => Nests(text, p)
BY DEF AddedIn, NodeBlocks, Nests, Bodies, Word

(* What it refuses is not well formed: a block of the wrong kind, or a     *)
(* location whose path another one of its server has.                      *)
LEMMA NotAddedRefused ==
    ASSUME NEW text \in Files, Gone(text), NEW p \in 1..Len(text), NEW t, NEW c,
           p \in Blocks(text), ~Plain(text, p), ~AddedIn(t, c, text[p].words),
           Placed(text, p, t, c), NodesFit(text, p, t), Nesting(text, p), NoStray(text, p),
           DOMAIN t = 1..Len(t)
    PROVE  ~WellFormed(text)
<1> SUFFICES ASSUME WellFormed(text) PROVE FALSE
  OBVIOUS
<1> DEFINE e == Encloser(text, p)
           S == ServersIn(t)
<1>0. /\ Len(text) \in Nat /\ p \in 1..(Len(text) + 1) /\ p \in DOMAIN text
      /\ 0 \notin NodeBlocks(text) /\ p \in Int /\ 0 < p
  BY LevelAt, ElementCases, NodeOfFacts DEF Gone
<1>1. WellPlaced(text, p)
  BY <1>0 DEF WellFormed
<1>2. IsBlock(text[p]) /\ ~IsDirective(text[p]) /\ ~IsBlockEnd(text[p])
  BY DEF Blocks, IsBlock, IsDirective, IsBlockEnd
<1>3. /\ Word(text, p) = "server" => TypeOf(text, e) = "http"
      /\ Word(text, p) = "location" => TypeOf(text, e) # "http"
      /\ Word(text, p) \in {"server", "location"}
  BY <1>1, <1>2 DEF WellPlaced
<1>4. c \in 1..Len(t) /\ Len(t) \in Nat /\ t[c].type = TypeOf(text, e)
  BY <1>0, TypeHere DEF NodesFit
<1> HIDE DEF e
<1>5. Word(text, p) = "location" /\ Repeats(t, c, text[p].words[2]) /\ TypeOf(text, e) # "http"
  BY <1>3, <1>4 DEF AddedIn, Word
<1>6. PICK n \in DOMAIN t : /\ t[n].type = "location" /\ t[n].path = text[p].words[2]
                           /\ Up(t, n, S) = Up(t, c, S)
  BY <1>5 DEF Repeats
<1>7. e \in NodeBlocks(text) /\ c = NodeOf(text, e) /\ e < p
  <2>1. c = NodeOf(text, e) /\ e \in 0..(p - 1)
    BY <1>0, StandsAt DEF e
  <2> QED
    BY <1>0, <1>5, <2>1 DEF TypeOf
<1>8. Up(t, c, S) = NodeOf(text, ServerOf(text, e)) /\ ServerOf(text, e) \in Bodies(text, "server")
  BY <1>7 DEF NodesFit, AllNearest
<1>9. PICK b \in NodeBlocks(text) : b < p /\ NodeOf(text, b) = n
  <2>1. t[1].type = "http"
    <3>1. NodeOf(text, 0) = 1 /\ TypeOf(text, 0) = "http"
      BY <1>0, NodeOfFacts DEF TypeOf
    <3>2. Hung(text, 0, t[1])
      BY <1>0, <3>1 DEF NodesFit, AllHung
    <3> QED
      BY <3>1, <3>2 DEF Hung
  <2>2. n # 1
    BY <1>6, <2>1
  <2> QED
    BY <2>2 DEF Placed, Numbered
<1>10. Word(text, b) = "location" /\ PathOf(text, b) = text[p].words[2]
  <2>1. Hung(text, b, t[n]) /\ b # 0
    BY <1>0, <1>9 DEF NodesFit, AllHung
  <2> QED
    BY <1>6, <1>9, <2>1 DEF Hung, TypeOf
<1>11. Up(t, n, S) = NodeOf(text, ServerOf(text, b)) /\ ServerOf(text, b) \in Bodies(text, "server")
  BY <1>9 DEF NodesFit, AllNearest
<1>12. ServerOf(text, b) = ServerOf(text, e)
  <2>1. NodeOf(text, ServerOf(text, b)) = NodeOf(text, ServerOf(text, e))
    BY <1>6, <1>8, <1>11
  <2> QED
    BY <1>8, <1>11, <2>1, NodesApart DEF Bodies
<1>13. ServerOf(text, p) = ServerOf(text, e)
  <2>1. p \notin Bodies(text, "server")
    BY <1>5 DEF Bodies
  <2> QED
    BY <1>7, <2>1, SameServer DEF Placed, e
<1>14. p \in Bodies(text, "location") /\ b \in Bodies(text, "location") /\ p # b
  BY <1>0, <1>5, <1>9, <1>10 DEF Bodies, NodeBlocks
<1>15. text[b].words[2] = text[p].words[2]
  BY <1>10 DEF PathOf
<1> QED
  BY <1>12, <1>13, <1>14, <1>15 DEF WellFormed, PathsDiffer

LEMMA BlockBuilds ==
    ASSUME SiteInv, TextInv, PassInv, BuildInv, ParseBlock
    PROVE  PassInv' /\ BuildInv' /\ Refuses /\ file' = file /\ stage' \in {"parse", "refused"}
<1>1. /\ stage = "parse" /\ Advance("BLOCK") /\ depth' = depth + 1
      /\ counts' = [counts EXCEPT ![depth + 1] = 0] /\ stage' \in {"parse", "refused"}
      /\ file' = file
  BY Reads DEF ParseBlock
<1>2. PassInv'
  <2>1. Stepped("BLOCK", depth) = depth + 1
    BY DEF Stepped
  <2> QED
    BY <1>1, <2>1, PassesOn
<1>3. ASSUME Outermost(file)
      PROVE  /\ stage' = "parse" => Built(file, pos, tree, current, counts)'
             /\ stage' = "refused" => ~WellFormed(file)
  <2>1. PICK text, p, t, c, counted, w, u, k :
           /\ text = file /\ p = pos /\ t = tree /\ c = current /\ counted = counts
           /\ w = file[pos].words /\ u = tree' /\ k = counts'
    OBVIOUS
  <2>2. /\ text \in Files /\ p \in 1..Len(text) /\ Gone(text) /\ Built(text, p, t, c, counted)
        /\ depth = Level(text)[p - 1] /\ counted \in [0..Len(text) -> Nat]
        /\ file' = text /\ pos' = p + 1 /\ Opening(text, p) /\ ~Closing(text, p)
        /\ ~IsDirective(text[p])
        /\ DOMAIN t = 1..Len(t) /\ Hangs(t) /\ \A n \in DOMAIN t : Sound(t[n], n)
    BY <1>1, <1>3, <2>1, AtElement
  <2>3. Placed(text, p, t, c) /\ (NoStray(text, p) => Kept(text, p, t, counted))
    BY <2>2 DEF Built
  <2>4. p \in Blocks(text) /\ IsBlock(text[p]) /\ w = text[p].words /\ Len(text) \in Nat
    BY <2>1, <2>2, ElementCases DEF Gone
  <2>5. k = [counted EXCEPT ![Level(text)[p - 1] + 1] = 0] /\ k \in [0..Len(text) -> Nat]
    BY <1>1, <2>1, <2>2
  <2>6. NoStray(text, p + 1) => NoStray(text, p)
    BY <2>2, NoStrayAfter
  <2>7. ASSUME NoStray(text, p), Nests(text, p)
        PROVE  /\ Accepted(text, p + 1) /\ Nesting(text, p + 1)
               /\ Counted(text, p + 1, k) /\ Closed(text, p + 1)
    <3>1. /\ Accepted(text, p) /\ Nesting(text, p) /\ Counted(text, p, counted) /\ Closed(text, p)
      BY <2>3, <2>7 DEF Kept
    <3>2. Accepted(text, p + 1)
      BY <2>2, <3>1, AcceptedAfter
    <3>3. Nesting(text, p + 1)
      BY <2>2, <2>7, <3>1, NestingAfter
    <3>4. Closed(text, p + 1)
      BY <2>2, <3>1, ClosedAfter
    <3>5. Counted(text, p + 1, k)
      BY <2>2, <2>5, <3>1, CountedAfter
    <3> QED
      BY <3>2, <3>3, <3>4, <3>5
  <2>8. Plain(text, p) <=> text[p].flush /\ w[1] \in {"http", "events"}
    BY <2>4 DEF Plain, Word
  <2>9. CASE Plain(text, p)
    <3>1. stage' = "parse" /\ u = t /\ current' = c
      BY <1>1, <2>1, <2>8, <2>9 DEF ParseBlock
    <3>2. p \notin NodeBlocks(text)
      BY <2>9 DEF Plain, NodeBlocks
    <3>3. SameRefs(t, t)
      BY DEF SameRefs
    <3>4. Placed(text, p + 1, t, c)
      BY <2>2, <2>3, <2>9, <3>2, <3>3, PlacedBeyond
    <3>5. ASSUME NoStray(text, p + 1) PROVE Kept(text, p + 1, t, k)
      <4>1. NoStray(text, p) /\ Nests(text, p)
        BY <2>6, <2>9, <3>5 DEF Nests
      <4>2. NodesFit(text, p, t)
        BY <2>3, <4>1 DEF Kept
      <4>3. NodesFit(text, p + 1, t)
        BY <2>2, <3>2, <4>2, NodesBeyond
      <4> QED
        BY <2>7, <4>1, <4>3 DEF Kept
    <3>6. Built(text, p + 1, t, c, k)
      BY <3>4, <3>5 DEF Built
    <3> QED
      BY <2>1, <2>2, <3>1, <3>6
  <2>10. CASE ~Plain(text, p) /\ AddedIn(t, c, w)
    <3> DEFINE path == IF Len(w) = 2 THEN w[2] ELSE Empty
    <3>0. MayAdd(w)
      BY <2>1, <2>10, MayAddMeans
    <3>1. PICK node : node = NewNode(w[1], c, path)
      OBVIOUS
    <3>2. stage' = "parse" /\ u = Append(t, node) /\ current' = Len(t) + 1
      BY <1>1, <2>1, <2>8, <2>10, <3>0, <3>1 DEF ParseBlock
    <3>3. p \in NodeBlocks(text) /\ (t[c].type = TypeOf(text, Encloser(text, p)) => Nests(text, p))
      BY <2>2, <2>4, <2>10, AddedNests
    <3>4. w[1] = Word(text, p) /\ path = PathOf(text, p)
      BY <2>4, <3>3 DEF Word, PathOf, IsBlock, isBlockOk, NodeBlocks
    <3>5. node = NewNode(Word(text, p), c, PathOf(text, p)) /\ node.back_ref = c
      BY <3>1, <3>4 DEF NewNode
    <3>6. TreeSound'
      BY ParseBlockKeeps DEF SiteInv, ParserInv
    <3>7. Hangs(u) /\ DOMAIN u = 1..Len(u)
      <4>1. Hangs(tree)' /\ DOMAIN tree' = 1..Len(tree')
        BY <3>6, SeqFacts DEF TreeSound, Sound, Hangs
      <4> QED
        BY <2>1, <4>1 DEF Hangs
    <3> HIDE DEF path
    <3>8. Grown(t, u, node)
      <4>1. t \in Seq(ToSet(t) \cup {node}) /\ node \in ToSet(t) \cup {node}
        BY <2>1 DEF SiteInv, ParserInv, TreeSound, ToSet
      <4>2. Len(u) = Len(t) + 1 /\ u[Len(t) + 1] = node /\ \A n \in 1..Len(t) : u[n] = t[n]
        BY <3>2, <4>1, AppendProperties
      <4> QED
        BY <2>2, <3>7, <4>2 DEF Grown
    <3>9. Placed(text, p + 1, u, Len(t) + 1)
      BY <2>2, <2>3, <3>3, <3>5, <3>8, PlacedNode
    <3>10. ASSUME NoStray(text, p + 1) PROVE Kept(text, p + 1, u, k)
      <4>1. NoStray(text, p)
        BY <2>6, <3>10
      <4>2. NodesFit(text, p, t) /\ Nesting(text, p)
        BY <2>3, <4>1 DEF Kept
      <4>3. Nests(text, p)
        <5>1. p \in 1..(Len(text) + 1)
          BY <2>2, LevelAt DEF Gone
        <5> QED
          BY <2>2, <2>3, <3>3, <4>1, <4>2, <5>1, TypeHere DEF NodesFit
      <4>4. NodesFit(text, p + 1, u)
        BY <2>2, <2>3, <3>3, <3>5, <3>7, <3>8, <4>1, <4>2, <4>3, NodesByNode
      <4> QED
        BY <2>7, <4>1, <4>3, <4>4 DEF Kept
    <3>11. Built(text, p + 1, u, Len(t) + 1, k)
      BY <3>9, <3>10 DEF Built
    <3> QED
      BY <2>1, <2>2, <3>2, <3>11
  <2>11. CASE ~Plain(text, p) /\ ~AddedIn(t, c, w)
    <3>1. stage' = "refused"
      BY <1>1, <2>1, <2>8, <2>11, MayAddMeans DEF ParseBlock
    <3>2. ASSUME WellFormed(text) PROVE FALSE
      <4>1. NoStray(text, p)
        BY <2>2, <3>2, StraysRefused DEF Gone
      <4>2. NodesFit(text, p, t) /\ Nesting(text, p)
        BY <2>3, <4>1 DEF Kept
      <4> QED
        BY <2>2, <2>3, <2>4, <2>11, <3>2, <4>1, <4>2, NotAddedRefused
    <3> QED
      BY <2>1, <3>1, <3>2
  <2> QED
    BY <2>9, <2>10, <2>11
<1> QED
  BY <1>1, <1>2, <1>3 DEF BuildInv, Refuses

LEMMA BlockEndBuilds ==
    ASSUME SiteInv, TextInv, PassInv, BuildInv, ParseBlockEnd
    PROVE  /\ PassInv' /\ BuildInv' /\ Refuses /\ file' = file
           /\ stage' \in {"parse", "refused", "crashed"}
           /\ Outermost(file) => stage' # "crashed"
<1>1. /\ stage = "parse" /\ Advance("BLOCK_END") /\ UNCHANGED <<counts, tree>>
      /\ stage' \in {"parse", "refused", "crashed"} /\ file' = file
      /\ stage' = "parse" => depth' = depth - 1
  BY Reads DEF ParseBlockEnd
<1>2. PassInv'
  <2>1. Stepped("BLOCK_END", depth) = depth - 1
    BY DEF Stepped
  <2> QED
    BY <1>1, <2>1, PassesOn
<1>3. ASSUME Outermost(file)
      PROVE  /\ stage' = "parse" => Built(file, pos, tree, current, counts)'
             /\ stage' = "refused" => ~WellFormed(file)
             /\ stage' # "crashed"
  <2>1. PICK text, p, t, c, counted :
           /\ text = file /\ p = pos /\ t = tree /\ c = current /\ counted = counts
    OBVIOUS
  <2>2. /\ text \in Files /\ p \in 1..Len(text) /\ Gone(text) /\ Built(text, p, t, c, counted)
        /\ depth = Level(text)[p - 1] /\ counted \in [0..Len(text) -> Nat]
        /\ file' = text /\ pos' = p + 1 /\ ~Opening(text, p) /\ Closing(text, p)
        /\ ~IsDirective(text[p])
    BY <1>1, <1>3, <2>1, AtElement
  <2>3. Placed(text, p, t, c) /\ (NoStray(text, p) => Kept(text, p, t, counted))
    BY <2>2 DEF Built
  <2>4. /\ p \notin Blocks(text) /\ p \notin NodeBlocks(text)
        /\ depth \in Nat /\ depth >= 1 /\ p \in 1..(Len(text) + 1)
    BY <2>2, ElementCases, LevelAt DEF Gone, NodeBlocks
  <2>5. depth # 1 => c # 0
    <3> SUFFICES ASSUME depth # 1 PROVE c # 0
      OBVIOUS
    <3>1. c = NodeOf(text, Encloser(text, p))
      BY <2>2, <2>3, <2>4 DEF Placed, DirectedTo
    <3> QED
      BY <2>2, <3>1, NodeOfFacts
  <2>6. /\ current' = IF Level(text)[p - 1] = 1 THEN c ELSE t[c].back_ref
        /\ stage' = IF counted[Level(text)[p - 1]] = 0 THEN "refused" ELSE "parse"
    BY <1>1, <2>1, <2>2, <2>5 DEF ParseBlockEnd, Upwards
  <2>7. ASSUME NoStray(text, p)
        PROVE  counted[Level(text)[p - 1]] = 0 <=> DirectivesIn(text, Encloser(text, p), p) = {}
    <3> DEFINE e == Encloser(text, p)
    <3>1. e # 0 /\ Around(text, e, p)
      BY <2>2, <2>4, EncloserFacts DEF Gone
    <3>2. e \in 1..(p - 1) /\ Open(text, e, p) /\ Level(text)[e] = Level(text)[p - 1]
      BY <3>1 DEF Around, Open
    <3>3. Counted(text, p, counted)
      BY <2>3, <2>7 DEF Kept
    <3> HIDE DEF e
    <3> QED
      BY <3>2, <3>3 DEF Counted, e
  <2>8. CASE counted[Level(text)[p - 1]] = 0
    <3>1. ASSUME WellFormed(text) PROVE FALSE
      <4>1. NoStray(text, p)
        BY <2>2, <3>1, StraysRefused DEF Gone
      <4> QED
        BY <2>2, <2>7, <2>8, <3>1, <4>1, BareRefused
    <3> QED
      BY <2>1, <2>6, <2>8, <3>1
  <2>9. CASE counted[Level(text)[p - 1]] # 0
    <3>1. PICK d : d = IF Level(text)[p - 1] = 1 THEN c ELSE t[c].back_ref
      OBVIOUS
    <3>2. Placed(text, p + 1, t, d)
      BY <2>2, <2>3, <3>1, PlacedUp
    <3>3. ASSUME NoStray(text, p + 1) PROVE Kept(text, p + 1, t, counted)
      <4>1. NoStray(text, p)
        BY <2>2, <3>3, NoStrayAfter
      <4>2. /\ NodesFit(text, p, t) /\ Accepted(text, p) /\ Nesting(text, p)
            /\ Counted(text, p, counted) /\ Closed(text, p)
        BY <2>3, <4>1 DEF Kept
      <4>3. NodesFit(text, p + 1, t)
        BY <2>2, <2>4, <4>2, NodesBeyond
      <4>4. Accepted(text, p + 1)
        BY <2>2, <4>2, AcceptedAfter
      <4>5. Nesting(text, p + 1)
        BY <2>2, <2>4, <4>2, NestingAfter
      <4>6. Closed(text, p + 1)
        BY <2>2, <2>7, <2>9, <4>1, <4>2, ClosedAfter
      <4>7. Counted(text, p + 1, counted)
        BY <2>2, <4>2, CountedAfter
      <4> QED
        BY <4>3, <4>4, <4>5, <4>6, <4>7 DEF Kept
    <3>4. Built(text, p + 1, t, d, counted)
      BY <3>2, <3>3 DEF Built
    <3> QED
      BY <1>1, <2>1, <2>2, <2>6, <2>9, <3>1, <3>4
  <2> QED
    BY <2>8, <2>9
<1> QED
  BY <1>1, <1>2, <1>3 DEF BuildInv, Refuses

(* The end of the text.                                                    *)
DefaultIn(t, n) ==
    IF n.type = "server" /\ n.port = Unset /\ Cardinality(ServersIn(t)) = 1
    THEN [n EXCEPT !.port = 80] ELSE n
AsWritten(text, t) ==
    /\ Len(t) = 1 + Cardinality(NodeBlocks(text))
    /\ \A b \in {0} \cup NodeBlocks(text) :
          t[NodeOf(text, b)] = DefaultIn(t, FilledUpto(text, b, Len(text)))

LEMMA DefaultMeans ==
    /\ \A n : DefaultPort(n) = DefaultIn(tree, n)
    /\ (\A n \in DOMAIN tree : Sound(tree[n], n)) => (MinimumMet <=> MinimumIn(tree))
<1>1. Servers = ServersIn(tree)
  BY DEF Servers, Nodes, ServersIn
<1>2. \A n : DefaultPort(n) = DefaultIn(tree, n)
  BY <1>1, Zenon DEF DefaultPort, DefaultIn
<1>3. ASSUME \A n \in DOMAIN tree : Sound(tree[n], n) PROVE MinimumMet <=> MinimumIn(tree)
  <2>1. ASSUME NEW s \in Servers
        PROVE  DefaultPort(tree[s]).port # Unset <=>
                  tree[s].port # Unset \/ Cardinality(Servers) = 1
    <3>1. Sound(tree[s], s) /\ tree[s].type = "server"
      BY <1>3 DEF Servers, Nodes
    <3> QED
      BY <3>1 DEF DefaultPort, Sound, Unset
  <2>2. ASSUME NEW s
        PROVE  (\E n \in Nodes("location") : tree[n].back_ref = s) <=>
                  \E n \in DOMAIN tree : tree[n].type = "location" /\ tree[n].back_ref = s
    BY DEF Nodes
  <2> QED
    BY <1>1, <2>1, <2>2 DEF MinimumMet, MinimumIn
<1> QED
  BY <1>2, <1>3

LEMMA TreeAsWrittenMeans ==
    TreeAsWritten <=> (stage = "parsed" /\ Outermost(file) => AsWritten(file, tree))
<1>1. PICK text : text = file
  OBVIOUS
<1> DEFINE new(i) == IF i = 0 THEN NewNode("http", 0, Empty)
                     ELSE NewNode(Word(text, i), NodeOf(text, Encloser(text, i)),
                                  IF Word(text, i) = "location" THEN text[i].words[2] ELSE Empty)
<1>2. ASSUME NEW i
      PROVE  DefaultPort(Filled(text, new(i), DirectivesOf(text, NodeOf(text, i)), Len(text)))
                = DefaultIn(tree, FilledUpto(text, i, Len(text)))
  <2>1. new(i) = NewOf(text, i)
    BY DEF NewOf, PathOf
  <2> HIDE DEF new
  <2> QED
    BY <2>1, DefaultMeans DEF FilledUpto
<1> QED
  BY <1>1, <1>2 DEF TreeAsWritten, AsWritten

LEMMA EndBuilds ==
    ASSUME SiteInv, TextInv, PassInv, BuildInv, ParseEnd
    PROVE  /\ file' = file /\ stage' \in {"parsed", "refused"} /\ Refuses
           /\ stage' = "parsed" /\ Outermost(file) => WellFormed(file) /\ AsWritten(file, tree)'
<1>1. /\ stage = "parse" /\ UNCHANGED parserVars /\ file' = file
      /\ stage' = "parsed" <=> current = 1 /\ depth = 0 /\ MinimumMet
      /\ stage' = "parsed" => tree' = [n \in DOMAIN tree |-> DefaultPort(tree[n])]
      /\ stage' \in {"parsed", "refused"}
  BY DEF ParseEnd, parserVars
<1> SUFFICES ASSUME Outermost(file)
             PROVE  /\ stage' = "refused" => ~WellFormed(file)
                    /\ stage' = "parsed" => WellFormed(file) /\ AsWritten(file, tree)'
  BY <1>1 DEF Refuses
<1>2. PICK text, t, c, counted, u :
         text = file /\ t = tree /\ c = current /\ counted = counts /\ u = tree'
  OBVIOUS
<1>3. /\ text \in Files /\ Len(text) \in Nat /\ SecondFits(text, pos, depth, nesting)
      /\ TreeSound /\ pos \in 1..(Len(text) + 1)
  BY <1>1, <1>2, TextIsSeq DEF SiteInv, ParserInv, CursorType, PassInv
<1>4. pos = Len(text) + 1
  <2> SUFFICES ASSUME pos \in 1..Len(text) PROVE FALSE
    BY <1>3
  <2>1. Detected(text, pos, nesting) = "BAD_TYPE"
    BY <1>2, DetectedIs DEF ParseEnd
  <2>2. Detected(text, pos, nesting) # "BAD_TYPE"
    BY <1>3, SecondStep
  <2> QED
    BY <2>1, <2>2
<1>5. /\ Gone(text) /\ depth = Level(text)[Len(text)]
      /\ Placed(text, Len(text) + 1, t, c)
      /\ NoStray(text, Len(text) + 1) => Kept(text, Len(text) + 1, t, counted)
  <2>1. (Len(text) + 1) - 1 = Len(text)
    BY <1>3
  <2> QED
    BY <1>1, <1>2, <1>3, <1>4, <2>1 DEF SecondFits, Gone, BuildInv, Built
<1>6. DOMAIN t = 1..Len(t) /\ \A n \in DOMAIN t : Sound(t[n], n)
  BY <1>2, <1>3, TreeHangs DEF TreeSound
<1>7. depth = 0 => (c = 1 <=> NoStray(text, Len(text) + 1))
  <2>1. (Len(text) + 1) - 1 = Len(text)
    BY <1>3
  <2>2. Level(text)[(Len(text) + 1) - 1] <= 1 => (c = 1 <=> NoStray(text, Len(text) + 1))
    BY <1>5 DEF Placed, DirectedTo
  <2>3. depth = 0 => Level(text)[(Len(text) + 1) - 1] = 0
    BY <1>5, <2>1, Zenon
  <2>4. depth = 0 => Level(text)[(Len(text) + 1) - 1] <= 1
    BY <2>3
  <2> QED
    BY <2>2, <2>4, Zenon
<1>8. MinimumMet <=> MinimumIn(t)
  BY <1>2, <1>6, DefaultMeans
<1>9. NoStray(text, Len(text) + 1) => (MinimumIn(t) <=> ServersComplete(text))
  BY <1>3, <1>5, <1>6, CompleteMeans
<1>10. ASSUME stage' = "refused", WellFormed(text) PROVE FALSE
  <2>1. NoStray(text, Len(text) + 1)
    BY <1>3, <1>5, <1>10, StraysRefused DEF Gone
  <2>2. depth = 0
    BY <1>5, <1>10 DEF WellFormed, Balanced
  <2>3. ServersComplete(text)
    BY <1>10 DEF WellFormed
  <2> QED
    BY <1>1, <1>2, <1>7, <1>8, <1>9, <1>10, <2>1, <2>2, <2>3
<1>11. ASSUME stage' = "parsed" PROVE WellFormed(text) /\ AsWritten(text, u)
  <2>1. c = 1 /\ depth = 0 /\ MinimumIn(t) /\ NoStray(text, Len(text) + 1)
    BY <1>1, <1>2, <1>7, <1>8, <1>11
  <2>2. Kept(text, Len(text) + 1, t, counted) /\ NodesFit(text, Len(text) + 1, t)
    BY <1>5, <2>1 DEF Kept
  <2>3. Balanced(text) /\ \A i \in DOMAIN text : WellPlaced(text, i)
    BY <1>3, <1>5, <2>1, <2>2, EndsWellPlaced
  <2>4. ApartIn(t)
    BY <1>2, ApartMeans DEF TextInv
  <2>5. PathsDiffer(text)
    BY <1>3, <1>5, <1>6, <2>2, <2>4, EndsApart
  <2>6. WellFormed(text)
    BY <1>9, <2>1, <2>3, <2>5 DEF WellFormed
  <2>7. DOMAIN u = DOMAIN t /\ \A n \in DOMAIN t : u[n] = DefaultIn(t, t[n])
    BY <1>1, <1>2, <1>11, DefaultMeans
  <2>8. Len(u) = Len(t)
    <3>1. DOMAIN u = 1..Len(u) /\ Len(u) \in Nat
      <4>1. TreeSound'
        BY ParseEndKeeps DEF SiteInv, ParserInv
      <4> QED
        BY <1>2, <4>1, SeqFacts DEF TreeSound
    <3>2. Len(t) \in Nat
      BY <1>2, <1>3, SeqFacts DEF TreeSound
    <3> QED
      BY <1>6, <2>7, <3>1, <3>2, SameLength
  <2>9. ServersIn(u) = ServersIn(t)
    <3>1. ASSUME NEW n \in DOMAIN t PROVE u[n].type = t[n].type
      <4>1. Sound(t[n], n) /\ u[n] = DefaultIn(t, t[n])
        BY <1>6, <2>7
      <4> QED
        BY <4>1 DEF DefaultIn, Sound
    <3> QED
      BY <2>7, <3>1 DEF ServersIn
  <2>10. Len(u) = 1 + Cardinality(NodeBlocks(text))
    <3>1. Upto(text, (Len(text) + 1) - 1) = NodeBlocks(text)
      BY <1>3, UptoFacts
    <3> QED
      BY <1>5, <2>8, <3>1 DEF Placed, Numbered
  <2>11. ASSUME NEW b \in {0} \cup NodeBlocks(text)
         PROVE  u[NodeOf(text, b)] = DefaultIn(u, FilledUpto(text, b, Len(text)))
    <3>1. b < Len(text) + 1 /\ (Len(text) + 1) - 1 = Len(text)
      BY <1>3, NodeOfFacts
    <3>2. NodeOf(text, b) \in DOMAIN t
      <4>1. Len(t) \in Nat /\ Len(t) >= 1 /\ (b \in NodeBlocks(text) => NodeOf(text, b) \in 2..Len(t))
            /\ (b \notin NodeBlocks(text) => NodeOf(text, b) = 1)
        <5>1. Len(text) + 1 \in 1..(Len(text) + 1)
          BY <1>3
        <5> QED
          BY <1>3, <1>5, <3>1, <5>1, NodeInTree DEF Placed
      <4> QED
        BY <1>6, <4>1
    <3>3. t[NodeOf(text, b)] = FilledUpto(text, b, Len(text))
      BY <2>2, <3>1 DEF NodesFit, AllFilled
    <3>4. u[NodeOf(text, b)] = DefaultIn(t, FilledUpto(text, b, Len(text)))
      BY <2>7, <3>2, <3>3
    <3> QED
      BY <2>9, <3>4, Zenon DEF DefaultIn
  <2> QED
    BY <2>6, <2>10, <2>11 DEF AsWritten
<1> QED
  BY <1>1, <1>2, <1>10, <1>11

-----------------------------------------------------------------------------
(* The program goes through the passes and keeps what they come to.        *)

VerdictInv ==
    /\ stage = "refused" /\ Outermost(file) => ~WellFormed(file)
    /\ stage = "parsed" /\ Outermost(file) => WellFormed(file) /\ AsWritten(file, tree)
    /\ stage = "crashed" /\ Outermost(file) => last # NoAnswer
ReadingInv == PassInv /\ BuildInv /\ VerdictInv

LEMMA Init_ReadingInv == Init => ReadingInv
<1> SUFFICES ASSUME Init PROVE ReadingInv
  OBVIOUS
<1>1. file \in Files /\ stage = "validate" /\ pos = 1 /\ nesting = 0
      /\ counts = [d \in 0..Len(file) |-> 0]
  BY DEF Init, ParserInit
<1>2. Level(file)[1 - 1] = 0
  BY <1>1, LevelSteps DEF Levels
<1>3. FirstFits(file, 1, 0)
  BY <1>2 DEF FirstFits
<1> QED
  BY <1>1, <1>3 DEF ReadingInv, PassInv, BuildInv, VerdictInv

LEMMA ParsesReading ==
    ASSUME SiteInv, TextInv, ReadingInv, Parses
    PROVE  ReadingInv'
<1>0. PassInv /\ BuildInv
  BY DEF ReadingInv
<1>1. CASE Validate
  BY <1>0, <1>1, ValidatePasses DEF ReadingInv, VerdictInv, Refuses
<1>2. CASE Validated
  BY <1>0, <1>2, ValidatedPasses DEF ReadingInv, VerdictInv
<1>3. CASE ParseDirective
  BY <1>0, <1>3, DirectiveBuilds DEF ReadingInv, VerdictInv, Refuses
<1>4. CASE ParseBlock
  BY <1>0, <1>4, BlockBuilds DEF ReadingInv, VerdictInv, Refuses
<1>5. CASE ParseBlockEnd
  BY <1>0, <1>5, BlockEndBuilds DEF ReadingInv, VerdictInv, Refuses
<1>6. CASE ParseEnd
  <2>1. /\ file' = file /\ stage' \in {"parsed", "refused"} /\ Refuses
        /\ stage' = "parsed" /\ Outermost(file) => WellFormed(file) /\ AsWritten(file, tree)'
    BY <1>0, <1>6, EndBuilds
  <2> QED
    BY <2>1 DEF ReadingInv, PassInv, BuildInv, VerdictInv, Refuses
<1> QED
  BY <1>1, <1>2, <1>3, <1>4, <1>5, <1>6 DEF Parses, ParserNext

LEMMA CrashIsAnswered ==
    ASSUME NEW q, getResponse(q), stage' = "crashed"
    PROVE  last' # NoAnswer
<1> DEFINE r == Route(q)
<1>1. CASE Hang(q, r)
  BY <1>1 DEF Hang, Ends
<1>2. CASE PostCrashes(q, r)
  BY <1>2 DEF PostCrashes, Ends, NoAnswer
<1>3. CASE last'.what \in {"error", "redirect", "script", "uploaded", "file", "listing", "deleted"}
  BY <1>3 DEF NoAnswer
<1> HIDE DEF r
<1> QED
  BY <1>1, <1>2, <1>3, OtherAnswers DEF r

LEMMA Next_ReadingInv == SiteInv /\ TextInv /\ ReadingInv /\ [Next]_vars => ReadingInv'
<1> SUFFICES ASSUME SiteInv, TextInv, ReadingInv, [Next]_vars PROVE ReadingInv'
  OBVIOUS
<1>1. CASE Parses
  BY <1>1, ParsesReading
<1>2. CASE Opens
  <2>1. /\ stage = "parsed" /\ tree' = tree /\ file' = file
        /\ stage' \in {"parsed", "serving", "unserved"}
    BY <1>2 DEF Opens, ListeningNext, OpenSocket, OpenFails, AllOpen, parserVars
  <2> QED
    BY <2>1 DEF ReadingInv, PassInv, BuildInv, VerdictInv
<1>3. CASE Responds
  <2>1. PICK q \in Requests : getResponse(q)
    BY <1>3 DEF Responds
  <2>2. stage' \in {"serving", "hung", "crashed"} /\ (stage' = "crashed" => last' # NoAnswer)
    BY <2>1, AnswerStage, CrashIsAnswered
  <2> QED
    BY <2>2 DEF ReadingInv, PassInv, BuildInv, VerdictInv, NoAnswer
<1>4. CASE Reconnects
  <2>1. stage' = "serving"
    BY <1>4 DEF Reconnects, NewConnection
  <2> QED
    BY <2>1 DEF ReadingInv, PassInv, BuildInv, VerdictInv
<1>5. CASE Ended \/ UNCHANGED vars
  BY <1>5 DEF Ended, vars, parserVars, routingVars, ReadingInv, PassInv, BuildInv, VerdictInv
<1> QED
  BY <1>1, <1>2, <1>3, <1>4, <1>5 DEF Next

LEMMA SpecReading == Spec => []ReadingInv
  BY Init_ReadingInv, Next_ReadingInv, SpecText, PTL DEF Spec

(* A text whose http and events stand outermost is accepted if and only if *)
(* its blocks nest, each with a directive and all directives where they    *)
(* are known, every location with a path of its own and every server with  *)
(* a location and, but for a single one, a port: although the second pass  *)
(* counts on from what the first one has left in the static depth, goes up *)
(* by comparing depths with a bool and notices a server outside http only  *)
(* at the end, by where the pointer stands (Parser::Parse, DetectNextType, *)
(* minimum_value_check).                                                   *)
THEOREM VerdictAlwaysFits == Spec => []VerdictFits
<1>1. ReadingInv => VerdictFits
  BY DEF ReadingInv, VerdictInv, VerdictFits
<1> QED
  BY <1>1, SpecReading, PTL

(* The tree of an accepted text whose http and events stand outermost is   *)
(* the text's: a node for each server and location and no other, in the    *)
(* order they are written, hanging from the block it is written in, with   *)
(* exactly the directives that stand directly in it, in their order        *)
(* (Parser::Parse, ParserFiller, AddBlock).                                *)
THEOREM TreeIsTheText == Spec => []TreeAsWritten
<1>1. ReadingInv => TreeAsWritten
  BY TreeAsWrittenMeans DEF ReadingInv, VerdictInv
<1> QED
  BY <1>1, SpecReading, PTL
=============================================================================
