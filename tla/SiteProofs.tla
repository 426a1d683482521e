----------------------------- MODULE SiteProofs -----------------------------
(***************************************************************************)
(* Theorems about Site, for every set of texts, requests and files: the    *)
(* parser's depth stays that of the text in both passes, the tree points   *)
(* upwards, the ports that are open are the tree's, and the disk changes   *)
(* only as the answers say.                                                *)
(***************************************************************************)
EXTENDS Site, FiniteSetTheorems, SequenceTheorems, TLAPS

-----------------------------------------------------------------------------
(* The blocks that are open before element i, counted.                     *)

Before(i, e) == {j \in 1..(i - 1) : file[j].end = e}
OpenAt(i) == Cardinality(Before(i, "open")) - Cardinality(Before(i, "close"))

(* Every closing brace before element i has a block to close.              *)
ClosersFit(i) == \A j \in 1..(i - 1) : file[j].end = "close" => OpenAt(j) \in Nat \ {0}

(* Counting braces: finite sets, from none before the first element, one   *)
(* more or none at each.                                                   *)
LEMMA BeforeFinite ==
    ASSUME NEW i \in Nat \ {0}, NEW e
    PROVE  /\ IsFiniteSet(Before(i, e)) /\ Cardinality(Before(i, e)) \in 0..(i - 1)
           /\ i \notin Before(i, e)
           /\ i = 1 => Cardinality(Before(i, e)) = 0
<1>1. IsFiniteSet(1..(i - 1)) /\ Cardinality(1..(i - 1)) = i - 1
  BY FS_Interval
<1>2. Before(i, e) \subseteq 1..(i - 1)
  BY DEF Before
<1>3. /\ IsFiniteSet(Before(i, e))
      /\ Cardinality(Before(i, e)) <= i - 1
  BY <1>1, <1>2, FS_Subset
<1>4. Cardinality(Before(i, e)) \in Nat
  BY <1>3, FS_CardinalityType
<1>5. i = 1 => Before(i, e) = {}
  BY <1>2
<1> QED
  BY <1>2, <1>3, <1>4, <1>5, FS_EmptySet

LEMMA BeforeNext ==
    ASSUME NEW i \in Nat \ {0}, NEW e
    PROVE  Cardinality(Before(i + 1, e)) =
              Cardinality(Before(i, e)) + (IF file[i].end = e THEN 1 ELSE 0)
<1>1. CASE file[i].end = e
  <2>1. Before(i + 1, e) = Before(i, e) \cup {i}
    BY <1>1 DEF Before
  <2> QED
    BY <1>1, <2>1, BeforeFinite, FS_AddElement
<1>2. CASE file[i].end # e
  <2>1. Before(i + 1, e) = Before(i, e)
    BY <1>2 DEF Before
  <2> QED
    BY <1>2, <2>1, BeforeFinite
<1> QED
  BY <1>1, <1>2

LEMMA OpenSteps ==
    ASSUME NEW i \in Nat \ {0}
    PROVE  /\ OpenAt(i) \in Int /\ OpenAt(i) <= i - 1
           /\ i = 1 => OpenAt(i) = 0
           /\ file[i].end = "open" => OpenAt(i + 1) = OpenAt(i) + 1
           /\ file[i].end = "close" => OpenAt(i + 1) = OpenAt(i) - 1
           /\ file[i].end \notin {"open", "close"} => OpenAt(i + 1) = OpenAt(i)
<1> DEFINE opened == Cardinality(Before(i, "open"))
           closed == Cardinality(Before(i, "close"))
           openedNext == Cardinality(Before(i + 1, "open"))
           closedNext == Cardinality(Before(i + 1, "close"))
<1>1. /\ opened \in 0..(i - 1) /\ closed \in 0..(i - 1)
      /\ i = 1 => opened = 0 /\ closed = 0
  BY BeforeFinite
<1>2. /\ openedNext = opened + (IF file[i].end = "open" THEN 1 ELSE 0)
      /\ closedNext = closed + (IF file[i].end = "close" THEN 1 ELSE 0)
  BY BeforeNext
<1>3. OpenAt(i) = opened - closed /\ OpenAt(i + 1) = openedNext - closedNext
  BY DEF OpenAt
<1> HIDE DEF opened, closed, openedNext, closedNext
<1>4. OpenAt(i) \in Int /\ OpenAt(i) <= i - 1 /\ (i = 1 => OpenAt(i) = 0)
  BY <1>1, <1>3
<1>5. CASE file[i].end = "open"
  BY <1>1, <1>2, <1>3, <1>4, <1>5
<1>6. CASE file[i].end = "close"
  BY <1>1, <1>2, <1>3, <1>4, <1>6
<1>7. CASE file[i].end \notin {"open", "close"}
  BY <1>1, <1>2, <1>3, <1>4, <1>7
<1> QED
  BY <1>4, <1>5, <1>6, <1>7

LEMMA ClosersNext ==
    ASSUME NEW i \in Nat \ {0}, ClosersFit(i),
           file[i].end = "close" => OpenAt(i) \in Nat \ {0}
    PROVE  ClosersFit(i + 1)
  BY DEF ClosersFit

-----------------------------------------------------------------------------
(* The tree is a sequence whose nodes point to earlier ones.               *)

Sound(n, bound) ==
    /\ "type" \in DOMAIN n /\ "back_ref" \in DOMAIN n
    /\ "port" \in DOMAIN n /\ "code" \in DOMAIN n
    /\ n.back_ref \in 0..(bound - 1) /\ n.type \in {"http", "server", "location"}
    /\ n.port \in {Unset} \cup PortNumbers /\ n.code \in {Unset} \cup 300..400
TreeSound == tree \in Seq(ToSet(tree)) /\ \A n \in DOMAIN tree : Sound(tree[n], n)

LEMMA FunctionIsSeq ==
    ASSUME NEW n \in Nat, NEW f, DOMAIN f = 1..n, f = [i \in DOMAIN f |-> f[i]]
    PROVE  f \in Seq(ToSet(f)) /\ Len(f) = n
<1>1. f \in [1..n -> ToSet(f)]
  BY DEF ToSet
<1> QED
  BY <1>1

LEMMA SeqOfItsElements ==
    ASSUME NEW S, NEW s \in Seq(S)
    PROVE  s \in Seq(ToSet(s))
<1>1. PICK n \in Nat : s \in [1..n -> S]
  BY SeqDef
<1>2. s \in [1..n -> ToSet(s)]
  BY <1>1 DEF ToSet
<1> QED
  BY <1>2

LEMMA SeqFacts ==
    ASSUME NEW s, s \in Seq(ToSet(s))
    PROVE  Len(s) \in Nat /\ DOMAIN s = 1..Len(s)
  BY DEF ToSet

(* A directive changes neither what kind of block a node is nor where it   *)
(* hangs, and its numbers have been tested.                                *)
LEMMA FillSound ==
    ASSUME NEW n, NEW w, NEW bound, Sound(n, bound), Accepts(n.type, w)
    PROVE  Sound(FillDirective(n, w), bound)
<1> DEFINE m == FillDirective(n, w)
<1>1. CASE w[1] = "listen"
  <2>1. m = Listen(n, w[2])
    BY <1>1 DEF FillDirective
  <2>2. verifyPort(w[2].port) \in {Unset} \cup PortNumbers
    BY DEF verifyPort
  <2> QED
    BY <2>1, <2>2 DEF Listen, Sound
<1>2. CASE w[1] = "return" /\ Len(w) = 3
  <2>1. w[2] \in 300..400
    BY <1>2 DEF Accepts
  <2>2. m = [n EXCEPT !.code = w[2], !.url = w[3]]
    BY <1>2 DEF FillDirective
  <2> QED
    BY <2>1, <2>2 DEF Sound
<1>3. CASE w[1] = "error_page"
  <2>1. m = Pages(n, w)
    BY <1>3 DEF FillDirective
  <2> QED
    BY <2>1 DEF Pages, Sound
<1>4. CASE w[1] \notin {"listen", "error_page"} /\ ~(w[1] = "return" /\ Len(w) = 3)
  BY <1>4 DEF FillDirective, Sound
<1> QED
  BY <1>1, <1>2, <1>3, <1>4

LEMMA NewSound ==
    ASSUME NEW type \in {"http", "server", "location"}, NEW parent, NEW path,
           NEW bound, parent \in 0..(bound - 1)
    PROVE  Sound(NewNode(type, parent, path), bound)
  BY DEF NewNode, Sound

LEMMA DefaultSound ==
    ASSUME NEW n, NEW bound, Sound(n, bound)
    PROVE  Sound(DefaultPort(n), bound) /\ DefaultPort(n).type = n.type
<1>1. 80 \in PortNumbers
  BY DEF PortNumbers
<1> QED
  BY <1>1 DEF DefaultPort, Sound

-----------------------------------------------------------------------------
(* What the parser keeps.  The first pass counts in nesting, from 0, and   *)
(* only lets a brace close what is open; the second counts in depth, and   *)
(* is at the same depth at the same element, whatever nesting was left at. *)

FirstPass ==
    stage = "validate" =>
      /\ depth = 0 /\ current = 1 /\ tree = <<NewNode("http", 0, Empty)>>
      /\ nesting = OpenAt(pos) /\ ClosersFit(pos)
SecondPass == stage = "parse" => depth = OpenAt(pos) /\ ClosersFit(Len(file) + 1)

CursorType ==
    /\ stage \in Stages /\ file \in Files /\ pos \in 1..(Len(file) + 1)
    /\ nesting \in Nat /\ depth \in 0..Len(file) /\ counts \in [0..Len(file) -> Nat]
    /\ current \in 0..Len(tree)

ParserInv == CursorType /\ TreeSound /\ FirstPass /\ SecondPass

LEMMA TextIsSeq ==
    ASSUME file \in Files
    PROVE  Len(file) \in Nat /\ DOMAIN file = 1..Len(file)
  BY FilesAssumption, SeqFacts

LEMMA ParserInit_ParserInv == ParserInit => ParserInv
<1> SUFFICES ASSUME ParserInit PROVE ParserInv
  OBVIOUS
<1> USE DEF ParserInit
<1>1. Len(file) \in Nat
  BY TextIsSeq
<1>2. CursorType
  BY <1>1 DEF CursorType, Stages
<1>3. TreeSound
  <2>1. Sound(NewNode("http", 0, Empty), 1)
    BY NewSound
  <2>2. Len(tree) = 1 /\ tree[1] = NewNode("http", 0, Empty) /\ DOMAIN tree = 1..1
    OBVIOUS
  <2>3. tree \in Seq(ToSet(tree))
    BY <2>2, FunctionIsSeq
  <2> QED
    BY <2>1, <2>2, <2>3 DEF TreeSound
<1>4. FirstPass
  <2>1. OpenAt(1) = 0
    BY OpenSteps
  <2>2. ClosersFit(1)
    BY DEF ClosersFit
  <2> QED
    BY <2>1, <2>2 DEF FirstPass
<1>5. SecondPass
  BY DEF SecondPass
<1> QED
  BY <1>2, <1>3, <1>4, <1>5 DEF ParserInv

(* The cursor goes past one element, whose kind its end tells.             *)
LEMMA AdvanceFacts ==
    ASSUME CursorType, NEW type, Advance(type)
    PROVE  /\ file' = file /\ Len(file) \in Nat /\ pos \in 1..Len(file)
           /\ pos' = pos + 1 /\ nesting' \in Nat
           /\ type = "DIRECTIVE" => file[pos].end = "semicolon" /\ nesting' = nesting
           /\ type = "BLOCK" => file[pos].end = "open" /\ nesting' = nesting + 1
           /\ type = "BLOCK_END" =>
                 file[pos].end = "close" /\ nesting \in Nat \ {0} /\ nesting' = nesting - 1
<1>1. Len(file) \in Nat
  BY TextIsSeq DEF CursorType
<1>2. file' = file /\ pos \in 1..Len(file) /\ pos' = pos + 1 /\ DetectNextType(pos) = type
  BY <1>1 DEF Advance, CursorType
<1>3. type = "DIRECTIVE" => file[pos].end = "semicolon" /\ nesting' = nesting
  BY <1>2 DEF Advance, DetectNextType, IsDirective
<1>4. type = "BLOCK" => file[pos].end = "open" /\ nesting' = nesting + 1
  BY <1>2 DEF Advance, DetectNextType, IsBlock
<1>5. type = "BLOCK_END" => file[pos].end = "close" /\ nesting > 0 /\ nesting' = nesting - 1
  BY <1>2 DEF Advance, DetectNextType, IsBlockEnd
<1>6. type \notin {"BLOCK", "BLOCK_END"} => nesting' = nesting
  BY DEF Advance
<1>7. nesting \in Nat
  BY DEF CursorType
<1> QED
  BY <1>1, <1>2, <1>3, <1>4, <1>5, <1>6, <1>7

(* Past that element, as many blocks are open and as many closers fit as   *)
(* its end says.                                                           *)
LEMMA OpenNext ==
    ASSUME CursorType, NEW type, Advance(type)
    PROVE  /\ OpenAt(pos) \in Int /\ OpenAt(pos) <= pos - 1
           /\ OpenAt(pos)' = OpenAt(pos + 1)
           /\ type = "DIRECTIVE" => OpenAt(pos + 1) = OpenAt(pos)
           /\ type = "BLOCK" => OpenAt(pos + 1) = OpenAt(pos) + 1
           /\ type = "BLOCK_END" => OpenAt(pos + 1) = OpenAt(pos) - 1
<1>1. /\ file' = file /\ pos \in Nat \ {0} /\ pos' = pos + 1
      /\ type = "DIRECTIVE" => file[pos].end = "semicolon"
      /\ type = "BLOCK" => file[pos].end = "open"
      /\ type = "BLOCK_END" => file[pos].end = "close"
  BY AdvanceFacts
<1>2. OpenAt(pos)' = OpenAt(pos + 1)
  BY <1>1 DEF OpenAt, Before
<1> QED
  BY <1>1, <1>2, OpenSteps

LEMMA SameClosers ==
    ASSUME file' = file
    PROVE  ClosersFit(Len(file) + 1)' <=> ClosersFit(Len(file) + 1)
  BY DEF ClosersFit, OpenAt, Before

LEMMA ValidateKeeps ==
    ASSUME ParserInv, Validate
    PROVE  ParserInv'
<1> USE DEF ParserInv
<1>1. PICK type \in {"DIRECTIVE", "BLOCK", "BLOCK_END", "BAD_TYPE"} :
         Advance(type) /\ stage' = IF type = "BAD_TYPE" THEN "refused" ELSE stage
  BY DEF Validate
<1>2. stage = "validate" /\ UNCHANGED <<depth, counts, current, tree>>
  BY DEF Validate
<1>3. CursorType'
  BY <1>1, <1>2, AdvanceFacts DEF CursorType, Stages
<1>4. TreeSound'
  BY <1>2 DEF TreeSound, Sound
<1>5. FirstPass'
  <2> SUFFICES ASSUME stage' = "validate" PROVE FirstPass'
    BY DEF FirstPass
  <2>1. type # "BAD_TYPE"
    BY <1>1
  <2>2. nesting = OpenAt(pos) /\ ClosersFit(pos) /\ depth = 0 /\ current = 1
        /\ tree = <<NewNode("http", 0, Empty)>>
    BY <1>2 DEF FirstPass
  <2>3. /\ pos \in Nat \ {0} /\ file' = file /\ pos' = pos + 1
        /\ file[pos].end = "close" => type = "BLOCK_END"
        /\ type = "BLOCK_END" => nesting \in Nat \ {0}
    BY <1>1, <2>1, AdvanceFacts
  <2>4. nesting' = OpenAt(pos)'
    BY <1>1, <2>1, <2>2, AdvanceFacts, OpenNext
  <2>5. ClosersFit(pos + 1)
    BY <2>2, <2>3, ClosersNext
  <2>6. ClosersFit(pos)'
    BY <2>3, <2>5 DEF ClosersFit, OpenAt, Before
  <2> QED
    BY <1>2, <2>2, <2>4, <2>6 DEF FirstPass, NewNode
<1>6. SecondPass'
  BY <1>1, <1>2 DEF SecondPass
<1> QED
  BY <1>3, <1>4, <1>5, <1>6

LEMMA ValidatedKeeps ==
    ASSUME ParserInv, Validated
    PROVE  ParserInv'
<1> USE DEF ParserInv
<1>1. /\ stage = "validate" /\ pos > Len(file) /\ stage' = "parse" /\ pos' = 1
      /\ UNCHANGED <<file, nesting, depth, counts, current, tree>>
  BY DEF Validated
<1>2. Len(file) \in Nat
  BY TextIsSeq DEF CursorType
<1>3. CursorType'
  BY <1>1, <1>2 DEF CursorType, Stages
<1>4. TreeSound'
  BY <1>1 DEF TreeSound, Sound
<1>5. FirstPass'
  BY <1>1 DEF FirstPass
<1>6. SecondPass'
  <2>1. pos = Len(file) + 1 /\ ClosersFit(pos) /\ depth = 0
    BY <1>1, <1>2 DEF FirstPass, CursorType
  <2>2. OpenAt(1) = 0
    BY OpenSteps
  <2>3. OpenAt(pos)' = 0
    BY <1>1, <2>2 DEF OpenAt, Before
  <2>4. ClosersFit(Len(file) + 1)'
    BY <1>1, <2>1, SameClosers
  <2> QED
    BY <1>1, <2>1, <2>3, <2>4 DEF SecondPass
<1> QED
  BY <1>3, <1>4, <1>5, <1>6

(* Changing one node for a sound one, or adding one, keeps the tree sound. *)
LEMMA ChangedSound ==
    ASSUME TreeSound, NEW k \in DOMAIN tree, NEW v, Sound(v, k),
           tree' = [tree EXCEPT ![k] = v]
    PROVE  TreeSound' /\ Len(tree') = Len(tree)
<1>1. Len(tree) \in Nat /\ DOMAIN tree = 1..Len(tree)
  BY SeqFacts DEF TreeSound
<1>2. DOMAIN tree' = 1..Len(tree) /\ \A n \in DOMAIN tree : tree'[n] = IF n = k THEN v ELSE tree[n]
  BY <1>1
<1>3. tree' \in Seq(ToSet(tree')) /\ Len(tree') = Len(tree)
  BY <1>1, <1>2, FunctionIsSeq
<1>4. \A n \in DOMAIN tree' : Sound(tree'[n], n)
  BY <1>1, <1>2 DEF TreeSound
<1> QED
  BY <1>3, <1>4 DEF TreeSound

LEMMA GrownSound ==
    ASSUME TreeSound, NEW v, Sound(v, Len(tree) + 1), tree' = Append(tree, v)
    PROVE  TreeSound' /\ Len(tree') = Len(tree) + 1
<1> DEFINE S == ToSet(tree) \cup {v}
<1>1. tree \in Seq(ToSet(tree)) /\ Len(tree) \in Nat /\ DOMAIN tree = 1..Len(tree)
  BY SeqFacts DEF TreeSound
<1>2. tree \in Seq(S) /\ v \in S
  BY <1>1 DEF ToSet
<1>3. /\ Len(tree') = Len(tree) + 1 /\ tree' \in Seq(S) /\ tree'[Len(tree) + 1] = v
      /\ \A n \in 1..Len(tree) : tree'[n] = tree[n]
  BY <1>2, AppendProperties
<1>4. DOMAIN tree' = 1..(Len(tree) + 1)
  BY <1>1, <1>3
<1>5. tree' \in Seq(ToSet(tree'))
  BY <1>3, SeqOfItsElements
<1>6. \A n \in DOMAIN tree' : Sound(tree'[n], n)
  BY <1>1, <1>3, <1>4 DEF TreeSound
<1> QED
  BY <1>3, <1>5, <1>6 DEF TreeSound

LEMMA ParseDirectiveKeeps ==
    ASSUME ParserInv, ParseDirective
    PROVE  ParserInv'
<1> USE DEF ParserInv
<1> DEFINE w == file[pos].words
<1>1. /\ stage = "parse" /\ Advance("DIRECTIVE") /\ UNCHANGED <<depth, current>>
      /\ counts' = [counts EXCEPT ![depth] = @ + 1] /\ stage' \in {"parse", "refused"}
  BY DEF ParseDirective
<1>2. TreeSound' /\ Len(tree') = Len(tree)
  <2>1. CASE current # 0 /\ Accepts(tree[current].type, w)
    <3>1. current \in DOMAIN tree
      BY <2>1, SeqFacts DEF CursorType, TreeSound
    <3>2. Sound(FillDirective(tree[current], w), current)
      BY <2>1, <3>1, FillSound DEF TreeSound
    <3>3. tree' = [tree EXCEPT ![current] = FillDirective(tree[current], w)]
      BY <2>1 DEF ParseDirective
    <3> QED
      BY <3>1, <3>2, <3>3, ChangedSound
  <2>2. CASE ~(current # 0 /\ Accepts(tree[current].type, w))
    BY <2>2 DEF ParseDirective, TreeSound
  <2> QED
    BY <2>1, <2>2
<1>3. CursorType'
  BY <1>1, <1>2, AdvanceFacts DEF CursorType, Stages
<1>4. FirstPass'
  BY <1>1 DEF FirstPass
<1>5. SecondPass'
  <2>1. depth = OpenAt(pos) /\ ClosersFit(Len(file) + 1)
    BY <1>1 DEF SecondPass
  <2>2. OpenAt(pos)' = depth /\ file' = file
    BY <1>1, <2>1, AdvanceFacts, OpenNext
  <2> QED
    BY <1>1, <2>1, <2>2, SameClosers DEF SecondPass
<1> QED
  BY <1>2, <1>3, <1>4, <1>5

LEMMA ParseBlockKeeps ==
    ASSUME ParserInv, ParseBlock
    PROVE  ParserInv'
<1> USE DEF ParserInv
<1> DEFINE e == file[pos]
           path == IF Len(e.words) = 2 THEN e.words[2] ELSE Empty
<1>1. /\ stage = "parse" /\ Advance("BLOCK") /\ depth' = depth + 1
      /\ counts' = [counts EXCEPT ![depth + 1] = 0] /\ stage' \in {"parse", "refused"}
  BY DEF ParseBlock
<1>2. \/ UNCHANGED <<tree, current>>
      \/ /\ MayAdd(e.words) /\ current' = Len(tree) + 1
         /\ tree' = Append(tree, NewNode(e.words[1], current, path))
  BY DEF ParseBlock
<1>3. TreeSound' /\ current' \in 0..Len(tree')
  <2>1. CASE UNCHANGED <<tree, current>>
    BY <2>1 DEF TreeSound, CursorType
  <2>2. CASE /\ MayAdd(e.words) /\ current' = Len(tree) + 1
             /\ tree' = Append(tree, NewNode(e.words[1], current, path))
    <3>1. e.words[1] \in {"http", "server", "location"}
      BY <2>2 DEF MayAdd
    <3>2. Len(tree) \in Nat /\ current \in 0..Len(tree)
      BY SeqFacts DEF TreeSound, CursorType
    <3>3. Sound(NewNode(e.words[1], current, path), Len(tree) + 1)
      BY <3>1, <3>2, NewSound
    <3> HIDE DEF path
    <3> QED
      BY <2>2, <3>2, <3>3, GrownSound
  <2> QED
    BY <1>2, <2>1, <2>2
<1>4. depth = OpenAt(pos) /\ ClosersFit(Len(file) + 1)
  BY <1>1 DEF SecondPass
<1>5. depth + 1 \in 0..Len(file)
  BY <1>1, <1>4, AdvanceFacts, OpenNext DEF CursorType
<1>6. CursorType'
  BY <1>1, <1>3, <1>5, AdvanceFacts DEF CursorType, Stages
<1>7. FirstPass'
  BY <1>1 DEF FirstPass
<1>8. SecondPass'
  <2>1. OpenAt(pos)' = depth + 1 /\ file' = file
    BY <1>1, <1>4, AdvanceFacts, OpenNext
  <2> QED
    BY <1>1, <1>4, <2>1, SameClosers DEF SecondPass
<1> QED
  BY <1>3, <1>6, <1>7, <1>8

LEMMA ParseBlockEndKeeps ==
    ASSUME ParserInv, ParseBlockEnd
    PROVE  ParserInv'
<1> USE DEF ParserInv
<1>1. /\ stage = "parse" /\ Advance("BLOCK_END") /\ UNCHANGED <<counts, tree>>
      /\ stage' \in {"parse", "refused", "crashed"}
  BY DEF ParseBlockEnd
<1>2. depth = OpenAt(pos) /\ ClosersFit(Len(file) + 1)
  BY <1>1 DEF SecondPass
<1>3. file' = file /\ pos \in 1..Len(file) /\ Len(file) \in Nat /\ file[pos].end = "close"
  BY <1>1, AdvanceFacts
<1>4. depth \in Nat \ {0}
  BY <1>2, <1>3 DEF ClosersFit
<1>5. TreeSound'
  BY <1>1 DEF TreeSound
<1>6. CASE depth # 1 /\ current = 0
  <2>1. stage' = "crashed" /\ UNCHANGED <<current, depth>>
    BY <1>6 DEF ParseBlockEnd
  <2>2. CursorType'
    BY <1>1, <2>1, AdvanceFacts DEF CursorType, Stages
  <2> QED
    BY <1>5, <2>1, <2>2 DEF FirstPass, SecondPass
<1>7. CASE ~(depth # 1 /\ current = 0)
  <2>1. current' = Upwards /\ depth' = depth - 1
    BY <1>7 DEF ParseBlockEnd
  <2>2. Upwards \in 0..Len(tree)
    BY <1>7, SeqFacts DEF Upwards, CursorType, TreeSound, Sound
  <2>3. CursorType'
    BY <1>1, <1>4, <2>1, <2>2, AdvanceFacts DEF CursorType, Stages
  <2>4. OpenAt(pos)' = depth - 1
    BY <1>1, <1>2, OpenNext
  <2>5. FirstPass' /\ SecondPass'
    BY <1>1, <1>2, <1>3, <2>1, <2>4, SameClosers DEF FirstPass, SecondPass
  <2> QED
    BY <1>5, <2>3, <2>5
<1> QED
  BY <1>6, <1>7

LEMMA ParseEndKeeps ==
    ASSUME ParserInv, ParseEnd
    PROVE  /\ ParserInv' /\ stage' \in {"parsed", "refused"}
           /\ stage' = "parsed" => \A s \in Servers' : tree'[s].port \in PortNumbers
<1> USE DEF ParserInv
<1>1. stage = "parse" /\ UNCHANGED parserVars /\ stage' \in {"parsed", "refused"}
  BY DEF ParseEnd
<1>2. CASE stage' = "refused"
  <2>1. UNCHANGED tree
    BY <1>2 DEF ParseEnd
  <2> QED
    BY <1>1, <1>2, <2>1 DEF parserVars, CursorType, TreeSound, FirstPass, SecondPass, Stages
<1>3. CASE stage' = "parsed"
  <2>1. MinimumMet /\ tree' = [n \in DOMAIN tree |-> DefaultPort(tree[n])]
    BY <1>3 DEF ParseEnd
  <2>2. Len(tree) \in Nat /\ DOMAIN tree = 1..Len(tree)
    BY SeqFacts DEF TreeSound
  <2>3. DOMAIN tree' = 1..Len(tree) /\ \A n \in DOMAIN tree : tree'[n] = DefaultPort(tree[n])
    BY <2>1, <2>2
  <2>4. tree' \in Seq(ToSet(tree')) /\ Len(tree') = Len(tree)
    <3>1. tree' = [n \in DOMAIN tree' |-> tree'[n]]
      BY <2>1, <2>3
    <3> QED
      BY <2>2, <2>3, <3>1, FunctionIsSeq
  <2>5. \A n \in DOMAIN tree' : Sound(tree'[n], n) /\ tree'[n].type = tree[n].type
    BY <2>2, <2>3, DefaultSound DEF TreeSound
  <2>6. TreeSound'
    BY <2>4, <2>5 DEF TreeSound
  <2>7. \A s \in Servers' : tree'[s].port \in PortNumbers
    <3> SUFFICES ASSUME NEW s \in Servers' PROVE tree'[s].port \in PortNumbers
      OBVIOUS
    <3>1. s \in DOMAIN tree /\ s \in DOMAIN tree' /\ s \in Servers
      BY <2>2, <2>3, <2>5 DEF Servers, Nodes
    <3>2. DefaultPort(tree[s]).port # Unset
      BY <2>1, <3>1 DEF MinimumMet
    <3> QED
      BY <2>3, <2>5, <3>1, <3>2 DEF Sound
  <2>8. CursorType' /\ FirstPass' /\ SecondPass'
    BY <1>1, <1>3, <2>4 DEF parserVars, CursorType, FirstPass, SecondPass, Stages
  <2> QED
    BY <1>1, <1>3, <2>6, <2>7, <2>8
<1> QED
  BY <1>1, <1>2, <1>3

LEMMA ParserKeeps ==
    ASSUME ParserInv, ParserNext
    PROVE  /\ ParserInv'
           /\ stage \in {"validate", "parse"}
           /\ stage' \in {"validate", "parse", "refused", "parsed", "crashed"}
           /\ stage' = "parsed" => \A s \in Servers' : tree'[s].port \in PortNumbers
<1>1. CASE Validate
  BY <1>1, ValidateKeeps DEF Validate
<1>2. CASE Validated
  BY <1>2, ValidatedKeeps DEF Validated
<1>3. CASE ParseDirective
  BY <1>3, ParseDirectiveKeeps DEF ParseDirective
<1>4. CASE ParseBlock
  BY <1>4, ParseBlockKeeps DEF ParseBlock
<1>5. CASE ParseBlockEnd
  BY <1>5, ParseBlockEndKeeps DEF ParseBlockEnd
<1>6. CASE ParseEnd
  BY <1>6, ParseEndKeeps DEF ParseEnd
<1> QED
  BY <1>1, <1>2, <1>3, <1>4, <1>5, <1>6 DEF ParserNext

-----------------------------------------------------------------------------
(* Whatever the answer, a request leaves the tree alone.                   *)

LEMMA AnswerStage ==
    ASSUME NEW q, getResponse(q)
    PROVE  /\ stage = "serving" /\ UNCHANGED tree
           /\ stage' \in {"serving", "hung", "crashed"}
<1> DEFINE r == Route(q)
<1>1. stage = "serving" /\ UNCHANGED tree
  BY DEF getResponse
<1> HIDE DEF r
<1>2. CASE Hang(q, r) \/ PostCrashes(q, r)
  BY <1>1, <1>2 DEF Hang, PostCrashes, Ends
<1>3. CASE \/ TooLarge(q, r) \/ Redirect(q, r) \/ RunScript(q, r) \/ ScriptFails(q, r)
           \/ NotThere(q, r)
  BY <1>1, <1>3 DEF TooLarge, Redirect, RunScript, ScriptFails, NotThere, Fails, Says
<1>4. CASE UploadRefused(q, r) \/ Upload(q, r)
  BY <1>1, <1>4 DEF UploadRefused, Upload, Fails, Says
<1>5. ASSUME NEW p, matchMethod(q, r, p) PROVE UNCHANGED stage
  BY <1>5 DEF matchMethod, MethodRefused, Get, Delete, Fails, Says
<1>6. CASE ServeFile(q, r) \/ ServeIndex(q, r) \/ ServeDirectory(q, r)
  BY <1>1, <1>5, <1>6 DEF ServeFile, ServeIndex, ServeDirectory, Fails, Says
<1> QED
  BY <1>1, <1>2, <1>3, <1>4, <1>6 DEF getResponse, r

-----------------------------------------------------------------------------
(* The disk and the answers.                                               *)

LEMMA UploadAsTold ==
    ASSUME NEW q, NEW r, Upload(q, r)
    PROVE  ChangedAsTold
<1> DEFINE p == UploadPath(r)
<1>1. q.method = "POST" /\ CanOpen(p)
  BY DEF Upload, Posts
<1>2. PICK content \in {q.body, "cut"} :
         fs' = [x \in DOMAIN fs \cup {Normal(p)} |-> IF x = Normal(p) THEN content ELSE fs[x]]
  BY DEF Upload
<1>3. /\ last'.path = p /\ last'.req = q /\ last'.what = "uploaded"
      /\ last'.code = IF Exists(p) THEN 200 ELSE 201
  BY DEF Upload, Answer
<1> HIDE DEF p
<1>4. Exists(p) <=> Normal(p) \in DOMAIN fs
  <2>1. p # Empty
    BY <1>1 DEF CanOpen, Directory, checkFile, Empty
  <2> QED
    BY <1>1, <2>1 DEF CanOpen, Exists, checkFile
<1>5. /\ DOMAIN fs' = DOMAIN fs \cup {Normal(p)} /\ fs'[Normal(p)] = content
      /\ \A x \in DOMAIN fs \ {Normal(p)} : fs'[x] = fs[x]
  BY <1>2
<1> QED
  BY <1>1, <1>3, <1>4, <1>5 DEF ChangedAsTold

LEMMA DeleteAsTold ==
    ASSUME NEW q, NEW r, NEW p, Delete(q, r, p)
    PROVE  ChangedAsTold
<1>1. CASE MayWrite(p) /\ Removable(p)
  <2>1. /\ fs' = [x \in DOMAIN fs \ {Normal(p)} |-> fs[x]] /\ q.method = "DELETE"
        /\ last'.path = p /\ last'.req = q /\ last'.what = "deleted"
    BY <1>1 DEF Delete, Answer
  <2>2. Normal(p) \in DOMAIN fs
    BY <1>1 DEF MayWrite, Exists, checkFile
  <2> QED
    BY <2>1, <2>2 DEF ChangedAsTold
<1>2. CASE ~(MayWrite(p) /\ Removable(p))
  BY <1>2 DEF Delete, Fails, Says, ChangedAsTold
<1> QED
  BY <1>1, <1>2

LEMMA ResponseAsTold ==
    ASSUME NEW q, getResponse(q)
    PROVE  ChangedAsTold
<1> DEFINE r == Route(q)
<1> HIDE DEF r
<1>1. CASE \/ Hang(q, r) \/ PostCrashes(q, r) \/ TooLarge(q, r) \/ Redirect(q, r)
           \/ RunScript(q, r) \/ ScriptFails(q, r) \/ NotThere(q, r) \/ UploadRefused(q, r)
  <2>1. fs' = fs
    BY <1>1 DEF Hang, PostCrashes, Ends, TooLarge, Redirect, RunScript, ScriptFails,
       NotThere, UploadRefused, Fails, Says
  <2> QED
    BY <2>1 DEF ChangedAsTold
<1>2. CASE Upload(q, r)
  BY <1>2, UploadAsTold
<1>3. ASSUME NEW p, matchMethod(q, r, p) PROVE ChangedAsTold
  <2>1. CASE MethodRefused(q, r) \/ Get(q, r, p)
    BY <2>1 DEF MethodRefused, Get, Fails, Says, ChangedAsTold
  <2>2. CASE Delete(q, r, p)
    BY <2>2, DeleteAsTold
  <2> QED
    BY <1>3, <2>1, <2>2 DEF matchMethod
<1>4. CASE ServeFile(q, r) \/ ServeIndex(q, r) \/ ServeDirectory(q, r)
  <2>1. (\E p : matchMethod(q, r, p)) \/ fs' = fs
    BY <1>4 DEF ServeFile, ServeIndex, ServeDirectory, Fails, Says
  <2> QED
    BY <1>3, <2>1 DEF ChangedAsTold
<1> QED
  BY <1>1, <1>2, <1>4 DEF getResponse, r

(* Nothing happens to the disk that the answer of the same step does not   *)
(* tell: one file stored whole or cut short, one removed, or none touched; *)
(* handlePOST and handleDELETE look at the disk before they change it.     *)
THEOREM DiskFollowsAnswers == Spec => FilesChangeOnlyAsTold
<1>1. [Next]_vars => [ChangedAsTold]_vars
  <2> SUFFICES ASSUME Next PROVE ChangedAsTold
    OBVIOUS
  <2>1. CASE Parses \/ Opens \/ Reconnects \/ Ended
    BY <2>1 DEF Parses, Opens, Reconnects, Ended, NewConnection, routingVars, vars, ChangedAsTold
  <2>2. CASE Responds
    BY <2>2, ResponseAsTold DEF Responds
  <2> QED
    BY <2>1, <2>2 DEF Next
<1> QED
  BY <1>1, PTL DEF Spec, FilesChangeOnlyAsTold

-----------------------------------------------------------------------------
(* The sockets and the tree.                                               *)

PortsInv ==
    /\ DOMAIN listening \subseteq PortNumbers
    /\ stage \in {"validate", "parse", "refused", "unserved"} => listening = <<>>
    /\ stage \in {"parsed", "serving"} =>
         /\ \A s \in Servers : tree[s].port \in PortNumbers
         /\ \A p \in DOMAIN listening : p \in Ports /\ listening[p] = AddressFor(p)
    /\ stage = "serving" => Ports \subseteq DOMAIN listening

SiteInv == ParserInv /\ PortsInv

LEMMA NoneListening == DOMAIN <<>> = {}
<1>1. DOMAIN <<>> = 1..0
  OBVIOUS
<1> QED
  BY <1>1

(* What the ports are is a matter of the tree alone.                       *)
LEMMA SamePorts ==
    ASSUME tree' = tree
    PROVE  Servers' = Servers /\ Ports' = Ports /\ \A p : AddressFor(p)' = AddressFor(p)
<1>1. Servers' = Servers
  BY DEF Servers, Nodes
<1> QED
  BY <1>1 DEF Ports, AddressFor

LEMMA SameParser ==
    ASSUME ParserInv, tree' = tree, UNCHANGED parserVars,
           stage' \in Stages \ {"validate", "parse"}
    PROVE  ParserInv'
  BY DEF ParserInv, CursorType, TreeSound, FirstPass, SecondPass, parserVars

LEMMA Init_SiteInv == Init => SiteInv
  BY ParserInit_ParserInv, NoneListening
     DEF Init, ParserInit, ListeningInit, SiteInv, PortsInv

LEMMA ParsesKeeps ==
    ASSUME SiteInv, Parses
    PROVE  SiteInv'
<1>1. ParserInv' /\ listening' = listening /\ listening = <<>>
  BY ParserKeeps DEF Parses, SiteInv, PortsInv
<1>2. stage' \in {"validate", "parse", "refused", "parsed", "crashed"}
  BY ParserKeeps DEF Parses, SiteInv
<1>3. stage' = "parsed" => \A s \in Servers' : tree'[s].port \in PortNumbers
  BY ParserKeeps DEF Parses, SiteInv
<1>4. DOMAIN listening' = {}
  BY <1>1, NoneListening
<1>5. PortsInv'
  BY <1>1, <1>2, <1>3, <1>4 DEF PortsInv
<1> QED
  BY <1>1, <1>5 DEF SiteInv

LEMMA OpensKeeps ==
    ASSUME SiteInv, Opens
    PROVE  SiteInv'
<1>1. /\ stage = "parsed" /\ tree' = tree /\ UNCHANGED parserVars
      /\ stage' \in {"parsed", "serving", "unserved"}
  BY DEF Opens, ListeningNext, OpenSocket, OpenFails, AllOpen
<1>2. ParserInv'
  BY <1>1, SameParser DEF SiteInv, Stages
<1>3. Servers' = Servers /\ Ports' = Ports /\ \A p : AddressFor(p)' = AddressFor(p)
  BY <1>1, SamePorts
<1>4. /\ DOMAIN listening \subseteq PortNumbers
      /\ \A s \in Servers : tree[s].port \in PortNumbers
      /\ \A p \in DOMAIN listening : p \in Ports /\ listening[p] = AddressFor(p)
  BY <1>1 DEF SiteInv, PortsInv
<1>5. \A s \in Servers' : tree'[s].port \in PortNumbers
  BY <1>1, <1>3, <1>4
<1>6. CASE OpenSocket
  <2>1. PICK p \in Ports :
           listening' = [q \in DOMAIN listening \cup {p} |->
                            IF q = p THEN AddressFor(p) ELSE listening[q]]
    BY <1>6 DEF OpenSocket
  <2>2. stage' = "parsed" /\ p \in PortNumbers
    BY <1>4, <1>6 DEF OpenSocket, Ports
  <2>3. /\ DOMAIN listening' \subseteq PortNumbers
        /\ \A q \in DOMAIN listening' : q \in Ports' /\ listening'[q] = AddressFor(q)'
    BY <1>3, <1>4, <2>1, <2>2
  <2>4. PortsInv'
    BY <1>5, <2>2, <2>3 DEF PortsInv
  <2> QED
    BY <1>2, <2>4 DEF SiteInv
<1>7. CASE OpenFails
  <2>1. PortsInv'
    BY <1>7, NoneListening DEF OpenFails, PortsInv
  <2> QED
    BY <1>2, <2>1 DEF SiteInv
<1>8. CASE AllOpen
  <2>1. stage' = "serving" /\ listening' = listening /\ Ports \subseteq DOMAIN listening
    BY <1>8 DEF AllOpen
  <2>2. PortsInv'
    BY <1>3, <1>4, <1>5, <2>1 DEF PortsInv
  <2> QED
    BY <1>2, <2>2 DEF SiteInv
<1> QED
  BY <1>6, <1>7, <1>8 DEF Opens, ListeningNext

LEMMA ServingKeeps ==
    ASSUME SiteInv, Responds \/ Reconnects
    PROVE  SiteInv'
<1>1. /\ stage = "serving" /\ tree' = tree /\ UNCHANGED <<parserVars, listening>>
      /\ stage' \in {"serving", "hung", "crashed"}
  BY AnswerStage DEF Responds, Reconnects, NewConnection
<1>2. ParserInv'
  BY <1>1, SameParser DEF SiteInv, Stages
<1>3. Servers' = Servers /\ Ports' = Ports /\ \A p : AddressFor(p)' = AddressFor(p)
  BY <1>1, SamePorts
<1>4. PortsInv'
  BY <1>1, <1>3 DEF SiteInv, PortsInv
<1> QED
  BY <1>2, <1>4 DEF SiteInv

LEMMA Next_SiteInv == SiteInv /\ [Next]_vars => SiteInv'
<1> SUFFICES ASSUME SiteInv, [Next]_vars PROVE SiteInv'
  OBVIOUS
<1>1. CASE Parses
  BY <1>1, ParsesKeeps
<1>2. CASE Opens
  BY <1>2, OpensKeeps
<1>3. CASE Responds \/ Reconnects
  BY <1>3, ServingKeeps
<1>4. CASE Ended \/ UNCHANGED vars
  <2>1. UNCHANGED <<stage, tree, parserVars, listening>>
    BY <1>4 DEF Ended, vars
  <2>2. Servers' = Servers /\ Ports' = Ports /\ \A p : AddressFor(p)' = AddressFor(p)
    BY <2>1, SamePorts
  <2>3. CursorType' /\ TreeSound' /\ PortsInv'
    BY <2>1, <2>2 DEF SiteInv, ParserInv, CursorType, TreeSound, PortsInv, parserVars
  <2>4. FirstPass' /\ SecondPass'
    <3>1. file' = file /\ pos' = pos
      BY <2>1 DEF parserVars
    <3>2. /\ OpenAt(pos)' = OpenAt(pos) /\ (ClosersFit(pos)' <=> ClosersFit(pos))
          /\ (ClosersFit(Len(file) + 1)' <=> ClosersFit(Len(file) + 1))
      BY <3>1 DEF ClosersFit, OpenAt, Before
    <3> QED
      BY <2>1, <3>1, <3>2 DEF SiteInv, ParserInv, FirstPass, SecondPass, parserVars
  <2> QED
    BY <2>3, <2>4 DEF SiteInv, ParserInv
<1> QED
  BY <1>1, <1>2, <1>3, <1>4 DEF Next

LEMMA SpecInv == Spec => []SiteInv
  BY Init_SiteInv, Next_SiteInv, PTL DEF Spec

(* The cursor stays in the text, Parse's depth never falls below 0 - so    *)
(* that a directive counts for a block that is open, although the depth    *)
(* by which DetectNextType lets a brace close one is left over from the    *)
(* first pass - and every node hangs from an earlier one, so that every    *)
(* walk along back_ref ends.                                               *)
THEOREM TypeCorrect == Spec => []TypeOK
<1>1. SiteInv => TypeOK
  <2> SUFFICES ASSUME SiteInv PROVE TypeOK
    OBVIOUS
  <2>1. CursorType /\ TreeSound /\ DOMAIN listening \subseteq PortNumbers
    BY DEF SiteInv, ParserInv, PortsInv
  <2> QED
    BY <2>1 DEF TypeOK, CursorType, TreeSound, Sound
<1> QED
  BY <1>1, SpecInv, PTL

(* While the server serves, the open ports are those of the tree, each at  *)
(* the address of the first server that has it; after a failure none is.   *)
THEOREM EveryPortServed == Spec => []ServesAllPorts
<1>1. SiteInv => ServesAllPorts
  <2> SUFFICES ASSUME SiteInv PROVE ServesAllPorts
    OBVIOUS
  <2>1. stage = "unserved" => listening = <<>>
    BY DEF SiteInv, PortsInv
  <2>2. ASSUME stage = "serving"
        PROVE  DOMAIN listening = {tree[s].port : s \in Servers}
    BY <2>2 DEF SiteInv, PortsInv, Ports
  <2>3. ASSUME stage = "serving", NEW s \in Servers,
               \A t \in Servers : t < s => tree[t].port # tree[s].port
        PROVE  listening[tree[s].port] = tree[s].addr
    <3> DEFINE On == {t \in Servers : tree[t].port = tree[s].port}
    <3>1. listening[tree[s].port] = AddressFor(tree[s].port)
      BY <2>2, <2>3 DEF SiteInv, PortsInv
    <3>2. Servers \subseteq Nat
      BY SeqFacts DEF Servers, Nodes, SiteInv, ParserInv, TreeSound
    <3>3. s \in On /\ \A t \in On : s <= t
      BY <2>3, <3>2
    <3>4. \A u \in On : (\A t \in On : u <= t) => u = s
      BY <3>2, <3>3
    <3>5. (CHOOSE u \in On : \A t \in On : u <= t) = s
      BY <3>3, <3>4
    <3> QED
      BY <3>1, <3>5 DEF AddressFor
  <2> QED
    BY <2>1, <2>2, <2>3 DEF ServesAllPorts
<1> QED
  BY <1>1, SpecInv, PTL
=============================================================================
