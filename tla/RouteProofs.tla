---------------------------- MODULE RouteProofs ----------------------------
(* Proofs about routing on top of the configuration: which location        *)
(* buildDirPath finds, which requests are survived, that what a location's *)
(* own blocks say is obeyed, and which index file is chosen.  For every    *)
(* configuration text, every disk and every set of requests.               *)
EXTENDS SiteProofs, DataInduction

-----------------------------------------------------------------------------
(* The ways up the tree: the function of Nearest exists, and takes its     *)
(* own steps; a tree whose nodes hang as before has the same ones.         *)

Goes(g, t, N, m) ==
    g = [k \in 0..m |-> IF k = 0 \/ k \in N THEN k ELSE g[t[k].back_ref]]
Hangs(t) == Len(t) \in Nat /\ \A k \in 1..Len(t) : t[k].back_ref \in 0..(k - 1)
Up(t, n, N) == (CHOOSE g : Goes(g, t, N, Len(t)))[n]

LEMMA GoesExists ==
    ASSUME NEW t, Hangs(t), NEW N
    PROVE  \E g : Goes(g, t, N, Len(t))
<1> DEFINE n == Len(t)
           T == {m \in Nat : m <= n => \E g : Goes(g, t, N, m)}
<1>1. 0 \in T
  <2> DEFINE h == [k \in 0..0 |-> k]
  <2>1. Goes(h, t, N, 0)
    BY DEF Goes
  <2> QED
    BY <2>1
<1>2. ASSUME NEW m \in Nat, m \in T PROVE m + 1 \in T
  <2> SUFFICES ASSUME m + 1 <= n PROVE \E g : Goes(g, t, N, m + 1)
    OBVIOUS
  <2>1. n \in Nat /\ m <= n /\ t[m + 1].back_ref \in 0..m
    BY DEF Hangs
  <2>2. PICK g : Goes(g, t, N, m)
    BY <1>2, <2>1
  <2> DEFINE h == [k \in 0..(m + 1) |-> IF k <= m THEN g[k]
                    ELSE IF m + 1 \in N THEN m + 1 ELSE g[t[m + 1].back_ref]]
  <2>3. ASSUME NEW k \in 0..(m + 1)
        PROVE  h[k] = IF k = 0 \/ k \in N THEN k ELSE h[t[k].back_ref]
    <3>1. CASE k <= m
      <4>1. k \in 0..m /\ h[k] = g[k]
        BY <3>1
      <4>2. k # 0 => t[k].back_ref \in 0..m
        BY <2>1, <3>1 DEF Hangs
      <4>3. k # 0 => h[t[k].back_ref] = g[t[k].back_ref]
        BY <4>2
      <4> HIDE DEF h
      <4> QED
        BY <2>2, <4>1, <4>3 DEF Goes
    <3>2. CASE k = m + 1
      <4>1. h[t[m + 1].back_ref] = g[t[m + 1].back_ref]
        BY <2>1
      <4> QED
        BY <3>2, <4>1
    <3> QED
      BY <3>1, <3>2
  <2>4. Goes(h, t, N, m + 1)
    <3>1. h = [k \in 0..(m + 1) |-> h[k]]
      OBVIOUS
    <3> HIDE DEF h
    <3> QED
      BY <2>3, <3>1 DEF Goes
  <2> QED
    BY <2>4
<1> HIDE DEF T
<1>3. n \in T
  BY <1>1, <1>2, NumbersByStep DEF Hangs
<1> QED
  BY <1>3 DEF T, Hangs

LEMMA UpSteps ==
    ASSUME NEW t, Hangs(t), NEW N, NEW n \in 0..Len(t)
    PROVE  Up(t, n, N) = IF n = 0 \/ n \in N THEN n ELSE Up(t, t[n].back_ref, N)
<1> DEFINE g == CHOOSE g : Goes(g, t, N, Len(t))
<1>1. Goes(g, t, N, Len(t))
  BY GoesExists
<1>2. \A k \in 0..Len(t) : Up(t, k, N) = g[k]
  BY DEF Up
<1>3. n # 0 => t[n].back_ref \in 0..Len(t)
  BY DEF Hangs
<1> HIDE DEF g
<1> QED
  BY <1>1, <1>2, <1>3 DEF Goes

LEMMA SameWayUp ==
    ASSUME NEW t, NEW u, Hangs(t), Hangs(u), Len(t) <= Len(u), NEW M, NEW N,
           \A k \in 1..Len(t) : u[k].back_ref = t[k].back_ref /\ (k \in N <=> k \in M)
    PROVE  \A n \in 0..Len(t) : Up(u, n, N) = Up(t, n, M)
<1> DEFINE T == {m \in Nat : \A n \in 0..m : n <= Len(t) => Up(u, n, N) = Up(t, n, M)}
<1>1. 0 \in T
  BY UpSteps DEF Hangs
<1>2. ASSUME NEW m \in Nat, m \in T PROVE m + 1 \in T
  <2> SUFFICES ASSUME m + 1 <= Len(t) PROVE Up(u, m + 1, N) = Up(t, m + 1, M)
    BY <1>2
  <2>1. m + 1 \in 1..Len(t) /\ m + 1 \in 0..Len(u) /\ t[m + 1].back_ref \in 0..m
    BY DEF Hangs
  <2>2. Up(u, t[m + 1].back_ref, N) = Up(t, t[m + 1].back_ref, M)
    BY <1>2, <2>1 DEF Hangs
  <2>3. Up(u, m + 1, N) = IF m + 1 \in N THEN m + 1 ELSE Up(u, u[m + 1].back_ref, N)
    BY <2>1, UpSteps
  <2>4. Up(t, m + 1, M) = IF m + 1 \in M THEN m + 1 ELSE Up(t, t[m + 1].back_ref, M)
    BY <2>1, UpSteps
  <2> QED
    BY <2>1, <2>2, <2>3, <2>4
<1> HIDE DEF T
<1>3. Len(t) \in T
  BY <1>1, <1>2, NumbersByStep DEF Hangs
<1> QED
  BY <1>3 DEF T, Hangs

LEMMA NearestIsUp == \A n, N : Nearest(n, N) = Up(tree, n, N)
BY DEF Nearest, Up, Goes

-----------------------------------------------------------------------------
(* A location's path is one that a text writes, and no step changes what   *)
(* kind of block a node is, its path or where it hangs.                    *)
Written(n) == "path" \in DOMAIN n /\ (n.type = "location" => n.path \in LocationPaths)
SameNode(n, m) == m.path = n.path /\ m.type = n.type /\ m.back_ref = n.back_ref

LEMMA FillWritten ==
    ASSUME NEW n, NEW bound, Sound(n, bound), Written(n), NEW w
    PROVE  Written(FillDirective(n, w)) /\ SameNode(n, FillDirective(n, w))
<1> DEFINE m == FillDirective(n, w)
<1>1. "path" \in DOMAIN m /\ m.path = n.path /\ m.type = n.type /\ m.back_ref = n.back_ref
  <2>1. CASE w[1] = "error_page"
    BY <2>1 DEF FillDirective, Pages, Written, Sound
  <2>2. CASE w[1] = "listen"
    BY <2>2 DEF FillDirective, Listen, Written, Sound
  <2>3. CASE w[1] \notin {"error_page", "listen"}
    BY <2>3 DEF FillDirective, Written, Sound
  <2> QED
    BY <2>1, <2>2, <2>3
<1> HIDE DEF m
<1>2. Written(m) /\ SameNode(n, m)
  BY <1>1 DEF Written, SameNode
<1> QED
  BY <1>2 DEF m

LEMMA NewWritten ==
    ASSUME NEW type, NEW parent, NEW path, type = "location" => path \in LocationPaths
    PROVE  Written(NewNode(type, parent, path))
BY DEF NewNode, Written

LEMMA DefaultWritten ==
    ASSUME NEW n, NEW bound, Sound(n, bound), Written(n)
    PROVE  Written(DefaultPort(n)) /\ SameNode(n, DefaultPort(n))
BY DEF DefaultPort, Written, SameNode, Sound

-----------------------------------------------------------------------------
(* The paths of one server's locations differ.                             *)
Apart ==
    \A m, n \in Nodes("location") :
        m # n /\ Nearest(m, Servers) = Nearest(n, Servers) => tree[m].path # tree[n].path
TreeWritten == \A n \in DOMAIN tree : Written(tree[n])
TextInv == TreeWritten /\ Apart

LEMMA TreeHangs == ASSUME TreeSound PROVE Hangs(tree) /\ DOMAIN tree = 1..Len(tree)
BY SeqFacts DEF TreeSound, Sound, Hangs

(* When the nodes that were there keep kind, path and place, those of them *)
(* that were apart still are.                                              *)
LEMMA OldApart ==
    ASSUME TreeSound, TreeSound', Apart, Len(tree) <= Len(tree'),
           \A n \in DOMAIN tree : SameNode(tree[n], tree'[n])
    PROVE  /\ \A n \in 0..Len(tree) : Nearest(n, Servers)' = Nearest(n, Servers)
           /\ \A m, n \in Nodes("location")' : m \in DOMAIN tree /\ n \in DOMAIN tree =>
                (m # n /\ Nearest(m, Servers)' = Nearest(n, Servers)' =>
                    tree'[m].path # tree'[n].path)
<1> DEFINE N == Servers
           M == Servers'
<1>1. Hangs(tree) /\ DOMAIN tree = 1..Len(tree) /\ Len(tree) \in Nat
  BY TreeHangs DEF Hangs
<1>2. Hangs(tree') /\ DOMAIN tree' = 1..Len(tree') /\ Len(tree') \in Nat
  BY SeqFacts DEF TreeSound, Sound, Hangs
<1>3. \A k \in 1..Len(tree) : tree'[k].back_ref = tree[k].back_ref /\ (k \in M <=> k \in N)
  BY <1>1, <1>2 DEF SameNode, Servers, Nodes
<1> HIDE DEF N, M
<1>4. \A n \in 0..Len(tree) : Up(tree', n, M) = Up(tree, n, N)
  BY <1>1, <1>2, <1>3, SameWayUp
<1>5. \A n : Nearest(n, Servers)' = Up(tree', n, M) /\ Nearest(n, Servers) = Up(tree, n, N)
  BY NearestIsUp DEF Nearest, Up, Goes, M, N
<1>6. \A n \in 0..Len(tree) : Nearest(n, Servers)' = Nearest(n, Servers)
  BY <1>4, <1>5
<1>7. ASSUME NEW m \in Nodes("location")', NEW n \in Nodes("location")',
             m \in DOMAIN tree, n \in DOMAIN tree, m # n,
             Nearest(m, Servers)' = Nearest(n, Servers)'
      PROVE  tree'[m].path # tree'[n].path
  <2>1. m \in Nodes("location") /\ n \in Nodes("location")
    BY <1>7 DEF Nodes, SameNode
  <2>2. Nearest(m, Servers) = Nearest(n, Servers)
    BY <1>1, <1>6, <1>7
  <2>3. tree[m].path # tree[n].path
    BY <1>7, <2>1, <2>2 DEF Apart
  <2> QED
    BY <1>7, <2>3 DEF SameNode
<1> QED
  BY <1>6, <1>7

LEMMA DirectiveWritten ==
    ASSUME ParserInv, TextInv, ParseDirective
    PROVE  TextInv'
<1> DEFINE w == file[pos].words
<1>1. TreeSound /\ TreeSound' /\ CursorType
  BY ParseDirectiveKeeps DEF ParserInv
<1>2. Len(tree) \in Nat /\ DOMAIN tree = 1..Len(tree) /\ DOMAIN tree' = 1..Len(tree')
  BY <1>1, TreeHangs, SeqFacts DEF TreeSound, Hangs
<1>3. CASE current # 0 /\ Accepts(tree[current].type, w)
  <2>1. tree' = [tree EXCEPT ![current] = FillDirective(tree[current], w)] /\ current \in DOMAIN tree
    BY <1>1, <1>2, <1>3 DEF ParseDirective, CursorType
  <2>3. Sound(tree[current], current) /\ Written(tree[current])
    BY <1>1, <2>1 DEF TreeSound, TextInv, TreeWritten
  <2>4. Written(FillDirective(tree[current], w)) /\ SameNode(tree[current], FillDirective(tree[current], w))
    BY <2>3, FillWritten
  <2>5. /\ DOMAIN tree' = DOMAIN tree
        /\ \A n \in DOMAIN tree : Written(tree'[n]) /\ SameNode(tree[n], tree'[n])
    BY <2>1, <2>4 DEF TextInv, TreeWritten, SameNode
  <2>6. Len(tree) <= Len(tree')
    BY <1>2, <2>5
  <2>7. Nodes("location")' \subseteq DOMAIN tree
    BY <2>5 DEF Nodes
  <2>8. Apart'
    BY <1>1, <2>5, <2>6, <2>7, OldApart DEF TextInv, Apart
  <2> QED
    BY <2>5, <2>8 DEF TextInv, TreeWritten
<1>4. CASE ~(current # 0 /\ Accepts(tree[current].type, w))
  BY <1>4 DEF ParseDirective, TextInv, TreeWritten, Apart, Nodes, Servers, Nearest, Written
<1> QED
  BY <1>3, <1>4

LEMMA EndWritten ==
    ASSUME ParserInv, TextInv, ParseEnd
    PROVE  TextInv'
<1>1. TreeSound /\ TreeSound'
  BY ParseEndKeeps DEF ParserInv
<1>2. Len(tree) \in Nat /\ DOMAIN tree = 1..Len(tree) /\ DOMAIN tree' = 1..Len(tree')
  BY <1>1, TreeHangs, SeqFacts DEF TreeSound, Hangs
<1>3. CASE stage' = "parsed"
  <2>1. tree' = [n \in DOMAIN tree |-> DefaultPort(tree[n])]
    BY <1>3 DEF ParseEnd
  <2>2. DOMAIN tree' = DOMAIN tree
    BY <2>1
  <2>3. \A n \in DOMAIN tree : Written(tree'[n]) /\ SameNode(tree[n], tree'[n])
    BY <1>1, <2>1, DefaultWritten DEF TreeSound, TextInv, TreeWritten
  <2>4. Len(tree) <= Len(tree')
    BY <1>2, <2>2
  <2>5. Nodes("location")' \subseteq DOMAIN tree
    BY <2>2 DEF Nodes
  <2>6. Apart'
    BY <1>1, <2>3, <2>4, <2>5, OldApart DEF TextInv, Apart
  <2> QED
    BY <2>2, <2>3, <2>6 DEF TextInv, TreeWritten
<1>4. CASE UNCHANGED tree
  BY <1>4 DEF TextInv, TreeWritten, Apart, Nodes, Servers, Nearest, Written
<1> QED
  BY <1>3, <1>4 DEF ParseEnd

(* AddBlock refuses a path that one of the server's locations has.         *)
LEMMA BlockWritten ==
    ASSUME ParserInv, TextInv, ParseBlock
    PROVE  TextInv'
<1> DEFINE e == file[pos]
           path == IF Len(e.words) = 2 THEN e.words[2] ELSE Empty
<1>0. PICK new, c : new = Len(tree) + 1 /\ c = current
  OBVIOUS
<1>1. TreeSound /\ TreeSound' /\ CursorType
  BY ParseBlockKeeps DEF ParserInv
<1>2. /\ Len(tree) \in Nat /\ DOMAIN tree = 1..Len(tree) /\ DOMAIN tree' = 1..Len(tree')
      /\ Hangs(tree) /\ Hangs(tree')
  BY <1>1, TreeHangs, SeqFacts DEF TreeSound, Hangs, Sound
<1>3. CASE UNCHANGED tree
  BY <1>3 DEF TextInv, TreeWritten, Apart, Nodes, Servers, Nearest, Written
<1>4. CASE /\ MayAdd(e.words)
           /\ tree' = Append(tree, NewNode(e.words[1], current, path))
  <2> DEFINE node == NewNode(e.words[1], current, path)
  <2>1. IsBlock(e) /\ pos \in DOMAIN file /\ file \in Files
    BY <1>1, AdvanceFacts, TextIsSeq DEF ParseBlock, CursorType, Advance, DetectNextType
  <2>2. e.words[1] = "location" => path = e.words[2] /\ path \in LocationPaths
    <3> SUFFICES ASSUME e.words[1] = "location"
                 PROVE  path = e.words[2] /\ e.words[2] \in LocationPaths
      BY Zenon
    <3>1. Len(e.words) = 2
      BY <2>1 DEF IsBlock, isBlockOk
    <3>2. e \in ToSet(file)
      BY <2>1 DEF ToSet
    <3> QED
      BY <2>1, <3>1, <3>2 DEF LocationPaths
  <2>3. Written(node)
    BY <2>2, NewWritten
  <2>4. node.type = e.words[1] /\ node.path = path /\ node.back_ref = current
    BY DEF NewNode
  <2> HIDE DEF node, path
  <2>5. /\ tree' = Append(tree, node) /\ Len(tree') = new /\ tree'[new] = node
        /\ \A n \in 1..Len(tree) : tree'[n] = tree[n]
    <3>1. tree \in Seq(ToSet(tree) \cup {node}) /\ node \in ToSet(tree) \cup {node}
      BY <1>1 DEF TreeSound, ToSet
    <3>2. tree' = Append(tree, node)
      BY <1>4 DEF node, path
    <3> QED
      BY <1>0, <3>1, <3>2, AppendProperties
  <2>6. /\ \A n \in DOMAIN tree : SameNode(tree[n], tree'[n]) /\ Written(tree'[n])
        /\ DOMAIN tree' = 1..new /\ Len(tree) <= Len(tree')
    BY <1>0, <1>2, <2>5 DEF SameNode, TextInv, TreeWritten
  <2>7. TreeWritten'
    BY <1>0, <1>2, <2>3, <2>5, <2>6 DEF TreeWritten
  <2>8. /\ \A n \in 0..Len(tree) : Nearest(n, Servers)' = Nearest(n, Servers)
        /\ \A m, n \in Nodes("location")' : m \in DOMAIN tree /\ n \in DOMAIN tree =>
             (m # n /\ Nearest(m, Servers)' = Nearest(n, Servers)' =>
                 tree'[m].path # tree'[n].path)
    BY <1>1, <2>6, OldApart DEF TextInv
  <2>9. ASSUME NEW m \in Nodes("location")', m \in DOMAIN tree, new \in Nodes("location")',
               Nearest(m, Servers)' = Nearest(new, Servers)'
        PROVE  tree'[m].path # tree'[new].path
    <3>1. e.words[1] = "location" /\ ~Duplicate(e.words[2]) /\ c \in 1..Len(tree)
      <4>1. e.words[1] = "location"
        BY <2>4, <2>5, <2>9 DEF Nodes
      <4>2. current \in 1..Len(tree) /\ (tree[current].type = "http" => FALSE)
        BY <1>1, <1>2, <1>4, <4>1 DEF MayAdd, CursorType
      <4> QED
        BY <1>0, <1>4, <4>1, <4>2 DEF MayAdd
    <3>2. new \notin Servers'
      BY <2>4, <2>5, <3>1 DEF Servers, Nodes
    <3>3. Nearest(new, Servers)' = Nearest(c, Servers)'
      <4>1. new \in 0..Len(tree') /\ new # 0
        BY <1>0, <1>2, <2>5
      <4>2. Up(tree', new, Servers') = Up(tree', tree'[new].back_ref, Servers')
        BY <1>2, <3>2, <4>1, UpSteps
      <4>3. \A n : Nearest(n, Servers)' = Up(tree', n, Servers')
        BY DEF Nearest, Up, Goes
      <4>4. tree'[new].back_ref = c
        BY <1>0, <2>4, <2>5
      <4> QED
        BY <4>2, <4>3, <4>4
    <3>4. Nearest(m, Servers) = Nearest(c, Servers)
      <4>1. m \in 0..Len(tree) /\ c \in 0..Len(tree)
        BY <1>2, <2>9, <3>1
      <4> QED
        BY <2>8, <2>9, <3>3, <4>1
    <3>5. m \in Nodes("location") /\ tree'[m].path = tree[m].path
      BY <2>6, <2>9 DEF Nodes, SameNode
    <3>6. tree[m].path # e.words[2]
      BY <1>0, <3>1, <3>4, <3>5 DEF Duplicate, LocationsOf
    <3> QED
      BY <2>2, <2>4, <2>5, <3>1, <3>5, <3>6
  <2>10. Apart'
    <3>1. Nodes("location")' \subseteq DOMAIN tree \cup {new}
      BY <1>0, <1>2, <2>6 DEF Nodes
    <3> SUFFICES ASSUME NEW m \in Nodes("location")', NEW n \in Nodes("location")', m # n,
                        Nearest(m, Servers)' = Nearest(n, Servers)'
                 PROVE  tree'[m].path # tree'[n].path
      BY DEF Apart
    <3>2. CASE m \in DOMAIN tree /\ n \in DOMAIN tree
      BY <2>8, <3>2
    <3>3. CASE m \in DOMAIN tree /\ n = new
      BY <2>9, <3>3
    <3>4. CASE m = new /\ n \in DOMAIN tree
      BY <2>9, <3>4
    <3> QED
      BY <3>1, <3>2, <3>3, <3>4
  <2> QED
    BY <2>7, <2>10 DEF TextInv
<1> QED
  BY <1>3, <1>4 DEF ParseBlock

-----------------------------------------------------------------------------
(* The climb of buildDirPath: from the target to its first name, then to   *)
(* "/" and, if it begins with a slash, to nothing.                         *)

NoName == ""
Top == <<NoName, NoName>>

(* regress_path, in these words.                                           *)
LEMMA RegressCases ==
    ASSUME NEW p
    PROVE  /\ Len(p) = 1 /\ p # Top /\ Len(p) # 2 => regress_path(p) = p
           /\ p = Top /\ Len(p) # 1 /\ p[2] = NoName => regress_path(p) = Empty
           /\ Len(p) = 2 /\ Len(p) # 1 /\ p[1] = NoName /\ p[2] # NoName /\ p # Top =>
                regress_path(p) = Top
           /\ Len(p) # 1 /\ p # Top /\ ~(Len(p) = 2 /\ p[1] = NoName /\ p[2] # NoName) =>
                regress_path(p) = Front(p)
BY Zenon DEF regress_path, Top, NoName

LEMMA Regress ==
    ASSUME NEW p
    PROVE  /\ Len(p) = 1 => regress_path(p) = p
           /\ p = Top => regress_path(p) = Empty
           /\ Len(p) = 2 /\ p[1] = NoName /\ p[2] # NoName => regress_path(p) = Top
           /\ Len(p) # 1 /\ p # Top /\ ~(Len(p) = 2 /\ p[1] = NoName) =>
                regress_path(p) = Front(p)
<1>1. Len(Top) = 2 /\ Top[1] = NoName /\ Top[2] = NoName
  BY DEF Top
<1> QED
  BY <1>1, RegressCases

LEMMA EmptyText == Empty = <<NoName>>
BY Zenon DEF Empty, NoName

LEMMA ShortTexts ==
    ASSUME NEW S, NoName \in S, NEW p \in Seq(S)
    PROVE  /\ p = Top <=> Len(p) = 2 /\ p[1] = NoName /\ p[2] = NoName
           /\ p = Empty <=> Len(p) = 1 /\ p[1] = NoName
           /\ p = <<>> <=> Len(p) = 0
<1>1. Top \in Seq(S) /\ Len(Top) = 2 /\ Top[1] = NoName /\ Top[2] = NoName
  BY DEF Top
<1>2. Empty \in Seq(S) /\ Len(Empty) = 1 /\ Empty[1] = NoName
  BY EmptyText
<1>3. Len(p) = 2 /\ p[1] = NoName /\ p[2] = NoName => p = Top
  <2> SUFFICES ASSUME Len(p) = 2, p[1] = NoName, p[2] = NoName PROVE p = Top
    OBVIOUS
  <2>1. \A i \in 1..2 : p[i] = Top[i]
    BY <1>1
  <2> QED
    BY <1>1, <2>1, SeqEqual
<1>4. Len(p) = 1 /\ p[1] = NoName => p = Empty
  <2> SUFFICES ASSUME Len(p) = 1, p[1] = NoName PROVE p = Empty
    OBVIOUS
  <2>1. \A i \in 1..1 : p[i] = Empty[i]
    BY <1>2
  <2> QED
    BY <1>2, <2>1, SeqEqual
<1>5. p = <<>> <=> Len(p) = 0
  BY EmptySeq
<1> QED
  BY <1>1, <1>2, <1>3, <1>4, <1>5

Start(t, j) == SubSeq(t, 1, j)

LEMMA StartFacts ==
    ASSUME NEW S, NEW t \in Seq(S), NEW j \in 1..Len(t)
    PROVE  /\ Start(t, j) \in Seq(S) /\ Len(Start(t, j)) = j
           /\ \A i \in 1..j : Start(t, j)[i] = t[i]
<1>1. \A i \in 1..j : t[i] \in S
  BY ElementOfSeq, LenProperties
<1> QED
  BY <1>1, SubSeqProperties DEF Start

LEMMA FrontOfStart ==
    ASSUME NEW S, NEW t \in Seq(S), NEW j \in 2..Len(t)
    PROVE  Front(Start(t, j)) = Start(t, j - 1)
<1>1. Len(t) \in Nat
  BY LenProperties
<1>2. j \in 1..Len(t) /\ j - 1 \in 1..Len(t) /\ j - 1 \in 1..j
  BY <1>1
<1>3. Start(t, j) \in Seq(S) /\ Len(Start(t, j)) = j /\ \A i \in 1..j : Start(t, j)[i] = t[i]
  BY <1>2, StartFacts
<1>4. /\ Start(t, j - 1) \in Seq(S) /\ Len(Start(t, j - 1)) = j - 1
      /\ \A i \in 1..(j - 1) : Start(t, j - 1)[i] = t[i]
  BY <1>2, StartFacts
<1>5. Front(Start(t, j)) = Start(Start(t, j), j - 1)
  BY <1>3 DEF Front, Start
<1>6. /\ Start(Start(t, j), j - 1) \in Seq(S) /\ Len(Start(Start(t, j), j - 1)) = j - 1
      /\ \A i \in 1..(j - 1) : Start(Start(t, j), j - 1)[i] = Start(t, j)[i]
  BY <1>2, <1>3, StartFacts
<1>7. \A i \in 1..(j - 1) : Start(Start(t, j), j - 1)[i] = Start(t, j - 1)[i]
  BY <1>1, <1>3, <1>4, <1>6
<1>8. Start(Start(t, j), j - 1) = Start(t, j - 1)
  BY <1>4, <1>6, <1>7, SeqEqual
<1> QED
  BY <1>5, <1>8

(* Where the climb can be, and how many turns are left of it.              *)
Ancestor(p, t) ==
    \/ p = Empty \/ (p = Top /\ t[1] = NoName)
    \/ p # Empty /\ p # Top /\ \E j \in 1..Len(t) : p = Start(t, j)
Rank(p) == IF p = Empty THEN 0 ELSE IF p = Top THEN 1 ELSE Len(p)
(* No name in the target but the first is empty, unless it is "/".         *)
Clean(t) == t = Top \/ \A i \in 2..Len(t) : t[i] # NoName

LEMMA Third == ASSUME NEW n \in Nat, NEW j \in 2..n, j = 3 PROVE n # 2
OBVIOUS

LEMMA RegressSteps ==
    ASSUME NEW S, NoName \in S, NEW t \in Seq(S), Len(t) > 0, NEW p, p # Empty, Ancestor(p, t)
    PROVE  /\ Ancestor(regress_path(p), t)
           /\ Rank(p) \in Nat \ {0} /\ Rank(regress_path(p)) \in Nat
           /\ Rank(regress_path(p)) < Rank(p) \/ (Rank(p) = 1 /\ t[1] # NoName)
           /\ Clean(t) => Rank(p) <= Rank(regress_path(p)) + 1
           /\ Rank(p) = 1 /\ t[1] # NoName => regress_path(p) = p
<1>1. Len(t) \in Nat /\ Len(Top) = 2 /\ Top # Empty
  <2>1. Len(Top) = 2 /\ Len(Empty) = 1
    BY EmptyText DEF Top
  <2> QED
    BY <2>1, LenProperties
<1>2. CASE p = Top
  <2>1. regress_path(p) = Empty
    BY <1>1, <1>2, Regress
  <2>2. t[1] = NoName
    BY <1>1, <1>2 DEF Ancestor
  <2> QED
    BY <1>1, <1>2, <2>1, <2>2 DEF Ancestor, Rank
<1>3. CASE p # Top
  <2>1. PICK j \in 1..Len(t) : p = Start(t, j)
    BY <1>3 DEF Ancestor
  <2>2. p \in Seq(S) /\ Len(p) = j /\ \A i \in 1..j : p[i] = t[i]
    BY <2>1, StartFacts
  <2>3. ~(Len(p) = 2 /\ p[1] = NoName /\ p[2] = NoName) /\ ~(Len(p) = 1 /\ p[1] = NoName)
    <3>1. /\ p = Top <=> Len(p) = 2 /\ p[1] = NoName /\ p[2] = NoName
          /\ p = Empty <=> Len(p) = 1 /\ p[1] = NoName
      BY <2>2, ShortTexts
    <3> QED
      BY <1>3, <3>1
  <2>4. Rank(p) = j
    BY <1>3, <2>2 DEF Rank
  <2>5. CASE j = 1
    <3>1. regress_path(p) = p
      BY <2>2, <2>5, Regress
    <3>2. t[1] # NoName
      BY <2>2, <2>3, <2>5
    <3> QED
      BY <2>4, <2>5, <3>1, <3>2
  <2>6. CASE j = 2 /\ t[1] = NoName
    <3>1. p[1] = NoName /\ p[2] # NoName /\ Len(p) = 2
      BY <2>2, <2>3, <2>6
    <3>2. regress_path(p) = Top
      BY <1>3, <3>1, Regress
    <3>3. Rank(Top) = 1
      BY <1>1 DEF Rank
    <3> QED
      BY <2>4, <2>6, <3>2, <3>3 DEF Ancestor
  <2>7. CASE j > 2 \/ (j = 2 /\ t[1] # NoName)
    <3>1. j \in 2..Len(t) /\ j - 1 \in 1..Len(t)
      BY <1>1, <2>7
    <3>2. regress_path(p) = Start(t, j - 1)
      <4>1. Len(p) # 1 /\ ~(Len(p) = 2 /\ p[1] = NoName)
        BY <2>2, <2>7
      <4>2. regress_path(p) = Front(p)
        BY <1>3, <4>1, Regress
      <4> QED
        BY <2>1, <3>1, <4>2, FrontOfStart
    <3> DEFINE f == Start(t, j - 1)
    <3>3. f \in Seq(S) /\ Len(f) = j - 1 /\ \A i \in 1..(j - 1) : f[i] = t[i]
      BY <3>1, StartFacts
    <3> HIDE DEF f
    <3>4. f # Empty
      <4>1. ~(Len(f) = 1 /\ f[1] = NoName)
        BY <2>7, <3>3
      <4> QED
        BY <3>3, <4>1, ShortTexts
    <3>5. CASE f = Top
      <4>1. j = 3 /\ t[1] = NoName /\ t[2] = NoName
        BY <3>1, <3>3, <3>5, ShortTexts
      <4>2. ~Clean(t)
        <5>1. t # Top
          <6>1. t = Top => Len(t) = 2
            BY <1>1
          <6>2. Len(t) # 2
            BY <1>1, <3>1, <4>1, Third, Zenon
          <6> QED
            BY <6>1, <6>2
        <5> QED
          BY <1>1, <4>1, <5>1 DEF Clean
      <4> QED
        BY <2>4, <3>2, <3>5, <4>1, <4>2, <1>1, SMTT(30) DEF Ancestor, Rank, f
    <3>6. CASE f # Top
      <4>1. Rank(f) = j - 1
        BY <3>3, <3>4, <3>6 DEF Rank
      <4>2. Ancestor(f, t)
        BY <3>1, <3>4, <3>6 DEF Ancestor, f
      <4>3. regress_path(p) = f
        BY <3>2 DEF f
      <4> QED
        BY <1>1, <2>4, <3>1, <4>1, <4>2, <4>3
    <3> QED
      BY <3>5, <3>6
  <2> QED
    BY <2>5, <2>6, <2>7
<1> QED
  BY <1>2, <1>3

-----------------------------------------------------------------------------
(* The climb itself.                                                       *)
Climbs(g, L, t, m) ==
    g = [k \in 0..m |->
            IF k = 0 THEN t
            ELSE IF g[k - 1] = Empty \/ Matching(L, g[k - 1]) # {} THEN g[k - 1]
            ELSE regress_path(g[k - 1])]

LEMMA ClimbExists ==
    ASSUME NEW L, NEW t, NEW n \in Nat
    PROVE  \E g : Climbs(g, L, t, n)
<1> DEFINE T == {m \in Nat : \E g : Climbs(g, L, t, m)}
           Turn(p) == IF p = Empty \/ Matching(L, p) # {} THEN p ELSE regress_path(p)
<1> HIDE DEF Turn
<1>1. 0 \in T
  <2> DEFINE h == [k \in 0..0 |-> t]
  <2>1. Climbs(h, L, t, 0)
    BY DEF Climbs
  <2> QED
    BY <2>1
<1>2. ASSUME NEW m \in Nat, m \in T PROVE m + 1 \in T
  <2>1. PICK g : Climbs(g, L, t, m)
    BY <1>2
  <2>2. g = [k \in 0..m |-> IF k = 0 THEN t ELSE Turn(g[k - 1])]
    BY <2>1 DEF Climbs, Turn
  <2> DEFINE h == [k \in 0..(m + 1) |-> IF k <= m THEN g[k] ELSE Turn(g[m])]
  <2>3. ASSUME NEW k \in 0..(m + 1)
        PROVE  h[k] = IF k = 0 THEN t ELSE Turn(h[k - 1])
    <3>1. CASE k <= m
      <4>1. k \in 0..m /\ h[k] = g[k] /\ (k # 0 => h[k - 1] = g[k - 1])
        BY <3>1
      <4> HIDE DEF h
      <4> QED
        BY <2>2, <4>1
    <3>2. CASE k = m + 1
      BY <3>2
    <3> QED
      BY <3>1, <3>2
  <2>4. h = [k \in 0..(m + 1) |-> IF k = 0 THEN t ELSE Turn(h[k - 1])]
    <3>1. h = [k \in 0..(m + 1) |-> h[k]]
      OBVIOUS
    <3> HIDE DEF h
    <3> QED
      BY <2>3, <3>1
  <2>5. Climbs(h, L, t, m + 1)
    BY <2>4 DEF Climbs, Turn
  <2> QED
    BY <2>5
<1> HIDE DEF T
<1>3. n \in T
  BY <1>1, <1>2, NumbersByStep
<1> QED
  BY <1>3 DEF T

(* What the climb arrives at.                                              *)
Arrives(s, t, p) ==
    \E g : Climbs(g, LocationsOf(s), t, Len(t)) /\ p = g[Len(t)]

LEMMA ClimbArrives ==
    ASSUME NEW s, NEW t, Len(t) \in Nat
    PROVE  \E p : /\ Arrives(s, t, p) /\ Climb(s, t).path = p
                  /\ Climb(s, t).location =
                        IF p = Empty \/ Matching(LocationsOf(s), p) = {} THEN 0
                        ELSE CHOOSE n \in Matching(LocationsOf(s), p) : TRUE
<1> DEFINE L == LocationsOf(s)
           g == CHOOSE g : Climbs(g, L, t, Len(t))
           p == g[Len(t)]
<1>1. Climbs(g, L, t, Len(t))
  BY ClimbExists
<1>2. g = CHOOSE f : f = [k \in 0..Len(t) |->
            IF k = 0 THEN t
            ELSE IF f[k - 1] = Empty \/ Matching(L, f[k - 1]) # {} THEN f[k - 1]
            ELSE regress_path(f[k - 1])]
  BY DEF Climbs
<1> HIDE DEF g
<1>3. /\ Climb(s, t).path = p
      /\ Climb(s, t).location =
            LET found == IF p = Empty THEN {} ELSE Matching(L, p)
            IN IF found = {} THEN 0 ELSE CHOOSE n \in found : TRUE
  BY <1>2 DEF Climb
<1> HIDE DEF L
<1>4. Climb(s, t).location = IF p = Empty \/ Matching(L, p) = {} THEN 0
                             ELSE CHOOSE n \in Matching(L, p) : TRUE
  BY <1>3
<1> QED
  BY <1>1, <1>3, <1>4 DEF Arrives, L

-----------------------------------------------------------------------------
(* Paths with and without a slash at their end.                            *)

NoGaps(p) == \A i \in 2..(Len(p) - 1) : p[i] # NoName

LEMMA SlashCases ==
    ASSUME NEW p
    PROVE  /\ Last(p) = NoName => Bare(p) = Front(p)
           /\ Last(p) # NoName => Bare(p) = p
           /\ EndsInSlash(p) <=> Len(p) > 1 /\ Last(p) = NoName
<1>1. Last(p) = NoName => Bare(p) = Front(p)
  BY Zenon DEF Bare, NoName
<1>2. Last(p) # NoName => Bare(p) = p
  BY Zenon DEF Bare, NoName
<1>3. EndsInSlash(p) <=> Len(p) > 1 /\ Last(p) = NoName
  BY Zenon DEF EndsInSlash, NoName
<1> QED
  BY <1>1, <1>2, <1>3, Zenon

LEMMA MatchingCases ==
    ASSUME NEW L, NEW p
    PROVE  LET exact == {n \in L : tree[n].path = p} IN
           /\ exact # {} \/ EndsInSlash(p) => Matching(L, p) = exact
           /\ exact = {} /\ ~EndsInSlash(p) =>
                 Matching(L, p) = {n \in L : tree[n].path = Append(p, NoName)}
<1> DEFINE exact == {n \in L : tree[n].path = p}
<1>1. exact # {} \/ EndsInSlash(p) => Matching(L, p) = exact
  BY Zenon DEF Matching
<1>2. exact = {} /\ ~EndsInSlash(p) =>
         Matching(L, p) = {n \in L : tree[n].path = Append(p, NoName)}
  BY Zenon DEF Matching, NoName
<1> QED
  BY <1>1, <1>2, Zenon

LEMMA PrefixMeans ==
    ASSUME NEW S, NEW b \in Seq(S), NEW t \in Seq(S)
    PROVE  IsPrefix(b, t) <=> Len(b) <= Len(t) /\ \A i \in 1..Len(b) : b[i] = t[i]
<1>1. Len(b) \in Nat /\ Len(t) \in Nat
  BY LenProperties
<1>2. SubSeq(b, 1, Len(b)) = b
  BY <1>1, SubSeqFull
<1>3. CASE Len(b) <= Len(t) /\ Len(b) # 0
  <2>1. Len(b) \in 1..Len(t)
    BY <1>1, <1>3
  <2>2. /\ Start(t, Len(b)) \in Seq(S) /\ Len(Start(t, Len(b))) = Len(b)
        /\ \A i \in 1..Len(b) : Start(t, Len(b))[i] = t[i]
    BY <2>1, StartFacts
  <2>3. b = Start(t, Len(b)) <=> \A i \in 1..Len(b) : b[i] = t[i]
    BY <2>2, SeqEqual
  <2> QED
    BY <1>2, <1>3, <2>3 DEF IsPrefix, Start
<1>4. CASE Len(b) = 0
  <2>1. b = <<>> /\ SubSeq(t, 1, Len(b)) = <<>>
    BY <1>1, <1>4, EmptySeq
  <2> QED
    BY <1>1, <1>2, <1>4, <2>1 DEF IsPrefix
<1>5. CASE ~(Len(b) <= Len(t))
  BY <1>5 DEF IsPrefix
<1> QED
  BY <1>1, <1>3, <1>4, <1>5

LEMMA LastAndFront ==
    ASSUME NEW S, NEW p \in Seq(S), p # <<>>
    PROVE  /\ Len(p) \in Nat \ {0} /\ Last(p) = p[Len(p)]
           /\ Front(p) \in Seq(S) /\ Len(Front(p)) = Len(p) - 1
           /\ \A i \in 1..(Len(p) - 1) : Front(p)[i] = p[i]
<1>1. Len(p) \in Nat \ {0}
  BY EmptySeq, LenProperties
<1>2. Last(p) = p[Len(p)]
  BY DEF Last
<1>3. CASE Len(p) = 1
  <2>1. Front(p) = <<>>
    BY <1>3 DEF Front
  <2> QED
    BY <1>1, <1>2, <1>3, <2>1
<1>4. CASE Len(p) # 1
  <2>1. Len(p) - 1 \in 1..Len(p)
    BY <1>1, <1>4
  <2>2. Front(p) = Start(p, Len(p) - 1)
    BY DEF Front, Start
  <2> QED
    BY <1>1, <1>2, <2>1, <2>2, StartFacts
<1> QED
  BY <1>3, <1>4

LEMMA BareFacts ==
    ASSUME NEW S, NoName \in S, NEW p \in Seq(S), p # <<>>, p # Empty
    PROVE  /\ Bare(p) \in Seq(S) /\ Len(Bare(p)) \in Nat \ {0}
           /\ \A i \in 1..Len(Bare(p)) : Bare(p)[i] = p[i]
           /\ Last(p) # NoName => Bare(p) = p
           /\ Last(p) = NoName => Len(p) = Len(Bare(p)) + 1 /\ p[Len(p)] = NoName
<1>1. /\ Len(p) \in Nat \ {0} /\ Last(p) = p[Len(p)]
      /\ Front(p) \in Seq(S) /\ Len(Front(p)) = Len(p) - 1
      /\ \A i \in 1..(Len(p) - 1) : Front(p)[i] = p[i]
  BY LastAndFront
<1>2. Len(p) = 1 => Last(p) # NoName
  BY <1>1, ShortTexts
<1>3. CASE Last(p) = NoName
  BY <1>1, <1>2, <1>3, SlashCases
<1>4. CASE Last(p) # NoName
  BY <1>1, <1>4, SlashCases
<1> QED
  BY <1>3, <1>4

LEMMA AncestorShape ==
    ASSUME NEW S, NoName \in S, NEW t \in Seq(S), Len(t) > 0, Clean(t),
           NEW p, p # Empty, Ancestor(p, t)
    PROVE  \/ p = Top /\ t[1] = NoName /\ Rank(p) = 1
           \/ /\ p # Top /\ p \in Seq(S) /\ Len(p) = Rank(p) /\ Len(p) \in 1..Len(t)
              /\ \A i \in 1..Len(p) : p[i] = t[i]
              /\ p[Len(p)] # NoName
<1>1. Len(t) \in Nat /\ Top # Empty /\ Len(Top) = 2
  <2>1. Len(Top) = 2 /\ Len(Empty) = 1
    BY EmptyText DEF Top
  <2> QED
    BY <2>1, LenProperties
<1>2. CASE p = Top
  BY <1>1, <1>2 DEF Ancestor, Rank
<1>3. CASE p # Top
  <2>1. PICK j \in 1..Len(t) : p = Start(t, j)
    BY <1>3 DEF Ancestor
  <2>2. p \in Seq(S) /\ Len(p) = j /\ \A i \in 1..j : p[i] = t[i]
    BY <2>1, StartFacts
  <2>3. Rank(p) = j
    BY <1>3, <2>2 DEF Rank
  <2>4. p[j] # NoName
    <3>1. CASE j = 1
      BY <2>2, <3>1, ShortTexts
    <3>2. CASE j # 1 /\ t # Top
      <4>1. j \in 2..Len(t) /\ p[j] = t[j]
        BY <1>1, <2>2, <3>2
      <4> QED
        BY <3>2, <4>1 DEF Clean
    <3>3. CASE j # 1 /\ t = Top
      <4>0. Len(t) = 2
        BY <1>1, <3>3, Zenon
      <4>1. j = 2 /\ Len(t) = 2
        <5>1. j \in 1..2
          BY <4>0, Zenon
        <5> QED
          BY <3>3, <4>0, <5>1
      <4>2. \A i \in 1..2 : p[i] = t[i]
        BY <2>2, <4>1
      <4>3. p = t
        BY <2>2, <4>1, <4>2, SeqEqual
      <4> QED
        BY <1>3, <3>3, <4>3
    <3> QED
      BY <3>1, <3>2, <3>3
  <2> QED
    BY <1>3, <2>2, <2>3, <2>4
<1> QED
  BY <1>2, <1>3

(* A path begins the target, and is as long as the climb's path, exactly   *)
(* if it is that path, or that path with a slash where one is tried.       *)
AtRank(q, t, r) == IsPrefix(Bare(q), t) /\ Len(Bare(q)) = r
Tried(q, p) == q = p \/ (q = Append(p, NoName) /\ ~EndsInSlash(p))

LEMMA OneLess == ASSUME NEW n \in Nat, 2 = n + 1 PROVE n = 1
OBVIOUS

LEMMA TriedAtTop ==
    ASSUME NEW S, NoName \in S, NEW t \in Seq(S), Len(t) > 0, t[1] = NoName,
           NEW q \in Seq(S), q # <<>>, q # Empty
    PROVE  AtRank(q, t, 1) <=> Tried(q, Top)
<1> DEFINE b == Bare(q)
<1>1. /\ b \in Seq(S) /\ Len(b) \in Nat \ {0} /\ Len(q) \in Nat \ {0} /\ Last(q) = q[Len(q)]
      /\ \A i \in 1..Len(b) : b[i] = q[i]
      /\ Last(q) # NoName => b = q
      /\ Last(q) = NoName => Len(q) = Len(b) + 1 /\ q[Len(q)] = NoName
  BY BareFacts, LastAndFront
<1>2. IsPrefix(b, t) <=> Len(b) <= Len(t) /\ \A i \in 1..Len(b) : b[i] = t[i]
  BY <1>1, PrefixMeans
<1>3. /\ q = Top <=> Len(q) = 2 /\ q[1] = NoName /\ q[2] = NoName
      /\ q = Empty <=> Len(q) = 1 /\ q[1] = NoName
  BY ShortTexts
<1>4. Len(t) \in Nat
  BY LenProperties
<1>5. EndsInSlash(Top)
  <2>1. Len(Top) = 2 /\ Last(Top) = NoName
    BY DEF Top, Last
  <2> QED
    BY <2>1, SlashCases
<1> HIDE DEF b
<1>6. ASSUME IsPrefix(b, t), Len(b) = 1 PROVE q = Top
  <2>1. b[1] = NoName /\ q[1] = NoName
    BY <1>1, <1>2, <1>6
  <2>2. Last(q) = NoName
    BY <1>1, <1>3, <1>6, <2>1
  <2>3. Len(q) = 2
    BY <1>1, <1>6, <2>2
  <2>4. q[2] = NoName
    BY <1>1, <2>2, <2>3
  <2> QED
    BY <1>3, <2>1, <2>3, <2>4
<1>7. ASSUME q = Top PROVE IsPrefix(b, t) /\ Len(b) = 1
  <2>1. Len(q) = 2 /\ q[1] = NoName /\ q[2] = NoName
    BY <1>3, <1>7
  <2>2. Len(b) = 1 /\ b[1] = NoName
    <3>1. Last(q) = NoName
      BY <1>1, <2>1
    <3>2. Len(b) = 1
      <4>1. 2 = Len(b) + 1 /\ Len(b) \in Nat
        BY <1>1, <2>1, <3>1
      <4> QED
        BY <4>1, OneLess, Zenon
    <3> QED
      BY <1>1, <2>1, <3>2
  <2> QED
    BY <1>2, <1>4, <2>2
<1> QED
  BY <1>5, <1>6, <1>7 DEF AtRank, Tried, b

LEMMA TriedBelow ==
    ASSUME NEW S, NoName \in S, NEW t \in Seq(S), NEW p \in Seq(S),
           Len(p) \in 1..Len(t), \A i \in 1..Len(p) : p[i] = t[i], p[Len(p)] # NoName,
           NEW q \in Seq(S), q # <<>>, q # Empty
    PROVE  AtRank(q, t, Len(p)) <=> Tried(q, p)
<1> DEFINE b == Bare(q)
<1>1. /\ b \in Seq(S) /\ Len(b) \in Nat \ {0} /\ Len(q) \in Nat \ {0} /\ Last(q) = q[Len(q)]
      /\ \A i \in 1..Len(b) : b[i] = q[i]
      /\ Last(q) # NoName => b = q
      /\ Last(q) = NoName => Len(q) = Len(b) + 1 /\ q[Len(q)] = NoName
  BY BareFacts, LastAndFront
<1>2. IsPrefix(b, t) <=> Len(b) <= Len(t) /\ \A i \in 1..Len(b) : b[i] = t[i]
  BY <1>1, PrefixMeans
<1>3. Len(t) \in Nat /\ Len(p) \in Nat \ {0} /\ Len(p) <= Len(t)
  BY LenProperties
<1>4. Last(p) = p[Len(p)] /\ ~EndsInSlash(p)
  BY SlashCases DEF Last
<1> DEFINE a == Append(p, NoName)
<1>5. a \in Seq(S) /\ Len(a) = Len(p) + 1 /\ a[Len(p) + 1] = NoName /\ \A i \in 1..Len(p) : a[i] = p[i]
  BY AppendProperties
<1> HIDE DEF a, b
<1>6. ASSUME IsPrefix(b, t), Len(b) = Len(p) PROVE q = p \/ q = a
  <2>1. \A i \in 1..Len(b) : b[i] = p[i]
    BY <1>2, <1>6
  <2>2. b = p
    BY <1>1, <1>6, <2>1, SeqEqual
  <2>3. CASE Last(q) # NoName
    BY <1>1, <2>2, <2>3
  <2>4. CASE Last(q) = NoName
    <3>1. Len(q) = Len(a) /\ Len(q) = Len(b) + 1 /\ q[Len(q)] = NoName
      BY <1>1, <1>5, <1>6, <2>4
    <3>2. \A i \in 1..Len(b) : q[i] = a[i]
      BY <1>1, <1>5, <1>6, <2>1
    <3>3. \A i \in 1..Len(q) : i \in 1..Len(b) \/ i = Len(q)
      BY <1>1, <3>1
    <3>4. a[Len(q)] = NoName
      BY <1>5, <1>6, <3>1
    <3>5. \A i \in 1..Len(q) : q[i] = a[i]
      BY <3>1, <3>2, <3>3, <3>4
    <3> QED
      BY <1>5, <3>1, <3>5, SeqEqual
  <2> QED
    BY <2>3, <2>4
<1>7. ASSUME q = p PROVE IsPrefix(b, t) /\ Len(b) = Len(p)
  BY <1>1, <1>2, <1>3, <1>4, <1>7
<1>8. ASSUME q = a PROVE IsPrefix(b, t) /\ Len(b) = Len(p)
  <2>1. Last(q) = NoName /\ Len(q) = Len(p) + 1
    BY <1>1, <1>5, <1>8
  <2>2. Len(b) = Len(p)
    BY <1>1, <1>3, <2>1
  <2>3. \A i \in 1..Len(b) : b[i] = t[i]
    BY <1>1, <1>5, <1>8, <2>2
  <2> QED
    BY <1>2, <1>3, <2>2, <2>3
<1> QED
  BY <1>4, <1>6, <1>7, <1>8 DEF AtRank, Tried, a, b

LEMMA TriedAtRank ==
    ASSUME NEW S, NoName \in S, NEW t \in Seq(S), Len(t) > 0, Clean(t),
           NEW p, p # Empty, Ancestor(p, t),
           NEW q \in Seq(S), q # <<>>, q # Empty
    PROVE  AtRank(q, t, Rank(p)) <=> Tried(q, p)
<1>1. CASE p = Top /\ t[1] = NoName /\ Rank(p) = 1
  BY <1>1, TriedAtTop
<1>2. CASE /\ p # Top /\ p \in Seq(S) /\ Len(p) = Rank(p) /\ Len(p) \in 1..Len(t)
           /\ \A i \in 1..Len(p) : p[i] = t[i]
           /\ p[Len(p)] # NoName
  BY <1>2, TriedBelow
<1> QED
  BY <1>1, <1>2, AncestorShape

-----------------------------------------------------------------------------
(* Along the climb: no location that begins the target is longer than the  *)
(* path the climb is at, and each turn shortens it until it is stuck.      *)

Begins(n, t) == IsPrefix(Bare(tree[n].path), t)
Length(n) == Len(Bare(tree[n].path))
Texts(L, S) ==
    \A n \in L : tree[n].path \in Seq(S) /\ tree[n].path # <<>> /\ tree[n].path # Empty
                 /\ NoGaps(tree[n].path)
Target(t, S) == NoName \in S /\ t \in Seq(S) /\ Len(t) > 0 /\ t # Empty /\ Clean(t)

Stuck(p, t, L) == p = Empty \/ Matching(L, p) # {} \/ (Rank(p) = 1 /\ t[1] # NoName)
Turns(p, k, t, L) ==
    /\ Ancestor(p, t)
    /\ \A n \in L : Begins(n, t) => Length(n) <= Rank(p)
    /\ Stuck(p, t, L) \/ Rank(p) <= Len(t) - k

LEMMA MatchingIsTried ==
    ASSUME NEW L, NEW p
    PROVE  /\ \A n \in Matching(L, p) : n \in L /\ Tried(tree[n].path, p)
           /\ \A n \in L : Tried(tree[n].path, p) => Matching(L, p) # {}
<1> DEFINE exact == {n \in L : tree[n].path = p}
<1>1. /\ exact # {} \/ EndsInSlash(p) => Matching(L, p) = exact
      /\ exact = {} /\ ~EndsInSlash(p) =>
            Matching(L, p) = {n \in L : tree[n].path = Append(p, NoName)}
  BY MatchingCases
<1>2. CASE exact # {} \/ EndsInSlash(p)
  BY <1>1, <1>2, Zenon DEF Tried
<1>3. CASE exact = {} /\ ~EndsInSlash(p)
  BY <1>1, <1>3, Zenon DEF Tried
<1> QED
  BY <1>2, <1>3

LEMMA LengthType ==
    ASSUME NEW L, NEW S, NoName \in S, Texts(L, S), NEW n \in L
    PROVE  Length(n) \in Nat \ {0}
BY BareFacts DEF Texts, Length

LEMMA MatchingAtRank ==
    ASSUME NEW L, NEW S, NEW t, Texts(L, S), Target(t, S), NEW p, p # Empty, Ancestor(p, t)
    PROVE  /\ \A n \in Matching(L, p) : n \in L /\ Begins(n, t) /\ Length(n) = Rank(p)
           /\ Matching(L, p) = {} => \A n \in L : Begins(n, t) => Length(n) # Rank(p)
<1>1. \A n \in L : Begins(n, t) /\ Length(n) = Rank(p) <=> Tried(tree[n].path, p)
  <2> SUFFICES ASSUME NEW n \in L
               PROVE  Begins(n, t) /\ Length(n) = Rank(p) <=> Tried(tree[n].path, p)
    OBVIOUS
  <2> DEFINE q == tree[n].path
  <2>1. q \in Seq(S) /\ q # <<>> /\ q # Empty
    BY DEF Texts
  <2>2. NoName \in S /\ t \in Seq(S) /\ Len(t) > 0 /\ Clean(t)
    BY DEF Target
  <2> HIDE DEF q
  <2>3. AtRank(q, t, Rank(p)) <=> Tried(q, p)
    BY <2>1, <2>2, TriedAtRank
  <2> QED
    BY <2>3, Zenon DEF AtRank, Begins, Length, q
<1> QED
  BY <1>1, MatchingIsTried, Zenon

LEMMA AtMostOne == ASSUME NEW n \in Nat, n <= 2, n # 2 PROVE n <= 1
OBVIOUS

LEMMA TurnsAtFirst ==
    ASSUME NEW L, NEW S, NEW t, Texts(L, S), Target(t, S)
    PROVE  Turns(t, 0, t, L)
<1>1. NoName \in S /\ t \in Seq(S) /\ Len(t) > 0 /\ t # Empty /\ Clean(t)
  BY DEF Target
<1>2. Len(t) \in Nat \ {0}
  BY <1>1, LenProperties
<1>3. t = Top => Len(t) = 2 /\ t[1] = NoName /\ t[2] = NoName
  BY DEF Top
<1>4. Ancestor(t, t)
  <2>1. t = Start(t, Len(t))
    BY <1>1, <1>2, SubSeqFull DEF Start
  <2>2. Len(t) \in 1..Len(t)
    BY <1>2
  <2> QED
    BY <1>1, <1>3, <2>1, <2>2, Zenon DEF Ancestor
<1>5. t # Top => Rank(t) = Len(t)
  BY <1>1 DEF Rank
<1>6. t = Top => Rank(t) = 1
  BY <1>1 DEF Rank
<1>7. ASSUME NEW n \in L, Begins(n, t) PROVE Length(n) <= Rank(t)
  <2> DEFINE q == tree[n].path
             b == Bare(q)
  <2>1. q \in Seq(S) /\ q # <<>> /\ q # Empty /\ NoGaps(q)
    BY DEF Texts
  <2>2. /\ b \in Seq(S) /\ Len(b) \in Nat \ {0} /\ Len(q) \in Nat \ {0} /\ Last(q) = q[Len(q)]
        /\ \A i \in 1..Len(b) : b[i] = q[i]
        /\ Last(q) # NoName => b = q
        /\ Last(q) = NoName => Len(q) = Len(b) + 1 /\ q[Len(q)] = NoName
    BY <1>1, <2>1, BareFacts, LastAndFront
  <2>3. Len(b) <= Len(t) /\ \A i \in 1..Len(b) : b[i] = t[i]
    BY <1>1, <1>7, <2>2, PrefixMeans DEF Begins
  <2> HIDE DEF q, b
  <2>4. ASSUME t = Top, Len(b) = 2 PROVE FALSE
    <3>1. b[2] = NoName /\ q[2] = NoName
      BY <1>3, <2>2, <2>3, <2>4
    <3>2. CASE Last(q) # NoName
      BY <2>2, <2>4, <3>1, <3>2
    <3>3. CASE Last(q) = NoName
      <4>1. Len(q) = 3
        BY <2>2, <2>4, <3>3
      <4> QED
        BY <2>1, <3>1, <4>1 DEF NoGaps
    <3> QED
      BY <3>2, <3>3
  <2>5. Len(b) <= Rank(t)
    <3>1. CASE t = Top
      <4>1. Len(t) = 2 /\ Rank(t) = 1
        BY <1>3, <1>6, <3>1
      <4>2. Len(b) \in Nat /\ Len(b) <= 2 /\ Len(b) # 2
        BY <2>2, <2>3, <2>4, <3>1, <4>1
      <4>3. Len(b) <= 1
        BY <4>2, AtMostOne, Zenon
      <4> QED
        BY <4>1, <4>3
    <3>2. CASE t # Top
      BY <1>5, <2>3, <3>2
    <3> QED
      BY <3>1, <3>2
  <2> QED
    BY <2>5 DEF Length, b, q
<1>8. Rank(t) <= Len(t) - 0
  BY <1>2, <1>3, <1>5, <1>6
<1> QED
  BY <1>4, <1>7, <1>8 DEF Turns

LEMMA TurnsNext ==
    ASSUME NEW L, NEW S, NEW t, Texts(L, S), Target(t, S), NEW k \in Nat,
           NEW p, Turns(p, k, t, L)
    PROVE  Turns(IF p = Empty \/ Matching(L, p) # {} THEN p ELSE regress_path(p), k + 1, t, L)
<1> DEFINE r == regress_path(p)
<1>1. CASE p = Empty \/ Matching(L, p) # {}
  BY <1>1, Zenon DEF Turns, Stuck
<1>2. CASE p # Empty /\ Matching(L, p) = {}
  <2>1. NoName \in S /\ t \in Seq(S) /\ Len(t) > 0 /\ Clean(t) /\ Ancestor(p, t)
    BY DEF Target, Turns
  <2>2. /\ Ancestor(r, t) /\ Rank(p) \in Nat \ {0} /\ Rank(r) \in Nat
        /\ Rank(r) < Rank(p) \/ (Rank(p) = 1 /\ t[1] # NoName)
        /\ Rank(p) <= Rank(r) + 1
        /\ Rank(p) = 1 /\ t[1] # NoName => r = p
    BY <1>2, <2>1, RegressSteps
  <2> HIDE DEF r
  <2>3. ASSUME NEW n \in L, Begins(n, t) PROVE Length(n) <= Rank(r)
    <3>1. Length(n) \in Nat /\ Length(n) <= Rank(p) /\ Length(n) # Rank(p)
      BY <1>2, <2>1, <2>3, LengthType, MatchingAtRank DEF Turns
    <3> QED
      BY <2>2, <3>1
  <2>4. Stuck(r, t, L) \/ Rank(r) <= Len(t) - (k + 1)
    <3>1. CASE Rank(p) = 1 /\ t[1] # NoName
      BY <2>2, <3>1 DEF Stuck
    <3>2. CASE ~(Rank(p) = 1 /\ t[1] # NoName)
      <4>1. Rank(p) <= Len(t) - k
        BY <1>2, <3>2 DEF Turns, Stuck
      <4>2. Len(t) \in Nat
        BY <2>1, LenProperties
      <4> QED
        BY <2>2, <3>2, <4>1, <4>2
    <3> QED
      BY <3>1, <3>2
  <2>5. Turns(r, k + 1, t, L)
    BY <2>2, <2>3, <2>4 DEF Turns
  <2> QED
    BY <1>2, <2>5, Zenon DEF r
<1> QED
  BY <1>1, <1>2

LEMMA TurnsThroughout ==
    ASSUME NEW L, NEW S, NEW t, Texts(L, S), Target(t, S), NEW g, Climbs(g, L, t, Len(t))
    PROVE  Turns(g[Len(t)], Len(t), t, L)
<1> DEFINE T == {k \in Nat : k <= Len(t) => Turns(g[k], k, t, L)}
           Turn(p) == IF p = Empty \/ Matching(L, p) # {} THEN p ELSE regress_path(p)
<1>1. Len(t) \in Nat
  BY LenProperties DEF Target
<1> HIDE DEF Turn
<1>2. g = [k \in 0..Len(t) |-> IF k = 0 THEN t ELSE Turn(g[k - 1])]
  BY DEF Climbs, Turn
<1>3. g[0] = t /\ \A k \in 0..(Len(t) - 1) : g[k + 1] = Turn(g[k])
  <2>1. \A k \in 0..Len(t) : g[k] = IF k = 0 THEN t ELSE Turn(g[k - 1])
    BY <1>2
  <2> QED
    BY <1>1, <2>1
<1>4. 0 \in T
  BY <1>3, TurnsAtFirst
<1>5. ASSUME NEW k \in Nat, k \in T PROVE k + 1 \in T
  <2> SUFFICES ASSUME k + 1 <= Len(t) PROVE Turns(g[k + 1], k + 1, t, L)
    OBVIOUS
  <2>1. Turns(g[k], k, t, L) /\ g[k + 1] = Turn(g[k])
    BY <1>1, <1>3, <1>5
  <2>2. Turns(Turn(g[k]), k + 1, t, L)
    BY <2>1, TurnsNext DEF Turn
  <2> QED
    BY <2>1, <2>2
<1> HIDE DEF T
<1>6. Len(t) \in T
  BY <1>1, <1>4, <1>5, NumbersByStep
<1> QED
  BY <1>1, <1>6 DEF T

(* What the climb finds is the longest; where it finds nothing there is    *)
(* nothing, and it can only go on where the target begins with a name.     *)
LEMMA ClimbFinds ==
    ASSUME NEW s, NEW S, NEW t, Texts(LocationsOf(s), S), Target(t, S)
    PROVE  LET n == Climb(s, t).location
               p == Climb(s, t).path
           IN \/ /\ n \in Matching(LocationsOf(s), p) /\ n \in LocationsOf(s) /\ Begins(n, t)
                 /\ p # Empty /\ Ancestor(p, t)
                 /\ \A m \in LocationsOf(s) : Begins(m, t) => Length(m) <= Length(n)
              \/ /\ n = 0 /\ \A m \in LocationsOf(s) : ~Begins(m, t)
                 /\ p # Empty => t[1] # NoName
<1> DEFINE L == LocationsOf(s)
<1>0. Len(t) \in Nat
  BY LenProperties DEF Target
<1>1. PICK p : /\ Arrives(s, t, p) /\ Climb(s, t).path = p
               /\ Climb(s, t).location =
                     IF p = Empty \/ Matching(L, p) = {} THEN 0
                     ELSE CHOOSE n \in Matching(L, p) : TRUE
  BY <1>0, ClimbArrives
<1>2. Turns(p, Len(t), t, L)
  BY <1>1, TurnsThroughout DEF Arrives
<1>3. \A m \in L : Length(m) \in Nat \ {0}
  BY LengthType DEF Target
<1> HIDE DEF L
<1>4. CASE p = Empty
  <2>1. Rank(p) = 0
    BY <1>4 DEF Rank
  <2>2. \A m \in L : ~Begins(m, t)
    BY <1>2, <1>3, <2>1 DEF Turns
  <2> QED
    BY <1>1, <1>4, <2>2, Zenon DEF L
<1>5. CASE p # Empty /\ Matching(L, p) # {}
  <2>1. Climb(s, t).location \in Matching(L, p)
    BY <1>1, <1>5, Zenon
  <2>2. \A n \in Matching(L, p) : n \in L /\ Begins(n, t) /\ Length(n) = Rank(p)
    BY <1>2, <1>5, MatchingAtRank DEF Turns, L
  <2>3. \A m \in L : Begins(m, t) => Length(m) <= Length(Climb(s, t).location)
    BY <1>2, <2>1, <2>2 DEF Turns
  <2> QED
    BY <1>1, <1>2, <1>5, <2>1, <2>2, <2>3 DEF L, Turns
<1>6. CASE p # Empty /\ Matching(L, p) = {}
  <2>1. Ancestor(p, t) /\ NoName \in S /\ t \in Seq(S) /\ Len(t) > 0
    BY <1>2 DEF Turns, Target
  <2>2. Rank(p) \in Nat \ {0}
    BY <1>6, <2>1, RegressSteps
  <2>3. Rank(p) = 1 /\ t[1] # NoName
    BY <1>0, <1>2, <1>6, <2>2 DEF Turns, Stuck
  <2>4. \A m \in L : Begins(m, t) => Length(m) <= 1 /\ Length(m) # 1
    BY <1>2, <1>6, <2>1, <2>3, MatchingAtRank DEF Turns, L
  <2>5. \A m \in L : ~Begins(m, t)
    BY <1>3, <2>4
  <2> QED
    BY <1>1, <1>6, <2>3, <2>5, Zenon DEF L
<1> QED
  BY <1>4, <1>5, <1>6

-----------------------------------------------------------------------------
(* No path and no target is written with a slash behind a slash.           *)
Tidy == \A p \in LocationPaths \cup {q.target : q \in Requests} : NoGaps(p)

LEMMA FilePathCases ==
    ASSUME NEW q
    PROVE  /\ EndsInSlash(q.target) /\ q.target # Top => FilePath(q) = Front(q.target)
           /\ ~(EndsInSlash(q.target) /\ q.target # Top) => FilePath(q) = q.target
BY Zenon DEF FilePath, IsDir, Top, NoName

LEMMA TwoFor == ASSUME NEW n \in Nat, 1 = n - 1 PROVE n = 2
OBVIOUS

LEMMA TargetOfRequest ==
    ASSUME Tidy, NEW q \in Requests, NEW S, NoName \in S, q.target \in Seq(S)
    PROVE  Target(FilePath(q), S) /\ FilePath(q)[1] = q.target[1]
<1> DEFINE x == q.target
           t == FilePath(q)
<1>1. x \in Seq(S) /\ x # <<>> /\ x # Empty /\ NoGaps(x)
  BY TargetAssumption DEF Tidy, IsPath
<1>2. /\ EndsInSlash(x) /\ x # Top => t = Front(x)
      /\ ~(EndsInSlash(x) /\ x # Top) => t = x
      /\ EndsInSlash(x) <=> Len(x) > 1 /\ Last(x) = NoName
  BY FilePathCases, SlashCases
<1> HIDE DEF x, t
<1>3. /\ Len(x) \in Nat \ {0} /\ Last(x) = x[Len(x)]
      /\ Front(x) \in Seq(S) /\ Len(Front(x)) = Len(x) - 1
      /\ \A i \in 1..(Len(x) - 1) : Front(x)[i] = x[i]
  BY <1>1, LastAndFront
<1>4. /\ x = Top <=> Len(x) = 2 /\ x[1] = NoName /\ x[2] = NoName
      /\ x = Empty <=> Len(x) = 1 /\ x[1] = NoName
  BY <1>1, ShortTexts
<1>5. CASE EndsInSlash(x) /\ x # Top
  <2>1. t = Front(x) /\ Len(x) > 1 /\ x[Len(x)] = NoName
    BY <1>2, <1>3, <1>5
  <2>2. t \in Seq(S) /\ Len(t) = Len(x) - 1 /\ \A i \in 1..(Len(x) - 1) : t[i] = x[i]
    BY <1>3, <2>1
  <2>3. Len(t) > 0 /\ t[1] = x[1]
    BY <1>3, <2>1, <2>2
  <2>4. t # Empty
    <3> SUFFICES ASSUME Len(t) = 1, t[1] = NoName PROVE FALSE
      BY <2>2, ShortTexts
    <3>1. Len(x) = 2
      <4>1. 1 = Len(x) - 1 /\ Len(x) \in Nat
        BY <1>3, <2>2
      <4> QED
        BY <4>1, TwoFor, Zenon
    <3> QED
      BY <1>4, <1>5, <2>1, <2>3, <3>1
  <2>5. \A i \in 2..Len(t) : t[i] # NoName
    BY <1>1, <1>3, <2>2 DEF NoGaps
  <2> QED
    BY <2>2, <2>3, <2>4, <2>5 DEF Target, Clean, t, x
<1>6. CASE ~(EndsInSlash(x) /\ x # Top)
  <2>1. t = x /\ Len(t) > 0
    BY <1>2, <1>3, <1>6
  <2>2. Clean(x)
    <3>1. CASE x = Top
      BY <3>1 DEF Clean
    <3>2. CASE x # Top
      <4>1. Len(x) > 1 => x[Len(x)] # NoName
        BY <1>2, <1>3, <1>6, <3>2
      <4>2. ASSUME NEW i \in 2..Len(x) PROVE x[i] # NoName
        <5>1. CASE i = Len(x)
          BY <1>3, <4>1, <5>1
        <5>2. CASE i # Len(x)
          BY <1>1, <1>3, <5>2 DEF NoGaps
        <5> QED
          BY <5>1, <5>2
      <4> QED
        BY <4>2 DEF Clean
    <3> QED
      BY <3>1, <3>2
  <2> QED
    BY <1>1, <2>1, <2>2 DEF Target, t, x
<1> QED
  BY <1>5, <1>6

(* A set of names that holds those of all paths and of one target.         *)
Names(q) == {NoName} \cup ToSet(q.target) \cup UNION {ToSet(p) : p \in LocationPaths}

LEMMA NamesOfAll ==
    ASSUME Tidy, TextInv, NEW q \in Requests, NEW s
    PROVE  Texts(LocationsOf(s), Names(q)) /\ Target(FilePath(q), Names(q))
           /\ FilePath(q)[1] = q.target[1]
<1> DEFINE S == Names(q)
<1>1. NoName \in S /\ ToSet(q.target) \subseteq S /\ \A p \in LocationPaths : ToSet(p) \subseteq S
  BY DEF Names
<1> HIDE DEF S
<1>2. q.target \in Seq(S)
  <2>1. q.target \in Seq(ToSet(q.target))
    BY TargetAssumption DEF IsPath
  <2> QED
    BY <1>1, <2>1, SeqMonotonic
<1>3. ASSUME NEW n \in LocationsOf(s)
      PROVE  LET p == tree[n].path IN
             p \in Seq(S) /\ p # <<>> /\ p # Empty /\ NoGaps(p)
  <2> DEFINE p == tree[n].path
  <2>1. p \in LocationPaths
    BY DEF LocationsOf, Nodes, TextInv, TreeWritten, Written
  <2> HIDE DEF p
  <2>2. p \in Seq(ToSet(p)) /\ p # <<>> /\ p # Empty
    BY <2>1, PathAssumption DEF IsPath
  <2>3. p \in Seq(S)
    BY <1>1, <2>1, <2>2, SeqMonotonic
  <2>4. NoGaps(p)
    BY <2>1 DEF Tidy
  <2> QED
    BY <2>2, <2>3, <2>4 DEF p
<1>4. Texts(LocationsOf(s), S)
  BY <1>3 DEF Texts
<1> QED
  BY <1>1, <1>2, <1>4, TargetOfRequest DEF S

LEMMA RouteFinds ==
    ASSUME Tidy, TextInv, NEW q \in Requests, NEW s
    PROVE  LET t == FilePath(q)
               n == MatchLocation(s, t)
               p == Climb(s, t).path
               fitting == Fitting(s, t)
           IN \/ /\ n \in fitting /\ n \in Matching(LocationsOf(s), p)
                 /\ p # Empty /\ Ancestor(p, t)
                 /\ \A m \in fitting : Len(Bare(tree[m].path)) <= Len(Bare(tree[n].path))
              \/ /\ n = 0 /\ fitting = {}
                 /\ p # Empty => q.target[1] # NoName
<1>1. /\ Texts(LocationsOf(s), Names(q)) /\ Target(FilePath(q), Names(q))
      /\ FilePath(q)[1] = q.target[1]
  BY NamesOfAll
<1> DEFINE t == FilePath(q)
<1>2. LET n == Climb(s, t).location
          p == Climb(s, t).path
      IN \/ /\ n \in Matching(LocationsOf(s), p) /\ n \in LocationsOf(s) /\ Begins(n, t)
            /\ p # Empty /\ Ancestor(p, t)
            /\ \A m \in LocationsOf(s) : Begins(m, t) => Length(m) <= Length(n)
         \/ /\ n = 0 /\ \A m \in LocationsOf(s) : ~Begins(m, t)
            /\ p # Empty => t[1] # NoName
  BY <1>1, ClimbFinds
<1> HIDE DEF t
<1>3. Fitting(s, t) = {m \in LocationsOf(s) : Begins(m, t)}
  BY DEF Fitting, Begins
<1>4. MatchLocation(s, t) = Climb(s, t).location
  BY DEF MatchLocation
<1>5. t[1] = q.target[1]
  BY <1>1 DEF t
<1> QED
  BY <1>2, <1>3, <1>4, <1>5, Zenon DEF Length, t

LEMMA TopEnds == EndsInSlash(Top)
<1>1. Len(Top) = 2 /\ Last(Top) = NoName
  BY DEF Top, Last
<1> QED
  BY <1>1, SlashCases

(* Of two locations that begin the target and are equally long, one is     *)
(* written with a slash at its end, and not the one that is found.         *)
LEMMA OneIsBare ==
    ASSUME Tidy, TextInv, NEW q \in Requests, NEW s, NEW n, NEW p, NEW m,
           n \in Matching(LocationsOf(s), p), p # Empty, Ancestor(p, FilePath(q)),
           m \in Fitting(s, FilePath(q)), m # n, n \in Fitting(s, FilePath(q)),
           Bare(tree[m].path) = Bare(tree[n].path)
    PROVE  EndsInSlash(tree[m].path)
<1> DEFINE L == LocationsOf(s)
           t == FilePath(q)
           exact == {k \in L : tree[k].path = p}
<1>1. Texts(L, Names(q)) /\ Target(t, Names(q))
  BY NamesOfAll
<1>2. \A k \in Matching(L, p) : k \in L /\ Begins(k, t) /\ Length(k) = Rank(p)
  BY <1>1, MatchingAtRank
<1>3. m \in L /\ n \in L /\ Begins(m, t) /\ Length(m) = Rank(p)
  BY <1>2, Zenon DEF Fitting, Begins, Length
<1>4. tree[m].path # tree[n].path
  BY <1>3 DEF TextInv, Apart, LocationsOf
<1>5. Tried(tree[m].path, p) /\ Tried(tree[n].path, p)
  <2>1. Tried(tree[n].path, p)
    BY MatchingIsTried
  <2>2. AtRank(tree[m].path, t, Rank(p))
    BY <1>3, Zenon DEF AtRank, Begins, Length
  <2>3. /\ tree[m].path \in Seq(Names(q)) /\ tree[m].path # <<>> /\ tree[m].path # Empty
        /\ NoName \in Names(q) /\ t \in Seq(Names(q)) /\ Len(t) > 0 /\ Clean(t)
    BY <1>1, <1>3 DEF Texts, Target
  <2> HIDE DEF t
  <2>4. Tried(tree[m].path, p)
    BY <2>2, <2>3, TriedAtRank DEF t
  <2> QED
    BY <2>1, <2>4
<1> HIDE DEF L, t
<1>6. tree[m].path # p
  <2> SUFFICES ASSUME tree[m].path = p PROVE FALSE
    OBVIOUS
  <2>1. m \in exact /\ exact # {}
    BY <1>3
  <2>2. exact # {} \/ EndsInSlash(p) => Matching(L, p) = exact
    BY MatchingCases
  <2>3. Matching(L, p) = exact
    BY <2>1, <2>2, Zenon
  <2> QED
    BY <1>4, <2>3 DEF L
<1>7. tree[m].path = Append(p, NoName) /\ ~EndsInSlash(p)
  BY <1>5, <1>6, Zenon DEF Tried
<1>8. p \in Seq(Names(q)) /\ NoName \in Names(q) /\ Len(p) \in Nat \ {0}
  <2>1. p # Top \/ EndsInSlash(p)
    <3>1. EndsInSlash(Top)
      BY TopEnds
    <3> QED
      BY <3>1, Zenon
  <2>2. NoName \in Names(q) /\ t \in Seq(Names(q)) /\ Len(t) > 0 /\ Clean(t) /\ Ancestor(p, t)
    BY <1>1 DEF Target, t
  <2>3. p \in Seq(Names(q)) /\ Len(p) \in 1..Len(t)
    BY <1>7, <2>1, <2>2, AncestorShape
  <2>4. Len(t) \in Nat
    BY <2>2, LenProperties
  <2> QED
    BY <2>2, <2>3, <2>4
<1> DEFINE a == Append(p, NoName)
<1>9. a \in Seq(Names(q)) /\ Len(a) = Len(p) + 1 /\ a[Len(p) + 1] = NoName
  BY <1>8, AppendProperties
<1> HIDE DEF a
<1>10. Len(a) > 1 /\ Last(a) = NoName
  BY <1>8, <1>9 DEF Last
<1>11. EndsInSlash(a)
  BY <1>10, SlashCases
<1> QED
  BY <1>7, <1>11 DEF a

-----------------------------------------------------------------------------
(* The tree and the text, throughout.                                      *)

LEMMA SameText ==
    ASSUME tree' = tree
    PROVE  /\ TextInv => TextInv'
           /\ \A s, t : Fitting(s, t)' = Fitting(s, t)
           /\ \A q : MatchServer(q)' = MatchServer(q)
<1>1. Servers' = Servers /\ \A type : Nodes(type)' = Nodes(type)
  BY DEF Servers, Nodes
<1>2. \A n, N : Nearest(n, N)' = Nearest(n, N)
  BY DEF Nearest
<1>3. \A s : LocationsOf(s)' = LocationsOf(s)
  BY <1>1, <1>2 DEF LocationsOf
<1>4. TextInv => TextInv'
  BY <1>1, <1>2 DEF TextInv, TreeWritten, Written, Apart
<1>5. \A s, t : Fitting(s, t)' = Fitting(s, t)
  BY <1>3 DEF Fitting
<1>6. \A q : MatchServer(q)' = MatchServer(q)
  BY <1>1 DEF MatchServer
<1> QED
  BY <1>4, <1>5, <1>6

LEMMA Init_TextInv == Init => TextInv
<1> SUFFICES ASSUME Init PROVE TextInv
  OBVIOUS
<1> DEFINE first == NewNode("http", 0, Empty)
<1>1. first.type = "http" /\ Written(first)
  BY NewWritten DEF NewNode
<1>2. tree = <<first>>
  BY DEF Init, ParserInit
<1> HIDE DEF first
<1>3. DOMAIN tree = {1} /\ tree[1] = first
  BY <1>2
<1>4. Nodes("location") = {}
  BY <1>1, <1>3 DEF Nodes
<1> QED
  BY <1>1, <1>3, <1>4 DEF TextInv, TreeWritten, Apart

LEMMA Next_TextInv == SiteInv /\ TextInv /\ [Next]_vars => TextInv'
<1> SUFFICES ASSUME SiteInv, TextInv, [Next]_vars PROVE TextInv'
  OBVIOUS
<1>1. CASE Parses
  <2>1. ParserInv
    BY DEF SiteInv
  <2>2. CASE ParseDirective \/ ParseBlock \/ ParseEnd
    BY <2>1, <2>2, DirectiveWritten, BlockWritten, EndWritten
  <2>3. CASE Validate \/ Validated \/ ParseBlockEnd
    BY <2>3, SameText DEF Validate, Validated, ParseBlockEnd
  <2> QED
    BY <1>1, <2>2, <2>3 DEF Parses, ParserNext
<1>2. CASE Opens
  BY <1>2, SameText DEF Opens, ListeningNext, OpenSocket, OpenFails, AllOpen
<1>3. CASE Responds \/ Reconnects
  BY <1>3, AnswerStage, SameText DEF Responds, Reconnects, NewConnection
<1>4. CASE Ended \/ UNCHANGED vars
  BY <1>4, SameText DEF Ended, vars
<1> QED
  BY <1>1, <1>2, <1>3, <1>4 DEF Next

LEMMA SpecText == Spec => [](SiteInv /\ TextInv)
<1>1. Init => TextInv
  BY Init_TextInv
<1>2. SiteInv /\ TextInv /\ [Next]_vars => TextInv'
  BY Next_TextInv
<1> QED
  BY <1>1, <1>2, SpecInv, PTL DEF Spec

(* A request gets the location with the longest path that begins its       *)
(* target, at whatever order the blocks were written: buildDirPath tries   *)
(* every beginning of the target from the longest one down, first as it is *)
(* and then with a slash at its end.                                       *)
THEOREM LongestPrefix == ASSUME Tidy PROVE Spec => []LocationIsLongestPrefix
<1>1. ASSUME TextInv, NEW q \in Requests
      PROVE  LET s == MatchServer(q)
                 fitting == Fitting(s, FilePath(q))
                 n == MatchLocation(s, FilePath(q))
             IN IF fitting = {} THEN n = 0
                ELSE /\ n \in fitting
                     /\ \A m \in fitting : Len(Bare(tree[m].path)) <= Len(Bare(tree[n].path))
                     /\ \A m \in fitting \ {n} :
                           Bare(tree[m].path) = Bare(tree[n].path) => EndsInSlash(tree[m].path)
  <2> DEFINE s == MatchServer(q)
             t == FilePath(q)
             n == MatchLocation(s, t)
             p == Climb(s, t).path
             fitting == Fitting(s, t)
  <2> HIDE DEF s
  <2>1. \/ /\ n \in fitting /\ n \in Matching(LocationsOf(s), p) /\ p # Empty /\ Ancestor(p, t)
           /\ \A m \in fitting : Len(Bare(tree[m].path)) <= Len(Bare(tree[n].path))
        \/ n = 0 /\ fitting = {}
    BY <1>1, RouteFinds
  <2>2. ASSUME n \in fitting, n \in Matching(LocationsOf(s), p), p # Empty, Ancestor(p, t),
               NEW m \in fitting \ {n}, Bare(tree[m].path) = Bare(tree[n].path)
        PROVE  EndsInSlash(tree[m].path)
    BY <1>1, <2>2, OneIsBare
  <2> HIDE DEF t, n, p, fitting
  <2>3. IF fitting = {} THEN n = 0
        ELSE /\ n \in fitting
             /\ \A m \in fitting : Len(Bare(tree[m].path)) <= Len(Bare(tree[n].path))
             /\ \A m \in fitting \ {n} :
                   Bare(tree[m].path) = Bare(tree[n].path) => EndsInSlash(tree[m].path)
    BY <2>1, <2>2, Zenon
  <2> QED
    BY <2>3 DEF fitting, n, p, t, s
<1>2. TextInv => LocationIsLongestPrefix
  BY <1>1 DEF LocationIsLongestPrefix
<1> QED
  BY <1>2, SpecText, PTL

-----------------------------------------------------------------------------
(* The two ways a request can end the service are open only to those the   *)
(* configuration does not cover: a climb that never ends needs a target    *)
(* without a slash in front, the location that is missing when             *)
(* handlePOST follows it needs a target no location begins. That a covered *)
(* request survives needs both, and that nothing is answered before there  *)
(* is a tree to look in.                                                   *)

Covered(l) ==
    /\ l.what = "hung" => l.req.target[1] # NoName
    /\ l.what = "crashed" => Fitting(MatchServer(l.req), FilePath(l.req)) = {}
SurvivalInv ==
    /\ stage \in {"validate", "parse", "parsed"} => last = NoAnswer
    /\ Covered(last)

LEMMA CoveredMeans == Covered(last) <=> SurvivesWhenCovered
BY Zenon DEF Covered, SurvivesWhenCovered, NoName

LEMMA SameCovered ==
    ASSUME tree' = tree, NEW l
    PROVE  Covered(l)' <=> Covered(l)
<1>1. /\ \A s, t : Fitting(s, t)' = Fitting(s, t)
      /\ \A q : MatchServer(q)' = MatchServer(q)
  BY SameText
<1> QED
  BY <1>1 DEF Covered

(* Whatever else a request comes to, its answer is one of these.           *)
LEMMA OtherAnswers ==
    ASSUME NEW q, getResponse(q)
    PROVE  LET r == Route(q) IN
           \/ Hang(q, r) \/ PostCrashes(q, r)
           \/ last'.what \in {"error", "redirect", "script", "uploaded", "file", "listing", "deleted"}
<1> DEFINE r == Route(q)
           Other == last'.what \in {"error", "redirect", "script", "uploaded", "file", "listing", "deleted"}
<1> SUFFICES Hang(q, r) \/ PostCrashes(q, r) \/ Other
  BY Zenon
<1> HIDE DEF r
<1>1. CASE \/ TooLarge(q, r) \/ Redirect(q, r) \/ RunScript(q, r) \/ ScriptFails(q, r)
           \/ NotThere(q, r) \/ UploadRefused(q, r) \/ Upload(q, r)
  BY <1>1 DEF TooLarge, Redirect, RunScript, ScriptFails, NotThere, UploadRefused, Upload,
     Fails, Says, Answer
<1>2. ASSUME NEW p, matchMethod(q, r, p) PROVE Other
  BY <1>2 DEF matchMethod, MethodRefused, Get, Delete, Fails, Says, Answer
<1>3. CASE ServeFile(q, r) \/ ServeIndex(q, r) \/ ServeDirectory(q, r)
  <2>1. (\E p : matchMethod(q, r, p)) \/ \E base : Fails(q, 403, base)
    BY <1>3 DEF ServeFile, ServeIndex, ServeDirectory
  <2>2. ASSUME NEW base, Fails(q, 403, base) PROVE Other
    BY <2>2 DEF Fails, Says, Answer
  <2> QED
    BY <1>2, <2>1, <2>2
<1>4. \/ Hang(q, r) \/ TooLarge(q, r) \/ Redirect(q, r)
      \/ RunScript(q, r) \/ ScriptFails(q, r)
      \/ PostCrashes(q, r) \/ UploadRefused(q, r) \/ Upload(q, r)
      \/ ServeFile(q, r) \/ NotThere(q, r)
      \/ ServeIndex(q, r) \/ ServeDirectory(q, r)
  BY DEF getResponse, r
<1> HIDE DEF Other
<1> QED
  BY <1>1, <1>3, <1>4, Zenon

LEMMA EndsCovered ==
    ASSUME Tidy, SiteInv, TextInv, NEW q \in Requests, getResponse(q)
    PROVE  Covered(last)'
<1> DEFINE r == Route(q)
           s == MatchServer(q)
           t == FilePath(q)
<1>1. /\ r.location = MatchLocation(s, t)
      /\ r.loops => r.location = 0 /\ Climb(s, t).path # Empty
  BY DEF Route, MatchLocation
<1> HIDE DEF r, s, t
<1>2. \/ r.location \in Fitting(s, t)
      \/ /\ r.location = 0 /\ Fitting(s, t) = {}
         /\ r.loops => q.target[1] # NoName
  BY <1>1, RouteFinds DEF s, t
<1>3. 0 \notin Fitting(s, t)
  <2>1. DOMAIN tree = 1..Len(tree)
    BY TreeHangs DEF SiteInv, ParserInv
  <2> QED
    BY <2>1 DEF Fitting, LocationsOf, Nodes
<1>4. tree' = tree
  BY AnswerStage
<1>5. \/ Hang(q, r) \/ PostCrashes(q, r)
      \/ last'.what \in {"error", "redirect", "script", "uploaded", "file", "listing", "deleted"}
  BY OtherAnswers DEF r
<1> DEFINE l == last'
<1>6. Covered(l)
  <2>1. CASE Hang(q, r)
    <3>1. l = [what |-> "hung", req |-> q] /\ r.loops
      BY <2>1 DEF Hang, Ends
    <3>2. q.target[1] # NoName
      BY <1>1, <1>2, <1>3, <3>1
    <3> HIDE DEF l
    <3> QED
      BY <3>1, <3>2 DEF Covered
  <2>2. CASE PostCrashes(q, r)
    <3>1. l = [what |-> "crashed", req |-> q] /\ r.location = 0
      BY <2>2 DEF PostCrashes, Ends
    <3>2. Fitting(s, t) = {}
      BY <1>2, <1>3, <3>1
    <3> HIDE DEF l
    <3> QED
      BY <3>1, <3>2 DEF Covered, s, t
  <2>3. CASE l.what \in {"error", "redirect", "script", "uploaded", "file", "listing", "deleted"}
    <3> HIDE DEF l
    <3> QED
      BY <2>3 DEF Covered
  <2> QED
    BY <1>5, <2>1, <2>2, <2>3
<1>7. PICK m : m = last'
  OBVIOUS
<1>8. Covered(m)'
  BY <1>4, <1>6, <1>7, SameCovered
<1> QED
  BY <1>7, <1>8 DEF Covered

LEMMA NoAnswerCovered == Covered(NoAnswer)
BY DEF Covered, NoAnswer

LEMMA Next_SurvivalInv ==
    ASSUME Tidy, SiteInv, TextInv, SurvivalInv, [Next]_vars
    PROVE  SurvivalInv'
<1>1. CASE Parses
  <2>1. last' = last /\ last = NoAnswer
    BY <1>1, ParserKeeps DEF Parses, SiteInv, routingVars, SurvivalInv
  <2>2. Covered(last)'
    BY <2>1 DEF Covered, NoAnswer
  <2> QED
    BY <2>1, <2>2 DEF SurvivalInv
<1>2. CASE Opens
  <2>1. last' = last /\ last = NoAnswer
    BY <1>2 DEF Opens, ListeningNext, OpenSocket, OpenFails, AllOpen, routingVars, SurvivalInv
  <2>2. Covered(last)'
    BY <2>1 DEF Covered, NoAnswer
  <2> QED
    BY <2>1, <2>2 DEF SurvivalInv
<1>3. CASE Responds
  <2>1. PICK q \in Requests : getResponse(q)
    BY <1>3 DEF Responds
  <2>2. Covered(last)' /\ stage' \in {"serving", "hung", "crashed"}
    BY <2>1, AnswerStage, EndsCovered
  <2> QED
    BY <2>2 DEF SurvivalInv
<1>4. CASE Reconnects \/ Ended \/ UNCHANGED vars
  <2>1. tree' = tree /\ last' = last /\ stage' = stage
    BY <1>4 DEF Reconnects, NewConnection, Ended, vars, routingVars
  <2>2. PICK l : l = last
    OBVIOUS
  <2>3. Covered(l)'
    BY <2>1, <2>2, SameCovered DEF SurvivalInv
  <2>4. Covered(last)'
    BY <2>1, <2>2, <2>3 DEF Covered
  <2> QED
    BY <2>1, <2>4 DEF SurvivalInv
<1> QED
  BY <1>1, <1>2, <1>3, <1>4 DEF Next

(* A request whose target begins with a slash and falls under a location   *)
(* of its server is answered: getResponse neither climbs for ever nor      *)
(* follows a location it did not find (buildDirPath, handlePOST).          *)
THEOREM CoveredRequestsSurvive == ASSUME Tidy PROVE Spec => []SurvivesWhenCovered
<1>1. Init => SurvivalInv
  BY NoAnswerCovered DEF Init, RoutingInit, SurvivalInv
<1>2. SiteInv /\ TextInv /\ SurvivalInv /\ [Next]_vars => SurvivalInv'
  BY Next_SurvivalInv
<1>3. SurvivalInv => SurvivesWhenCovered
  BY CoveredMeans DEF SurvivalInv
<1> QED
  BY <1>1, <1>2, <1>3, SpecText, PTL DEF Spec

-----------------------------------------------------------------------------
(* What the blocks above a location say.                                   *)

Chains(g, t, m) ==
    g = [k \in 0..m |-> IF k = 0 THEN <<>> ELSE <<k>> \o g[t[k].back_ref]]

LEMMA ChainsExist ==
    ASSUME NEW t, Hangs(t)
    PROVE  \E g : Chains(g, t, Len(t))
<1> DEFINE n == Len(t)
           T == {m \in Nat : m <= n => \E g : Chains(g, t, m)}
<1>1. 0 \in T
  <2> DEFINE h == [k \in 0..0 |-> <<>>]
  <2>1. Chains(h, t, 0)
    BY DEF Chains
  <2> QED
    BY <2>1
<1>2. ASSUME NEW m \in Nat, m \in T PROVE m + 1 \in T
  <2> SUFFICES ASSUME m + 1 <= n PROVE \E g : Chains(g, t, m + 1)
    OBVIOUS
  <2>1. n \in Nat /\ m <= n /\ t[m + 1].back_ref \in 0..m
    BY DEF Hangs
  <2>2. PICK g : Chains(g, t, m)
    BY <1>2, <2>1
  <2> DEFINE h == [k \in 0..(m + 1) |-> IF k <= m THEN g[k]
                    ELSE <<m + 1>> \o g[t[m + 1].back_ref]]
  <2>3. ASSUME NEW k \in 0..(m + 1)
        PROVE  h[k] = IF k = 0 THEN <<>> ELSE <<k>> \o h[t[k].back_ref]
    <3>1. CASE k <= m
      <4>1. k \in 0..m /\ h[k] = g[k]
        BY <3>1
      <4>2. k # 0 => t[k].back_ref \in 0..m
        BY <2>1, <3>1 DEF Hangs
      <4>3. k # 0 => h[t[k].back_ref] = g[t[k].back_ref]
        BY <4>2
      <4> HIDE DEF h
      <4> QED
        BY <2>2, <4>1, <4>3 DEF Chains
    <3>2. CASE k = m + 1
      <4>1. h[t[m + 1].back_ref] = g[t[m + 1].back_ref]
        BY <2>1
      <4> QED
        BY <3>2, <4>1
    <3> QED
      BY <3>1, <3>2
  <2>4. Chains(h, t, m + 1)
    <3>1. h = [k \in 0..(m + 1) |-> h[k]]
      OBVIOUS
    <3> HIDE DEF h
    <3> QED
      BY <2>3, <3>1 DEF Chains
  <2> QED
    BY <2>4
<1> HIDE DEF T
<1>3. n \in T
  BY <1>1, <1>2, NumbersByStep DEF Hangs
<1> QED
  BY <1>3 DEF T, Hangs

LEMMA ChainSteps ==
    ASSUME TreeSound
    PROVE  /\ Chain(0) = <<>>
           /\ \A n \in 1..Len(tree) : Chain(n) = <<n>> \o Chain(tree[n].back_ref)
<1> DEFINE g == CHOOSE g : Chains(g, tree, Len(tree))
<1>1. Hangs(tree)
  BY TreeHangs
<1>2. Chains(g, tree, Len(tree))
  BY <1>1, ChainsExist
<1>3. \A n : Chain(n) = g[n]
  BY DEF Chain, Chains
<1>4. Len(tree) \in Nat /\ \A n \in 1..Len(tree) : tree[n].back_ref \in 0..Len(tree)
  BY <1>1 DEF Hangs
<1> HIDE DEF g
<1>5. \A k \in 0..Len(tree) : g[k] = IF k = 0 THEN <<>> ELSE <<k>> \o g[tree[k].back_ref]
  BY <1>2, Zenon DEF Chains
<1>6. Chain(0) = <<>>
  <2>1. 0 \in 0..Len(tree)
    BY <1>4
  <2>2. g[0] = <<>>
    BY <1>5, <2>1, Zenon
  <2> QED
    BY <1>3, <2>2, Zenon
<1>7. ASSUME NEW n \in 1..Len(tree) PROVE Chain(n) = <<n>> \o Chain(tree[n].back_ref)
  <2>1. n \in 0..Len(tree) /\ n # 0
    BY <1>4
  <2>2. g[n] = <<n>> \o g[tree[n].back_ref]
    BY <1>5, <2>1, Zenon
  <2> QED
    BY <1>3, <2>2, Zenon
<1> QED
  BY <1>6, <1>7

LEMMA SetOfChain ==
    ASSUME NEW S, NEW c \in Seq(S), NEW k \in S
    PROVE  ToSet(<<k>> \o c) = {k} \cup ToSet(c) /\ <<k>> \o c \in Seq(S)
<1>1. <<k>> \in Seq(S) /\ Len(<<k>>) = 1 /\ <<k>>[1] = k
  OBVIOUS
<1>2. /\ <<k>> \o c \in Seq(S) /\ Len(<<k>> \o c) = 1 + Len(c)
      /\ \A i \in 1..(1 + Len(c)) : (<<k>> \o c)[i] = IF i <= 1 THEN k ELSE c[i - 1]
  BY <1>1, ConcatProperties
<1>3. DOMAIN c = 1..Len(c) /\ Len(c) \in Nat
  BY LenProperties
<1>4. DOMAIN (<<k>> \o c) = 1..(1 + Len(c))
  BY <1>2, LenProperties
<1>5. ASSUME NEW x \in ToSet(<<k>> \o c) PROVE x \in {k} \cup ToSet(c)
  <2>1. PICK i \in 1..(1 + Len(c)) : x = (<<k>> \o c)[i]
    BY <1>4, <1>5 DEF ToSet
  <2>2. i <= 1 \/ i - 1 \in 1..Len(c)
    BY <1>3
  <2> QED
    BY <1>2, <1>3, <2>1, <2>2 DEF ToSet
<1>6. ASSUME NEW x \in {k} \cup ToSet(c) PROVE x \in ToSet(<<k>> \o c)
  <2>1. CASE x = k
    <3>1. 1 \in 1..(1 + Len(c)) /\ (<<k>> \o c)[1] = k
      BY <1>2, <1>3
    <3> QED
      BY <1>4, <2>1, <3>1 DEF ToSet
  <2>2. CASE x \in ToSet(c)
    <3>1. PICK i \in 1..Len(c) : x = c[i]
      BY <1>3, <2>2 DEF ToSet
    <3>2. i + 1 \in 1..(1 + Len(c)) /\ (<<k>> \o c)[i + 1] = c[i]
      BY <1>2, <1>3
    <3> QED
      BY <1>4, <3>1, <3>2 DEF ToSet
  <2> QED
    BY <1>6, <2>1, <2>2
<1> QED
  BY <1>2, <1>5, <1>6

LEMMA AboveSteps ==
    ASSUME TreeSound
    PROVE  /\ Above(0) = {}
           /\ \A n \in 1..Len(tree) : /\ Above(n) = {n} \cup Above(tree[n].back_ref)
                                      /\ tree[n].back_ref \in 0..(n - 1)
<1>1. Hangs(tree) /\ Len(tree) \in Nat
  BY TreeHangs DEF Hangs
<1> DEFINE T == {m \in Nat : \A n \in 0..m : n <= Len(tree) => Chain(n) \in Seq(Nat)}
<1>2. 0 \in T
  <2>1. Chain(0) \in Seq(Nat)
    BY ChainSteps, EmptySeq, Zenon
  <2>2. \A n \in 0..0 : n = 0
    OBVIOUS
  <2> QED
    BY <2>1, <2>2
<1>3. ASSUME NEW m \in Nat, m \in T PROVE m + 1 \in T
  <2> SUFFICES ASSUME m + 1 <= Len(tree) PROVE Chain(m + 1) \in Seq(Nat)
    BY <1>3
  <2>1. m + 1 \in 1..Len(tree) /\ tree[m + 1].back_ref \in 0..m
    BY <1>1 DEF Hangs
  <2>2. Chain(tree[m + 1].back_ref) \in Seq(Nat)
    BY <1>1, <1>3, <2>1
  <2>3. Chain(m + 1) = <<m + 1>> \o Chain(tree[m + 1].back_ref)
    BY <2>1, ChainSteps
  <2>4. m + 1 \in Nat
    OBVIOUS
  <2>5. PICK c \in Seq(Nat), k \in Nat : Chain(m + 1) = <<k>> \o c
    BY <2>2, <2>3, <2>4
  <2> QED
    BY <2>5, SetOfChain, SMTT(30)
<1> HIDE DEF T
<1>4. Len(tree) \in T
  BY <1>1, <1>2, <1>3, NumbersByStep
<1>5. \A n \in 0..Len(tree) : Chain(n) \in Seq(Nat)
  BY <1>1, <1>4 DEF T
<1>6. ASSUME NEW n \in 1..Len(tree)
      PROVE  Above(n) = {n} \cup Above(tree[n].back_ref) /\ tree[n].back_ref \in 0..(n - 1)
  <2>1. tree[n].back_ref \in 0..(n - 1) /\ tree[n].back_ref \in 0..Len(tree)
    BY <1>1 DEF Hangs
  <2>2. Chain(n) = <<n>> \o Chain(tree[n].back_ref)
    BY ChainSteps
  <2> QED
    BY <1>5, <2>1, <2>2, SetOfChain DEF Above
<1>7. Above(0) = {}
  <2>1. DOMAIN <<>> = {}
    BY NoneListening
  <2> QED
    BY <2>1, ChainSteps DEF Above, ToSet
<1> QED
  BY <1>6, <1>7

(* Nearest finds the last of the blocks above that are in N.               *)
LEMMA NearestAbove ==
    ASSUME TreeSound, NEW N, N \subseteq DOMAIN tree, NEW n \in 0..Len(tree)
    PROVE  LET b == Nearest(n, N) IN
           IF b = 0 THEN Above(n) \cap N = {}
           ELSE b \in Above(n) \cap N /\ \A k \in Above(n) \cap N : k <= b
<1> DEFINE Last0(m) == LET b == Nearest(m, N) IN
              /\ Above(m) \subseteq 1..m
              /\ b = 0 => Above(m) \cap N = {}
              /\ b # 0 => b \in Above(m) \cap N /\ \A k \in Above(m) \cap N : k <= b
           T == {m \in Nat : \A k \in 0..m : k <= Len(tree) => Last0(k)}
<1>1. Hangs(tree) /\ Len(tree) \in Nat /\ DOMAIN tree = 1..Len(tree)
  BY TreeHangs DEF Hangs
<1>2. \A m \in 0..Len(tree) :
         Nearest(m, N) = IF m = 0 \/ m \in N THEN m ELSE Nearest(tree[m].back_ref, N)
  BY <1>1, NearestIsUp, UpSteps
<1>3. Above(0) = {} /\ \A m \in 1..Len(tree) : Above(m) = {m} \cup Above(tree[m].back_ref)
                                                /\ tree[m].back_ref \in 0..(m - 1)
  BY AboveSteps
<1>4. 0 \in T
  BY <1>1, <1>2, <1>3
<1>5. ASSUME NEW m \in Nat, m \in T PROVE m + 1 \in T
  <2> SUFFICES ASSUME m + 1 <= Len(tree) PROVE Last0(m + 1)
    BY <1>5
  <2> DEFINE up == tree[m + 1].back_ref
  <2>1. up \in 0..m /\ Above(m + 1) = {m + 1} \cup Above(up)
    BY <1>1, <1>3
  <2>2. Last0(up)
    BY <1>1, <1>5, <2>1
  <2>3. Nearest(m + 1, N) = IF m + 1 \in N THEN m + 1 ELSE Nearest(up, N)
    BY <1>1, <1>2
  <2> HIDE DEF up
  <2>4. Above(m + 1) \subseteq 1..(m + 1)
    BY <2>1, <2>2
  <2>5. CASE m + 1 \in N
    BY <2>1, <2>3, <2>4, <2>5
  <2>6. CASE m + 1 \notin N
    <3>1. Nearest(m + 1, N) = Nearest(up, N) /\ Above(m + 1) \cap N = Above(up) \cap N
      BY <2>1, <2>3, <2>6
    <3> QED
      BY <2>2, <2>4, <3>1
  <2> QED
    BY <2>5, <2>6
<1> HIDE DEF T
<1>6. Len(tree) \in T
  BY <1>1, <1>4, <1>5, NumbersByStep
<1>7. Last0(n)
  BY <1>1, <1>6 DEF T
<1> QED
  BY <1>7

LEMMA AboveInTree ==
    ASSUME TreeSound, NEW n \in 0..Len(tree)
    PROVE  Above(n) \subseteq DOMAIN tree
<1> DEFINE T == {m \in Nat : \A k \in 0..m : k <= Len(tree) => Above(k) \subseteq DOMAIN tree}
<1>1. Len(tree) \in Nat /\ DOMAIN tree = 1..Len(tree)
  BY TreeHangs DEF Hangs
<1>2. Above(0) = {} /\ \A m \in 1..Len(tree) : Above(m) = {m} \cup Above(tree[m].back_ref)
                                                /\ tree[m].back_ref \in 0..(m - 1)
  BY AboveSteps
<1>3. 0 \in T
  BY <1>2
<1>4. ASSUME NEW m \in Nat, m \in T PROVE m + 1 \in T
  <2> SUFFICES ASSUME m + 1 <= Len(tree) PROVE Above(m + 1) \subseteq DOMAIN tree
    BY <1>4
  <2>1. m + 1 \in 1..Len(tree) /\ tree[m + 1].back_ref \in 0..m
    BY <1>1, <1>2
  <2>2. Above(tree[m + 1].back_ref) \subseteq DOMAIN tree
    BY <1>1, <1>4, <2>1
  <2> QED
    BY <1>1, <1>2, <2>1, <2>2
<1> HIDE DEF T
<1>5. Len(tree) \in T
  BY <1>1, <1>3, <1>4, NumbersByStep
<1> QED
  BY <1>1, <1>5 DEF T

(* What AnswersObeyConfig asks of one step.                                *)
Obeys ==
    LET q == last'.req
        n == MatchLocation(MatchServer(q), FilePath(q))
        limits == {k \in Above(n) : tree[k].limit > 0}
    IN /\ limits # {} => q.size <= tree[Max(limits)].limit
       /\ \A k \in Above(n) : tree[k].type # "http" => tree[k].url = Empty
       /\ last'.what \in {"file", "listing", "deleted"} =>
            \E k \in Above(n) : tree[k].type = "location" /\ q.method \in tree[k].methods

LEMMA LocationInTree ==
    ASSUME TreeSound, NEW q \in Requests, NEW s
    PROVE  MatchLocation(s, FilePath(q)) \in 0..Len(tree)
<1> DEFINE t == FilePath(q)
<1>1. Len(t) \in Nat
  <2>1. q.target \in Seq(ToSet(q.target)) /\ q.target # <<>>
    BY TargetAssumption DEF IsPath
  <2> DEFINE x == q.target
  <2>2. t = x \/ t = Front(x)
    BY FilePathCases, Zenon
  <2> HIDE DEF t, x
  <2>3. x \in Seq(ToSet(x)) /\ x # <<>>
    BY <2>1 DEF x
  <2>4. Len(x) \in Nat /\ Len(Front(x)) \in Nat
    BY <2>3, LastAndFront, LenProperties
  <2> QED
    BY <2>2, <2>4
<1> HIDE DEF t
<1>2. PICK p : Climb(s, t).location = IF p = Empty \/ Matching(LocationsOf(s), p) = {} THEN 0
                                      ELSE CHOOSE n \in Matching(LocationsOf(s), p) : TRUE
  BY <1>1, ClimbArrives
<1>3. Climb(s, t).location = 0 \/ Climb(s, t).location \in Matching(LocationsOf(s), p)
  BY <1>2, Zenon
<1>4. Matching(LocationsOf(s), p) \subseteq LocationsOf(s)
  BY MatchingIsTried
<1>5. LocationsOf(s) \subseteq 1..Len(tree) /\ Len(tree) \in Nat
  BY TreeHangs DEF LocationsOf, Nodes, Hangs
<1> QED
  BY <1>3, <1>4, <1>5 DEF MatchLocation, t

LEMMA MaxIs ==
    ASSUME NEW A, A \subseteq Nat, NEW b \in A, \A k \in A : k <= b
    PROVE  Max(A) = b
<1>1. b \in A /\ \A k \in A : b >= k
  BY DEF Max
<1>2. \A c \in A : (\A k \in A : c >= k) => c = b
  OBVIOUS
<1> QED
  BY <1>1, <1>2 DEF Max

LEMMA StaysWithin ==
    ASSUME TreeSound, NEW q, NEW r, Stays(q, r), r.location \in 0..Len(tree)
    PROVE  LET n == r.location
               limits == {k \in Above(n) : tree[k].limit > 0}
           IN /\ limits # {} => q.size <= tree[Max(limits)].limit
              /\ \A k \in Above(n) : tree[k].type # "http" => tree[k].url = Empty
<1> DEFINE n == r.location
           limits == {k \in Above(n) : tree[k].limit > 0}
           N == {k \in DOMAIN tree : tree[k].limit > 0}
           R == {k \in DOMAIN tree : tree[k].type # "http" /\ tree[k].url # Empty}
<1>1. Above(n) \subseteq DOMAIN tree /\ DOMAIN tree \subseteq Nat
  BY AboveInTree, TreeHangs
<1>2. limits # {} => q.size <= tree[Max(limits)].limit
  <2>1. limits = Above(n) \cap N
    BY <1>1
  <2>2. LET b == Nearest(n, N) IN
        IF b = 0 THEN Above(n) \cap N = {}
        ELSE b \in Above(n) \cap N /\ \A k \in Above(n) \cap N : k <= b
    BY NearestAbove
  <2>3. LET b == Nearest(n, N) IN b # 0 => q.size <= tree[b].limit
    BY DEF Stays, checkBodySize
  <2>4. Above(n) \cap N \subseteq Nat
    BY <1>1
  <2> HIDE DEF n, N, limits
  <2>5. Nearest(n, N) # 0 => Max(Above(n) \cap N) = Nearest(n, N)
    BY <2>2, <2>4, MaxIs
  <2> QED
    BY <2>1, <2>2, <2>3, <2>5
<1>3. \A k \in Above(n) : tree[k].type # "http" => tree[k].url = Empty
  <2>1. Nearest(n, R) = 0
    BY DEF Stays, Redirecting
  <2>2. IF Nearest(n, R) = 0 THEN Above(n) \cap R = {} ELSE TRUE
    BY NearestAbove
  <2> QED
    BY <1>1, <2>1, <2>2
<1> QED
  BY <1>2, <1>3

(* An answer that gives, takes or removes content was not too large, not   *)
(* sent elsewhere and, but for scripts and uploads, of an allowed method.  *)
LEMMA ContentAnswers ==
    ASSUME NEW q, getResponse(q), last'.what \in Content
    PROVE  /\ last'.req = q /\ Stays(q, Route(q))
           /\ last'.what \in {"file", "listing", "deleted"} =>
                check_method_allowed(q.method, Route(q).location)
<1> DEFINE r == Route(q)
           Goal == /\ last'.req = q /\ Stays(q, r)
                   /\ last'.what \in {"file", "listing", "deleted"} =>
                        check_method_allowed(q.method, r.location)
<1> SUFFICES Goal
  BY Zenon
<1> HIDE DEF r
<1>1. CASE \/ Hang(q, r) \/ PostCrashes(q, r) \/ TooLarge(q, r) \/ Redirect(q, r)
           \/ ScriptFails(q, r) \/ NotThere(q, r) \/ UploadRefused(q, r)
  BY <1>1 DEF Hang, PostCrashes, Ends, TooLarge, Redirect, ScriptFails, NotThere,
     UploadRefused, Fails, Says, Answer, Content
<1>2. CASE RunScript(q, r)
  BY <1>2 DEF RunScript, Says, Answer
<1>3. CASE Upload(q, r)
  BY <1>3 DEF Upload, Posts, Answer
<1>4. ASSUME NEW p, matchMethod(q, r, p), Stays(q, r) PROVE Goal
  <2>1. CASE MethodRefused(q, r)
    BY <2>1 DEF MethodRefused, Fails, Says, Answer, Content
  <2>2. CASE Get(q, r, p)
    BY <1>4, <2>2 DEF Get, Fails, Says, Answer
  <2>3. CASE Delete(q, r, p)
    BY <1>4, <2>3 DEF Delete, Fails, Says, Answer
  <2> QED
    BY <1>4, <2>1, <2>2, <2>3 DEF matchMethod
<1>5. CASE ServeFile(q, r) \/ ServeIndex(q, r) \/ ServeDirectory(q, r)
  <2>1. Stays(q, r) /\ ((\E p : matchMethod(q, r, p)) \/ \E base : Fails(q, 403, base))
    BY <1>5 DEF ServeFile, ServeIndex, ServeDirectory, Serves
  <2>2. ASSUME NEW base, Fails(q, 403, base) PROVE FALSE
    BY <2>2 DEF Fails, Says, Answer, Content
  <2> QED
    BY <1>4, <2>1, <2>2
<1>6. \/ Hang(q, r) \/ TooLarge(q, r) \/ Redirect(q, r)
      \/ RunScript(q, r) \/ ScriptFails(q, r)
      \/ PostCrashes(q, r) \/ UploadRefused(q, r) \/ Upload(q, r)
      \/ ServeFile(q, r) \/ NotThere(q, r)
      \/ ServeIndex(q, r) \/ ServeDirectory(q, r)
  BY DEF getResponse, r
<1> HIDE DEF Goal
<1> QED
  BY <1>1, <1>2, <1>3, <1>5, <1>6, Zenon

LEMMA ResponseObeys ==
    ASSUME TreeSound, NEW q \in Requests, getResponse(q), last'.what \in Content
    PROVE  Obeys
<1> DEFINE r == Route(q)
<1>1. /\ last'.req = q /\ Stays(q, r)
      /\ last'.what \in {"file", "listing", "deleted"} => check_method_allowed(q.method, r.location)
  BY ContentAnswers
<1>2. r.location = MatchLocation(MatchServer(q), FilePath(q))
  BY DEF Route, MatchLocation
<1>3. r.location \in 0..Len(tree)
  BY <1>2, LocationInTree
<1> HIDE DEF r
<1>4. LET n == r.location
          limits == {k \in Above(n) : tree[k].limit > 0}
      IN /\ limits # {} => q.size <= tree[Max(limits)].limit
         /\ \A k \in Above(n) : tree[k].type # "http" => tree[k].url = Empty
  BY <1>1, <1>3, StaysWithin
<1>5. last'.what \in {"file", "listing", "deleted"} =>
         \E k \in Above(r.location) : tree[k].type = "location" /\ q.method \in tree[k].methods
  BY <1>1 DEF check_method_allowed, Above
<1> QED
  BY <1>1, <1>2, <1>4, <1>5, Zenon DEF Obeys

(* Content is given, taken or removed only within the nearest size limit   *)
(* above the location, where nothing redirects, and but for scripts and    *)
(* uploads by a method some location above allows (getResponse,            *)
(* checkRedirect, matchMethod).                                            *)
THEOREM ConfigIsObeyed == Spec => AnswersObeyConfig
<1>1. SiteInv /\ [Next]_vars => [last' # last /\ last'.what \in Content => Obeys]_vars
  <2> SUFFICES ASSUME SiteInv, Next, last' # last, last'.what \in Content PROVE Obeys
    OBVIOUS
  <2>1. CASE Parses \/ Opens \/ Reconnects \/ Ended
    BY <2>1 DEF Parses, Opens, Reconnects, Ended, NewConnection, routingVars, vars
  <2>2. CASE Responds
    BY <2>2, ResponseObeys DEF Responds, SiteInv, ParserInv
  <2> QED
    BY <2>1, <2>2 DEF Next
<1>2. [last' # last /\ last'.what \in Content => Obeys]_vars =>
        [last' # last /\ last'.what \in Content =>
         LET q == last'.req
             n == MatchLocation(MatchServer(q), FilePath(q))
             limits == {k \in Above(n) : tree[k].limit > 0}
         IN /\ limits # {} => q.size <= tree[Max(limits)].limit
            /\ \A k \in Above(n) : tree[k].type # "http" => tree[k].url = Empty
            /\ last'.what \in {"file", "listing", "deleted"} =>
                 \E k \in Above(n) : tree[k].type = "location" /\ q.method \in tree[k].methods
      ]_vars
  BY DEF Obeys
<1> QED
  BY <1>1, <1>2, SpecInv, PTL DEF Spec, AnswersObeyConfig

-----------------------------------------------------------------------------
(* The paths and files the blocks name: no path is without a name, the     *)
(* outermost block has a root, and every other block hangs from one.       *)

Named(p) == p \in Seq(ToSet(p)) /\ p # <<>>
Paved(n, k) ==
    /\ {"root", "store", "alias", "index", "back_ref"} \subseteq DOMAIN n
    /\ Named(n.root) /\ Named(n.store) /\ Named(n.alias) /\ n.index \in Seq(STRING)
    /\ k # 1 => n.back_ref # 0
    /\ k = 1 => n.root # Empty
PathsInv == Len(tree) >= 1 /\ \A k \in DOMAIN tree : Paved(tree[k], k)

LEMMA FillPaved ==
    ASSUME NEW n, NEW k, Paved(n, k), NEW w,
           w[1] \in {"root", "upload_store", "alias"} => IsPath(w[2]),
           w[1] = "index" => Tail(w) \in Seq(STRING)
    PROVE  Paved(FillDirective(n, w), k)
<1> DEFINE m == FillDirective(n, w)
<1> USE DEF Paved
<1>1. CASE w[1] \in {"root", "upload_store", "alias"}
  <2>1. Named(w[2]) /\ w[2] # Empty
    BY <1>1 DEF IsPath, Named
  <2>2. \/ m = [n EXCEPT !.root = w[2]]
        \/ m = [n EXCEPT !.store = w[2]]
        \/ m = [n EXCEPT !.alias = w[2]]
    BY <1>1 DEF FillDirective
  <2> HIDE DEF m
  <2>3. Paved(m, k)
    BY <2>1, <2>2
  <2> QED
    BY <2>3 DEF m
<1>2. CASE w[1] = "index"
  <2>1. m = [n EXCEPT !.index = n.index \o Tail(w)]
    BY <1>2 DEF FillDirective
  <2>2. n.index \o Tail(w) \in Seq(STRING)
    BY <1>2, ConcatProperties
  <2> HIDE DEF m
  <2>3. Paved(m, k)
    BY <2>1, <2>2
  <2> QED
    BY <2>3 DEF m
<1>3. CASE w[1] \notin {"root", "upload_store", "alias", "index"}
  <2>1. /\ DOMAIN n \subseteq DOMAIN m /\ m.index = n.index
        /\ m.root = n.root /\ m.store = n.store /\ m.alias = n.alias /\ m.back_ref = n.back_ref
    <3>1. CASE w[1] = "error_page"
      BY <3>1 DEF FillDirective, Pages
    <3>2. CASE w[1] = "listen"
      BY <3>2 DEF FillDirective, Listen
    <3>3. CASE w[1] \notin {"error_page", "listen"}
      BY <1>3, <3>3 DEF FillDirective
    <3> QED
      BY <3>1, <3>2, <3>3
  <2> HIDE DEF m
  <2>2. Paved(m, k)
    BY <2>1
  <2> QED
    BY <2>2 DEF m
<1> QED
  BY <1>1, <1>2, <1>3

LEMMA DefaultPaved ==
    ASSUME NEW n, NEW k, Paved(n, k)
    PROVE  Paved(DefaultPort(n), k)
BY DEF DefaultPort, Paved

LEMMA EmptyNamed == Named(Empty)
<1>1. Empty \in Seq(ToSet(Empty)) /\ Len(Empty) = 1
  <2>1. PICK x : Empty = <<x>>
    BY EmptyText
  <2>2. x \in ToSet(Empty)
    BY <2>1 DEF ToSet
  <2> QED
    BY <2>1, <2>2
<1> QED
  BY <1>1 DEF Named

LEMMA NewPaved ==
    ASSUME NEW type, NEW parent, NEW path, NEW k,
           k # 1 => parent # 0, k = 1 => type = "http"
    PROVE  Paved(NewNode(type, parent, path), k)
<1> DEFINE r == <<".", "www">>
<1>1. Named(r) /\ r # Empty
  <2>1. PICK x, y : r = <<x, y>>
    OBVIOUS
  <2> HIDE DEF r
  <2>2. r \in Seq({x, y}) /\ Len(r) = 2
    BY <2>1
  <2>3. r \in Seq(ToSet(r))
    BY <2>2, SeqOfItsElements
  <2>4. Len(Empty) = 1
    BY EmptyText
  <2> QED
    BY <2>2, <2>3, <2>4 DEF Named
<1> DEFINE n == NewNode(type, parent, path)
<1>2. /\ {"root", "store", "alias", "index", "back_ref"} \subseteq DOMAIN n
      /\ n.back_ref = parent /\ n.store = Empty /\ n.alias = Empty /\ n.index = <<>>
      /\ n.root = IF type = "http" THEN r ELSE Empty
  BY Zenon DEF NewNode
<1> HIDE DEF r, n
<1>3. Paved(n, k)
  BY <1>1, <1>2, EmptyNamed DEF Paved
<1> QED
  BY <1>3 DEF n

LEMMA Init_PathsInv == Init => PathsInv
<1> SUFFICES ASSUME Init PROVE PathsInv
  OBVIOUS
<1> DEFINE first == NewNode("http", 0, Empty)
<1>1. Paved(first, 1)
  BY NewPaved
<1>2. tree = <<first>>
  BY DEF Init, ParserInit
<1> HIDE DEF first
<1>3. DOMAIN tree = {1} /\ tree[1] = first /\ Len(tree) = 1
  BY <1>2
<1> QED
  BY <1>1, <1>3 DEF PathsInv

LEMMA DirectivePaved ==
    ASSUME ParserInv, PathsInv, ParseDirective
    PROVE  PathsInv'
<1> DEFINE w == file[pos].words
<1>1. TreeSound /\ TreeSound' /\ CursorType
  BY ParseDirectiveKeeps DEF ParserInv
<1>2. DOMAIN tree = 1..Len(tree) /\ DOMAIN tree' = 1..Len(tree')
      /\ Len(tree) \in Nat /\ Len(tree') \in Nat
  BY <1>1, SeqFacts DEF TreeSound
<1>3. CASE current # 0 /\ Accepts(tree[current].type, w)
  <2>1. tree' = [tree EXCEPT ![current] = FillDirective(tree[current], w)] /\ current \in DOMAIN tree
    BY <1>1, <1>2, <1>3 DEF ParseDirective, CursorType
  <2>2. IsDirective(file[pos]) /\ pos \in DOMAIN file /\ file \in Files
    BY <1>1, AdvanceFacts, TextIsSeq DEF ParseDirective, CursorType, Advance, DetectNextType
  <2>3. w[1] \in {"root", "upload_store", "alias"} => IsPath(w[2])
    <3> SUFFICES ASSUME w[1] \in {"root", "upload_store", "alias"} PROVE IsPath(w[2])
      OBVIOUS
    <3>1. file[pos] \in ToSet(file)
      BY <2>2 DEF ToSet
    <3>2. w[2] \in DirectivePaths
      BY <2>2, <3>1 DEF DirectivePaths
    <3> QED
      BY <3>2, PathAssumption
  <2>4. w[1] = "index" => Tail(w) \in Seq(STRING)
    BY <2>2, NameAssumption DEF ToSet
  <2>5. Paved(FillDirective(tree[current], w), current)
    BY <2>1, <2>3, <2>4, FillPaved DEF PathsInv
  <2>6. /\ DOMAIN tree' = DOMAIN tree
        /\ \A k \in DOMAIN tree : Paved(tree'[k], k)
    BY <2>1, <2>5 DEF PathsInv
  <2>7. Len(tree') >= 1
    BY <1>2, <2>6 DEF PathsInv
  <2> QED
    BY <2>6, <2>7 DEF PathsInv
<1>4. CASE ~(current # 0 /\ Accepts(tree[current].type, w))
  BY <1>4 DEF ParseDirective, PathsInv
<1> QED
  BY <1>3, <1>4

LEMMA EndPaved ==
    ASSUME ParserInv, PathsInv, ParseEnd
    PROVE  PathsInv'
<1>1. TreeSound /\ TreeSound'
  BY ParseEndKeeps DEF ParserInv
<1>2. DOMAIN tree = 1..Len(tree) /\ DOMAIN tree' = 1..Len(tree')
      /\ Len(tree) \in Nat /\ Len(tree') \in Nat
  BY <1>1, SeqFacts DEF TreeSound
<1>3. CASE stage' = "parsed"
  <2>1. tree' = [n \in DOMAIN tree |-> DefaultPort(tree[n])]
    BY <1>3 DEF ParseEnd
  <2>2. DOMAIN tree' = DOMAIN tree /\ \A k \in DOMAIN tree : Paved(tree'[k], k)
    BY <2>1, DefaultPaved DEF PathsInv
  <2>3. Len(tree') >= 1
    BY <1>2, <2>2 DEF PathsInv
  <2> QED
    BY <2>2, <2>3 DEF PathsInv
<1>4. CASE UNCHANGED tree
  BY <1>4 DEF PathsInv
<1> QED
  BY <1>3, <1>4 DEF ParseEnd

LEMMA BlockPaved ==
    ASSUME ParserInv, PathsInv, ParseBlock
    PROVE  PathsInv'
<1> DEFINE e == file[pos]
           path == IF Len(e.words) = 2 THEN e.words[2] ELSE Empty
           node == NewNode(e.words[1], current, path)
<1>1. TreeSound
  BY DEF ParserInv
<1>2. DOMAIN tree = 1..Len(tree) /\ Len(tree) \in Nat
  BY <1>1, SeqFacts DEF TreeSound
<1>3. CASE UNCHANGED tree
  BY <1>3 DEF PathsInv
<1>4. CASE MayAdd(e.words) /\ tree' = Append(tree, node)
  <2> PICK new : new = Len(tree) + 1
    OBVIOUS
  <2>1. current # 0
    BY <1>4 DEF MayAdd
  <2>2. new # 1 /\ new \in Nat
    BY <1>2 DEF PathsInv
  <2>3. Paved(node, new)
    BY <2>1, <2>2, NewPaved
  <2> HIDE DEF node
  <2>4. /\ Len(tree') = new /\ tree'[new] = node /\ DOMAIN tree' = 1..new
        /\ \A n \in 1..Len(tree) : tree'[n] = tree[n]
    <3>1. tree \in Seq(ToSet(tree) \cup {node}) /\ node \in ToSet(tree) \cup {node}
      BY <1>1 DEF TreeSound, ToSet
    <3>2. tree' \in Seq(ToSet(tree) \cup {node})
      BY <1>4, <3>1, AppendProperties
    <3> QED
      BY <1>4, <3>1, <3>2, AppendProperties
  <2>5. \A k \in 1..new : Paved(tree'[k], k)
    <3> SUFFICES ASSUME NEW k \in 1..new PROVE Paved(tree'[k], k)
      OBVIOUS
    <3>1. CASE k = new
      BY <2>3, <2>4, <3>1
    <3>2. CASE k # new
      <4>1. k \in 1..Len(tree)
        BY <1>2, <3>2
      <4> QED
        BY <1>2, <2>4, <4>1 DEF PathsInv
    <3> QED
      BY <3>1, <3>2
  <2> QED
    BY <1>2, <2>2, <2>4, <2>5 DEF PathsInv
<1> QED
  BY <1>3, <1>4 DEF ParseBlock

LEMMA Next_PathsInv == SiteInv /\ PathsInv /\ [Next]_vars => PathsInv'
<1> SUFFICES ASSUME SiteInv, PathsInv, [Next]_vars PROVE PathsInv'
  OBVIOUS
<1>1. CASE Parses
  <2>1. ParserInv
    BY DEF SiteInv
  <2>2. CASE ParseDirective \/ ParseBlock \/ ParseEnd
    BY <2>1, <2>2, DirectivePaved, BlockPaved, EndPaved
  <2>3. CASE Validate \/ Validated \/ ParseBlockEnd
    BY <2>3 DEF Validate, Validated, ParseBlockEnd, PathsInv
  <2> QED
    BY <1>1, <2>2, <2>3 DEF Parses, ParserNext
<1>2. CASE Opens
  BY <1>2 DEF Opens, ListeningNext, OpenSocket, OpenFails, AllOpen, PathsInv
<1>3. CASE Responds \/ Reconnects
  BY <1>3, AnswerStage DEF Responds, Reconnects, NewConnection, PathsInv
<1>4. CASE Ended \/ UNCHANGED vars
  BY <1>4 DEF Ended, vars, PathsInv
<1> QED
  BY <1>1, <1>2, <1>3, <1>4 DEF Next

LEMMA SpecPaths == Spec => [](SiteInv /\ PathsInv)
<1> QED
  BY Init_PathsInv, Next_PathsInv, SpecInv, PTL DEF Spec

LEMMA NamedGlue ==
    ASSUME NEW p, Named(p), NEW q, q \in Seq(ToSet(q))
    PROVE  Named(p \o q)
<1> DEFINE S == ToSet(p) \cup ToSet(q)
<1>1. p \in Seq(S) /\ q \in Seq(S) /\ p # <<>>
  BY SeqMonotonic DEF Named
<1> HIDE DEF S
<1>2. p \o q \in Seq(S) /\ Len(p \o q) = Len(p) + Len(q) /\ Len(p) > 0 /\ Len(q) >= 0
  BY <1>1, ConcatProperties, LenProperties, EmptySeq
<1>3. p \o q \in Seq(ToSet(p \o q))
  BY <1>2, SeqOfItsElements
<1> QED
  BY <1>2, <1>3 DEF Named

LEMMA NamedTail ==
    ASSUME NEW p, Named(p)
    PROVE  /\ Tail(p) \in Seq(ToSet(Tail(p))) /\ Len(Tail(p)) = Len(p) - 1
           /\ Len(p) \in Nat \ {0}
           /\ \A i \in 1..(Len(p) - 1) : Tail(p)[i] = p[i + 1]
           /\ Len(p) >= 2 => Named(Tail(p))
<1> DEFINE S == ToSet(p)
<1>1. p \in Seq(S) /\ p # <<>>
  BY DEF Named
<1> HIDE DEF S
<1>2. Len(p) \in Nat \ {0}
  BY <1>1, EmptySeq
<1>3. Tail(p) \in Seq(S) /\ Len(Tail(p)) = Len(p) - 1
      /\ \A i \in 1..(Len(p) - 1) : Tail(p)[i] = p[i + 1]
  BY <1>1, <1>2
<1>4. Tail(p) \in Seq(ToSet(Tail(p)))
  BY <1>3, SeqOfItsElements
<1>5. Len(p) >= 2 => Tail(p) # <<>>
  <2>1. Len(<<>>) = 0
    BY EmptySeq
  <2>2. PICK r : r = Tail(p)
    OBVIOUS
  <2>3. Len(p) >= 2 => Len(r) > 0
    BY <1>2, <1>3, <2>2
  <2>4. Len(p) >= 2 => r # <<>>
    BY <2>1, <2>3
  <2> QED
    BY <2>2, <2>4
<1> QED
  BY <1>2, <1>3, <1>4, <1>5 DEF Named

(* A path cut anywhere is one of names still.                              *)
LEMMA CutIsSeq ==
    ASSUME NEW p, NEW n \in Int
    PROVE  SubSeq(p, 1, n) \in Seq(ToSet(SubSeq(p, 1, n)))
<1> DEFINE c == SubSeq(p, 1, n)
<1>1. CASE n >= 1
  <2>1. c = [i \in 1..n |-> p[i]]
    BY <1>1
  <2> HIDE DEF c
  <2>2. n \in Nat /\ DOMAIN c = 1..n /\ c = [i \in DOMAIN c |-> c[i]]
    BY <1>1, <2>1
  <2>3. c \in Seq(ToSet(c))
    BY <2>2, FunctionIsSeq
  <2> QED
    BY <2>3 DEF c
<1>2. CASE n < 1
  <2>1. c = <<>>
    BY <1>2
  <2> HIDE DEF c
  <2>2. c \in Seq(ToSet(c))
    BY <2>1, EmptySeq
  <2> QED
    BY <2>2 DEF c
<1> QED
  BY <1>1, <1>2

(* What begins a path within a longer one is found.                        *)
LEMMA FoundInside ==
    ASSUME NEW S, NEW s \in Seq(S), NEW t \in Seq(S), NEW k \in Nat, k + Len(s) <= Len(t),
           \A i \in 1..Len(s) : t[k + i] = s[i]
    PROVE  IndexFirstSubSeq(s, t) \in Int
<1> DEFINE Here(i) == s \in SubSeqs(SubSeq(t, 1, i))
           T == {i \in 0..Len(t) : Here(i)}
<1>1. Len(t) \in Nat /\ Len(s) \in Nat
  BY LenProperties
<1>2. Here(Len(t))
  <2>1. SubSeq(t, 1, Len(t)) = t
    BY SubSeqFull
  <2>2. SubSeq(t, k + 1, k + Len(s)) = s
    <3> DEFINE c == SubSeq(t, k + 1, k + Len(s))
    <3>1. c \in Seq(S) /\ Len(c) = Len(s) /\ \A i \in 1..Len(s) : c[i] = t[k + i]
      BY <1>1, SubSeqProperties
    <3> HIDE DEF c
    <3>2. c = s
      BY <1>1, <3>1, SeqEqual
    <3> QED
      BY <3>2 DEF c
  <2>3. k \in 0..Len(t) /\ k + Len(s) \in 0..Len(t)
    BY <1>1
  <2>4. s \in SubSeqs(t)
    BY <2>2, <2>3 DEF SubSeqs
  <2> QED
    BY <2>1, <2>4
<1> HIDE DEF Here
<1>3. T \subseteq Nat /\ T # {}
  BY <1>1, <1>2
<1>4. PICK i \in T : \A j \in T : i <= j
  BY <1>3, LeastNumber
<1>5. i \in 0..Len(t) /\ Here(i) /\ \A j \in 0..i-1 : ~Here(j)
  BY <1>1, <1>4
<1> DEFINE least == CHOOSE m \in 0..Len(t) : Here(m) /\ \A j \in 0..m-1 : ~Here(j)
<1>6. least \in 0..Len(t)
  BY <1>5
<1>7. IndexFirstSubSeq(s, t) = least - (Len(s) - 1)
  BY DEF IndexFirstSubSeq, Here
<1> HIDE DEF least
<1> QED
  BY <1>1, <1>6, <1>7

(* Every block has a root above it, be it that of the outermost block.     *)
LEMMA RootNamed ==
    ASSUME TreeSound, PathsInv, NEW n \in DOMAIN tree
    PROVE  Named(RootOf(n))
<1> DEFINE N == {k \in DOMAIN tree : tree[k].root # Empty}
           T == {m \in Nat : \A k \in 1..m : k <= Len(tree) => Up(tree, k, N) \in N}
<1>1. Hangs(tree) /\ DOMAIN tree = 1..Len(tree) /\ Len(tree) \in Nat
  BY TreeHangs DEF Hangs
<1>2. 1 \in N /\ \A k \in DOMAIN tree : Named(tree[k].root) /\ (k # 1 => tree[k].back_ref # 0)
  BY <1>1 DEF PathsInv, Paved
<1> HIDE DEF N
<1>3. 0 \in T
  OBVIOUS
<1>4. ASSUME NEW m \in Nat, m \in T PROVE m + 1 \in T
  <2> SUFFICES ASSUME m + 1 <= Len(tree) PROVE Up(tree, m + 1, N) \in N
    BY <1>4
  <2>1. m + 1 \in 0..Len(tree) /\ m + 1 # 0 /\ m + 1 \in 1..Len(tree)
    BY <1>1
  <2>2. Up(tree, m + 1, N) = IF m + 1 = 0 \/ m + 1 \in N THEN m + 1
                             ELSE Up(tree, tree[m + 1].back_ref, N)
    BY <1>1, <2>1, UpSteps
  <2>3. CASE m + 1 \in N
    BY <2>2, <2>3
  <2>4. CASE m + 1 \notin N
    <3>1. tree[m + 1].back_ref \in 1..m
      BY <1>1, <1>2, <2>1, <2>4 DEF Hangs
    <3>2. Up(tree, tree[m + 1].back_ref, N) \in N
      BY <1>1, <1>4, <2>1, <3>1
    <3> QED
      BY <2>1, <2>2, <2>4, <3>2
  <2> QED
    BY <2>3, <2>4
<1> HIDE DEF T
<1>5. Len(tree) \in T
  BY <1>1, <1>3, <1>4, NumbersByStep
<1>6. Up(tree, n, N) \in N
  BY <1>1, <1>5 DEF T
<1>7. RootOf(n) = tree[Up(tree, n, N)].root
  BY NearestIsUp DEF RootOf, N
<1>8. N \subseteq DOMAIN tree
  BY DEF N
<1> QED
  BY <1>2, <1>6, <1>7, <1>8

LEMMA FilePathNamed ==
    ASSUME NEW q \in Requests
    PROVE  Named(FilePath(q))
<1> DEFINE x == q.target
           t == FilePath(q)
<1>1. Named(x)
  BY TargetAssumption DEF IsPath, Named
<1>2. /\ EndsInSlash(x) /\ x # Top => t = Front(x)
      /\ ~(EndsInSlash(x) /\ x # Top) => t = x
      /\ EndsInSlash(x) <=> Len(x) > 1 /\ Last(x) = NoName
  BY FilePathCases, SlashCases
<1> HIDE DEF x, t
<1>3. CASE EndsInSlash(x) /\ x # Top
  <2>1. t = Front(x) /\ Len(x) > 1
    BY <1>2, <1>3
  <2>2. Front(x) \in Seq(ToSet(x)) /\ Len(Front(x)) = Len(x) - 1 /\ Len(x) \in Nat
    BY <1>1, LastAndFront DEF Named
  <2>3. Front(x) \in Seq(ToSet(Front(x)))
    BY <2>2, SeqOfItsElements
  <2>4. Len(Front(x)) > 0 /\ Len(<<>>) = 0
    BY <2>1, <2>2, EmptySeq
  <2> QED
    BY <2>1, <2>3, <2>4 DEF Named, t
<1>4. CASE ~(EndsInSlash(x) /\ x # Top)
  BY <1>1, <1>2, <1>4 DEF t
<1> QED
  BY <1>3, <1>4

LEMMA OwnAncestor ==
    ASSUME NEW S, NEW t \in Seq(S), Len(t) > 0
    PROVE  Ancestor(t, t)
<1>1. Len(t) \in Nat \ {0} /\ Len(t) \in 1..Len(t)
  BY LenProperties
<1>2. t = Start(t, Len(t))
  BY <1>1, SubSeqFull DEF Start
<1>3. t = Top => t[1] = NoName
  BY DEF Top
<1> QED
  BY <1>1, <1>2, <1>3, Zenon DEF Ancestor

LEMMA ClimbAncestor ==
    ASSUME NEW s, NEW t, Named(t)
    PROVE  Ancestor(Climb(s, t).path, t)
<1> DEFINE S == ToSet(t) \cup {NoName}
           L == LocationsOf(s)
           Turn(p) == IF p = Empty \/ Matching(L, p) # {} THEN p ELSE regress_path(p)
<1>1. t \in Seq(S) /\ NoName \in S /\ Len(t) \in Nat \ {0}
  <2>1. t \in Seq(ToSet(t)) /\ t # <<>>
    BY DEF Named
  <2> QED
    BY <2>1, SeqMonotonic, EmptySeq
<1> HIDE DEF S, L
<1>2. PICK g : Climbs(g, L, t, Len(t)) /\ Climb(s, t).path = g[Len(t)]
  BY <1>1, ClimbArrives, ZenonT(40) DEF Arrives, L
<1> HIDE DEF Turn
<1>3. g = [k \in 0..Len(t) |-> IF k = 0 THEN t ELSE Turn(g[k - 1])]
  BY <1>2 DEF Climbs, Turn
<1>4. g[0] = t /\ \A k \in 0..(Len(t) - 1) : g[k + 1] = Turn(g[k])
  <2>1. \A k \in 0..Len(t) : g[k] = IF k = 0 THEN t ELSE Turn(g[k - 1])
    BY <1>3
  <2> QED
    BY <1>1, <2>1
<1> DEFINE T == {k \in Nat : k <= Len(t) => Ancestor(g[k], t)}
<1>5. 0 \in T
  BY <1>1, <1>4, OwnAncestor
<1>6. ASSUME NEW k \in Nat, k \in T PROVE k + 1 \in T
  <2> SUFFICES ASSUME k + 1 <= Len(t) PROVE Ancestor(g[k + 1], t)
    OBVIOUS
  <2>1. Ancestor(g[k], t) /\ g[k + 1] = Turn(g[k])
    BY <1>1, <1>4, <1>6
  <2>2. g[k] # Empty => Ancestor(regress_path(g[k]), t)
    BY <1>1, <2>1, RegressSteps
  <2>3. Ancestor(Turn(g[k]), t)
    BY <2>1, <2>2, Zenon DEF Turn
  <2> QED
    BY <2>1, <2>3
<1> HIDE DEF T
<1>7. Len(t) \in T
  BY <1>1, <1>5, <1>6, NumbersByStep
<1> QED
  BY <1>1, <1>2, <1>7 DEF T

(* The matched path lies in the path it is looked for in: the target       *)
(* itself, or the target behind a root.                                    *)
LEMMA MatchedIsFound ==
    ASSUME NEW t, Named(t), NEW p, Named(p), NEW k \in Nat, Len(p) = k + Len(t),
           \A i \in 2..Len(t) : p[k + i] = t[i],
           NEW j \in 1..Len(t)
    PROVE  IndexFirstSubSeq(Tail(Start(t, j)), Tail(p)) \in Int
<1> DEFINE m == Start(t, j)
           S == ToSet(p) \cup ToSet(t)
<1>1. t \in Seq(S) /\ p \in Seq(S) /\ t # <<>> /\ p # <<>>
  BY SeqMonotonic DEF Named
<1>2. Len(t) \in Nat \ {0} /\ Len(p) \in Nat \ {0}
  BY <1>1, EmptySeq
<1> HIDE DEF S
<1>3. m \in Seq(S) /\ Len(m) = j /\ \A i \in 1..j : m[i] = t[i]
  BY <1>1, StartFacts
<1> HIDE DEF m
<1>4. Tail(m) \in Seq(S) /\ Len(Tail(m)) = j - 1 /\ \A i \in 1..(j - 1) : Tail(m)[i] = t[i + 1]
  BY <1>2, <1>3
<1>5. Tail(p) \in Seq(S) /\ Len(Tail(p)) = Len(p) - 1
      /\ \A i \in 1..(Len(p) - 1) : Tail(p)[i] = p[i + 1]
  BY <1>1, <1>2
<1> DEFINE a == Tail(m)
           b == Tail(p)
<1> HIDE DEF a, b
<1>6. /\ a \in Seq(S) /\ b \in Seq(S) /\ k + Len(a) <= Len(b)
      /\ \A i \in 1..Len(a) : b[k + i] = a[i]
  <2>1. k + Len(a) <= Len(b)
    BY <1>2, <1>4, <1>5 DEF a, b
  <2>2. ASSUME NEW i \in 1..(j - 1) PROVE b[k + i] = a[i]
    <3>1. a[i] = t[i + 1]
      BY <1>4 DEF a
    <3>2. i + 1 \in 2..Len(t) /\ k + i \in 1..(Len(p) - 1)
      BY <1>2
    <3>3. b[k + i] = p[(k + i) + 1]
      BY <1>5, <3>2 DEF b
    <3>4. (k + i) + 1 = k + (i + 1)
      BY <1>2
    <3>5. p[k + (i + 1)] = t[i + 1]
      BY <3>2
    <3> QED
      BY <3>1, <3>3, <3>4, <3>5
  <2> QED
    BY <1>4, <1>5, <2>1, <2>2 DEF a, b
<1>7. IndexFirstSubSeq(a, b) \in Int
  BY <1>6, FoundInside
<1> QED
  BY <1>7 DEF a, b, m

LEMMA GlueNamed ==
    ASSUME NEW c, c \in Seq(ToSet(c)), NEW q, Named(q)
    PROVE  Named(c \o q)
<1> DEFINE S == ToSet(c) \cup ToSet(q)
<1>1. c \in Seq(S) /\ q \in Seq(S) /\ q # <<>>
  BY SeqMonotonic DEF Named
<1> HIDE DEF S
<1>2. c \o q \in Seq(S) /\ Len(c \o q) = Len(c) + Len(q) /\ Len(q) > 0 /\ Len(c) >= 0
  BY <1>1, ConcatProperties, LenProperties, EmptySeq
<1>3. c \o q \in Seq(ToSet(c \o q)) /\ Len(<<>>) = 0
  BY <1>2, SeqOfItsElements, EmptySeq
<1>4. c \o q # <<>>
  BY <1>2, <1>3
<1> QED
  BY <1>3, <1>4 DEF Named

LEMMA AliasedNamed ==
    ASSUME NEW p, Named(p), NEW n, Named(tree[n].alias), NEW m,
           m # Top => IndexFirstSubSeq(Tail(m), Tail(p)) \in Int
    PROVE  Named(Aliased(p, m, n))
<1> DEFINE alias == tree[n].alias
           at == IF m = Top THEN 1 ELSE IndexFirstSubSeq(Tail(m), Tail(p))
           c == SubSeq(p, 1, at)
<1>1. c \in Seq(ToSet(c))
  <2>1. at \in Int
    OBVIOUS
  <2> HIDE DEF at
  <2> QED
    BY <2>1, CutIsSeq
<1>2. /\ alias = Empty => Aliased(p, m, n) = p
      /\ alias # Empty /\ alias[1] = NoName => Aliased(p, m, n) = c \o Tail(alias)
      /\ alias # Empty /\ alias[1] # NoName => Aliased(p, m, n) = c \o Tail(<<NoName>> \o alias)
  <2>1. (<<NoName>> \o alias)[1] = NoName
    <3> DEFINE S == ToSet(alias) \cup {NoName}
    <3>1. alias \in Seq(S) /\ <<NoName>> \in Seq(S)
      BY SeqMonotonic DEF Named
    <3> QED
      BY <3>1, ConcatProperties
  <2> QED
    BY <2>1, Zenon DEF Aliased, Concat, Top, NoName
<1>3. Named(alias)
  OBVIOUS
<1> HIDE DEF alias, c, at
<1>4. CASE alias = Empty
  BY <1>2, <1>4
<1>5. CASE alias # Empty /\ alias[1] = NoName
  <2>1. Len(alias) >= 2
    <3>1. alias \in Seq(ToSet(alias) \cup {NoName}) /\ alias # <<>>
      BY <1>3, SeqMonotonic DEF Named
    <3>2. ~(Len(alias) = 1 /\ alias[1] = NoName) /\ Len(alias) \in Nat \ {0}
      BY <1>5, <3>1, ShortTexts, EmptySeq
    <3>3. PICK k \in Nat : k = Len(alias) /\ k # 0
      BY <3>2
    <3>4. k # 1
      BY <1>5, <3>2, <3>3, Zenon
    <3> QED
      BY <3>3, <3>4
  <2>2. Named(Tail(alias))
    BY <1>3, <2>1, NamedTail
  <2> QED
    BY <1>1, <1>2, <1>5, <2>2, GlueNamed
<1>6. CASE alias # Empty /\ alias[1] # NoName
  <2> DEFINE a == <<NoName>> \o alias
  <2>1. Named(a) /\ Len(a) >= 2
    <3>1. Named(<<NoName>>) /\ Len(<<NoName>>) = 1
      BY EmptyNamed, EmptyText
    <3>2. <<NoName>> \in Seq(ToSet(<<NoName>>) \cup ToSet(alias))
          /\ alias \in Seq(ToSet(<<NoName>>) \cup ToSet(alias))
      BY <1>3, <3>1, SeqMonotonic DEF Named
    <3>3. Len(a) = Len(<<NoName>>) + Len(alias)
      BY <3>2, ConcatProperties
    <3>4. Len(alias) \in Nat \ {0}
      BY <1>3, NamedTail
    <3>5. Named(a)
      BY <1>3, <3>1, NamedGlue DEF Named
    <3> HIDE DEF a
    <3> QED
      BY <3>1, <3>3, <3>4, <3>5
  <2>2. Named(Tail(a))
    BY <2>1, NamedTail
  <2> QED
    BY <1>1, <1>2, <1>6, <2>2, GlueNamed
<1> QED
  BY <1>4, <1>5, <1>6

LEMMA BehindFirst ==
    ASSUME NEW S, NEW a \in Seq(S), NEW b \in Seq(S)
    PROVE  /\ Len(a \o b) = Len(a) + Len(b)
           /\ \A i \in 1..Len(b) : (a \o b)[Len(a) + i] = b[i]
<1>1. Len(a) \in Nat /\ Len(b) \in Nat
  BY LenProperties
<1> QED
  BY <1>1, ConcatProperties

(* Concat is the second path behind one as long as the first.              *)
LEMMA ConcatGlues ==
    ASSUME NEW r, Named(r), NEW t
    PROVE  \E u : Named(u) /\ Len(u) = Len(r) /\ Concat(r, t) = u \o Tail(t)
<1>1. CASE t[1] = NoName
  BY <1>1 DEF Concat, NoName
<1>2. CASE t[1] # NoName
  <2> DEFINE fused == Last(r) \o t[1]
             S == ToSet(r) \cup {fused}
             u == Append(Front(r), fused)
  <2>1. Concat(r, t) = u \o Tail(t)
    BY <1>2, Zenon DEF Concat, NoName
  <2> HIDE DEF fused
  <2>2. r \in Seq(S) /\ r # <<>> /\ fused \in S
    BY SeqMonotonic DEF Named
  <2> HIDE DEF S
  <2>3. Front(r) \in Seq(S) /\ Len(Front(r)) = Len(r) - 1 /\ Len(r) \in Nat
    BY <2>2, LastAndFront
  <2>4. u \in Seq(S) /\ Len(u) = Len(r) /\ u # <<>>
    BY <2>2, <2>3, AppendProperties, EmptySeq
  <2>5. Named(u)
    BY <2>4, SeqOfItsElements DEF Named
  <2> QED
    BY <2>1, <2>4, <2>5
<1> QED
  BY <1>1, <1>2

LEMMA DirPathNamed ==
    ASSUME TreeSound, PathsInv, NEW q \in Requests, NEW match,
           match.location \in DOMAIN tree, match.path # Empty, Ancestor(match.path, FilePath(q))
    PROVE  Named(DirPath(q, match))
<1> DEFINE t == FilePath(q)
           n == match.location
           r == RootOf(n)
           relative == Aliased(Concat(r, t), match.path, n)
           absolute == Aliased(t, match.path, n)
<1>1. DirPath(q, match) \in {relative, absolute, Empty}
  BY Zenon DEF DirPath
<1>2. Named(t) /\ Named(r) /\ Named(tree[n].alias)
  BY FilePathNamed, RootNamed DEF PathsInv, Paved
<1>3. match.path = Top \/ \E j \in 1..Len(t) : match.path = Start(t, j)
  BY DEF Ancestor
<1> HIDE DEF r, t, n
<1>4. Len(t) \in Nat \ {0} /\ Len(r) \in Nat \ {0}
  BY <1>2, NamedTail
<1>5. Named(absolute)
  <2>1. ASSUME NEW j \in 1..Len(t), match.path = Start(t, j)
        PROVE  IndexFirstSubSeq(Tail(match.path), Tail(t)) \in Int
    <3>1. Len(t) = 0 + Len(t) /\ \A i \in 2..Len(t) : t[0 + i] = t[i]
      BY <1>4
    <3> QED
      BY <1>2, <2>1, <3>1, MatchedIsFound
  <2> QED
    BY <1>2, <1>3, <2>1, AliasedNamed
<1>6. Named(relative)
  <2> DEFINE p == Concat(r, t)
             k == Len(r) - 1
  <2>0. PICK u : Named(u) /\ Len(u) = Len(r) /\ p = u \o Tail(t)
    BY <1>2, ConcatGlues
  <2>1. Named(p) /\ Len(p) = k + Len(t) /\ \A i \in 2..Len(t) : p[k + i] = t[i]
    <3> DEFINE S == ToSet(u) \cup ToSet(Tail(t))
    <3>1. /\ Tail(t) \in Seq(ToSet(Tail(t))) /\ Len(Tail(t)) = Len(t) - 1
          /\ \A i \in 1..(Len(t) - 1) : Tail(t)[i] = t[i + 1]
      BY <1>2, NamedTail
    <3>2. u \in Seq(S) /\ Tail(t) \in Seq(S)
      BY <2>0, <3>1, SeqMonotonic DEF Named
    <3>3. p = u \o Tail(t) /\ Named(u) /\ Len(u) = Len(r)
      BY <2>0
    <3> HIDE DEF S, p
    <3>4. Named(p)
      BY <3>1, <3>3, NamedGlue
    <3>5. /\ Len(p) = Len(r) + Len(Tail(t))
          /\ \A i \in 1..Len(Tail(t)) : p[Len(r) + i] = Tail(t)[i]
      <4>1. /\ Len(u \o Tail(t)) = Len(u) + Len(Tail(t))
            /\ \A i \in 1..Len(Tail(t)) : (u \o Tail(t))[Len(u) + i] = Tail(t)[i]
        BY <3>2, BehindFirst
      <4> QED
        BY <3>3, <4>1, Zenon
    <3>6. ASSUME NEW i \in 2..Len(t) PROVE p[k + i] = t[i]
      <4>1. i - 1 \in 1..(Len(t) - 1) /\ k + i = Len(r) + (i - 1) /\ (i - 1) + 1 = i
        BY <1>4
      <4>2. p[Len(r) + (i - 1)] = Tail(t)[i - 1]
        BY <3>1, <3>5, <4>1
      <4>3. Tail(t)[i - 1] = t[(i - 1) + 1]
        BY <3>1, <4>1
      <4> QED
        BY <4>1, <4>2, <4>3
    <3> QED
      BY <1>4, <3>1, <3>4, <3>5, <3>6
  <2>2. k \in Nat
    BY <1>4
  <2> HIDE DEF p, k
  <2>3. ASSUME NEW j \in 1..Len(t), match.path = Start(t, j)
        PROVE  IndexFirstSubSeq(Tail(match.path), Tail(p)) \in Int
    BY <1>2, <2>1, <2>2, <2>3, MatchedIsFound
  <2>4. Named(Aliased(p, match.path, n))
    BY <1>2, <1>3, <2>1, <2>3, AliasedNamed
  <2> QED
    BY <2>4 DEF p
<1> QED
  BY <1>1, <1>5, <1>6, EmptyNamed

LEMMA RouteNamed ==
    ASSUME TreeSound, PathsInv, NEW q \in Requests
    PROVE  Named(Route(q).path) /\ Route(q).location \in 0..Len(tree)
<1> DEFINE s == MatchServer(q)
           t == FilePath(q)
           match == Climb(s, t)
<1>1. /\ Route(q).location = match.location
      /\ Route(q).path = IF match.location = 0 THEN Empty ELSE DirPath(q, match)
  BY DEF Route
<1>2. match.location \in 0..Len(tree)
  BY LocationInTree DEF MatchLocation
<1>3. Named(t) /\ Len(t) \in Nat
  BY FilePathNamed, NamedTail
<1>4. match.location # 0 => match.path # Empty
  BY <1>3, ClimbArrives
<1>5. Ancestor(match.path, t)
  BY <1>3, ClimbAncestor
<1> HIDE DEF match, t
<1>6. CASE match.location = 0
  BY <1>1, <1>6, <1>2, EmptyNamed
<1>7. CASE match.location # 0
  <2>1. match.location \in DOMAIN tree
    BY <1>2, <1>7, TreeHangs DEF Hangs
  <2>2. Named(DirPath(q, match))
    BY <1>4, <1>5, <1>7, <2>1, DirPathNamed DEF t
  <2> QED
    BY <1>1, <1>2, <1>7, <2>2
<1> QED
  BY <1>6, <1>7

-----------------------------------------------------------------------------
(* The names tried for an index: the function that gathers them up the     *)
(* tree exists, and what it gathers is a sequence of names.                *)
Gathers(g, t, m) ==
    g = [k \in 0..m |-> IF k = 0 THEN <<>> ELSE t[k].index \o g[t[k].back_ref]]

LEMMA GathersExists ==
    ASSUME NEW t, Hangs(t)
    PROVE  \E g : Gathers(g, t, Len(t))
<1> DEFINE n == Len(t)
           T == {m \in Nat : m <= n => \E g : Gathers(g, t, m)}
<1>1. 0 \in T
  <2> DEFINE h == [k \in 0..0 |-> <<>>]
  <2>1. Gathers(h, t, 0)
    BY DEF Gathers
  <2> QED
    BY <2>1
<1>2. ASSUME NEW m \in Nat, m \in T PROVE m + 1 \in T
  <2> SUFFICES ASSUME m + 1 <= n PROVE \E g : Gathers(g, t, m + 1)
    OBVIOUS
  <2>1. n \in Nat /\ m <= n /\ t[m + 1].back_ref \in 0..m
    BY DEF Hangs
  <2>2. PICK g : Gathers(g, t, m)
    BY <1>2, <2>1
  <2> DEFINE here == t[m + 1].index \o g[t[m + 1].back_ref]
             h == [k \in 0..(m + 1) |-> IF k <= m THEN g[k] ELSE here]
  <2>3. \A k \in 0..m : h[k] = g[k]
    OBVIOUS
  <2>4. h[m + 1] = t[m + 1].index \o h[t[m + 1].back_ref]
    <3>1. t[m + 1].back_ref \in 0..m
      BY <2>1
    <3>2. h[t[m + 1].back_ref] = g[t[m + 1].back_ref]
      BY <2>3, <3>1
    <3> HIDE DEF here
    <3>3. h[m + 1] = here
      OBVIOUS
    <3> HIDE DEF h
    <3> QED
      BY <3>2, <3>3, Zenon DEF here
  <2>5. h = [k \in 0..(m + 1) |-> h[k]]
    OBVIOUS
  <2> HIDE DEF h
  <2>6. ASSUME NEW k \in 0..(m + 1)
        PROVE  h[k] = IF k = 0 THEN <<>> ELSE t[k].index \o h[t[k].back_ref]
    <3>1. CASE k = m + 1
      <4>1. k # 0
        BY <3>1
      <4> QED
        BY <2>4, <3>1, <4>1, Zenon
    <3>2. CASE k \in 0..m
      <4>1. k # 0 => t[k].back_ref \in 0..m
        BY <2>1, <3>2 DEF Hangs
      <4>2. g[k] = IF k = 0 THEN <<>> ELSE t[k].index \o g[t[k].back_ref]
        BY <2>2, <3>2, Zenon DEF Gathers
      <4> QED
        BY <2>3, <3>2, <4>1, <4>2
    <3> QED
      BY <3>1, <3>2
  <2>7. Gathers(h, t, m + 1)
    BY <2>5, <2>6 DEF Gathers
  <2> QED
    BY <2>7
<1> HIDE DEF T
<1>3. n \in T
  BY <1>1, <1>2, NumbersByStep DEF Hangs
<1> QED
  BY <1>3 DEF T, Hangs

LEMMA IndexesAreNames ==
    ASSUME TreeSound, PathsInv, NEW n \in 0..Len(tree)
    PROVE  Indexes(n) \in Seq(STRING)
<1> DEFINE g == CHOOSE g : Gathers(g, tree, Len(tree))
           T == {m \in Nat : m <= Len(tree) => \A k \in 0..m : g[k] \in Seq(STRING)}
<1>1. Hangs(tree) /\ DOMAIN tree = 1..Len(tree) /\ Len(tree) \in Nat
  BY TreeHangs DEF Hangs
<1>2. Gathers(g, tree, Len(tree))
  BY <1>1, GathersExists
<1>3. Indexes(n) = g[n]
  BY DEF Indexes, Gathers
<1> HIDE DEF g
<1>4. 0 \in T
  BY <1>1, <1>2 DEF Gathers
<1>5. ASSUME NEW m \in Nat, m \in T PROVE m + 1 \in T
  <2> SUFFICES ASSUME m + 1 <= Len(tree) PROVE g[m + 1] \in Seq(STRING)
    BY <1>5
  <2>1. m + 1 \in DOMAIN tree /\ m + 1 \in 0..Len(tree) /\ m + 1 # 0
        /\ tree[m + 1].back_ref \in 0..m /\ tree[m + 1].index \in Seq(STRING)
    BY <1>1 DEF Hangs, PathsInv, Paved
  <2>2. g[tree[m + 1].back_ref] \in Seq(STRING)
    BY <1>1, <1>5, <2>1
  <2>3. g[m + 1] = tree[m + 1].index \o g[tree[m + 1].back_ref]
    BY <1>2, <2>1 DEF Gathers
  <2> QED
    BY <2>1, <2>2, <2>3, ConcatProperties
<1> HIDE DEF T
<1>6. Len(tree) \in T
  BY <1>1, <1>4, <1>5, NumbersByStep
<1> QED
  BY <1>1, <1>3, <1>6 DEF T

-----------------------------------------------------------------------------
(* The search: a name that is a file replaces the best so far if it is     *)
(* liked better, and there is nothing better than 10.                      *)
Nothing == [name |-> NoName, quality |-> 0]
Choice(q, dir, best, name) ==
    IF checkFile(Inside(dir, name)) = "NormalFile" THEN Better(Accepting(q), best, name)
    ELSE best
Searches(g, q, dir, names, m) ==
    g = [k \in 0..m |-> IF k = 0 THEN Nothing ELSE Choice(q, dir, g[k - 1], names[k])]

LEMMA SearchesExists ==
    ASSUME NEW q, NEW dir, NEW names, NEW n \in Nat
    PROVE  \E g : Searches(g, q, dir, names, n)
<1> DEFINE T == {m \in Nat : \E g : Searches(g, q, dir, names, m)}
<1>1. 0 \in T
  <2> DEFINE h == [k \in 0..0 |-> Nothing]
  <2>1. Searches(h, q, dir, names, 0)
    BY DEF Searches
  <2> QED
    BY <2>1
<1>2. ASSUME NEW m \in Nat, m \in T PROVE m + 1 \in T
  <2>1. PICK g : Searches(g, q, dir, names, m)
    BY <1>2
  <2> DEFINE here == Choice(q, dir, g[m], names[m + 1])
             h == [k \in 0..(m + 1) |-> IF k <= m THEN g[k] ELSE here]
  <2>2. \A k \in 0..m : h[k] = g[k]
    OBVIOUS
  <2>3. h[m + 1] = Choice(q, dir, h[m], names[m + 1])
    OBVIOUS
  <2>4. h = [k \in 0..(m + 1) |-> h[k]]
    OBVIOUS
  <2> HIDE DEF h
  <2>5. ASSUME NEW k \in 0..(m + 1)
        PROVE  h[k] = IF k = 0 THEN Nothing ELSE Choice(q, dir, h[k - 1], names[k])
    <3>1. CASE k = m + 1
      <4>1. k - 1 = m /\ k # 0
        BY <3>1
      <4> QED
        BY <2>3, <3>1, <4>1
    <3>2. CASE k \in 0..m
      <4>1. k # 0 => k - 1 \in 0..m
        BY <3>2
      <4>2. g[k] = IF k = 0 THEN Nothing ELSE Choice(q, dir, g[k - 1], names[k])
        BY <2>1, <3>2, Zenon DEF Searches
      <4> QED
        BY <2>2, <3>2, <4>1, <4>2
    <3> QED
      BY <3>1, <3>2
  <2>6. Searches(h, q, dir, names, m + 1)
    BY <2>4, <2>5 DEF Searches
  <2> QED
    BY <2>6
<1> HIDE DEF T
<1> QED
  BY <1>1, <1>2, NumbersByStep DEF T

(* The larger of two likings.                                              *)
LEMMA LargerOfTwo ==
    ASSUME NEW a \in Nat, NEW b \in Nat, NEW c, c = IF a >= b THEN a ELSE b
    PROVE  /\ (CHOOSE x \in {a, b} : \A y \in {a, b} : y <= x) = c
           /\ Max({a, b}) = c
<1>1. c \in {a, b} /\ (\A y \in {a, b} : y <= c) /\ (\A y \in {a, b} : c >= y)
  OBVIOUS
<1>2. ASSUME NEW x \in {a, b}, \A y \in {a, b} : y <= x PROVE x = c
  BY <1>2
<1>3. ASSUME NEW x \in {a, b}, \A y \in {a, b} : x >= y PROVE x = c
  BY <1>3
<1>4. (CHOOSE x \in {a, b} : \A y \in {a, b} : y <= x) = c
  BY <1>1, <1>2
<1>5. Max({a, b}) = c
  BY <1>1, <1>3 DEF Max
<1> QED
  BY <1>4, <1>5

(* As long as no types are kept, a request is served by its own, and what  *)
(* a client likes is between 0 and 10.                                     *)
NoneKept == DOMAIN kept = {}

LEMMA OwnAccept == ASSUME NoneKept, NEW q PROVE Accepting(q) = q.accept
BY DEF NoneKept, Accepting

LEMMA QualityInRange ==
    ASSUME NEW q \in Requests, NEW type
    PROVE  Quality(q.accept, type) \in 0..10
BY QualityAssumption DEF Quality

Liking(q, name) == Max({Quality(q.accept, MimeOf[name]), Quality(q.accept, "*/*")})

LEMMA BetterOne ==
    ASSUME NoneKept, NEW q \in Requests, NEW name, NEW best, best.quality \in 0..10
    PROVE  /\ Liking(q, name) \in 0..10
           /\ Better(Accepting(q), best, name) =
                 IF best.quality < Liking(q, name)
                 THEN [name |-> name, quality |-> Liking(q, name)] ELSE best
<1> DEFINE a == Quality(q.accept, MimeOf[name])
           b == Quality(q.accept, "*/*")
           c == IF a >= b THEN a ELSE b
           larger == CHOOSE x \in {a, b} : \A y \in {a, b} : y <= x
<1>1. a \in 0..10 /\ b \in 0..10
  BY QualityInRange
<1>0. Accepting(q) = q.accept
  BY OwnAccept
<1>2. Better(q.accept, best, name) =
         IF best.quality # 10 /\ \E x \in {a, b} : x > best.quality
         THEN [name |-> name, quality |-> larger] ELSE best
  BY Zenon DEF Better
<1>3. Liking(q, name) = Max({a, b})
  BY Zenon DEF Liking
<1> HIDE DEF a, b
<1>4. larger = c /\ Max({a, b}) = c
  BY <1>1, LargerOfTwo
<1> HIDE DEF larger
<1>5. c \in 0..10 /\ ((best.quality # 10 /\ \E x \in {a, b} : x > best.quality) <=> best.quality < c)
  BY <1>1
<1> HIDE DEF c
<1> QED
  BY <1>0, <1>2, <1>3, <1>4, <1>5

-----------------------------------------------------------------------------
(* What the search has come to: the first of those liked best, if one of   *)
(* those passed is liked at all.                                           *)
Leads(i, k, there, like) ==
    /\ i \in there /\ i \in 1..k /\ like[i] > 0
    /\ \A j \in there : j <= k => like[j] < like[i] \/ (like[j] = like[i] /\ i <= j)
Standing(best, k, names, there, like) ==
    \/ best = Nothing /\ \A j \in there : j <= k => like[j] = 0
    \/ \E i \in 1..k : /\ Leads(i, k, there, like)
                       /\ best = [name |-> names[i], quality |-> like[i]]

LEMMA SearchStands ==
    ASSUME NEW n \in Nat, NEW names, NEW there, there \subseteq 1..n,
           NEW like \in [1..n -> 0..10], NEW g, g[0] = Nothing,
           \A k \in 1..n :
              g[k - 1].quality \in 0..10 =>
                 g[k] = IF k \in there /\ g[k - 1].quality < like[k]
                        THEN [name |-> names[k], quality |-> like[k]] ELSE g[k - 1]
    PROVE  Standing(g[n], n, names, there, like)
<1> DEFINE T == {k \in Nat : k <= n => Standing(g[k], k, names, there, like)}
<1>1. 0 \in T
  BY DEF Standing
<1>2. ASSUME NEW m \in Nat, m \in T PROVE m + 1 \in T
  <2> SUFFICES ASSUME m + 1 <= n PROVE Standing(g[m + 1], m + 1, names, there, like)
    OBVIOUS
  <2>1. Standing(g[m], m, names, there, like) /\ m + 1 \in 1..n
    BY <1>2
  <2> DEFINE here == [name |-> names[m + 1], quality |-> like[m + 1]]
  <2>2. g[m].quality \in 0..10 =>
           g[m + 1] = IF m + 1 \in there /\ g[m].quality < like[m + 1] THEN here ELSE g[m]
    <3>1. (m + 1) - 1 = m
      OBVIOUS
    <3> QED
      BY <2>1, <3>1, Zenon
  <2>3. here.quality = like[m + 1] /\ like[m + 1] \in 0..10
    BY <2>1
  <2>4. CASE g[m] = Nothing /\ \A j \in there : j <= m => like[j] = 0
    <3>1. g[m].quality = 0
      BY <2>4 DEF Nothing
    <3>2. CASE m + 1 \in there /\ like[m + 1] > 0
      <4>1. g[m + 1] = here
        BY <2>2, <3>1, <3>2
      <4>2. Leads(m + 1, m + 1, there, like)
        BY <2>1, <2>4, <3>2 DEF Leads
      <4> QED
        BY <2>1, <4>1, <4>2 DEF Standing
    <3>3. CASE ~(m + 1 \in there /\ like[m + 1] > 0)
      <4>1. g[m + 1] = g[m]
        BY <2>2, <2>3, <3>1, <3>3
      <4>2. \A j \in there : j <= m + 1 => like[j] = 0
        BY <2>1, <2>3, <2>4, <3>3
      <4> QED
        BY <2>4, <4>1, <4>2 DEF Standing
    <3> QED
      BY <3>2, <3>3
  <2>5. ASSUME NEW i \in 1..m, Leads(i, m, there, like),
               g[m] = [name |-> names[i], quality |-> like[i]]
        PROVE  Standing(g[m + 1], m + 1, names, there, like)
    <3>1. g[m].quality = like[i] /\ like[i] \in 0..10 /\ i \in 1..(m + 1)
      BY <2>1, <2>5
    <3>2. CASE m + 1 \in there /\ like[m + 1] > like[i]
      <4>1. g[m + 1] = here
        BY <2>2, <2>3, <3>1, <3>2
      <4>2. ASSUME NEW j \in there, j <= m + 1
            PROVE  like[j] < like[m + 1] \/ (like[j] = like[m + 1] /\ m + 1 <= j)
        <5>1. CASE j = m + 1
          BY <2>3, <5>1
        <5>2. CASE j # m + 1
          <6>0. \A k \in 1..n : k <= m + 1 /\ k # m + 1 => k <= m
            BY <1>2
          <6>1. j \in 1..n /\ j <= m
            BY <4>2, <5>2, <6>0, Zenon
          <6>2. like[j] \in 0..10 /\ like[j] <= like[i]
            BY <2>5, <3>1, <6>1, SMTT(30) DEF Leads
          <6>3. \A x, y, w \in 0..10 : x <= y /\ w > y => x < w
            OBVIOUS
          <6> QED
            BY <2>3, <3>1, <3>2, <6>2, <6>3, Zenon
        <5> QED
          BY <5>1, <5>2
      <4>3. like[m + 1] > 0
        BY <2>3, <3>1, <3>2
      <4>4. Leads(m + 1, m + 1, there, like)
        BY <3>2, <4>2, <4>3 DEF Leads
      <4> QED
        BY <2>1, <4>1, <4>4 DEF Standing
    <3>3. CASE ~(m + 1 \in there /\ like[m + 1] > like[i])
      <4>1. g[m + 1] = g[m]
        BY <2>2, <2>3, <3>1, <3>3
      <4>2. Leads(i, m + 1, there, like)
        BY <2>1, <2>3, <2>5, <3>1, <3>3, SMTT(30) DEF Leads
      <4> QED
        BY <2>5, <3>1, <4>1, <4>2 DEF Standing
    <3> QED
      BY <3>2, <3>3
  <2> QED
    BY <2>1, <2>4, <2>5 DEF Standing
<1> HIDE DEF T
<1>3. n \in T
  BY <1>1, <1>2, NumbersByStep
<1> QED
  BY <1>3 DEF T

(* A path that ends in a slash is no file.                                 *)
LEMMA FilesHaveNames ==
    ASSUME NEW dir, Named(dir), NEW name, checkFile(Inside(dir, name)) = "NormalFile"
    PROVE  name # NoName
<1> DEFINE base == IF EndsInSlash(dir) THEN Front(dir) ELSE dir
           S == ToSet(dir) \cup {name}
           p == Append(base, name)
<1>1. dir \in Seq(S) /\ dir # <<>> /\ name \in S
  BY DEF Named
<1>2. base \in Seq(S) /\ Len(base) \in Nat \ {0}
  <2>1. Len(dir) \in Nat \ {0} /\ Front(dir) \in Seq(S) /\ Len(Front(dir)) = Len(dir) - 1
    BY <1>1, LastAndFront
  <2>2. EndsInSlash(dir) => Len(dir) > 1
    BY SlashCases
  <2> QED
    BY <1>1, <2>1, <2>2
<1> HIDE DEF base, S
<1>3. p \in Seq(S) /\ Len(p) = Len(base) + 1 /\ p[Len(p)] = name /\ p # <<>>
  BY <1>1, <1>2, AppendProperties
<1>4. Last(p) = name /\ Len(p) > 1
  <2> HIDE DEF p
  <2>1. Last(p) = p[Len(p)]
    BY <1>3, LastAndFront
  <2> QED
    BY <1>2, <1>3, <2>1
<1>5. Inside(dir, name) = p
  BY DEF Inside, base
<1> HIDE DEF p
<1>6. name = NoName => EndsInSlash(p)
  BY <1>4, SlashCases
<1>7. EndsInSlash(p) => checkFile(p) # "NormalFile"
  BY DEF checkFile
<1> QED
  BY <1>5, <1>6, <1>7

-----------------------------------------------------------------------------
(* The index of a request, in terms of the search.                         *)

LEMMA IndexIsFound ==
    ASSUME NEW q, NEW n, NEW dir, Len(Indexes(n)) \in Nat
    PROVE  LET names == Indexes(n) IN
           \E g : /\ Searches(g, q, dir, names, Len(names))
                  /\ IndexPath(q, n, dir) =
                        IF g[Len(names)].name = NoName THEN Empty
                        ELSE Inside(dir, g[Len(names)].name)
<1> DEFINE names == Indexes(n)
           g == CHOOSE g : Searches(g, q, dir, names, Len(names))
<1>1. Searches(g, q, dir, names, Len(names))
  BY SearchesExists
<1>2. IndexPath(q, n, dir) =
         IF g[Len(names)].name = NoName THEN Empty ELSE Inside(dir, g[Len(names)].name)
  BY Zenon DEF IndexPath, Searches, Choice, Nothing, NoName
<1> QED
  BY <1>1, <1>2, Zenon

LEMMA SearchSteps ==
    ASSUME NoneKept, NEW q \in Requests, NEW dir, NEW names, NEW n \in Nat,
           NEW g, Searches(g, q, dir, names, n)
    PROVE  /\ g[0] = Nothing
           /\ \A k \in 1..n : g[k - 1].quality \in 0..10 =>
                 g[k] = IF /\ checkFile(Inside(dir, names[k])) = "NormalFile"
                           /\ g[k - 1].quality < Liking(q, names[k])
                        THEN [name |-> names[k], quality |-> Liking(q, names[k])]
                        ELSE g[k - 1]
<1>1. g[0] = Nothing
  <2>1. 0 \in 0..n
    OBVIOUS
  <2> QED
    BY <2>1, Zenon DEF Searches
<1>2. ASSUME NEW k \in 1..n, g[k - 1].quality \in 0..10
      PROVE  g[k] = IF /\ checkFile(Inside(dir, names[k])) = "NormalFile"
                       /\ g[k - 1].quality < Liking(q, names[k])
                    THEN [name |-> names[k], quality |-> Liking(q, names[k])]
                    ELSE g[k - 1]
  <2>1. k \in 0..n /\ k # 0
    OBVIOUS
  <2>2. g[k] = Choice(q, dir, g[k - 1], names[k])
    BY <2>1, Zenon DEF Searches
  <2>3. Better(Accepting(q), g[k - 1], names[k]) =
           IF g[k - 1].quality < Liking(q, names[k])
           THEN [name |-> names[k], quality |-> Liking(q, names[k])] ELSE g[k - 1]
    BY <1>2, BetterOne
  <2> QED
    BY <2>2, <2>3, Zenon DEF Choice
<1> QED
  BY <1>1, <1>2

LEMMA BestIndex ==
    ASSUME TreeSound, PathsInv, NoneKept, NEW q \in Requests, NEW n \in 0..Len(tree),
           NEW dir, Named(dir)
    PROVE  LET names == Indexes(n)
               there == {i \in DOMAIN names : checkFile(Inside(dir, names[i])) = "NormalFile"}
               liked == {i \in there :
                            /\ Liking(q, names[i]) > 0
                            /\ \A j \in there :
                                  \/ Liking(q, names[j]) < Liking(q, names[i])
                                  \/ Liking(q, names[j]) = Liking(q, names[i]) /\ i <= j}
           IN IndexPath(q, n, dir) =
                 IF liked = {} THEN Empty
                 ELSE Inside(dir, names[CHOOSE i \in liked : TRUE])
<1> DEFINE names == Indexes(n)
           m == Len(names)
           there == {i \in DOMAIN names : checkFile(Inside(dir, names[i])) = "NormalFile"}
           like == [i \in 1..m |-> Liking(q, names[i])]
           liked == {i \in there :
                        /\ Liking(q, names[i]) > 0
                        /\ \A j \in there :
                              \/ Liking(q, names[j]) < Liking(q, names[i])
                              \/ Liking(q, names[j]) = Liking(q, names[i]) /\ i <= j}
<1>1. m \in Nat /\ DOMAIN names = 1..m
  BY IndexesAreNames
<1>2. PICK g : /\ Searches(g, q, dir, names, m)
               /\ IndexPath(q, n, dir) =
                     IF g[m].name = NoName THEN Empty ELSE Inside(dir, g[m].name)
  BY <1>1, IndexIsFound
<1> HIDE DEF names
<1>3. like \in [1..m -> 0..10]
  <2>1. \A i \in 1..m : Liking(q, names[i]) \in 0..10
    <3> SUFFICES ASSUME NEW i \in 1..m PROVE Liking(q, names[i]) \in 0..10
      OBVIOUS
    <3>1. Nothing.quality \in 0..10
      BY DEF Nothing
    <3> QED
      BY <3>1, BetterOne
  <2> QED
    BY <2>1
<1>4. there \subseteq 1..m /\ \A k \in 1..m :
         /\ like[k] = Liking(q, names[k])
         /\ k \in there <=> checkFile(Inside(dir, names[k])) = "NormalFile"
  BY <1>1
<1> HIDE DEF m, like
<1>5. liked = {i \in there : Leads(i, m, there, like)}
  BY <1>1, <1>4 DEF Leads
<1>6. Standing(g[m], m, names, there, like)
  <2>1. g[0] = Nothing /\ \A k \in 1..m : g[k - 1].quality \in 0..10 =>
           g[k] = IF k \in there /\ g[k - 1].quality < like[k]
                  THEN [name |-> names[k], quality |-> like[k]] ELSE g[k - 1]
    BY <1>1, <1>2, <1>4, SearchSteps
  <2> HIDE DEF there
  <2> QED
    BY <1>1, <1>3, <1>4, <2>1, SearchStands
<1>7. \A i \in there : names[i] # NoName
  BY <1>1, FilesHaveNames
<1> DEFINE best == CHOOSE i \in liked : TRUE
<1> HIDE DEF liked, there, best
<1>8. ASSUME g[m] = Nothing, \A j \in there : j <= m => like[j] = 0
      PROVE  IndexPath(q, n, dir) = IF liked = {} THEN Empty ELSE Inside(dir, names[best])
  <2>1. liked = {}
    <3> SUFFICES ASSUME NEW i \in liked PROVE FALSE
      OBVIOUS
    <3>1. i \in there /\ i \in 1..m /\ like[i] > 0
      BY <1>5 DEF Leads
    <3>2. i <= m
      BY <1>1, <3>1
    <3>3. like[i] = 0
      BY <1>8, <3>1, <3>2
    <3> QED
      BY <3>1, <3>3
  <2>2. g[m].name = NoName
    BY <1>8 DEF Nothing
  <2> QED
    BY <1>2, <2>1, <2>2
<1>9. ASSUME NEW i \in 1..m, Leads(i, m, there, like),
             g[m] = [name |-> names[i], quality |-> like[i]]
      PROVE  IndexPath(q, n, dir) = IF liked = {} THEN Empty ELSE Inside(dir, names[best])
  <2>1. i \in liked
    BY <1>5, <1>9 DEF Leads
  <2>2. ASSUME NEW j \in liked PROVE j = i
    <3>1. j \in 1..m /\ i \in there /\ j \in there /\ Leads(j, m, there, like)
      BY <1>4, <1>5, <1>9, <2>2 DEF Leads
    <3>2. like[i] \in 0..10 /\ like[j] \in 0..10 /\ i <= m /\ j <= m
      BY <1>1, <1>3, <3>1
    <3>3. \A k, l \in 1..m, x, y \in 0..10 :
             (y < x \/ (y = x /\ k <= l)) /\ (x < y \/ (x = y /\ l <= k)) => l = k
      BY <1>1
    <3>4. like[j] < like[i] \/ (like[j] = like[i] /\ i <= j)
      BY <1>9, <3>1, <3>2, Zenon DEF Leads
    <3>5. like[i] < like[j] \/ (like[i] = like[j] /\ j <= i)
      BY <3>1, <3>2, Zenon DEF Leads
    <3> QED
      BY <1>9, <3>1, <3>2, <3>3, <3>4, <3>5, Zenon
  <2>3. best = i /\ liked # {}
    BY <2>1, <2>2 DEF best
  <2>4. g[m].name = names[i] /\ names[i] # NoName
    BY <1>7, <1>9 DEF Leads
  <2> QED
    BY <1>2, <2>3, <2>4
<1>10. \/ g[m] = Nothing /\ \A j \in there : j <= m => like[j] = 0
       \/ \E i \in 1..m : /\ Leads(i, m, there, like)
                          /\ g[m] = [name |-> names[i], quality |-> like[i]]
  BY <1>6 DEF Standing
<1>11. IndexPath(q, n, dir) = IF liked = {} THEN Empty ELSE Inside(dir, names[best])
  BY <1>8, <1>9, <1>10
<1> QED
  BY <1>11, Zenon DEF best, liked, there, names

-----------------------------------------------------------------------------
(* For the requests of a connection up to the first with an Accept line,   *)
(* and for that one, the index is the first of those it likes best, of all *)
(* files of the directory that the location and the blocks around it name  *)
(* (selectIndexAll).                                                       *)
THEOREM IndexAlwaysBest == Spec => []IndexIsBest
<1>1. SiteInv /\ PathsInv => IndexIsBest
  <2> SUFFICES ASSUME SiteInv, PathsInv, NoneKept PROVE IndexIsBest
    BY DEF IndexIsBest, NoneKept
  <2>1. TreeSound
    BY DEF SiteInv, ParserInv
  <2>2. ASSUME NEW q \in Requests
        PROVE  Named(Route(q).path) /\ Route(q).location \in 0..Len(tree)
    BY <2>1, RouteNamed
  <2> QED
    BY <2>1, <2>2, BestIndex, Zenon DEF IndexIsBest, Liking
<1> QED
  BY <1>1, SpecPaths, PTL
=============================================================================
