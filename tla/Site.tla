-------------------------------- MODULE Site --------------------------------
(***************************************************************************)
(* A run of the program as its configuration file decides it (main, Parser,*)
(* PollServer::setConfig, Response): the file is parsed, its ports are     *)
(* opened, then requests are routed through the tree to the files of the   *)
(* disk.  How requests arrive and answers leave is PollServer's matter.    *)
(***************************************************************************)
EXTENDS ConfigParser, Listening, Routing, FiniteSetsExt

CONSTANT Served     \* the texts whose servers are sent requests: a bound

vars == <<stage, tree, parserVars, listening, routingVars>>

Init == ParserInit /\ ListeningInit /\ RoutingInit

(* main gives up; the process has crashed or does nothing else any more.   *)
Ended ==
    /\ \/ stage \in {"refused", "unserved", "crashed", "hung"}
       \/ stage = "serving" /\ file \notin Served
    /\ UNCHANGED vars

Parses == ParserNext /\ UNCHANGED <<listening, routingVars>>
Opens == ListeningNext /\ UNCHANGED <<parserVars, routingVars>>
Responds == /\ file \in Served
            /\ \E q \in Requests : getResponse(q)
            /\ UNCHANGED <<parserVars, listening>>
Reconnects == NewConnection /\ UNCHANGED <<parserVars, listening>>

Next == Parses \/ Opens \/ Responds \/ Reconnects \/ Ended
Spec == Init /\ [][Next]_vars

(* What the variables hold.                                                *)
TypeOK ==
    /\ stage \in Stages /\ file \in Files /\ pos \in 1..(Len(file) + 1)
    /\ nesting \in Nat /\ depth \in 0..Len(file)
    /\ counts \in [0..Len(file) -> Nat] /\ current \in 0..Len(tree)
    /\ \A n \in DOMAIN tree :
          /\ tree[n].back_ref \in 0..(n - 1)
          /\ tree[n].type \in {"http", "server", "location"}
          /\ tree[n].port \in {Unset} \cup PortNumbers
          /\ tree[n].code \in {Unset} \cup 300..400
    /\ DOMAIN listening \subseteq PortNumbers

-----------------------------------------------------------------------------
(* What a text means, read off its brackets.                               *)

Opening(text, i) == text[i].end = "open"
Closing(text, i) == text[i].end = "close"

(* How many blocks are open after element i, from the block of i = 0.      *)
Level(text) ==
    LET level[i \in 0..Len(text)] ==
            IF i = 0 THEN 0
            ELSE level[i - 1] + (IF Opening(text, i) THEN 1
                                 ELSE IF Closing(text, i) THEN -1 ELSE 0)
    IN level

(* The opening of the block element i stands in, 0 outside all of them.    *)
Encloser(text, i) ==
    LET level == Level(text)
        opened == {j \in 1..(i - 1) : Opening(text, j) /\ level[j] = level[i - 1]}
    IN IF level[i - 1] <= 0 \/ opened = {} THEN 0 ELSE Max(opened)

Word(text, i) == text[i].words[1]
Plain(text, i) == text[i].flush /\ Word(text, i) \in {"http", "events"}
Blocks(text) == {i \in DOMAIN text : IsBlock(text[i])}
NodeBlocks(text) == {i \in Blocks(text) : Word(text, i) \in {"server", "location"}}
Bodies(text, word) == {i \in NodeBlocks(text) : Word(text, i) = word}

(* The node of the block opened at i.                                      *)
NodeOf(text, i) ==
    IF i \in NodeBlocks(text) THEN 1 + Cardinality({j \in NodeBlocks(text) : j <= i}) ELSE 1
TypeOf(text, i) == IF i \in NodeBlocks(text) THEN Word(text, i) ELSE "http"
ServerOf(text, i) == Max({j \in Bodies(text, "server") : j <= i})
DirectivesOf(text, n) ==
    {i \in DOMAIN text : IsDirective(text[i]) /\ NodeOf(text, Encloser(text, i)) = n}

(* http and events are written outermost, as in every sample file.         *)
Outermost(text) == \A i \in Blocks(text) : Plain(text, i) => Level(text)[i] = 1

Balanced(text) ==
    Level(text)[Len(text)] = 0 /\ \A i \in DOMAIN text : Level(text)[i] >= 0

WellPlaced(text, i) ==
    LET b == Encloser(text, i) IN
    \/ IsDirective(text[i]) /\ Accepts(TypeOf(text, b), text[i].words)
    \/ /\ IsBlock(text[i])
       /\ \E j \in DOMAIN text : IsDirective(text[j]) /\ Encloser(text, j) = i
       /\ CASE Word(text, i) = "server" -> b # 0 /\ TypeOf(text, b) = "http"
            [] Word(text, i) = "location" -> TypeOf(text, b) # "http"
            [] OTHER -> Plain(text, i)
    \/ IsBlockEnd(text[i])

(* Each location has a path of its own within its server.                  *)
PathsDiffer(text) ==
    \A i, j \in Bodies(text, "location") :
        i # j /\ ServerOf(text, i) = ServerOf(text, j) => text[i].words[2] # text[j].words[2]

ServersComplete(text) ==
    /\ Bodies(text, "server") # {}
    /\ \A s \in Bodies(text, "server") :
          /\ \E i \in NodeBlocks(text) : Encloser(text, i) = s
          /\ \/ Cardinality(Bodies(text, "server")) = 1
             \/ \E i \in DOMAIN text : /\ Encloser(text, i) = s
                                       /\ IsDirective(text[i]) /\ Word(text, i) = "listen"

WellFormed(text) ==
    /\ Balanced(text) /\ \A i \in DOMAIN text : WellPlaced(text, i)
    /\ PathsDiffer(text) /\ ServersComplete(text)

(* A file is accepted exactly if it is well formed, though it is judged in *)
(* two passes that share a static depth; the parser crashes on none of the *)
(* others either, as long as http and events stand outermost.              *)
VerdictFits ==
    Outermost(file) =>
      /\ stage = "parsed" => WellFormed(file)
      /\ stage \in {"refused", "crashed"} /\ last = NoAnswer =>
            stage = "refused" /\ ~WellFormed(file)

(* The node new with those of the first m directives that are in places.   *)
Filled(text, new, places, m) ==
    LET filled[i \in 0..m] ==
            CASE i = 0 -> new
              [] i \in places -> FillDirective(filled[i - 1], text[i].words)
              [] OTHER -> filled[i - 1]
    IN filled[m]

(* The tree is the text: one node per server and location, hanging from    *)
(* the block it is written in, with that block's own directives and no     *)
(* other's, though the parser goes up by one pointer it keeps itself and   *)
(* leaves a block by comparing depths with a bool.                         *)
TreeAsWritten ==
    stage = "parsed" /\ Outermost(file) =>
      /\ Len(tree) = 1 + Cardinality(NodeBlocks(file))
      /\ \A i \in NodeBlocks(file) \cup {0} :
           LET b == NodeOf(file, i)
               new == IF i = 0 THEN NewNode("http", 0, Empty)
                      ELSE NewNode(Word(file, i), NodeOf(file, Encloser(file, i)),
                                   IF Word(file, i) = "location" THEN file[i].words[2] ELSE Empty)
           IN tree[b] = DefaultPort(Filled(file, new, DirectivesOf(file, b), Len(file)))

-----------------------------------------------------------------------------
(* Serving.                                                                *)

(* Every server can be reached at its port: all of the ports of the file   *)
(* are open, each at the address of the first server that has it, and a    *)
(* failure leaves none open.                                               *)
ServesAllPorts ==
    /\ stage = "serving" =>
         /\ DOMAIN listening = {tree[s].port : s \in Servers}
         /\ \A s \in Servers :
               (\A t \in Servers : t < s => tree[t].port # tree[s].port)
                  => listening[tree[s].port] = tree[s].addr
    /\ stage = "unserved" => listening = <<>>

Bare(path) == IF Last(path) = "" THEN Front(path) ELSE path
Fitting(s, t) == {n \in LocationsOf(s) : IsPrefix(Bare(tree[n].path), t)}

(* buildDirPath, which climbs the target and searches copies of the nested *)
(* maps, finds the location with the longest path that is a prefix of the  *)
(* target, at whatever depth it is declared; of "/x" and "/x/" the first.  *)
LocationIsLongestPrefix ==
    stage = "serving" /\ last = NoAnswer => \A q \in Requests :
        LET s == MatchServer(q)
            fitting == Fitting(s, FilePath(q))
            n == MatchLocation(s, FilePath(q))
        IN IF fitting = {} THEN n = 0
           ELSE /\ n \in fitting
                /\ \A m \in fitting : Len(Bare(tree[m].path)) <= Len(Bare(tree[n].path))
                /\ \A m \in fitting \ {n} :
                      Bare(tree[m].path) = Bare(tree[n].path) => EndsInSlash(tree[m].path)

(* The index file is the first of those the request likes best, by its own *)
(* Accept line, of all that the location and the blocks around it name and *)
(* that are there; there is none only if it likes none of them.  This is   *)
(* said of the requests of a connection up to the first that has an Accept *)
(* line: those behind it are served by that line, whatever theirs say.     *)
IndexIsBest ==
    stage = "serving" /\ DOMAIN kept = {} => \A q \in Requests :
        LET r == Route(q)
            names == Indexes(r.location)
            there == {i \in DOMAIN names : checkFile(Inside(r.path, names[i])) = "NormalFile"}
            Like(i) == Max({Quality(q.accept, MimeOf[names[i]]),
                            Quality(q.accept, "*/*")})
            liked == {i \in there :
                         Like(i) > 0 /\ \A j \in there :
                            Like(j) < Like(i) \/ (Like(j) = Like(i) /\ i <= j)}
        IN r.location # 0 /\ checkFile(r.path) = "Directory" =>
              IndexPath(q, r.location, r.path) =
                 IF liked = {} THEN Empty
                 ELSE Inside(r.path, names[CHOOSE i \in liked : TRUE])

Above(n) == ToSet(Chain(n))
Content == {"file", "listing", "deleted", "uploaded", "script"}

(* Whatever getResponse's branch, content is only given, taken or removed  *)
(* within the nearest limit, where no block around the location redirects, *)
(* and, scripts and uploads apart, where one of the locations around the   *)
(* file names the method.                                                  *)
AnswersObeyConfig ==
    [][last' # last /\ last'.what \in Content =>
         LET q == last'.req
             n == MatchLocation(MatchServer(q), FilePath(q))
             limits == {k \in Above(n) : tree[k].limit > 0}
         IN /\ limits # {} => q.size <= tree[Max(limits)].limit
            /\ \A k \in Above(n) : tree[k].type # "http" => tree[k].url = Empty
            /\ last'.what \in {"file", "listing", "deleted"} =>
                 \E k \in Above(n) : tree[k].type = "location" /\ q.method \in tree[k].methods
      ]_vars

(* A request changes the disk only as its answer says: 200 or 201 to a POST*)
(* stores one file in a directory that was there (cut short if the disk is *)
(* full), 204 to a DELETE removes one file or empty directory, and any     *)
(* other answer leaves everything as it was.                               *)
ChangedAsTold ==
    fs' # fs =>
      LET p == Normal(last'.path) IN
      /\ \A x \in (DOMAIN fs \cup DOMAIN fs') \ {p} :
            x \in DOMAIN fs /\ x \in DOMAIN fs' /\ fs'[x] = fs[x]
      /\ \/ /\ last'.what = "uploaded" /\ last'.req.method = "POST"
            /\ last'.code = (IF p \in DOMAIN fs THEN 200 ELSE 201)
            /\ p \in DOMAIN fs' /\ fs'[p] \in {last'.req.body, "cut"}
         \/ /\ last'.what = "deleted" /\ last'.req.method = "DELETE"
            /\ p \in DOMAIN fs \ DOMAIN fs'
FilesChangeOnlyAsTold == [][ChangedAsTold]_vars

(* The server outlives every request whose target begins with "/" and for  *)
(* which the file has a location: only a target without a slash keeps      *)
(* buildDirPath's loop going, and only a POST that fits nowhere reads a    *)
(* location through NULL.                                                  *)
SurvivesWhenCovered ==
    /\ last.what = "hung" => last.req.target[1] # ""
    /\ last.what = "crashed" => Fitting(MatchServer(last.req), FilePath(last.req)) = {}

(* HttpConfig.hpp: "allow_method  Define a list of accepted HTTP methods   *)
(* for the route."  Whatever a route does, its method is on a list.        *)
OnlyAllowedMethods ==
    last.what \in Content =>
        check_method_allowed(last.req.method,
                             MatchLocation(MatchServer(last.req), FilePath(last.req)))
=============================================================================
