---------------------------- MODULE ConfigParser ----------------------------
(***************************************************************************)
(* Parser::Parse (srcs/Parser*.cpp): one pass that only validates, then    *)
(* one that builds the tree, both over the file's text without its line    *)
(* ends and both through DetectNextType, whose depth is a static variable: *)
(* nesting here, which the second pass inherits from the first.            *)
(*                                                                         *)
(* The text is a sequence of elements, each ending at the next ";", "{" or *)
(* "}", called semicolon, open and close (none follows the last of them):  *)
(* its words, and whether they follow the element before without a blank   *)
(* (flush).  Arguments have been read: a listen address is [addr, port], a *)
(* size [n, unit], with n = -1 for what is no number.  A proxy_pass, which *)
(* nothing reads, is well formed.                                          *)
(***************************************************************************)
EXTENDS Config

CONSTANT Files      \* the texts the parser may be given

ASSUME FilesAssumption == \A text \in Files : text \in Seq(ToSet(text))

VARIABLES
    file, pos,      \* the text and the element under the cursor
    nesting,        \* DetectNextType's static depth
    depth, counts,  \* Parse's depth, and the directives of the block at each
    current         \* the block directives go to, 0 for NULL
parserVars == <<file, pos, nesting, depth, counts, current>>

ParserInit ==
    /\ file \in Files /\ pos = 1 /\ nesting = 0 /\ depth = 0
    /\ counts = [d \in 0..Len(file) |-> 0] /\ current = 1
    /\ stage = "validate" /\ tree = <<NewNode("http", 0, Empty)>>

-----------------------------------------------------------------------------
(* DetectNextType.                                                         *)

isBlockOk(words) ==
    \/ Len(words) = 1 /\ words[1] \in {"events", "http", "server"}
    \/ Len(words) = 2 /\ words[1] = "location"

(* The rest of the text is one closing brace.                              *)
LonelyBrace(i) ==
    /\ file[i].end = "close" /\ file[i].words = <<>>
    /\ \A j \in (i + 1)..Len(file) : file[j].end = "none" /\ file[j].words = <<>>

IsDirective(e) == e.end = "semicolon" /\ Len(e.words) >= 2
IsBlock(e) == e.end = "open" /\ isBlockOk(e.words)
IsBlockEnd(e) == e.end = "close" /\ e.words = <<>>

(* What the texts write after location, and after a directive for a path.  *)
LocationPaths ==
    UNION {{e.words[2] : e \in {f \in ToSet(text) : IsBlock(f) /\ f.words[1] = "location"}}
              : text \in Files}
DirectivePaths ==
    UNION {{e.words[2] : e \in {f \in ToSet(text) :
                                  /\ IsDirective(f)
                                  /\ f.words[1] \in {"root", "upload_store", "alias"}}}
              : text \in Files}
(* What is written for a name is a word.                                   *)
ASSUME NameAssumption ==
    \A text \in Files : \A e \in ToSet(text) :
        IsDirective(e) /\ e.words[1] = "index" => Tail(e.words) \in Seq(STRING)
ASSUME PathAssumption == \A p \in LocationPaths \cup DirectivePaths : IsPath(p)

DetectNextType(i) ==
    IF LonelyBrace(i) /\ nesting # 1 THEN "BAD_TYPE"
    ELSE CASE IsDirective(file[i]) -> "DIRECTIVE"
           [] IsBlock(file[i]) /\ \E j \in i..Len(file) : file[j].end = "close" -> "BLOCK"
           [] IsBlockEnd(file[i]) /\ nesting > 0 -> "BLOCK_END"
           [] OTHER -> "BAD_TYPE"

(* The element under the cursor is of this type; the cursor goes past it.  *)
Advance(type) ==
    /\ pos <= Len(file) /\ DetectNextType(pos) = type
    /\ pos' = pos + 1
    /\ nesting' = CASE type = "BLOCK" -> nesting + 1
                    [] type = "BLOCK_END" -> nesting - 1
                    [] OTHER -> nesting
    /\ UNCHANGED file

-----------------------------------------------------------------------------
(* ParserFiller: what a block accepts, and the node with a directive in it. *)

(* verifyClientMaxBodySize: the test for overflow compares a long long     *)
(* with LLONG_MAX after the product has wrapped.                           *)
Wrapped(x) == ((x + LongMax + 1) % (2 * (LongMax + 1))) - (LongMax + 1)
Factor(unit) == CASE unit \in {"k", "K"} -> Kilo
                  [] unit \in {"m", "M"} -> Kilo * Kilo
                  [] unit \in {"g", "G"} -> Kilo * Kilo * Kilo
                  [] OTHER -> 1
Bytes(size) == IF size.n < 0 THEN Unset ELSE Wrapped(size.n * Factor(size.unit))

(* Seeded fault: there is no upper limit.                                  *)
verifyPort_NoTop(p) == IF p >= 0 THEN p ELSE Unset
verifyPort(p) == IF p \in PortNumbers THEN p ELSE Unset

Everywhere == {"add_header", "client_max_body_size", "root", "index", "error_page"}
Directives(type) ==
    Everywhere \cup
    CASE type = "http" ->
           {"user", "worker_process", "DEBUG_log", "pid", "keepalive_timeout"}
      [] type = "server" -> {"listen", "server_name", "return"}
      [] type = "location" ->
           {"proxy_pass", "path", "return", "autoindex", "allowed_methods",
            "upload_store", "alias"}

Accepts(type, w) ==
    /\ w[1] \in Directives(type)
    /\ w[1] = "client_max_body_size" => Bytes(w[2]) # Unset
    /\ w[1] = "listen" => w[2].addr # "" /\ verifyPort(w[2].port) # Unset
    /\ w[1] = "return" /\ Len(w) = 3 => w[2] \in 300..400
    /\ w[1] = "allowed_methods" => ToSet(Tail(w)) \subseteq {"GET", "POST", "DELETE"}

(* A listen without an address keeps the one there was, marked "same".     *)
Listen(n, l) ==
    [n EXCEPT !.port = verifyPort(l.port),
              !.addr = IF l.addr = "same" THEN @ ELSE l.addr]
Pages(n, w) ==
    LET codes == {w[i] : i \in {j \in 2..(Len(w) - 1) : w[j] > 0}} IN
    [n EXCEPT !.pages = [c \in codes \cup DOMAIN @ |->
                            IF c \in codes THEN Last(w) ELSE @[c]]]

FillDirective(n, w) ==
    CASE w[1] = "root" -> [n EXCEPT !.root = w[2]]
      [] w[1] = "client_max_body_size" -> [n EXCEPT !.limit = Bytes(w[2])]
      [] w[1] = "index" -> [n EXCEPT !.index = @ \o Tail(w)]
      [] w[1] = "error_page" -> Pages(n, w)
      [] w[1] = "listen" -> Listen(n, w[2])
      [] w[1] = "server_name" -> [n EXCEPT !.names = @ \o Tail(w)]
      [] w[1] = "return" /\ Len(w) = 3 -> [n EXCEPT !.code = w[2], !.url = w[3]]
      [] w[1] = "return" /\ Len(w) # 3 -> [n EXCEPT !.url = w[2]]
      [] w[1] = "autoindex" -> [n EXCEPT !.autoindex = (w[2] = "on")]
      [] w[1] = "allowed_methods" -> [n EXCEPT !.methods = @ \cup ToSet(Tail(w))]
      [] w[1] = "upload_store" -> [n EXCEPT !.store = w[2]]
      [] w[1] = "alias" -> [n EXCEPT !.alias = w[2]]
      [] OTHER -> n

-----------------------------------------------------------------------------
(* The two passes.                                                         *)

Validate ==
    /\ stage = "validate"
    /\ \E type \in {"DIRECTIVE", "BLOCK", "BLOCK_END", "BAD_TYPE"} :
          /\ Advance(type)
          /\ stage' = IF type = "BAD_TYPE" THEN "refused" ELSE stage
    /\ UNCHANGED <<depth, counts, current, tree>>

Validated ==
    /\ stage = "validate" /\ pos > Len(file)
    /\ stage' = "parse" /\ pos' = 1
    /\ UNCHANGED <<file, nesting, depth, counts, current, tree>>

(* Seeded fault: a directive goes to the block opened last.                *)
ParseDirective_Latest ==
    /\ stage = "parse" /\ Advance("DIRECTIVE")
    /\ LET w == file[pos].words IN
       IF current # 0 /\ Accepts(tree[current].type, w)
       THEN /\ tree' = [tree EXCEPT ![Len(tree)] = FillDirective(@, w)]
            /\ UNCHANGED stage
       ELSE stage' = "refused" /\ UNCHANGED tree
    /\ counts' = [counts EXCEPT ![depth] = @ + 1]
    /\ UNCHANGED <<depth, current>>
ParseDirective ==
    /\ stage = "parse" /\ Advance("DIRECTIVE")
    /\ LET w == file[pos].words IN
       IF current # 0 /\ Accepts(tree[current].type, w)
       THEN /\ tree' = [tree EXCEPT ![current] = FillDirective(@, w)]
            /\ UNCHANGED stage
       ELSE stage' = "refused" /\ UNCHANGED tree
    /\ counts' = [counts EXCEPT ![depth] = @ + 1]
    /\ UNCHANGED <<depth, current>>

(* check_location_path_duplicate, over all locations of the server.        *)
(* Seeded fault: only the server's own locations are searched.             *)
Duplicate_Shallow(path) ==
    LET s == Nearest(current, Servers) IN
    \E n \in LocationsOf(s) : tree[n].back_ref = s /\ tree[n].path = path
Duplicate(path) ==
    LET s == Nearest(current, Servers) IN
    \E n \in LocationsOf(s) : tree[n].path = path

(* AddBlock: a server in http, a location in a server or a location.       *)
MayAdd(words) ==
    /\ current # 0
    /\ IF tree[current].type = "http" THEN words[1] = "server"
       ELSE words[1] = "location" /\ ~Duplicate(words[2])

(* http and events, where they are not indented, open no block of their    *)
(* own: what they contain goes to the current one.                         *)
ParseBlock ==
    /\ stage = "parse" /\ Advance("BLOCK")
    /\ depth' = depth + 1 /\ counts' = [counts EXCEPT ![depth + 1] = 0]
    /\ LET e == file[pos] IN
       IF e.flush /\ e.words[1] \in {"http", "events"}
       THEN UNCHANGED <<stage, tree, current>>
       ELSE IF MayAdd(e.words)
       THEN /\ tree' = Append(tree, NewNode(e.words[1], current,
                                IF Len(e.words) = 2 THEN e.words[2] ELSE Empty))
            /\ current' = Len(tree) + 1 /\ UNCHANGED stage
       ELSE stage' = "refused" /\ UNCHANGED <<tree, current>>

(* skipped_block1 is a bool set from an int: it is always 1, so that the   *)
(* end of a block at depth 1 never goes up and any other always does.      *)
Upwards == IF depth = 1 THEN current ELSE tree[current].back_ref

ParseBlockEnd ==
    /\ stage = "parse" /\ Advance("BLOCK_END")
    /\ IF depth # 1 /\ current = 0
       THEN stage' = "crashed" /\ UNCHANGED <<current, depth>>
       ELSE /\ current' = Upwards /\ depth' = depth - 1
            /\ stage' = IF counts[depth] = 0 THEN "refused" ELSE stage
    /\ UNCHANGED <<counts, tree>>

(* minimum_value_check: port 80 for a server that is the only one.         *)
DefaultPort(n) ==
    IF n.type = "server" /\ n.port = Unset /\ Cardinality(Servers) = 1
    THEN [n EXCEPT !.port = 80] ELSE n
MinimumMet ==
    /\ Servers # {}
    /\ \A s \in Servers :
          /\ DefaultPort(tree[s]).port # Unset
          /\ \E n \in Nodes("location") : tree[n].back_ref = s

(* An element of no type only ends the loop: what came before it counts.   *)
ParseEnd ==
    /\ stage = "parse"
    /\ pos <= Len(file) => DetectNextType(pos) = "BAD_TYPE"
    /\ IF current = 1 /\ depth = 0 /\ MinimumMet
       THEN stage' = "parsed" /\ tree' = [n \in DOMAIN tree |-> DefaultPort(tree[n])]
       ELSE stage' = "refused" /\ UNCHANGED tree
    /\ UNCHANGED parserVars

ParserNext ==
    \/ Validate \/ Validated
    \/ ParseDirective \/ ParseBlock \/ ParseBlockEnd \/ ParseEnd
=============================================================================
