------------------------------- MODULE Routing -------------------------------
(***************************************************************************)
(* Response::getResponse (srcs/Response.cpp): from a whole request to an   *)
(* answer, by server, location and file; a request is one step, as the     *)
(* process has one thread.  A script is handed to CgiHandler and its       *)
(* answer is not seen here.                                                *)
(*                                                                         *)
(* A request says [method, target, host, port, accept, body, size]: host   *)
(* and port are what parseHeader made of the Host line, accept maps types  *)
(* to qualities in tenths, size is the length of the body.  Names are      *)
(* taken whole: none of the model's is a prefix of another, there are no   *)
(* "." or ".." in a target, and a location with an alias begins with "/".  *)
(***************************************************************************)
EXTENDS Config

CONSTANTS
    Requests,               \* what clients may ask
    Disk,                   \* the files at the start: normal path to content
    Unreadable, Unwritable, \* normal paths the process may not read, write
    Executable,             \* normal paths that may be executed
    ScriptNames,            \* file names that end in .py, .php, .pl or .sh
    MimeOf                  \* the type of each file name

ASSUME TargetAssumption == \A q \in Requests : IsPath(q.target)
ASSUME QualityAssumption ==
    \A q \in Requests : \A type \in DOMAIN q.accept : q.accept[type] \in 0..10

(* A disk is a tree: what is on it is in a directory.                      *)
ASSUME DiskAssumption ==
    \A x \in DOMAIN Disk :
        /\ IsPath(x)
        /\ Len(x) > 1 => Front(x) \in DOMAIN Disk /\ Disk[Front(x)] = "dir"

VARIABLES
    fs,     \* the file system: normal path to "dir" or the file's content
    kept,   \* _accepted_types of the connection's Request object
    last    \* the last request with its answer

routingVars == <<fs, kept, last>>
NoAnswer == [what |-> "none"]

RoutingInit == fs = Disk /\ kept = <<>> /\ last = NoAnswer

-----------------------------------------------------------------------------
(* Paths and files.                                                        *)

EndsInSlash(p) == Len(p) > 1 /\ Last(p) = ""

(* Concatenation of two strings: where the second one does not begin with  *)
(* "/", the names that meet become one.                                    *)
Concat(p, q) ==
    IF q[1] = "" THEN p \o Tail(q)
    ELSE Append(Front(p), Last(p) \o q[1]) \o Tail(q)

(* What the kernel makes of a path: "/" or "." first, then the names.      *)
Normal(p) ==
    LET names[k \in 0..Len(p)] ==
            IF k = 0 THEN <<IF p[1] = "" THEN "/" ELSE ".">>
            ELSE IF p[k] \in {"", "."} THEN names[k - 1]
            ELSE Append(names[k - 1], p[k])
    IN names[Len(p)]

checkFile(p) ==
    LET n == Normal(p) IN
    CASE p = Empty \/ n \notin DOMAIN fs -> "NotFound"
      [] p # Empty /\ n \in DOMAIN fs /\ fs[n] = "dir" -> "Directory"
      [] OTHER -> IF EndsInSlash(p) THEN "NotFound" ELSE "NormalFile"

Exists(p) == checkFile(p) # "NotFound"
MayRead(p) == Exists(p) /\ Normal(p) \notin Unreadable
MayWrite(p) == Exists(p) /\ Normal(p) \notin Unwritable

(* Seeded fault: the path of a name at the root regresses to nothing.      *)
regress_path_NoRoot(p) ==
    CASE Len(p) = 1 -> p
      [] Len(p) = 2 /\ p[1] = "" -> Empty
      [] OTHER -> Front(p)
regress_path(p) ==
    CASE Len(p) = 1 -> p
      [] p = <<"", "">> -> Empty
      [] Len(p) = 2 /\ p[1] = "" /\ p[2] # "" -> <<"", "">>
      [] OTHER -> Front(p)

-----------------------------------------------------------------------------
(* Which server, which location, which file.                               *)

(* The last server that has the port and the name, or the first one.       *)
MatchServer(q) ==
    LET fits == {s \in Servers : /\ tree[s].port = q.port
                                 /\ Contains(tree[s].names, q.host)}
    IN IF fits = {} THEN Min(Servers) ELSE Max(fits)

IsDir(q) == EndsInSlash(q.target) /\ q.target # <<"", "">>
FilePath(q) == IF IsDir(q) THEN Front(q.target) ELSE q.target

(* Those of the locations that are written p, or else p with a slash.      *)
(* Seeded fault: a slash at its end is not tried.                          *)
Matching_Exact(locations, p) == {n \in locations : tree[n].path = p}
Matching(locations, p) ==
    LET exact == {n \in locations : tree[n].path = p} IN
    IF exact # {} \/ EndsInSlash(p) THEN exact
    ELSE {n \in locations : tree[n].path = Append(p, "")}

(* buildDirPath's loop: path_to_match after as many turns as it can need,  *)
(* and the location it matched.                                            *)
Climb(s, t) ==
    LET locations == LocationsOf(s)
        after[k \in 0..Len(t)] ==
            IF k = 0 THEN t
            ELSE LET p == after[k - 1] IN
                 IF p = Empty \/ Matching(locations, p) # {} THEN p ELSE regress_path(p)
        matched == after[Len(t)]
        found == IF matched = Empty THEN {} ELSE Matching(locations, matched)
    IN [path |-> matched, location |-> IF found = {} THEN 0 ELSE CHOOSE n \in found : TRUE]

MatchLocation(s, t) == Climb(s, t).location

RootOf(n) == tree[Nearest(n, {k \in DOMAIN tree : tree[k].root # Empty})].root

(* The matched path, where it first occurs, gives way to the alias, and so *)
(* does everything behind it.                                              *)
Aliased(p, matched, n) ==
    LET alias == tree[n].alias
        before == IF matched = <<"", "">> THEN 1
                  ELSE IndexFirstSubSeq(Tail(matched), Tail(p))
    IN IF alias = Empty THEN p
       ELSE Concat(SubSeq(p, 1, before),
                   IF alias[1] = "" THEN alias ELSE <<"">> \o alias)

(* buildDirPath's choice: the path under the root, or as it stands, or one *)
(* that could be created.                                                  *)
DirPath(q, match) ==
    LET t == FilePath(q)
        n == match.location
        relative == Aliased(Concat(RootOf(n), t), match.path, n)
        absolute == Aliased(t, match.path, n)
    IN IF Exists(relative) THEN relative
       ELSE IF Exists(absolute) THEN absolute
       ELSE IF ~IsDir(q) /\ (Exists(regress_path(relative)) \/ Exists(regress_path(absolute)))
       THEN relative
       ELSE Empty

(* Where there is no slash to regress to, the loop goes on for ever.       *)
Route(q) ==
    LET s == MatchServer(q)
        match == Climb(s, FilePath(q))
    IN [server |-> s, location |-> match.location,
        loops |-> match.location = 0 /\ match.path # Empty,
        path |-> IF match.location = 0 THEN Empty ELSE DirPath(q, match)]

-----------------------------------------------------------------------------
(* What the configuration says on the way up from a location.              *)

(* createErrorResponse: the nearest page that can be read, else plain text *)
(* (Empty).                                                                *)
ErrorPage(code, base) ==
    LET n == Nearest(base, {k \in DOMAIN tree : /\ code \in DOMAIN tree[k].pages
                                                 /\ MayRead(tree[k].pages[code])})
    IN IF n = 0 THEN Empty ELSE tree[n].pages[code]

(* Seeded fault: the http block's limit holds everywhere.                  *)
checkBodySize_Global(n, q) == n # 0 => q.size <= tree[1].limit
checkBodySize(n, q) ==
    LET b == Nearest(n, {k \in DOMAIN tree : tree[k].limit > 0}) IN
    b # 0 => q.size <= tree[b].limit

Redirecting(n) ==
    Nearest(n, {k \in DOMAIN tree : tree[k].type # "http" /\ tree[k].url # Empty})

check_method_allowed(method, n) ==
    \E k \in ToSet(Chain(n)) :
        tree[k].type = "location" /\ method \in tree[k].methods

-----------------------------------------------------------------------------
(* The index file of a directory.                                          *)

(* parseHeader reads an Accept line only while it knows of no type, and    *)
(* clear() does not forget the types of the request before.                *)
Accepting(q) == IF DOMAIN kept = {} THEN q.accept ELSE kept

Quality(accepted, type) ==
    IF type \in DOMAIN accepted THEN accepted[type] ELSE 0

Inside(dir, name) == Append(IF EndsInSlash(dir) THEN Front(dir) ELSE dir, name)

(* selectIndexIndexes: a candidate replaces the best so far if its type or *)
(* "*/*" is liked better; at quality 1 the search is over.                 *)
(* Seeded fault: a candidate that is liked as much replaces it as well.    *)
Better_OrEqual(accepted, best, name) ==
    LET like == {Quality(accepted, MimeOf[name]), Quality(accepted, "*/*")} IN
    IF best.quality # 10 /\ \E x \in like : x >= best.quality /\ x > 0
    THEN [name |-> name, quality |-> CHOOSE x \in like : \A y \in like : y <= x]
    ELSE best
Better(accepted, best, name) ==
    LET like == {Quality(accepted, MimeOf[name]), Quality(accepted, "*/*")} IN
    IF best.quality # 10 /\ \E x \in like : x > best.quality
    THEN [name |-> name, quality |-> CHOOSE x \in like : \A y \in like : y <= x]
    ELSE best

(* The names of the location, then those of the blocks around it.         *)
Indexes(n) ==
    LET up[k \in 0..Len(tree)] ==
            IF k = 0 THEN <<>> ELSE tree[k].index \o up[tree[k].back_ref]
    IN up[n]

(* selectIndexAll: the best of those that are files in the directory.      *)
IndexPath(q, n, dir) ==
    LET names == Indexes(n)
        best[k \in 0..Len(names)] ==
            IF k = 0 THEN [name |-> "", quality |-> 0]
            ELSE IF checkFile(Inside(dir, names[k])) = "NormalFile"
            THEN Better(Accepting(q), best[k - 1], names[k])
            ELSE best[k - 1]
        index == best[Len(names)].name
    IN IF index = "" THEN Empty ELSE Inside(dir, index)

-----------------------------------------------------------------------------
(* The answers.  Each is one of getResponse's ways out, in its order.      *)

Answer(q, code, what, path) ==
    last' = [req |-> q, code |-> code, what |-> what, path |-> path]
Says(q, code, what, path) ==
    Answer(q, code, what, path) /\ UNCHANGED <<fs, stage>>
Fails(q, code, base) == Says(q, code, "error", ErrorPage(code, base))

Ends(q, how) == /\ stage' = how /\ last' = [what |-> how, req |-> q] /\ UNCHANGED fs

Hang(q, r) ==
    /\ r.loops
    /\ Ends(q, "hung")

TooLarge(q, r) ==
    /\ ~r.loops /\ ~checkBodySize(r.location, q)
    /\ Fails(q, 413, r.server)

Redirect(q, r) ==
    LET n == Redirecting(r.location) IN
    /\ ~r.loops /\ checkBodySize(r.location, q) /\ n # 0
    /\ Says(q, IF tree[n].code = Unset THEN 301 ELSE tree[n].code, "redirect", tree[n].url)

(* The request is neither too large nor sent elsewhere.                    *)
Stays(q, r) ==
    ~r.loops /\ checkBodySize(r.location, q) /\ Redirecting(r.location) = 0
IsScript(r) == Last(r.path) \in ScriptNames

(* The script runs, unless it may not or startCgi finds no descriptor or   *)
(* process.                                                                *)
RunScript(q, r) ==
    /\ Stays(q, r) /\ IsScript(r)
    /\ Exists(r.path) /\ Normal(r.path) \in Executable
    /\ Says(q, 0, "script", r.path)
ScriptFails(q, r) ==
    /\ Stays(q, r) /\ IsScript(r)
    /\ Fails(q, 500, r.server)

-----------------------------------------------------------------------------
(* POST: handlePOST.                                                       *)

UploadPath(r) ==
    LET store == tree[r.location].store IN
    IF store = Empty THEN r.path
    ELSE IF r.path = Empty THEN store
    ELSE Append(store, Last(r.path))

Directory(p) == IF Len(p) = 1 THEN p ELSE Front(p)
CanOpen(p) ==
    /\ checkFile(Directory(p)) = "Directory" /\ ~EndsInSlash(p)
    /\ checkFile(p) # "Directory" /\ (Exists(p) => MayWrite(p))

(* Without a location its upload_store is read through NULL.               *)
PostCrashes(q, r) ==
    /\ Stays(q, r) /\ ~IsScript(r) /\ q.method = "POST" /\ r.location = 0
    /\ Ends(q, "crashed")

Posts(q, r) ==
    Stays(q, r) /\ ~IsScript(r) /\ q.method = "POST" /\ r.location # 0

UploadRefused(q, r) ==
    /\ Posts(q, r)
    /\ \/ ~MayWrite(Directory(UploadPath(r))) /\ Fails(q, 403, 0)
       \/ /\ MayWrite(Directory(UploadPath(r))) /\ ~CanOpen(UploadPath(r))
          /\ Fails(q, 500, 0)

(* The result of the write is not looked at: on a full disk the file is    *)
(* cut.                                                                    *)
Upload(q, r) ==
    LET p == UploadPath(r) IN
       /\ Posts(q, r) /\ MayWrite(Directory(p)) /\ CanOpen(p)
       /\ \E content \in {q.body, "cut"} :
             fs' = [x \in DOMAIN fs \cup {Normal(p)} |->
                       IF x = Normal(p) THEN content ELSE fs[x]]
       /\ Answer(q, IF Exists(p) THEN 200 ELSE 201, "uploaded", p)
       /\ UNCHANGED stage

-----------------------------------------------------------------------------
(* GET and DELETE: matchMethod on a file or a directory.                   *)

MethodRefused(q, r) ==
    /\ ~(q.method \in {"GET", "DELETE"} /\ check_method_allowed(q.method, r.location))
    /\ Fails(q, 405, r.location)

(* handleGET, handleDIR.                                                   *)
Get(q, r, p) ==
    /\ q.method = "GET" /\ check_method_allowed("GET", r.location)
    /\ LET dir == checkFile(p) = "Directory" IN
       IF MayRead(p) THEN Says(q, 200, IF dir THEN "listing" ELSE "file", p)
       ELSE Fails(q, IF dir THEN 500 ELSE 403, 0)

(* remove() of the kernel takes a file or an empty directory out of one    *)
(* that may be written.                                                    *)
Removable(p) ==
    /\ Front(Normal(p)) \notin Unwritable
    /\ \A x \in DOMAIN fs : ~IsStrictPrefix(Normal(p), x)

(* handleDELETE.  Seeded fault: a directory goes with what is in it.       *)
Delete_Recursive(q, r, p) ==
    /\ q.method = "DELETE" /\ check_method_allowed("DELETE", r.location)
    /\ IF MayWrite(p)
       THEN /\ fs' = [x \in {y \in DOMAIN fs : ~IsPrefix(Normal(p), y)} |-> fs[x]]
            /\ Answer(q, 204, "deleted", p) /\ UNCHANGED stage
       ELSE Fails(q, 403, 0)
Delete(q, r, p) ==
    /\ q.method = "DELETE" /\ check_method_allowed("DELETE", r.location)
    /\ IF MayWrite(p) /\ Removable(p)
       THEN /\ fs' = [x \in DOMAIN fs \ {Normal(p)} |-> fs[x]]
            /\ Answer(q, 204, "deleted", p) /\ UNCHANGED stage
       ELSE Fails(q, IF MayWrite(p) THEN 500 ELSE 403, 0)

matchMethod(q, r, p) == MethodRefused(q, r) \/ Get(q, r, p) \/ Delete(q, r, p)

Serves(q, r) == Stays(q, r) /\ ~IsScript(r) /\ q.method # "POST"

ServeFile(q, r) ==
    /\ Serves(q, r) /\ checkFile(r.path) = "NormalFile"
    /\ matchMethod(q, r, r.path)

NotThere(q, r) ==
    /\ Serves(q, r) /\ checkFile(r.path) = "NotFound"
    /\ IF IsDir(q) THEN Fails(q, 403, r.location) ELSE Fails(q, 404, r.server)

ServeIndex(q, r) ==
    LET index == IndexPath(q, r.location, r.path) IN
    /\ Serves(q, r) /\ checkFile(r.path) = "Directory" /\ index # Empty
    /\ matchMethod(q, r, index)

ServeDirectory(q, r) ==
    /\ Serves(q, r) /\ checkFile(r.path) = "Directory"
    /\ IndexPath(q, r.location, r.path) = Empty
    /\ IF tree[r.location].autoindex \/ IsDir(q)
       THEN matchMethod(q, r, r.path) ELSE Fails(q, 403, r.location)

getResponse(q) ==
    /\ stage = "serving"
    /\ kept' = Accepting(q)
    /\ LET r == Route(q) IN
       \/ Hang(q, r) \/ TooLarge(q, r) \/ Redirect(q, r)
       \/ RunScript(q, r) \/ ScriptFails(q, r)
       \/ PostCrashes(q, r) \/ UploadRefused(q, r) \/ Upload(q, r)
       \/ ServeFile(q, r) \/ NotThere(q, r)
       \/ ServeIndex(q, r) \/ ServeDirectory(q, r)
    /\ UNCHANGED tree

(* The connection is closed and another one accepted.  Where PollServer    *)
(* alone closes it, the manager keeps its state under the number, and the  *)
(* next connection with that number goes on as if it were this one.        *)
NewConnection ==
    /\ stage = "serving" /\ DOMAIN kept # {}
    /\ kept' = <<>>
    /\ UNCHANGED <<fs, last, stage, tree>>
=============================================================================
