------------------------------- MODULE Config -------------------------------
(***************************************************************************)
(* The configuration in memory (srcs/AConfigBase.cpp, *Config.hpp): a tree *)
(* of one http block, its servers and their locations, each node knowing   *)
(* its parent (back_ref).  The parser builds it, the listening sockets and *)
(* the routing read it, and none of them changes it while the other two    *)
(* are at work; stage says which of them is.                               *)
(*                                                                         *)
(* A path is cut at its slashes: "./www/a" is <<".", "www", "a">>, "/" is  *)
(* <<"", "">> and the empty string <<"">>.  Node 1 is the http block and 0 *)
(* is NULL.  The 13 default error pages every node has count only at the   *)
(* http block (createErrorResponse skips them elsewhere).                  *)
(***************************************************************************)
EXTENDS Integers, Sequences, FiniteSets, SequencesExt

CONSTANTS
    Kilo,       \* what the unit "k" of a size stands for: 1000
    LongMax     \* LLONG_MAX

ASSUME SizeUnitAssumption == Kilo \in Nat \ {0} /\ LongMax \in Nat

VARIABLES
    stage,      \* what the process is doing
    tree        \* the configuration: a sequence of nodes

Stages == {"validate", "parse", "refused", "parsed", "serving", "unserved",
           "crashed", "hung"}

Empty == <<"">>
Unset == -1         \* what has no value: a port, a limit, a code
PortNumbers == 0..65335     \* as ParserUtils::verifyPort has it
DefaultCodes == 400..408 \cup {500, 502, 503, 504}
DefaultPage == <<"default_errors", "page">>

(* What is written for a path is not the empty string.                     *)
IsPath(p) == p \in Seq(ToSet(p)) /\ p # <<>> /\ p # Empty

(* The constructors of HttpConfig, ServerConfig and LocationConfig.        *)
NewNode(type, parent, path) ==
    [type |-> type, back_ref |-> parent, path |-> path,
     root |-> IF type = "http" THEN <<".", "www">> ELSE Empty,
     limit |-> IF type = "http" THEN Kilo * Kilo ELSE Unset,
     pages |-> IF type = "http" THEN [c \in DefaultCodes |-> DefaultPage] ELSE <<>>,
     index |-> <<>>, names |-> <<"localhost", "127.0.0.1">>,
     port |-> Unset, addr |-> "0.0.0.0", code |-> Unset, url |-> Empty,
     autoindex |-> FALSE, methods |-> {}, store |-> Empty, alias |-> Empty]

(* The nodes from n up to the http block, along back_ref.                  *)
Chain(n) ==
    LET up[k \in 0..Len(tree)] ==
            IF k = 0 THEN <<>> ELSE <<k>> \o up[tree[k].back_ref]
    IN up[n]

(* The first of the nodes N from n upwards, or NULL.                       *)
Nearest(n, N) ==
    LET up[k \in 0..Len(tree)] ==
            IF k = 0 \/ k \in N THEN k ELSE up[tree[k].back_ref]
    IN up[n]

Nodes(type) == {n \in DOMAIN tree : tree[n].type = type}

(* _servers, whose order is that of their numbers, and the locations of    *)
(* one, with those nested in them.                                         *)
Servers == Nodes("server")
LocationsOf(s) ==
    {n \in Nodes("location") : Nearest(n, Servers) = s}
=============================================================================
