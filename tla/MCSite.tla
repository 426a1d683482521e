------------------------------- MODULE MCSite -------------------------------
(* Site on small files: every single edit of a well-formed one, some that  *)
(* are special, and one whose servers are sent requests.                   *)
EXTENDS Site

D(words) == [end |-> "semicolon", words |-> words, flush |-> FALSE]
O(words) == [end |-> "open", words |-> words, flush |-> FALSE]
Flush(name) == [end |-> "open", words |-> <<name>>, flush |-> TRUE]
C == [end |-> "close", words |-> <<>>, flush |-> FALSE]
Blank == [end |-> "none", words |-> <<>>, flush |-> FALSE]

Http == Flush("http")
Server == O(<<"server">>)
Location(path) == O(<<"location", path>>)
Port(n) == D(<<"listen", [addr |-> "same", port |-> n]>>)
Size(n, unit) == D(<<"client_max_body_size", [n |-> n, unit |-> unit]>>)
Allow(methods) == D(<<"allowed_methods">> \o methods)
Root == D(<<"root", <<".", "other">>>>)

A == <<"", "a">>
AB == <<"", "a", "b">>
Base == <<Http, D(<<"user", "u">>), Server, Port(81), Location(A), Root,
          Location(AB), D(<<"autoindex", "on">>), C, C, C, C>>

Alphabet ==
    {Http, Flush("events"), O(<<"events">>), Server, Location(A), Location(<<"", "c">>),
     C, Root, Port(65336), Allow(<<"GET">>), Allow(<<"PUT">>),
     Size(8, "k"), Size(3, "m"), Size(-1, ""), D(<<"lonely">>),
     D(<<"return", 500, A>>), D(<<"return", A>>)}

Edits ==
    {RemoveAt(Base, i) : i \in DOMAIN Base}
    \cup {[Base EXCEPT ![i] = Base[i + 1], ![i + 1] = Base[i]] : i \in 1..(Len(Base) - 1)}
    \cup {InsertAt(Base, i, e) : i \in 1..(Len(Base) + 1), e \in Alphabet}

ServerOn(n) == <<Server, Port(n), Location(A), Root, C, C>>
Special ==
    {Base, Append(Base, Blank),
     \* the same path at two levels, and in two servers
     <<Http, D(<<"user", "u">>), Server, Port(81), Location(A), Root, Location(AB), Root,
       C, C, Location(AB), Root, C, C, C>>,
     <<Http, D(<<"user", "u">>)>> \o ServerOn(81) \o ServerOn(80) \o <<C>>,
     \* two servers, one without a port
     <<Http, D(<<"user", "u">>)>> \o ServerOn(81) \o
        <<Server, D(<<"server_name", "x">>), Location(A), Root, C, C, C>>,
     \* blocks opened by no node
     <<Http, Http, Http, D(<<"user", "u">>), C, C, C>>,
     <<[Server EXCEPT !.flush = TRUE], Port(81), Location(A), Root, C, Http, Root, C, C>>}

-----------------------------------------------------------------------------
(* The file whose servers are sent requests.                               *)

Two == <<"", "r", "two">>
Rich ==
    <<Http, D(<<"index", "i.txt">>), D(<<"error_page", 404, 405, <<".", "www", "err">>>>),
      Server, Port(80), D(<<"server_name", "one">>),
        Location(<<"", "">>), Allow(<<"GET">>), D(<<"index", "i.html">>), C,
        Location(A), Size(2, ""), Allow(<<"GET", "DELETE">>),
          Location(<<"", "a", "up", "">>), D(<<"upload_store", <<".", "www", "a", "d">>>>), C,
          Location(<<"", "a", "d", "">>), D(<<"autoindex", "on">>), C,
        C,
        Location(<<"", "a", "d">>), Allow(<<"POST", "DELETE">>), D(<<"index", "f.txt">>),
          D(<<"autoindex", "on">>), C,
        Location(<<"", "r">>), D(<<"return", 302, A>>),
          Location(Two), Root, C,
        C,
        Location(<<"", "al">>), D(<<"alias", <<"", "data">>>>), Allow(<<"GET">>), C,
        Location(<<"b">>), Allow(<<"GET">>), C,
      C,
      Server, D(<<"listen", [addr |-> "127.0.0.1", port |-> 80]>>), D(<<"server_name", "two">>),
        D(<<"return", Two>>), Location(<<"", "x">>), Root, C,
      C,
      Server, Port(81), D(<<"error_page", 500, <<"nowhere">>>>),
        Location(<<"", "s">>), D(<<"root", <<".", "www">>>>), C,
      C,
    C>>

MCFiles == Edits \cup Special \cup {Rich}
MCServed == {Rich}

W == <<".", "www">>
MCDisk ==
    [x \in {<<".">>, <<"/">>, W, W \o <<"a">>, W \o <<"a", "d">>, <<".", "www", "s">>,
            <<"/", "data">>} |-> "dir"]
    @@ [x \in {W \o <<"i.html">>, W \o <<"i.txt">>, W \o <<"a", "d", "f.txt">>, W \o <<"err">>,
               W \o <<"s", "run.py">>, W \o <<"s", "no.py">>, W \o <<"a", "own">>} |-> "old"]
MCUnreadable == {W \o <<"i.txt">>, <<"/", "data">>}
MCUnwritable == {W, W \o <<"a", "own">>, <<".", "www", "s">>, <<"/", "data">>, <<"/">>}
MCExecutable == {W \o <<"s", "run.py">>}
MCScriptNames == {"run.py", "no.py"}
MCMimeOf == [n \in {"i.html", "i.txt", "f.txt"} |-> IF n = "i.html" THEN "text/html" ELSE "text/plain"]

None == [t \in {} |-> 0]
Q(method, target, port, accept, size) ==
    [method |-> method, target |-> <<"">> \o target, host |-> IF port = 80 THEN "one" ELSE "localhost", port |-> port,
     accept |-> accept, body |-> "new", size |-> size]
Ask(method, target) == Q(method, target, 80, None, 1)

MCRequests ==
    {Q("GET", <<"">>, 80, accept, 1) : accept \in
        {None, [t \in {"text/html"} |-> 5], [t \in {"text/plain", "*/*"} |-> 5],
         [t \in {"text/plain"} |-> 10]}}
    \cup {Ask(m, t) : m \in {"GET", "POST", "DELETE"}, t \in {<<"a", "d">>, <<"a", "d", "f.txt">>}}
    \cup {Ask("GET", t) : t \in {<<"a">>, <<"a", "">>, <<"i.txt">>, <<"no", "x">>, <<"no", "">>,
                                 <<"r", "two", "x">>, <<"al", "z">>, <<"al", "">>}}
    \cup {Ask("POST", t) : t \in {<<"a", "up">>, <<"a">>, <<"y">>, <<"al", "z">>}}
    \cup {Ask("DELETE", <<"a", "own">>), Ask("PUT", <<"i.html">>),
          Q("POST", <<"a", "up">>, 80, None, 3),
          Q("DELETE", <<"a", "d">>, 80, [t \in {"*/*"} |-> 5], 1),
          [Ask("GET", <<"x">>) EXCEPT !.host = "two"],
          [Ask("GET", <<"a">>) EXCEPT !.target = <<"a">>],
          [Ask("GET", <<"b">>) EXCEPT !.target = <<"b">>]}
    \cup {Q("GET", t, 81, None, 1) : t \in {<<"s", "run.py">>, <<"s", "no.py">>}}
    \cup {Q("POST", t, 81, None, 1) : t \in {<<"y">>, <<"s", "g">>}}
=============================================================================
