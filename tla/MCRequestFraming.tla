-------------------------- MODULE MCRequestFraming --------------------------
(* RequestFraming on small sets of messages.                               *)
EXTENDS RequestFraming

Message(framing, last, multipart, pieces, ext, trailer) ==
    [framing |-> framing, last |-> last, multipart |-> multipart,
     pieces |-> pieces, ext |-> ext, trailer |-> trailer]

Texts(S, n) == UNION {[1..k -> S] : k \in 0..n}

(* Bodies of up to three characters in one piece, and in two; and none.    *)
Pieces ==
    {<<t>> : t \in Texts({"0", "x", "CR", "LF"}, 3)} \cup
    {<<s, t>> : s, t \in {<<"x">>, <<"2", "0">>, <<"CR">>, <<"CR", "LF", "x">>}}
(* Bodies with lines that parseHeader takes for fields.                    *)
FieldBodies ==
    {<<"FIELD">>, <<"FIELD", "x">>, <<"x", "CR", "LF", "FIELD", "CR", "LF">>,
     <<"TE">>, <<"TE", "0", "CR", "LF", "CR", "LF">>,
     <<"TE", "1", "CR", "LF", "x", "CR", "LF", "0", "CR", "LF", "CR", "LF">>}
LengthMessages ==
    {Message("none", l, FALSE, <<>>, FALSE, FALSE) : l \in {"0", "x"}} \cup
    {Message("length", l, p, b, FALSE, FALSE) :
        l \in {"0", "x"}, p \in BOOLEAN, b \in Pieces} \cup
    {Message("length", "x", p, <<b>>, FALSE, FALSE) :
        p \in BOOLEAN, b \in FieldBodies}

(* Chunked bodies of no, one and two chunks.                               *)
PlainChunked ==
    {Message("chunked", "x", FALSE, p, FALSE, FALSE) :
        p \in {<<>>, <<<<"x">>, <<"2", "0">>>>} \cup
              {<<t>> : t \in Texts({"2", "x", "CR"}, 2) \ {<<>>}}}
=============================================================================
