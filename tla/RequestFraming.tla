--------------------------- MODULE RequestFraming ---------------------------
(***************************************************************************)
(* How the bytes of one connection become requests:                        *)
(* RequestsManager::PerformSocketRead and ProcessBufferedData              *)
(* (srcs/RequestsManager.cpp) over class Request (srcs/Request.cpp), whose *)
(* chunked decoder runs character by character.  TCP cuts a message where  *)
(* it likes, so a read returns any number of the units still on the way.   *)
(* PollServer takes a request for ReqLen units and the answer for granted; *)
(* here is what decides that a request is whole and what its body is.      *)
(*                                                                         *)
(* Abstractions.  Units are characters, except that "TE" is a whole line   *)
(* reading Transfer-Encoding: chunked, that "FIELD" is one of the names    *)
(* Cookie, Host and Content-Type, which no line before it gave, with its   *)
(* colon, and that the start line and the header are the two units Header  *)
(* gives them.  A client sends the next message after the answer to the    *)
(* last one; a connection that was answered before the message was over is *)
(* not followed further.  Chunk sizes do not reach the limits of strtol.   *)
(***************************************************************************)
EXTENDS Naturals, Sequences, SequencesExt

CONSTANTS
    Messages,     \* what clients send, see MessageAssumption
    MaxMessages   \* bound: messages on one connection

ASSUME MessageAssumption ==
    /\ Messages \subseteq
         [framing : {"none", "length", "chunked"},
          last : {"0", "x"},          \* last character of the last field
          multipart : BOOLEAN,        \* multipart/form-data
          pieces : Seq(Seq(STRING)),  \* the body; of a chunked one, chunks
          ext : BOOLEAN, trailer : BOOLEAN]
    /\ \A m \in Messages :
         /\ m.framing = "none" => m.pieces = <<>>
         /\ m.framing = "chunked" => \A i \in DOMAIN m.pieces : Len(m.pieces[i]) \in 1..5
ASSUME BoundAssumption == MaxMessages \in Nat

-----------------------------------------------------------------------------
(* What a client puts on the wire.                                         *)

CRLF == <<"CR", "LF">>
Header(m) == <<"x", m.last>> \o CRLF \o CRLF
Body(m) == FlattenSeq(m.pieces)
Chunk(m, p) ==
    <<(<<"1", "2", "3", "4", "5">>)[Len(p)]>>
      \o (IF m.ext THEN <<"SEMICOLON", "x">> ELSE <<>>) \o CRLF \o p \o CRLF
Coded(m) ==
    IF m.framing # "chunked" THEN Body(m)
    ELSE FlattenSeq([i \in DOMAIN m.pieces |-> Chunk(m, m.pieces[i])])
           \o <<"0">> \o CRLF
           \o (IF m.trailer THEN <<"x">> \o CRLF ELSE <<>>) \o CRLF
Stream(m) == Header(m) \o Coded(m)

-----------------------------------------------------------------------------
(* Request::processTransferEncoding: one step per character.  The C string *)
(* ends in "NUL"; a decoder still reading after it has left the string.    *)

Digits == [c \in {"0", "1", "2", "3", "4", "5", "a"} |->
             CASE c = "0" -> 0 [] c = "1" -> 1 [] c = "2" -> 2 [] c = "3" -> 3
               [] c = "4" -> 4 [] c = "5" -> 5 [] c = "a" -> 10]
Number(digits) ==
    LET n[i \in 0..Len(digits)] == IF i = 0 THEN 0 ELSE 16 * n[i - 1] + Digits[digits[i]]
    IN n[Len(digits)]

Decoding(digits) ==
    [state |-> "CHUNK_SIZE", digits |-> digits, size |-> 0, read |-> 0,
     body |-> <<>>, result |-> "reading"]
Fail(s) == [s EXCEPT !.result = "400"]

InSize(s, c) ==
    CASE c \in DOMAIN Digits -> [s EXCEPT !.digits = Append(@, c)]
      [] c \in {"SEMICOLON", "CR"} /\ s.digits # <<>> ->
           [s EXCEPT !.size = Number(s.digits), !.digits = <<>>,
                     !.state = IF c = "SEMICOLON" THEN "CHUNK_EXT" ELSE "CHUNK_LF"]
      [] OTHER -> Fail(s)

InExt(s, c) == IF c = "CR" THEN [s EXCEPT !.state = "CHUNK_LF"] ELSE s

(* Seeded fault: the count of the data read is not reset.                  *)
InLF_KeepsCount(s, c) ==
    CASE c # "LF" -> Fail(s)
      [] c = "LF" /\ s.read > 0 -> [s EXCEPT !.state = "CHUNK_SIZE"]
      [] c = "LF" /\ s.read = 0 ->
           [s EXCEPT !.state = IF s.size = 0 THEN "CHUNK_TRAILER" ELSE "CHUNK_DATA"]
InLF(s, c) ==
    CASE c # "LF" -> Fail(s)
      [] c = "LF" /\ s.read > 0 -> [s EXCEPT !.read = 0, !.state = "CHUNK_SIZE"]
      [] c = "LF" /\ s.read = 0 ->
           [s EXCEPT !.state = IF s.size = 0 THEN "CHUNK_TRAILER" ELSE "CHUNK_DATA"]

InData(s, c) ==
    [s EXCEPT !.body = Append(@, c), !.read = @ + 1,
              !.state = IF s.read + 1 = s.size THEN "CHUNK_CR" ELSE @]

InCR(s, c) == IF c = "CR" THEN [s EXCEPT !.state = "CHUNK_LF"] ELSE Fail(s)

InTrailer(s, c) ==
    IF c = "CR" THEN [s EXCEPT !.state = "TRAILER_FINAL_LF"] ELSE s

InFinalLF(s, c) ==
    CASE c = "LF" -> [s EXCEPT !.state = "CHUNK_COMPLETE", !.result = "served"]
      [] c = "CR" -> s
      [] OTHER -> [s EXCEPT !.state = "CHUNK_TRAILER"]

Step(s, c) ==
    CASE s.result # "reading" -> s
      [] s.result = "reading" /\ s.state = "CHUNK_SIZE" -> InSize(s, c)
      [] s.result = "reading" /\ s.state = "CHUNK_EXT" -> InExt(s, c)
      [] s.result = "reading" /\ s.state = "CHUNK_LF" -> InLF(s, c)
      [] s.result = "reading" /\ s.state = "CHUNK_DATA" -> InData(s, c)
      [] s.result = "reading" /\ s.state = "CHUNK_CR" -> InCR(s, c)
      [] s.result = "reading" /\ s.state = "CHUNK_TRAILER" -> InTrailer(s, c)
      [] s.result = "reading" /\ s.state = "TRAILER_FINAL_LF" -> InFinalLF(s, c)

(* The decoder on all the characters of text.                              *)
Run(s, text) ==
    LET after[i \in 0..Len(text)] == IF i = 0 THEN s ELSE Step(after[i - 1], text[i])
    IN after[Len(text)]

(* "undefined": what lies behind the string decides how this ends.         *)
Decode(digits, data) ==
    LET s == Run(Decoding(digits), data \o <<"NUL">>) IN
    [s EXCEPT !.result = IF @ = "reading" THEN "undefined" ELSE @]

-----------------------------------------------------------------------------
(* parseHeader and parseBody on the units b of message m.                  *)

HeaderIn(b, m) == Len(b) >= Len(Header(m))
Data(b, m) == SubSeq(b, Len(Header(m)) + 1, Len(b))

(* parseHeader does not stop at the empty line: it goes through the lines  *)
(* of the body as well, and a field found there counts.                    *)
LinesBegun(b, unit) == {i \in 2..Len(b) : b[i] = unit /\ b[i - 1] \in {"LF", "TE"}}
EncodingLine(b) == LinesBegun(b, "TE") # {}

(* A line that ends where the value of its field should begin makes        *)
(* substr() throw.  It may be whole, or all of it that was read so far.    *)
BareField(b) ==
    \E i \in LinesBegun(b, "FIELD") : i < Len(b) => b[i + 1] \in {"CR", "LF"}

ParseHeader(b, m) ==
    LET chunked == m.framing = "chunked" \/ EncodingLine(b) IN
    [chunked |-> chunked,
     size |-> IF m.framing = "length" /\ ~chunked THEN Len(Coded(m)) ELSE 0]

(* The decoder is not started at the first character of the body: parseBody*)
(* skips a line, the one with the first chunk's size.  Without a line end  *)
(* find() gives -1, and what is skipped is one character.                  *)
AfterFirstLine(data) ==
    LET ends == {i \in 1..(Len(data) - 1) : SubSeq(data, i, i + 1) = CRLF} IN
    IF ends = {} THEN SubSeq(data, 2, Len(data))
    ELSE SubSeq(data, Min(ends) + 2, Len(data))

(* Seeded fault: the body begins at the empty line, not after it.          *)
Raw_KeepsEmptyLine(b, m, digits) ==
    [result |-> "served", body |-> CRLF \o Data(b, m), digits |-> digits]
Raw(b, m, digits) ==
    [result |-> "served", body |-> Data(b, m), digits |-> digits]
NoBody(digits) == [result |-> "served", body |-> <<>>, digits |-> digits]
ParseChunks(b, m, digits) ==
    IF Data(b, m) = <<>>
    THEN [result |-> "undefined", body |-> <<>>, digits |-> digits]
    ELSE LET s == Decode(digits, AfterFirstLine(Data(b, m))) IN
         [result |-> s.result, body |-> s.body, digits |-> s.digits]

ParseBody(b, m, digits) ==
    LET p == ParseHeader(b, m) IN
    CASE p.size = 0 /\ ~p.chunked -> NoBody(digits)
      [] p.chunked /\ ~m.multipart -> ParseChunks(b, m, digits)
      [] OTHER -> Raw(b, m, digits)

-----------------------------------------------------------------------------
VARIABLES
    msg,         \* the message the client sends
    fed,         \* units of it that were read: _partial_requests
    headerSeen,  \* body_read # -1
    req,         \* _chunked_flag and _body_size of the first pass
    digits,      \* _chunk_buffer of the connection's Request
    outcome,     \* "none", "served", "400", "500", "undefined"
    body,        \* the body handed to Response
    count        \* messages begun on this connection

vars == <<msg, fed, headerSeen, req, digits, outcome, body, count>>

TypeOK ==
    /\ msg \in Messages /\ fed \in 0..Len(Stream(msg))
    /\ headerSeen \in BOOLEAN
    /\ req \in [chunked : BOOLEAN, size : Nat]
    /\ digits \in Seq(DOMAIN Digits)
    /\ outcome \in {"none", "served", "400", "500", "undefined"}
    /\ body \in Seq(STRING) /\ count \in 0..MaxMessages

NoRequest == [chunked |-> FALSE, size |-> 0]

Init ==
    /\ msg \in Messages /\ fed = 0 /\ headerSeen = FALSE /\ req = NoRequest
    /\ digits = <<>> /\ outcome = "none" /\ body = <<>> /\ count = 0

(* When ProcessBufferedData takes the request for whole.                   *)
(* Seeded fault: a body is over one character early.                       *)
Complete_Early(b, m, r) ==
    IF r.chunked THEN IsSuffix(<<"0">> \o CRLF \o CRLF, b)
    ELSE Len(Data(b, m)) + 1 >= r.size
(* Seeded fault: more than the announced length is waited for.             *)
Complete_Late(b, m, r) ==
    IF r.chunked THEN IsSuffix(<<"0">> \o CRLF \o CRLF, b)
    ELSE r.size = 0 \/ Len(Data(b, m)) > r.size
Complete(b, m, r) ==
    IF r.chunked THEN IsSuffix(<<"0">> \o CRLF \o CRLF, b)
    ELSE Len(Data(b, m)) >= r.size

NoHeader(b) ==
    /\ ~headerSeen /\ ~HeaderIn(b, msg)
    /\ UNCHANGED <<headerSeen, req, digits, outcome, body>>

(* The first pass over the header, when it is whole, is not repeated until *)
(* the request is.                                                         *)
FirstPass(b) == IF headerSeen THEN req ELSE ParseHeader(b, msg)

(* It throws, and ProcessBufferedData's handler answers 500.               *)
FirstPassThrows(b) ==
    /\ HeaderIn(b, msg) /\ ~headerSeen /\ BareField(b)
    /\ outcome' = "500"
    /\ UNCHANGED <<headerSeen, req, digits, body>>

NotWhole(b) ==
    /\ HeaderIn(b, msg) /\ (headerSeen \/ ~BareField(b))
    /\ ~Complete(b, msg, FirstPass(b))
    /\ headerSeen' = TRUE /\ req' = FirstPass(b)
    /\ UNCHANGED <<digits, outcome, body>>

Whole(b) ==
    /\ HeaderIn(b, msg) /\ ~BareField(b) /\ Complete(b, msg, FirstPass(b))
    /\ headerSeen' = TRUE /\ req' = ParseHeader(b, msg)
    /\ LET p == ParseBody(b, msg, digits) IN
       outcome' = p.result /\ body' = p.body /\ digits' = p.digits

(* The second pass goes over the whole request.                            *)
SecondPassThrows(b) ==
    /\ HeaderIn(b, msg) /\ headerSeen /\ BareField(b)
    /\ Complete(b, msg, req)
    /\ outcome' = "500" /\ headerSeen' = FALSE
    /\ UNCHANGED <<req, digits, body>>

(* PerformSocketRead, then ProcessBufferedData.                            *)
HandleRead ==
    /\ outcome = "none"
    /\ \E n \in 1..(Len(Stream(msg)) - fed) :
          LET b == SubSeq(Stream(msg), 1, fed + n) IN
          /\ fed' = fed + n
          /\ \/ NoHeader(b) \/ NotWhole(b) \/ Whole(b)
             \/ FirstPassThrows(b) \/ SecondPassThrows(b)
    /\ UNCHANGED <<msg, count>>

(* Seeded fault: _partial_requests is not emptied.                         *)
HandleWrite_KeepsBuffer ==
    /\ outcome \in {"served", "400", "500"} /\ fed = Len(Stream(msg))
    /\ count < MaxMessages /\ count' = count + 1
    /\ msg' \in Messages /\ headerSeen' = FALSE
    /\ req' = NoRequest /\ outcome' = "none" /\ body' = <<>>
    /\ UNCHANGED <<fed, digits>>

(* HandleWrite has sent the answer: the state is reset, Request::clear     *)
(* empties the request but for _chunk_buffer, and the client goes on.      *)
HandleWrite ==
    /\ outcome \in {"served", "400", "500"} /\ fed = Len(Stream(msg))
    /\ count < MaxMessages /\ count' = count + 1
    /\ msg' \in Messages /\ fed' = 0 /\ headerSeen' = FALSE
    /\ req' = NoRequest /\ outcome' = "none" /\ body' = <<>>
    /\ UNCHANGED digits

Next == HandleRead \/ HandleWrite

Spec == Init /\ [][Next]_vars

-----------------------------------------------------------------------------
(* A message whose body has no line that parseHeader takes for a field.    *)
FieldsInHeader(m) ==
    LinesBegun(Stream(m), "TE") = {} /\ LinesBegun(Stream(m), "FIELD") = {}

(* However TCP cut the message, a request that is answered was read to its *)
(* end (ProcessBufferedData): no answer is given to half a message.        *)
NeverBeforeTheEnd ==
    FieldsInHeader(msg) /\ outcome # "none" => fed = Len(Stream(msg))

(* A message that was read to its end is answered (ProcessBufferedData):   *)
(* the server does not wait for more of it.                                *)
AnsweredAtTheEnd ==
    FieldsInHeader(msg) /\ fed = Len(Stream(msg)) => outcome # "none"

(* A well-formed message is served, with its body as the client meant it,  *)
(* whatever came before it on the connection (parseBody).                  *)
BodyAsSent ==
    FieldsInHeader(msg) /\ outcome # "none" =>
        outcome = "served" /\ body = Body(msg)

(* processTransferEncoding, run on the message's body sent in chunks, from *)
(* its first character and with an empty _chunk_buffer, gives back that    *)
(* body, with or without extensions and a trailer.                         *)
DecoderInverts ==
    (\A i \in DOMAIN msg.pieces : Len(msg.pieces[i]) \in 1..5) =>
    \A ext, trailer \in BOOLEAN :
        LET m == [msg EXCEPT !.framing = "chunked", !.ext = ext, !.trailer = trailer]
            s == Decode(<<>>, Coded(m)) IN
        s.result = "served" /\ s.body = Body(msg)
=============================================================================
