---------------------------- MODULE HttpService ----------------------------
(***************************************************************************)
(* What a client may expect of the server, whatever happens inside it:     *)
(* one reply per request, made of its own requests only and not begun      *)
(* before the request is whole, and a connection that, once it has brought *)
(* a reply, stays open until the client leaves or the service ends.  Until *)
(* then it may be turned away.  PollServer implements it for clients that  *)
(* wait for their replies (PollServer!HttpServed).                         *)
(***************************************************************************)
EXTENDS Naturals

CONSTANTS
    Conn,         \* connections, one per client
    MaxRequests   \* bound: requests one connection makes

VARIABLES
    exchange,     \* where each connection is in its exchange
    answers,      \* replies each client has had in full
    heard,        \* whose requests the bytes a client got derive from
    gone,         \* clients that left, or were left
    serving       \* whether the service goes on

vars == <<exchange, answers, heard, gone, serving>>

Init ==
    /\ exchange = [c \in Conn |-> "idle"] /\ answers = [c \in Conn |-> 0]
    /\ heard = [c \in Conn |-> {}] /\ gone = {} /\ serving = TRUE

Ask(c) ==
    /\ serving /\ exchange[c] = "idle" /\ answers[c] < MaxRequests
    /\ exchange' = [exchange EXCEPT ![c] = "asked"]
    /\ UNCHANGED <<answers, heard, gone, serving>>

(* Bytes of the reply, but not the last.                                   *)
Send(c) ==
    /\ serving /\ exchange[c] \in {"asked", "answering"}
    /\ exchange' = [exchange EXCEPT ![c] = "answering"]
    /\ heard' = [heard EXCEPT ![c] = @ \cup {c}]
    /\ UNCHANGED <<answers, gone, serving>>

Complete(c) ==
    /\ serving /\ exchange[c] \in {"asked", "answering"}
    /\ exchange' = [exchange EXCEPT ![c] = "idle"]
    /\ heard' = [heard EXCEPT ![c] = @ \cup {c}]
    /\ answers' = [answers EXCEPT ![c] = @ + 1]
    /\ UNCHANGED <<gone, serving>>

Leave(c) ==
    /\ serving /\ c \notin gone /\ gone' = gone \cup {c}
    /\ UNCHANGED <<exchange, answers, heard, serving>>

Closing(S) ==
    exchange' = [c \in Conn |-> IF c \in S THEN "closed" ELSE exchange[c]]

(* Clients that have had nothing of a reply yet.                           *)
Unserved == {c \in Conn : answers[c] = 0 /\ exchange[c] \in {"idle", "asked"}}

(* While the service goes on only those and clients that left are closed.  *)
Close(S) ==
    /\ serving /\ S \subseteq gone \cup Unserved /\ Closing(S)
    /\ gone' = gone \cup S
    /\ UNCHANGED <<answers, heard, serving>>

(* The service ends, with whatever connections it closes as it does.       *)
End(S) ==
    /\ serving /\ serving' = FALSE
    /\ Closing(S) /\ gone' = gone \cup S
    /\ UNCHANGED <<answers, heard>>

Next ==
    \/ \E c \in Conn : Ask(c) \/ Send(c) \/ Complete(c) \/ Leave(c)
    \/ \E S \in SUBSET Conn : Close(S) \/ End(S)

Spec == Init /\ [][Next]_vars
=============================================================================
