----------------------------- MODULE CgiContract -----------------------------
(***************************************************************************)
(* What one CGI run promises the Response that owns it                     *)
(* (srcs/Response.cpp), told in terms of what really became of the child   *)
(* and of the clock: a run is started or refused, one answer at most is    *)
(* given and it fits the child's end, and then the run is released.        *)
(* CgiHandler implements it.                                               *)
(***************************************************************************)

VARIABLES
    stage,   \* "idle", "running", "answered", "released", "lost"
    end,     \* how the child really ended: "none", "zero", "nonzero", "signal"
    late,    \* the 30 seconds of the run are over
    answer   \* "none", "output" (what the child wrote), "500", "502", "504"

cvars == <<stage, end, late, answer>>

ContractInit ==
    stage = "idle" /\ end = "none" /\ late = FALSE /\ answer = "none"

Begin == /\ stage = "idle" /\ stage' = "running"
         /\ UNCHANGED <<end, late, answer>>

Refuse == /\ stage = "idle" /\ stage' = "released" /\ answer' = "500"
          /\ UNCHANGED <<end, late>>

(* The child's end and the clock are the environment's.                    *)
ChildEnds == /\ stage # "idle" /\ end = "none"
             /\ end' \in {"zero", "nonzero", "signal"}
             /\ UNCHANGED <<stage, late, answer>>

TimeUp == /\ stage # "idle" /\ late' = TRUE
          /\ UNCHANGED <<stage, end, answer>>

(* The child's output is the answer only if it exited with 0; 502 says it  *)
(* has ended (badly, or without a header); 504 says it ran out of time.    *)
Answer == /\ stage = "running" /\ stage' = "answered"
          /\ \/ answer' = "output" /\ end = "zero"
             \/ answer' = "502" /\ end # "none"
             \/ answer' = "504" /\ late
          /\ UNCHANGED <<end, late>>

Release == /\ stage = "answered" /\ stage' = "released"
           /\ UNCHANGED <<end, late, answer>>

(* The client is gone before the answer: the run is released without one.  *)
Abandon == /\ stage = "running" /\ stage' = "released"
           /\ UNCHANGED <<end, late, answer>>

(* The whole server dies of SIGPIPE while it writes the request body.      *)
Lose == /\ stage = "running" /\ stage' = "lost"
        /\ UNCHANGED <<end, late, answer>>

ContractNext == \/ Begin \/ Refuse \/ ChildEnds \/ TimeUp
                \/ Answer \/ Release \/ Abandon \/ Lose

Contract == ContractInit /\ [][ContractNext]_cvars
=============================================================================
