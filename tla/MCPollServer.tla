---------------------------- MODULE MCPollServer ----------------------------
(* PollServer on small sets of connections, CGI children and descriptors.  *)
EXTENDS PollServer, TLC

Symmetry == Permutations(Conn) \cup Permutations(Cgi)

(* The state up to how a script came to be over and how it was released:   *)
(* every step treats both ways alike but for the way itself, and the       *)
(* properties of the run "crowd" do not ask for it.                        *)
Ending(r) == IF child[r] \in Over THEN "over"
             ELSE IF child[r] \in Released THEN "released" ELSE child[r]
UpToEnding == <<kernelVars, serverVars, managerVars, [r \in Cgi |-> Ending(r)],
                outFd, runTag, peerVars, loopVars>>
=============================================================================
