----------------------------- MODULE CgiHandler -----------------------------
(***************************************************************************)
(* One CGI run: class CgiHandler (srcs/CgiHandler.cpp) driven by           *)
(* Response::processCgiOutput and getFinalResponse (srcs/Response.cpp),    *)
(* beside the child process it forks and the two pipes between them.       *)
(* PollServer sees a run as running, over and reaped; here every system    *)
(* call of the server is a step, so the child runs between any two.        *)
(*                                                                         *)
(* Abstractions.  A unit stands for a stretch of bytes; the child's first  *)
(* unit holds the whole of its header.  The child is any program: it       *)
(* reads, writes, closes its input, exits or hangs as it pleases.  A       *)
(* failing close() and an error of waitpid are left out.                   *)
(***************************************************************************)
EXTENDS Naturals, Sequences

CONSTANTS
    Body,      \* units of the request body written to the child
    PipeCap,   \* units a pipe holds
    ReadSize,  \* units one read() of readFromCgi takes (8192 bytes)
    MaxOut     \* bound: units a child writes

ASSUME SizeAssumption ==
    /\ Body \in Nat /\ MaxOut \in Nat
    /\ PipeCap \in Nat \ {0} /\ ReadSize \in Nat \ {0}

VARIABLES
    pc,        \* where the server is in this run
    toWrite,   \* body units not written yet
    inPipe,    \* units in the child's standard input
    outPipe,   \* units in the child's standard output, in order
    open,      \* pipe ends open: the server's inW, outR, the child's inR, outW
    child,     \* "none", "running", "zombie", "reaped"
    code,      \* how the child ended: "none", "zero", "nonzero", "signal"
    wrote,     \* units the child wrote so far
    signals,   \* signals sent to the child
    late,      \* isTimedOut: more than 30 seconds since the start
    running,   \* _process_running
    pid,       \* whether _cgi_pid is set
    status,    \* _status
    buffer,    \* _response_buffer, in units
    reply,     \* what getFinalResponse makes of it
    stray      \* a signal was sent to a pid already reaped

serverSide == <<pc, toWrite, running, pid, status, buffer, reply, stray>>
childSide == <<child, code, wrote>>
vars == <<serverSide, childSide, inPipe, outPipe, open, signals, late>>

(* Type invariant: what every variable ranges over.                        *)
ServerType ==
    /\ pc \in {"start", "write", "read", "forgotten", "check", "finish",
               "destroy", "wait", "wait again", "last wait", "done", "killed"}
    /\ running \in BOOLEAN /\ pid \in BOOLEAN
    /\ stray \in BOOLEAN /\ late \in BOOLEAN
    /\ status \in {"RUNNING", "FINISHED_OK", "FINISHED_ERROR", "TIMEDOUT"}
    /\ reply \in {"none", "output", "500", "502", "504"}
ChildType ==
    /\ child \in {"none", "running", "zombie", "reaped"}
    /\ code \in {"none", "zero", "nonzero", "signal"}
    /\ open \in SUBSET {"inR", "inW", "outR", "outW"}
    /\ signals \in SUBSET {"TERM", "KILL"}
InputType == toWrite \in 0..Body /\ inPipe \in 0..PipeCap
OutputType ==
    /\ outPipe \in Seq(1..MaxOut) /\ Len(outPipe) <= PipeCap
    /\ buffer \in Seq(1..MaxOut) /\ wrote \in 0..MaxOut
TypeOK == ServerType /\ ChildType /\ InputType /\ OutputType

Init ==
    /\ pc = "start" /\ toWrite = Body /\ inPipe = 0 /\ outPipe = <<>>
    /\ open = {} /\ child = "none" /\ code = "none" /\ wrote = 0
    /\ signals = {} /\ late = FALSE /\ running = FALSE /\ pid = FALSE
    /\ status = "RUNNING" /\ buffer = <<>> /\ reply = "none" /\ stray = FALSE

-----------------------------------------------------------------------------
(* The server: startCgi, a turn of processCgiOutput per call, closeCgi.    *)

(* pipe(), access() or fork() fails: the pipes are closed again and        *)
(* Response answers 500.                                                   *)
StartFails ==
    /\ pc = "start" /\ pc' = "done" /\ reply' = "500"
    /\ UNCHANGED <<toWrite, running, pid, status, buffer, stray, childSide,
                   inPipe, outPipe, open, signals, late>>

(* fork(): both sides close the ends they do not use.  A run without a     *)
(* body closes the child's input at once.                                  *)
Start ==
    /\ pc = "start" /\ pc' = (IF Body > 0 THEN "write" ELSE "read")
    /\ open' = {"inR", "outR", "outW"} \cup (IF Body > 0 THEN {"inW"} ELSE {})
    /\ child' = "running" /\ running' = TRUE /\ pid' = TRUE
    /\ UNCHANGED <<toWrite, status, buffer, reply, stray, code, wrote,
                   inPipe, outPipe, signals, late>>

(* Seeded fault: the write runs past the end of the body.                  *)
WriteBody_PastEnd ==
    /\ pc = "write" /\ "inR" \in open /\ inPipe < PipeCap
    /\ toWrite' = toWrite - 1 /\ inPipe' = inPipe + 1
    /\ UNCHANGED <<pc, running, pid, status, buffer, reply, stray, childSide,
                   outPipe, open, signals, late>>

(* The one write() of the body.  The pipe to the child is not              *)
(* non-blocking, so the server sleeps in it while the pipe is full.        *)
WriteBody ==
    /\ pc = "write" /\ toWrite > 0 /\ "inR" \in open /\ inPipe < PipeCap
    /\ toWrite' = toWrite - 1 /\ inPipe' = inPipe + 1
    /\ UNCHANGED <<pc, running, pid, status, buffer, reply, stray, childSide,
                   outPipe, open, signals, late>>

BodyWritten ==
    /\ pc = "write" /\ toWrite = 0
    /\ pc' = "read" /\ open' = open \ {"inW"}
    /\ UNCHANGED <<toWrite, running, pid, status, buffer, reply, stray,
                   childSide, inPipe, outPipe, signals, late>>

(* Nobody is left to read the body: SIGPIPE, which main.cpp leaves at its  *)
(* default, terminates the server.                                         *)
BodySigpipe ==
    /\ pc = "write" /\ toWrite > 0 /\ "inR" \notin open
    /\ pc' = "killed" /\ open' = open \ {"inW", "outR"}
    /\ UNCHANGED <<toWrite, running, pid, status, buffer, reply, stray,
                   childSide, inPipe, outPipe, signals, late>>

(* One non-blocking read(): what the pipe holds, up to the size of the     *)
(* caller's array.                                                         *)
Taken == IF Len(outPipe) < ReadSize THEN Len(outPipe) ELSE ReadSize

(* Seeded fault: what was read goes before what was there.               *)
ReadFromCgi_Prepends ==
    /\ pc = "read" /\ pc' = "check"
    /\ buffer' = SubSeq(outPipe, 1, Taken) \o buffer
    /\ outPipe' = SubSeq(outPipe, Taken + 1, Len(outPipe))
    /\ UNCHANGED <<toWrite, running, pid, status, reply, stray, childSide,
                   inPipe, open, signals, late>>

ReadFromCgi ==
    /\ pc = "read" /\ pc' = "check"
    /\ buffer' = buffer \o SubSeq(outPipe, 1, Taken)
    /\ outPipe' = SubSeq(outPipe, Taken + 1, Len(outPipe))
    /\ UNCHANGED <<toWrite, running, pid, status, reply, stray, childSide,
                   inPipe, open, signals, late>>

(* Seeded fault: _cgi_pid is not set to -1.                                *)
CloseCgi_KeepsPid ==
    /\ running' = FALSE /\ UNCHANGED pid
    /\ open' = open \ {"inW", "outR"}
    /\ IF pid /\ child \in {"running", "zombie"}
       THEN /\ signals' = signals \cup {"TERM"}
            /\ pc' = "wait" /\ UNCHANGED stray
       ELSE /\ stray' = (stray \/ pid)
            /\ pc' = (IF pc = "check" THEN "finish" ELSE "done")
            /\ UNCHANGED signals

(* closeCgi up to its first waitpid: the pipes are closed, and SIGTERM     *)
(* goes to _cgi_pid, which a waitpid of checkCgiStatus did not clear.      *)
CloseCgi ==
    /\ running' = FALSE /\ pid' = FALSE
    /\ open' = open \ {"inW", "outR"}
    /\ IF pid /\ child \in {"running", "zombie"}
       THEN /\ signals' = signals \cup {"TERM"}
            /\ pc' = "wait" /\ UNCHANGED stray
       ELSE /\ stray' = (stray \/ pid)
            /\ pc' = (IF pc = "check" THEN "finish" ELSE "done")
            /\ UNCHANGED signals

(* Seeded fault: the timeout does not count once the child wrote.        *)
IsTimedOut_QuietOnly == late /\ buffer = <<>>
IsTimedOut == late

(* checkCgiStatus asks for the time before it asks for the child.          *)
TimedOut ==
    /\ pc = "check" /\ IsTimedOut
    /\ status' = "TIMEDOUT" /\ CloseCgi
    /\ UNCHANGED <<toWrite, buffer, reply, childSide, inPipe, outPipe, late>>

(* waitpid(WNOHANG) = 0: the next turn comes with the next loop.           *)
StillRunning ==
    /\ pc = "check" /\ ~IsTimedOut /\ child = "running" /\ pc' = "read"
    /\ UNCHANGED <<toWrite, running, pid, status, buffer, reply, stray,
                   childSide, inPipe, outPipe, open, signals, late>>

(* Seeded fault: a child ended by a signal has no exit code, and counts as *)
(* one that exited with 0.                                                 *)
Reaped_SignalIsZero ==
    /\ pc = "check" /\ ~IsTimedOut /\ child = "zombie"
    /\ child' = "reaped" /\ running' = FALSE /\ pc' = "finish"
    /\ status' = (IF code = "nonzero" THEN "FINISHED_ERROR" ELSE "FINISHED_OK")
    /\ UNCHANGED <<toWrite, pid, buffer, reply, stray, code, wrote,
                   inPipe, outPipe, open, signals, late>>

(* waitpid gives the child's status; the pipe is not looked at again.      *)
Reaped ==
    /\ pc = "check" /\ ~IsTimedOut /\ child = "zombie"
    /\ child' = "reaped" /\ running' = FALSE /\ pc' = "finish"
    /\ status' = (IF code = "zero" THEN "FINISHED_OK" ELSE "FINISHED_ERROR")
    /\ UNCHANGED <<toWrite, pid, buffer, reply, stray, code, wrote,
                   inPipe, outPipe, open, signals, late>>

GetFinalResponse ==
    /\ pc = "finish" /\ pc' = "destroy"
    /\ reply' = (CASE status = "TIMEDOUT" -> "504"
                   [] status = "FINISHED_ERROR" -> "502"
                   [] OTHER -> IF buffer = <<>> THEN "502" ELSE "output")
    /\ UNCHANGED <<toWrite, running, pid, status, buffer, stray, childSide,
                   inPipe, outPipe, open, signals, late>>

(* The client leaves between two turns: PollServer closes the pipe and     *)
(* drops its mapping.  The Response stays with the manager, and nobody     *)
(* takes its turns any more.                                               *)
ClientLeaves ==
    /\ pc = "read" /\ pc' = "forgotten" /\ open' = open \ {"outR"}
    /\ UNCHANGED <<toWrite, running, pid, status, buffer, reply, stray,
                   childSide, inPipe, outPipe, signals, late>>

(* The manager deletes the Response of a run that is not over: it closes a *)
(* client that writes, and has the number of the one that left, or it is   *)
(* destroyed itself.  Nothing says that it ever does.                      *)
Abandoned ==
    /\ pc \in {"read", "forgotten"} /\ pc' = "destroy"
    /\ UNCHANGED <<toWrite, running, pid, status, buffer, reply, stray,
                   childSide, inPipe, outPipe, open, signals, late>>

(* ~Response: closeCgi, then ~CgiHandler, whose own closeCgi finds nothing.*)
Destroy ==
    /\ pc = "destroy" /\ CloseCgi
    /\ UNCHANGED <<toWrite, status, buffer, reply, childSide,
                   inPipe, outPipe, late>>

(* Where closeCgi returns to: checkCgiStatus, or the destructor.           *)
Return ==
    IF status = "TIMEDOUT" /\ reply = "none" THEN "finish" ELSE "done"

(* waitpid(WNOHANG) of closeCgi: a zombie is reaped and closeCgi returns,  *)
(* a child that still runs leads on.                                       *)
Look(next) ==
    \/ /\ child = "zombie" /\ child' = "reaped" /\ pc' = Return
    \/ /\ child = "running" /\ pc' = next /\ UNCHANGED child

(* The first look comes at once after SIGTERM.                             *)
Wait ==
    /\ pc = "wait" /\ Look("wait again")
    /\ UNCHANGED <<toWrite, running, pid, status, buffer, reply, stray, code,
                   wrote, inPipe, outPipe, open, signals, late>>

(* Seeded fault: no SIGKILL for a child that ignores SIGTERM.            *)
WaitAgain_NoKill ==
    /\ pc = "wait again" /\ Look("last wait")
    /\ UNCHANGED <<toWrite, running, pid, status, buffer, reply, stray, code,
                   wrote, inPipe, outPipe, open, signals, late>>

(* The second, 50 ms later, is followed by SIGKILL ...                     *)
WaitAgain ==
    /\ pc = "wait again" /\ Look("last wait")
    /\ signals' = signals \cup (IF child = "running" THEN {"KILL"} ELSE {})
    /\ UNCHANGED <<toWrite, running, pid, status, buffer, reply, stray, code,
                   wrote, inPipe, outPipe, open, late>>

(* ... and the third in the same breath: whatever it sees, closeCgi is     *)
(* over.                                                                   *)
LastWait ==
    /\ pc = "last wait" /\ Look(Return)
    /\ UNCHANGED <<toWrite, running, pid, status, buffer, reply, stray, code,
                   wrote, inPipe, outPipe, open, signals, late>>

-----------------------------------------------------------------------------
(* The child and the clock.                                                *)

ChildReads ==
    /\ child = "running" /\ "inR" \in open /\ inPipe > 0
    /\ inPipe' = inPipe - 1
    /\ UNCHANGED <<serverSide, childSide, outPipe, open, signals, late>>

ChildClosesInput ==
    /\ child = "running" /\ "inR" \in open
    /\ open' = open \ {"inR"} /\ inPipe' = 0
    /\ UNCHANGED <<serverSide, childSide, outPipe, signals, late>>

ChildWrites ==
    /\ child = "running" /\ "outR" \in open
    /\ wrote < MaxOut /\ Len(outPipe) < PipeCap
    /\ wrote' = wrote + 1 /\ outPipe' = Append(outPipe, wrote + 1)
    /\ UNCHANGED <<serverSide, child, code, inPipe, open, signals, late>>

ChildGone(c) ==
    /\ child = "running" /\ child' = "zombie" /\ code' = c
    /\ open' = open \ {"inR", "outW"} /\ inPipe' = 0
    /\ UNCHANGED <<serverSide, wrote, outPipe, signals, late>>

(* It exits, as childProcess itself does with 1 when it cannot execute the *)
(* script ...                                                              *)
ChildExits == \E c \in {"zero", "nonzero"} : ChildGone(c)

(* ... or dies of a signal: one of closeCgi, SIGPIPE as nobody reads its   *)
(* output any more, or a fault of its own.                                 *)
ChildDies == ChildGone("signal")

TimePasses ==
    /\ child # "none" /\ ~late /\ late' = TRUE
    /\ UNCHANGED <<serverSide, childSide, inPipe, outPipe, open, signals>>

-----------------------------------------------------------------------------
Turn == ReadFromCgi \/ TimedOut \/ StillRunning \/ Reaped \/ GetFinalResponse

Server ==
    \/ StartFails \/ Start \/ WriteBody \/ BodyWritten \/ BodySigpipe
    \/ Turn \/ Destroy \/ Wait \/ WaitAgain \/ LastWait

Child ==
    \/ ChildReads \/ ChildClosesInput \/ ChildWrites \/ ChildExits \/ ChildDies

Ended == pc \in {"done", "killed"} /\ UNCHANGED vars

Next == Server \/ ClientLeaves \/ Abandoned \/ Child \/ TimePasses \/ Ended

Spec == Init /\ [][Next]_vars

(* The server's loop passes over the CGIs of its clients again and again,  *)
(* and time passes.  A run whose client left is none of them, and a server *)
(* asleep in write() takes no turn.  The child owes nothing.               *)
FairSpec == Spec /\ WF_vars(Server) /\ WF_vars(TimePasses)

-----------------------------------------------------------------------------
(* What the server read and what is still in the pipe are, together and in *)
(* order, what the child wrote, for as long as the server listens          *)
(* (readFromCgi, processCgiOutput): no read loses, repeats or reorders.    *)
OutputInOrder ==
    "outR" \in open => buffer \o outPipe = [i \in 1..wrote |-> i]

(* When the run is over (~Response, closeCgi) the server holds no end of a *)
(* pipe, and a child that still runs has been sent SIGKILL, whatever it    *)
(* did with SIGTERM.                                                       *)
NothingRunsOn ==
    pc = "done" => /\ open \cap {"inW", "outR"} = {}
                   /\ child = "running" => "KILL" \in signals

(* The run keeps the contract with its Response: one answer at most, that  *)
(* fits the child's real end and the clock (checkCgiStatus,                *)
(* getFinalResponse).                                                      *)
Service == INSTANCE CgiContract WITH
    stage <- CASE pc = "start" -> "idle"
               [] pc = "killed" -> "lost"
               [] pc = "done" -> "released"
               [] reply # "none" /\ pc \notin {"start", "killed", "done"}
                    -> "answered"
               [] OTHER -> "running",
    end <- code,
    late <- late,
    answer <- reply

KeepsContract == Service!Contract

(* The server sleeps in the write of a body that the child does not read.  *)
Asleep ==
    /\ pc = "write" /\ toWrite > 0 /\ inPipe = PipeCap
    /\ "inR" \in open /\ child = "running"

(* Every run comes to its end, whatever the child does: it exits, the time *)
(* is up, or the server dies over the body (checkCgiStatus, closeCgi).     *)
(* There are two ways out of it, and the 30 seconds count in neither: the  *)
(* client left, or the child does not read a body larger than its pipe.    *)
EveryRunEnds ==
    <>(pc \in {"done", "killed"}) \/ <>[](pc = "forgotten") \/ <>[]Asleep

(* VIOLATED.  A response made of the child's output holds all of it: the   *)
(* comment in getFinalResponse takes the buffer for "a complete HTTP       *)
(* response".  The last read comes before waitpid, takes 8192 bytes at     *)
(* most, and nothing is read after the child is reaped.                    *)
OutputComplete == reply = "output" => Len(buffer) = wrote

(* closeCgi runs twice for a run that timed out, in checkCgiStatus and in   *)
(* the destructor, and the second finds no pid to signal.  Only a child    *)
(* that ended by itself and was reaped by checkCgiStatus leaves a pid      *)
(* behind, to which ~Response then sends SIGTERM.                          *)
TimeoutForgetsPid == stray => status \in {"FINISHED_OK", "FINISHED_ERROR"}
=============================================================================
