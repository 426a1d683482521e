-------------------------- MODULE CgiHandlerProofs --------------------------
(***************************************************************************)
(* Theorems about CgiHandler: its types, that no run leaves a child        *)
(* running unkilled, whom it may signal, that output arrives in order, and *)
(* that it implements CgiContract, for every size of body, pipe, read and  *)
(* output.                                                                 *)
(***************************************************************************)
EXTENDS CgiHandler, SequenceTheorems, TLAPS

-----------------------------------------------------------------------------
(* What one read takes and what it leaves are stretches of the pipe.       *)
LEMMA PipeSplit ==
    ASSUME OutputType
    PROVE  /\ SubSeq(outPipe, 1, Taken) \in Seq(1..MaxOut)
           /\ SubSeq(outPipe, Taken + 1, Len(outPipe)) \in Seq(1..MaxOut)
           /\ Len(SubSeq(outPipe, Taken + 1, Len(outPipe))) <= PipeCap
<1>1. /\ outPipe \in Seq(1..MaxOut) /\ Len(outPipe) <= PipeCap
      /\ ReadSize \in Nat /\ PipeCap \in Nat
  BY SizeAssumption DEF OutputType
<1>2. /\ Len(outPipe) \in Nat
      /\ \A i \in 1..Len(outPipe) : outPipe[i] \in 1..MaxOut
  BY <1>1, LenProperties, ElementOfSeq
<1>3. Taken \in 0..Len(outPipe)
  BY <1>1, <1>2 DEF Taken
<1>4. SubSeq(outPipe, 1, Taken) \in Seq(1..MaxOut)
  <2>1. \A i \in 1..Taken : outPipe[i] \in 1..MaxOut
    BY <1>2, <1>3
  <2> QED
    BY <1>3, <2>1, SubSeqProperties
<1>5. /\ SubSeq(outPipe, Taken + 1, Len(outPipe)) \in Seq(1..MaxOut)
      /\ Len(SubSeq(outPipe, Taken + 1, Len(outPipe))) <= Len(outPipe)
  <2>1. \A i \in Taken + 1..Len(outPipe) : outPipe[i] \in 1..MaxOut
    BY <1>2, <1>3
  <2>2. Taken + 1 \in Int /\ Len(outPipe) \in Int
    BY <1>2, <1>3
  <2>3. /\ SubSeq(outPipe, Taken + 1, Len(outPipe)) \in Seq(1..MaxOut)
        /\ Len(SubSeq(outPipe, Taken + 1, Len(outPipe)))
             = IF Taken + 1 <= Len(outPipe) THEN Len(outPipe) - (Taken + 1) + 1 ELSE 0
    BY <2>1, <2>2, SubSeqProperties
  <2> QED
    BY <1>2, <1>3, <2>3
<1>6. Len(SubSeq(outPipe, Taken + 1, Len(outPipe))) \in Nat
  BY <1>5, LenProperties
<1> QED
  BY <1>1, <1>2, <1>4, <1>5, <1>6

(* The variables of the server keep their types.                          *)
LEMMA ServerTypeStep ==
    ASSUME ServerType, [Next]_vars
    PROVE  ServerType'
<1> USE DEF ServerType
<1>1. CASE StartFails \/ Start \/ WriteBody \/ BodyWritten \/ BodySigpipe
  BY <1>1, ZenonT(40) DEF StartFails, Start, WriteBody, BodyWritten, BodySigpipe, childSide
<1>2. CASE ReadFromCgi \/ StillRunning \/ Reaped \/ GetFinalResponse
            \/ Abandoned \/ ClientLeaves
  BY <1>2, ZenonT(40) DEF ReadFromCgi, StillRunning, Reaped, GetFinalResponse,
     Abandoned, ClientLeaves,
     childSide
<1>3. CASE TimedOut \/ Destroy
  BY <1>3 DEF TimedOut, Destroy, CloseCgi, childSide
<1>4. CASE Wait \/ WaitAgain \/ LastWait
  BY <1>4 DEF Wait, WaitAgain, LastWait, Look, Return
<1>5. CASE Child \/ TimePasses
  BY <1>5, ZenonT(40) DEF Child, ChildReads, ChildClosesInput, ChildWrites, ChildExits,
     ChildDies, ChildGone, TimePasses, serverSide, childSide
<1>6. CASE Ended \/ UNCHANGED vars
  BY <1>6 DEF Ended, vars, serverSide, childSide
<1> QED
  BY <1>1, <1>2, <1>3, <1>4, <1>5, <1>6 DEF Next, Server, Turn

(* So do those of the child, of the pipe ends and of the signals.          *)
LEMMA ChildTypeStep ==
    ASSUME ChildType, [Next]_vars
    PROVE  ChildType'
<1> USE DEF ChildType
<1>1. CASE StartFails \/ Start \/ WriteBody \/ BodyWritten \/ BodySigpipe
  BY <1>1 DEF StartFails, Start, WriteBody, BodyWritten, BodySigpipe, childSide
<1>2. CASE ReadFromCgi \/ StillRunning \/ Reaped \/ GetFinalResponse
            \/ Abandoned \/ ClientLeaves
  BY <1>2 DEF ReadFromCgi, StillRunning, Reaped, GetFinalResponse,
     Abandoned, ClientLeaves,
     childSide
<1>3. CASE TimedOut \/ Destroy
  BY <1>3 DEF TimedOut, Destroy, CloseCgi, childSide
<1>4. CASE Wait \/ WaitAgain \/ LastWait
  BY <1>4 DEF Wait, WaitAgain, LastWait, Look, Return
<1>5. CASE Child \/ TimePasses
  BY <1>5 DEF Child, ChildReads, ChildClosesInput, ChildWrites, ChildExits,
     ChildDies, ChildGone, TimePasses, serverSide, childSide
<1>6. CASE Ended \/ UNCHANGED vars
  BY <1>6 DEF Ended, vars, serverSide, childSide
<1> QED
  BY <1>1, <1>2, <1>3, <1>4, <1>5, <1>6 DEF Next, Server, Turn

(* So do the two pipes.                                                    *)
LEMMA DataType ==
    ASSUME InputType, OutputType, [Next]_vars
    PROVE  InputType' /\ OutputType'
<1>1. CASE WriteBody
  BY <1>1, SizeAssumption DEF WriteBody, InputType, OutputType, childSide
<1>2. CASE ReadFromCgi
  <2>1. /\ buffer \in Seq(1..MaxOut)
        /\ buffer' = buffer \o SubSeq(outPipe, 1, Taken)
    BY <1>2 DEF ReadFromCgi, OutputType
  <2>2. buffer' \in Seq(1..MaxOut)
    BY <2>1, PipeSplit, ConcatProperties
  <2> QED
    BY <1>2, <2>2, PipeSplit DEF ReadFromCgi, InputType, OutputType, childSide
<1>3. CASE ChildWrites
  <2>1. /\ outPipe \in Seq(1..MaxOut) /\ wrote + 1 \in 1..MaxOut
        /\ Len(outPipe) < PipeCap /\ outPipe' = Append(outPipe, wrote + 1)
        /\ PipeCap \in Nat
    BY <1>3, SizeAssumption DEF OutputType, ChildWrites
  <2>2. outPipe' \in Seq(1..MaxOut) /\ Len(outPipe') = Len(outPipe) + 1
    BY <2>1, AppendProperties
  <2>3. Len(outPipe') <= PipeCap
    BY <2>1, <2>2, LenProperties
  <2> QED
    BY <1>3, <2>1, <2>2, <2>3 DEF ChildWrites, InputType, OutputType, serverSide
<1>4. CASE ChildReads \/ ChildClosesInput \/ ChildExits \/ ChildDies
  BY <1>4, SizeAssumption DEF ChildReads, ChildClosesInput, ChildExits,
     ChildDies, ChildGone, InputType, OutputType, serverSide, childSide
<1>5. CASE StartFails \/ Start \/ BodyWritten \/ BodySigpipe
  BY <1>5 DEF StartFails, Start, BodyWritten, BodySigpipe, InputType,
     OutputType, childSide
<1>6. CASE TimedOut \/ Destroy \/ Wait \/ WaitAgain \/ LastWait
  BY <1>6 DEF TimedOut, Destroy, Wait, WaitAgain, LastWait, InputType,
     OutputType, childSide
<1>7. CASE StillRunning \/ Reaped \/ GetFinalResponse \/ Abandoned \/ ClientLeaves
  BY <1>7 DEF StillRunning, Reaped, GetFinalResponse, Abandoned, ClientLeaves, InputType,
     OutputType, childSide
<1>8. CASE TimePasses \/ Ended \/ UNCHANGED vars
  BY <1>8 DEF TimePasses, Ended, vars, InputType, OutputType, serverSide,
     childSide
<1> QED
  BY <1>1, <1>2, <1>3, <1>4, <1>5, <1>6, <1>7, <1>8
     DEF Next, Server, Turn, Child

LEMMA TypeStep == TypeOK /\ [Next]_vars => TypeOK'
BY ServerTypeStep, ChildTypeStep, DataType DEF TypeOK

LEMMA InitType == Init => TypeOK
<1> SUFFICES ASSUME Init PROVE TypeOK
  OBVIOUS
<1>1. ServerType /\ ChildType
  BY DEF Init, ServerType, ChildType
<1>2. InputType /\ OutputType
  BY SizeAssumption, EmptySeq DEF Init, InputType, OutputType
<1> QED
  BY <1>1, <1>2 DEF TypeOK

(* Every variable keeps its type (class CgiHandler and its child).         *)
THEOREM TypeCorrect == Spec => []TypeOK
BY InitType, TypeStep, PTL DEF Spec

-----------------------------------------------------------------------------
(* What the server knows at each point of a run.  While it reads it has    *)
(* the pid of a child it has not reaped; _status tells the child's end or  *)
(* the clock; there is no answer before getFinalResponse; and once         *)
(* closeCgi has forgotten the pid, the pipes are closed and a child that   *)
(* still runs was sent SIGKILL.                                            *)
ChildKnown ==
    /\ pc = "start" => child = "none" /\ open = {}
    /\ child \in {"none", "running"} <=> code = "none"
    /\ pc \in {"write", "read", "forgotten", "check"} => pid /\ child \in {"running", "zombie"}
    /\ pc = "finish" /\ pid => child = "reaped"
StatusKnown ==
    /\ pc \in {"start", "write", "read", "forgotten", "check", "killed"} => status = "RUNNING"
    /\ status = "FINISHED_OK" => code = "zero"
    /\ status = "FINISHED_ERROR" => code # "none"
    /\ status = "TIMEDOUT" => late
    /\ pc = "finish" => status # "RUNNING"
AnswerKnown ==
    pc \in {"start", "write", "read", "forgotten", "check", "finish", "killed"} =>
        reply = "none"
Shut == open \cap {"inW", "outR"} = {}
Closed ==
    /\ Shut
    /\ child = "running" => "KILL" \in signals
ClosingKnown ==
    /\ pc \in {"wait", "wait again"} => Shut
    /\ pc \in {"last wait", "done"} => Closed
    /\ pc \in {"finish", "destroy"} /\ ~pid => Closed
    /\ pc \in {"wait", "wait again", "last wait"} => ~pid

RunInv == TypeOK /\ ChildKnown /\ StatusKnown /\ AnswerKnown /\ ClosingKnown

LEMMA InitInv == Init => RunInv
BY InitType DEF Init, RunInv, ChildKnown, StatusKnown, AnswerKnown, Closed, Shut,
   ClosingKnown

LEMMA ChildKnownStep ==
    ASSUME RunInv, [Next]_vars
    PROVE  ChildKnown'
<1> USE DEF RunInv, ChildKnown
<1>1. CASE StartFails \/ Start \/ WriteBody \/ BodyWritten \/ BodySigpipe
  BY <1>1 DEF StartFails, Start, WriteBody, BodyWritten, BodySigpipe,
     childSide
<1>2. CASE ReadFromCgi \/ StillRunning \/ Reaped \/ GetFinalResponse
            \/ Abandoned \/ ClientLeaves
  BY <1>2 DEF ReadFromCgi, StillRunning, Reaped, GetFinalResponse,
     Abandoned, ClientLeaves,
     childSide
<1>3. CASE TimedOut \/ Destroy
  BY <1>3 DEF TimedOut, IsTimedOut, Destroy, CloseCgi, childSide
<1>4. CASE Wait
  BY <1>4 DEF Wait, Look, Return, ClosingKnown
<1>5. CASE WaitAgain
  BY <1>5 DEF WaitAgain, Look, Return, ClosingKnown
<1>6. CASE LastWait
  BY <1>6 DEF LastWait, Look, Return, ClosingKnown
<1>7. CASE ChildReads \/ ChildClosesInput \/ ChildWrites
  BY <1>7 DEF ChildReads, ChildClosesInput, ChildWrites, serverSide, childSide
<1>8. CASE ChildExits \/ ChildDies
  BY <1>8 DEF ChildExits, ChildDies, ChildGone, serverSide
<1>9. CASE TimePasses \/ Ended \/ UNCHANGED vars
  BY <1>9 DEF TimePasses, Ended, vars, serverSide, childSide
<1> QED
  BY <1>1, <1>2, <1>3, <1>4, <1>5, <1>6, <1>7, <1>8, <1>9 DEF Next, Server,
     Turn, Child

LEMMA StatusKnownStep ==
    ASSUME RunInv, [Next]_vars
    PROVE  StatusKnown'
<1> USE DEF RunInv, StatusKnown, ChildKnown
<1>1. CASE StartFails \/ Start \/ WriteBody \/ BodyWritten \/ BodySigpipe
  BY <1>1 DEF StartFails, Start, WriteBody, BodyWritten, BodySigpipe,
     childSide
<1>2. CASE ReadFromCgi \/ StillRunning \/ Reaped \/ GetFinalResponse
            \/ Abandoned \/ ClientLeaves
  BY <1>2 DEF ReadFromCgi, StillRunning, Reaped, GetFinalResponse,
     Abandoned, ClientLeaves,
     childSide
<1>3. CASE TimedOut \/ Destroy
  BY <1>3 DEF TimedOut, IsTimedOut, Destroy, CloseCgi, childSide
<1>4. CASE Wait
  BY <1>4 DEF Wait, Look, Return
<1>5. CASE WaitAgain
  BY <1>5 DEF WaitAgain, Look, Return
<1>6. CASE LastWait
  BY <1>6 DEF LastWait, Look, Return
<1>7. CASE ChildReads \/ ChildClosesInput \/ ChildWrites
  BY <1>7 DEF ChildReads, ChildClosesInput, ChildWrites, serverSide, childSide
<1>8. CASE ChildExits \/ ChildDies
  BY <1>8 DEF ChildExits, ChildDies, ChildGone, serverSide
<1>9. CASE TimePasses \/ Ended \/ UNCHANGED vars
  BY <1>9 DEF TimePasses, Ended, vars, serverSide, childSide
<1> QED
  BY <1>1, <1>2, <1>3, <1>4, <1>5, <1>6, <1>7, <1>8, <1>9 DEF Next, Server,
     Turn, Child

LEMMA AnswerKnownStep ==
    ASSUME RunInv, [Next]_vars
    PROVE  AnswerKnown'
<1> USE DEF RunInv, AnswerKnown
<1>1. CASE StartFails \/ Start \/ WriteBody \/ BodyWritten \/ BodySigpipe
  BY <1>1 DEF StartFails, Start, WriteBody, BodyWritten, BodySigpipe,
     childSide
<1>2. CASE ReadFromCgi \/ StillRunning \/ Reaped \/ GetFinalResponse
            \/ Abandoned \/ ClientLeaves
  BY <1>2 DEF ReadFromCgi, StillRunning, Reaped, GetFinalResponse,
     Abandoned, ClientLeaves,
     childSide
<1>3. CASE TimedOut \/ Destroy
  BY <1>3 DEF TimedOut, IsTimedOut, Destroy, CloseCgi, childSide
<1>4. CASE Wait
  BY <1>4 DEF Wait, Look, Return
<1>5. CASE WaitAgain
  BY <1>5 DEF WaitAgain, Look, Return
<1>6. CASE LastWait
  BY <1>6 DEF LastWait, Look, Return
<1>7. CASE ChildReads \/ ChildClosesInput \/ ChildWrites
  BY <1>7 DEF ChildReads, ChildClosesInput, ChildWrites, serverSide, childSide
<1>8. CASE ChildExits \/ ChildDies
  BY <1>8 DEF ChildExits, ChildDies, ChildGone, serverSide
<1>9. CASE TimePasses \/ Ended \/ UNCHANGED vars
  BY <1>9 DEF TimePasses, Ended, vars, serverSide, childSide
<1> QED
  BY <1>1, <1>2, <1>3, <1>4, <1>5, <1>6, <1>7, <1>8, <1>9 DEF Next, Server,
     Turn, Child

LEMMA ClosingKnownStep ==
    ASSUME RunInv, [Next]_vars
    PROVE  ClosingKnown'
<1> USE DEF RunInv, ClosingKnown
<1>1. CASE StartFails \/ Start \/ WriteBody \/ BodyWritten \/ BodySigpipe
  BY <1>1 DEF StartFails, Start, WriteBody, BodyWritten, BodySigpipe,
     childSide, Closed, Shut, ChildKnown
<1>2. CASE ReadFromCgi \/ StillRunning \/ Reaped \/ GetFinalResponse
            \/ Abandoned \/ ClientLeaves
  BY <1>2 DEF ReadFromCgi, StillRunning, Reaped, GetFinalResponse,
     Abandoned, ClientLeaves,
     childSide, Closed, Shut, ChildKnown
<1>3. CASE TimedOut \/ Destroy
  BY <1>3 DEF TimedOut, IsTimedOut, Destroy, CloseCgi, childSide, Closed, Shut,
     ChildKnown
<1>4. CASE Wait
  BY <1>4 DEF Wait, Look, Return, Closed, Shut, ChildKnown
<1>5. CASE WaitAgain
  BY <1>5 DEF WaitAgain, Look, Return, Closed, Shut, ChildKnown
<1>6. CASE LastWait
  BY <1>6 DEF LastWait, Look, Return, Closed, Shut, ChildKnown
<1>7. CASE Child
  <2>1. UNCHANGED <<pc, pid>> /\ (Shut => Shut')
    BY <1>7 DEF Child, ChildReads, ChildClosesInput, ChildWrites, ChildExits,
       ChildDies, ChildGone, serverSide, Shut
  <2>2. Closed => Closed'
    BY <1>7, <2>1 DEF Child, ChildReads, ChildClosesInput, ChildWrites,
       ChildExits, ChildDies, ChildGone, childSide, Closed
  <2> QED
    BY <2>1, <2>2
<1>8. CASE TimePasses \/ Ended \/ UNCHANGED vars
  <2>1. UNCHANGED <<pc, pid>> /\ (Shut => Shut')
    BY <1>8 DEF TimePasses, Ended, vars, serverSide, Shut
  <2>2. Closed => Closed'
    BY <1>8, <2>1 DEF TimePasses, Ended, vars, childSide, Closed
  <2> QED
    BY <2>1, <2>2
<1> QED
  BY <1>1, <1>2, <1>3, <1>4, <1>5, <1>6, <1>7, <1>8 DEF Next, Server, Turn

LEMMA InvStep == RunInv /\ [Next]_vars => RunInv'
BY TypeStep, ChildKnownStep, StatusKnownStep, AnswerKnownStep, ClosingKnownStep
   DEF RunInv

LEMMA InvHolds == Spec => []RunInv
BY InitInv, InvStep, PTL DEF Spec

(* When a run is over no pipe of it is open and its child, if it still     *)
(* runs, has been sent SIGKILL (closeCgi, ~Response).                      *)
THEOREM NoRunGoesOn == Spec => []NothingRunsOn
<1>1. RunInv => NothingRunsOn
  BY DEF RunInv, ClosingKnown, Closed, Shut, NothingRunsOn
<1> QED
  BY <1>1, InvHolds, PTL

-----------------------------------------------------------------------------
(* What becomes of the pid.  A run that timed out has forgotten it, and a  *)
(* destructor that still finds one either has its child before it or runs  *)
(* after checkCgiStatus reaped it.                                         *)
PidKnown ==
    /\ TimeoutForgetsPid
    /\ status = "TIMEDOUT" => ~pid
    /\ pc = "destroy" /\ pid =>
          \/ child \in {"running", "zombie"}
          \/ status \in {"FINISHED_OK", "FINISHED_ERROR"}

LEMMA PidKnownStep ==
    ASSUME RunInv, PidKnown, [Next]_vars
    PROVE  PidKnown'
<1> USE DEF RunInv, PidKnown, TimeoutForgetsPid, ChildKnown, StatusKnown
<1>1. CASE StartFails \/ Start \/ WriteBody \/ BodyWritten \/ BodySigpipe
  BY <1>1 DEF StartFails, Start, WriteBody, BodyWritten, BodySigpipe,
     childSide
<1>2. CASE ReadFromCgi \/ StillRunning \/ Reaped \/ Abandoned \/ ClientLeaves
  BY <1>2 DEF ReadFromCgi, StillRunning, Reaped, Abandoned, ClientLeaves, childSide
<1>3. CASE GetFinalResponse
  BY <1>3 DEF GetFinalResponse, TypeOK, ServerType, childSide
<1>4. CASE TimedOut
  BY <1>4 DEF TimedOut, CloseCgi, childSide
<1>5. CASE Destroy
  BY <1>5 DEF Destroy, CloseCgi, childSide
<1>6. CASE Wait \/ WaitAgain \/ LastWait
  <2>1. UNCHANGED <<pid, status, stray>>
    BY <1>6 DEF Wait, WaitAgain, LastWait
  <2>2. pc' # "destroy"
    BY <1>6 DEF Wait, WaitAgain, LastWait, Look, Return
  <2> QED
    BY <2>1, <2>2
<1>7. CASE Child
  BY <1>7 DEF Child, ChildReads, ChildClosesInput, ChildWrites, ChildExits,
     ChildDies, ChildGone, serverSide, childSide
<1>8. CASE TimePasses \/ Ended \/ UNCHANGED vars
  BY <1>8 DEF TimePasses, Ended, vars, serverSide, childSide
<1> QED
  BY <1>1, <1>2, <1>3, <1>4, <1>5, <1>6, <1>7, <1>8 DEF Next, Server, Turn

(* The second closeCgi of a run that timed out signals nobody: only a pid  *)
(* that checkCgiStatus reaped is ever signalled after its end (closeCgi,   *)
(* ~Response).                                                             *)
THEOREM TimeoutIsForgotten == Spec => []TimeoutForgetsPid
<1>1. Init => PidKnown
  BY DEF Init, PidKnown, TimeoutForgetsPid
<1>2. PidKnown => TimeoutForgetsPid
  BY DEF PidKnown
<1> QED
  BY <1>1, <1>2, PidKnownStep, InvHolds, PTL DEF Spec

-----------------------------------------------------------------------------
(* The output, unit by unit: the buffer and then the pipe count up to what *)
(* the child wrote.                                                        *)
Untouched == buffer = <<>> /\ outPipe = <<>> /\ wrote = 0
Counted ==
    /\ Len(buffer) + Len(outPipe) = wrote
    /\ \A i \in 1..Len(buffer) : buffer[i] = i
    /\ \A i \in 1..Len(outPipe) : outPipe[i] = Len(buffer) + i
InOrder ==
    /\ pc = "start" => Untouched
    /\ "outR" \in open => Counted

LEMMA CountedReads ==
    ASSUME OutputType, Counted, ReadFromCgi
    PROVE  Counted'
<1> DEFINE front == SubSeq(outPipe, 1, Taken)
           back == SubSeq(outPipe, Taken + 1, Len(outPipe))
<1>1. /\ buffer \in Seq(1..MaxOut) /\ outPipe \in Seq(1..MaxOut)
      /\ front \in Seq(1..MaxOut) /\ wrote \in Nat
  BY PipeSplit, SizeAssumption DEF OutputType
<1>2. /\ Len(buffer) \in Nat /\ Len(outPipe) \in Nat
      /\ \A i \in 1..Len(outPipe) : outPipe[i] \in 1..MaxOut
  BY <1>1, LenProperties, ElementOfSeq
<1>3. Taken \in 0..Len(outPipe)
  BY <1>2, SizeAssumption DEF Taken
<1>4. /\ Len(front) = Taken
      /\ \A i \in 1..Taken : front[i] = outPipe[i]
  <2>1. \A i \in 1..Taken : outPipe[i] \in 1..MaxOut
    BY <1>2, <1>3
  <2>2. /\ Len(front) = IF 1 <= Taken THEN Taken - 1 + 1 ELSE 0
        /\ \A i \in 1..(Taken - 1 + 1) : front[i] = outPipe[1 + i - 1]
    BY <1>3, <2>1, SubSeqProperties
  <2> QED
    BY <1>3, <2>2
<1>5. /\ Len(back) = Len(outPipe) - Taken
      /\ \A i \in 1..(Len(outPipe) - Taken) : back[i] = outPipe[Taken + i]
  <2>1. \A i \in Taken + 1..Len(outPipe) : outPipe[i] \in 1..MaxOut
    BY <1>2, <1>3
  <2>2. /\ Len(back) = IF Taken + 1 <= Len(outPipe)
                       THEN Len(outPipe) - (Taken + 1) + 1 ELSE 0
        /\ \A i \in 1..(Len(outPipe) - (Taken + 1) + 1) :
              back[i] = outPipe[(Taken + 1) + i - 1]
    BY <1>2, <1>3, <2>1, SubSeqProperties
  <2> QED
    BY <1>2, <1>3, <2>2
<1>6. /\ Len(buffer \o front) = Len(buffer) + Taken
      /\ \A i \in 1..(Len(buffer) + Taken) :
            (buffer \o front)[i] =
               IF i <= Len(buffer) THEN buffer[i] ELSE front[i - Len(buffer)]
  BY <1>1, <1>4, ConcatProperties
<1>7. /\ buffer' = buffer \o front /\ outPipe' = back /\ wrote' = wrote
  BY DEF ReadFromCgi, childSide
<1> HIDE DEF front, back
<1>8. \A i \in 1..(Len(buffer) + Taken) : (buffer \o front)[i] = i
  <2> TAKE i \in 1..(Len(buffer) + Taken)
  <2>1. CASE i <= Len(buffer)
    BY <1>2, <1>3, <1>6, <2>1 DEF Counted
  <2>2. CASE ~(i <= Len(buffer))
    <3>1. /\ i - Len(buffer) \in 1..Taken /\ i - Len(buffer) \in 1..Len(outPipe)
          /\ (buffer \o front)[i] = front[i - Len(buffer)]
      BY <1>2, <1>3, <1>6, <2>2
    <3>2. outPipe[i - Len(buffer)] = Len(buffer) + (i - Len(buffer))
      BY <3>1 DEF Counted
    <3> QED
      BY <1>2, <1>4, <3>1, <3>2
  <2> QED
    BY <2>1, <2>2
<1>9. \A i \in 1..(Len(outPipe) - Taken) : back[i] = (Len(buffer) + Taken) + i
  <2> TAKE i \in 1..(Len(outPipe) - Taken)
  <2>1. Taken + i \in 1..Len(outPipe)
    BY <1>2, <1>3
  <2>2. outPipe[Taken + i] = Len(buffer) + (Taken + i)
    BY <2>1 DEF Counted
  <2> QED
    BY <1>2, <1>3, <1>5, <2>2
<1>10. Len(buffer \o front) + Len(back) = wrote
  BY <1>1, <1>2, <1>3, <1>5, <1>6 DEF Counted
<1> QED
  BY <1>5, <1>6, <1>7, <1>8, <1>9, <1>10 DEF Counted

LEMMA CountedWrites ==
    ASSUME OutputType, Counted, ChildWrites
    PROVE  Counted'
<1>1. /\ outPipe \in Seq(1..MaxOut) /\ wrote + 1 \in 1..MaxOut
      /\ wrote \in Nat /\ buffer \in Seq(1..MaxOut)
      /\ outPipe' = Append(outPipe, wrote + 1)
      /\ wrote' = wrote + 1 /\ buffer' = buffer
  BY SizeAssumption DEF OutputType, ChildWrites, serverSide
<1>2. Len(buffer) \in Nat /\ Len(outPipe) \in Nat
  BY <1>1, LenProperties
<1>3. /\ Len(outPipe') = Len(outPipe) + 1
      /\ \A i \in 1..Len(outPipe) : outPipe'[i] = outPipe[i]
      /\ outPipe'[Len(outPipe) + 1] = wrote + 1
  BY <1>1, AppendProperties
<1>4. wrote + 1 = Len(buffer) + (Len(outPipe) + 1)
  <2>1. wrote = Len(buffer) + Len(outPipe)
    BY DEF Counted
  <2>2. Len(buffer) \in Nat /\ Len(outPipe) \in Nat /\ wrote \in Nat
    BY <1>1, <1>2
  <2> QED
    BY <2>1, <2>2
<1>5. \A i \in 1..(Len(outPipe) + 1) : outPipe'[i] = Len(buffer) + i
  <2> TAKE i \in 1..(Len(outPipe) + 1)
  <2>1. CASE i = Len(outPipe) + 1
    BY <1>3, <1>4, <2>1
  <2>2. CASE i # Len(outPipe) + 1
    BY <1>2, <1>3, <2>2 DEF Counted
  <2> QED
    BY <2>1, <2>2
<1>6. \A i \in 1..Len(buffer') : buffer'[i] = i
  BY <1>1 DEF Counted
<1>7. Len(buffer') + Len(outPipe') = wrote'
  BY <1>1, <1>3, <1>4
<1> QED
  BY <1>1, <1>3, <1>5, <1>6, <1>7 DEF Counted

LEMMA InOrderStep ==
    ASSUME TypeOK, ChildKnown, InOrder, [Next]_vars
    PROVE  InOrder'
<1>1. CASE ReadFromCgi
  BY <1>1, CountedReads DEF ReadFromCgi, InOrder, TypeOK
<1>2. CASE ChildWrites
  BY <1>2, CountedWrites DEF ChildWrites, InOrder, TypeOK, ChildKnown, serverSide
<1>3. ASSUME UNCHANGED <<buffer, outPipe, wrote>>,
             pc' # "start" \/ pc = "start",
             "outR" \in open' => "outR" \in open \/ pc = "start"
      PROVE  InOrder'
  <2>1. Untouched => Counted
    BY EmptySeq DEF Untouched, Counted
  <2>2. (Untouched' <=> Untouched) /\ (Counted' <=> Counted)
    BY <1>3 DEF Untouched, Counted
  <2> QED
    BY <1>3, <2>1, <2>2 DEF InOrder
<1>4. CASE StartFails \/ Start \/ WriteBody \/ BodyWritten \/ BodySigpipe
  BY <1>3, <1>4 DEF StartFails, Start, WriteBody, BodyWritten, BodySigpipe,
     childSide
<1>5. CASE StillRunning \/ Reaped \/ GetFinalResponse \/ Abandoned \/ ClientLeaves
  BY <1>3, <1>5 DEF StillRunning, Reaped, GetFinalResponse, Abandoned, ClientLeaves, childSide
<1>6. CASE TimedOut \/ Destroy
  BY <1>3, <1>6 DEF TimedOut, Destroy, CloseCgi, childSide
<1>7. CASE Wait \/ WaitAgain \/ LastWait
  BY <1>3, <1>7 DEF Wait, WaitAgain, LastWait, Look, Return, childSide
<1>8. CASE ChildReads \/ ChildClosesInput \/ ChildExits \/ ChildDies
  BY <1>3, <1>8 DEF ChildReads, ChildClosesInput, ChildExits, ChildDies,
     ChildGone, serverSide, childSide
<1>9. CASE TimePasses \/ Ended \/ UNCHANGED vars
  BY <1>3, <1>9 DEF TimePasses, Ended, vars, serverSide, childSide
<1> QED
  BY <1>1, <1>2, <1>4, <1>5, <1>6, <1>7, <1>8, <1>9 DEF Next, Server, Turn, Child

(* For as long as the server listens, what it read and what is in the pipe *)
(* are together, and in order, all that the child wrote (readFromCgi).     *)
THEOREM NothingIsReordered == Spec => []OutputInOrder
<1>1. Init => InOrder
  BY DEF Init, InOrder, Untouched
<1>2. TypeOK /\ InOrder => OutputInOrder
  <2> SUFFICES ASSUME OutputType, Counted
               PROVE  buffer \o outPipe = [i \in 1..wrote |-> i]
    BY DEF TypeOK, InOrder, OutputInOrder
  <2>1. /\ buffer \in Seq(1..MaxOut) /\ outPipe \in Seq(1..MaxOut)
        /\ wrote \in 0..MaxOut /\ MaxOut \in Nat
    BY SizeAssumption DEF OutputType
  <2>2. Len(buffer) \in Nat /\ Len(outPipe) \in Nat
    BY <2>1, LenProperties
  <2>3. /\ buffer \o outPipe \in Seq(1..MaxOut)
        /\ Len(buffer \o outPipe) = wrote
        /\ \A i \in 1..wrote : (buffer \o outPipe)[i] =
              IF i <= Len(buffer) THEN buffer[i] ELSE outPipe[i - Len(buffer)]
    BY <2>1, <2>2, ConcatProperties DEF Counted
  <2>4. \A i \in 1..wrote : (buffer \o outPipe)[i] = i
    BY <2>1, <2>2, <2>3 DEF Counted
  <2>5. buffer \o outPipe \in [1..wrote -> 1..MaxOut]
    BY <2>3, LenProperties
  <2> QED
    BY <2>4, <2>5
<1>3. RunInv => TypeOK /\ ChildKnown
  BY DEF RunInv
<1> QED
  BY <1>1, <1>2, <1>3, InOrderStep, InvHolds, PTL DEF Spec

-----------------------------------------------------------------------------
(* CgiHandler implements CgiContract.                                      *)

LEMMA ContractStep ==
    ASSUME RunInv, [Next]_vars
    PROVE  [Service!ContractNext]_(Service!cvars)
<1> USE DEF Service!ContractNext, Service!cvars
<1>1. CASE StartFails
  <2>1. Service!Refuse
    BY <1>1 DEF StartFails, childSide, Service!Refuse
  <2> QED
    BY <2>1
<1>2. CASE Start
  <2>1. Service!Begin
    BY <1>2 DEF RunInv, AnswerKnown, Start, Service!Begin
  <2> QED
    BY <2>1
<1>3. CASE BodySigpipe
  <2>1. Service!Lose
    BY <1>3 DEF RunInv, AnswerKnown, BodySigpipe, childSide, Service!Lose
  <2> QED
    BY <2>1
<1>4. CASE GetFinalResponse
  <2>1. Service!Answer
    BY <1>4 DEF RunInv, TypeOK, ServerType, ChildType, AnswerKnown, StatusKnown, GetFinalResponse,
       childSide, Service!Answer
  <2> QED
    BY <2>1
<1>5. CASE ReadFromCgi \/ TimedOut \/ StillRunning \/ Reaped \/ Abandoned \/ ClientLeaves
            \/ WriteBody \/ BodyWritten
  <2>1. UNCHANGED Service!cvars
    BY <1>5 DEF RunInv, AnswerKnown, ReadFromCgi, TimedOut, CloseCgi,
       StillRunning, Reaped, Abandoned, ClientLeaves, WriteBody, BodyWritten, childSide
  <2> QED
    BY <2>1
<1>6. CASE Destroy \/ Wait \/ WaitAgain \/ LastWait
  <2>1. UNCHANGED <<code, late, reply>>
    BY <1>6 DEF Destroy, CloseCgi, Wait, WaitAgain, LastWait, childSide
  <2>2. /\ pc \notin {"start", "done", "killed"}
        /\ pc' \notin {"start", "killed"}
    <3>1. CASE Destroy
      BY <3>1 DEF Destroy, CloseCgi
    <3>2. CASE Wait
      BY <3>2 DEF Wait, Look, Return
    <3>3. CASE WaitAgain
      BY <3>3 DEF WaitAgain, Look, Return
    <3>4. CASE LastWait
      BY <3>4 DEF LastWait, Look, Return
    <3> QED
      BY <1>6, <3>1, <3>2, <3>3, <3>4
  <2>3. CASE pc' = "done" /\ reply # "none"
    <3>1. Service!Release
      BY <2>1, <2>2, <2>3 DEF Service!Release
    <3> QED
      BY <3>1
  <2>4. CASE pc' = "done" /\ reply = "none"
    <3>1. Service!Abandon
      BY <2>1, <2>2, <2>4 DEF Service!Abandon
    <3> QED
      BY <3>1
  <2>5. CASE pc' # "done"
    <3>1. UNCHANGED Service!cvars
      BY <2>1, <2>2, <2>5
    <3> QED
      BY <3>1
  <2> QED
    BY <2>3, <2>4, <2>5
<1>7. CASE ChildExits \/ ChildDies
  <2>1. Service!ChildEnds
    BY <1>7 DEF RunInv, ChildKnown, ChildExits, ChildDies, ChildGone,
       serverSide, Service!ChildEnds
  <2> QED
    BY <2>1
<1>8. CASE TimePasses
  <2>1. Service!TimeUp
    BY <1>8 DEF RunInv, ChildKnown, TimePasses, serverSide, childSide,
       Service!TimeUp
  <2> QED
    BY <2>1
<1>9. CASE ChildReads \/ ChildClosesInput \/ ChildWrites \/ Ended
            \/ UNCHANGED vars
  <2>1. UNCHANGED Service!cvars
    BY <1>9 DEF ChildReads, ChildClosesInput, ChildWrites, Ended, vars,
       serverSide, childSide
  <2> QED
    BY <2>1
<1> QED
  BY <1>1, <1>2, <1>3, <1>4, <1>5, <1>6, <1>7, <1>8, <1>9
     DEF Next, Server, Turn, Child

(* Every run keeps the contract with its Response: at most one answer,     *)
(* which fits the child's real end and the clock.                          *)
THEOREM ImplementsContract == Spec => KeepsContract
<1>1. Init => Service!ContractInit
  BY DEF Init, Service!ContractInit
<1>2. RunInv /\ [Next]_vars => [Service!ContractNext]_(Service!cvars)
  BY ContractStep
<1> QED
  BY <1>1, <1>2, InvHolds, PTL DEF Spec, KeepsContract, Service!Contract
=============================================================================
