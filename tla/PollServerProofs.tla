-------------------------- MODULE PollServerProofs --------------------------
(* Proofs about PollServer, for every set of connections, children and     *)
(* descriptors, every bound and every behaviour of clients and children.   *)
EXTENDS PollServer, SequenceTheorems, TLAPS

USE IdentityAssumption, FdAssumption, KindAssumption, SignalAssumption,
    LengthAssumption

-----------------------------------------------------------------------------
(* The effects the handlers share keep the types of what they change.      *)

LEMMA NoUnits == <<>> \in Seq(Conn) /\ <<>> \in Seq(SUBSET Conn)
BY EmptySeq

LEMMA CloseAndArmType ==
    ASSUME KernelType, NEW K, NEW W, CloseAndArm(K, W)
    PROVE  KernelType'
BY DEF KernelType, CloseAndArm, NetStates

LEMMA ForgetType ==
    ASSUME ServerType, NEW T, NEW M, Forget(T, M)
    PROVE  ServerType'
BY DEF ServerType, Forget

LEMMA CloseClientType ==
    ASSUME KernelType, ServerType, NEW cl, NEW K, CloseClient(cl, K)
    PROVE  KernelType' /\ ServerType'
BY CloseAndArmType, ForgetType DEF CloseClient

LEMMA DeleteResponsesType ==
    ASSUME ManagerType, CgiType, NEW F, DeleteResponses(F)
    PROVE  /\ active' \in [Fd -> Cgi \cup {None}]
           /\ child' \in [Cgi -> ChildStates]
           /\ outFd' \in [Cgi -> Fd \cup {0}]
BY DEF ManagerType, CgiType, DeleteResponses, Reaping, ChildStates, Released

LEMMA ManagerCloseType ==
    ASSUME ManagerType, CgiType, NEW f, ManagerClose(f), UNCHANGED runTag
    PROVE  ManagerType' /\ CgiType'
<1>1. DeleteResponses({f})
  BY DEF ManagerClose
<1>2. buf' \in [Fd -> Seq(Conn)] /\ resp' \in [Fd -> Seq(SUBSET Conn)]
  BY NoUnits DEF ManagerClose, ManagerType
<1> QED
  BY <1>1, <1>2, DeleteResponsesType DEF ManagerType, CgiType

LEMMA ReplyType ==
    ASSUME NEW tags \in SUBSET Conn
    PROVE  Reply(tags) \in Seq(SUBSET Conn)
BY IsASeq DEF Reply

LEMMA BufferType ==
    ASSUME ManagerType, NEW f \in Fd, NEW c \in Conn, NEW n \in Nat
    PROVE  buf[f] \o [i \in 1..n |-> c] \in Seq(Conn)
<1>1. [i \in 1..n |-> c] \in Seq(Conn)
  BY IsASeq
<1> QED
  BY <1>1, ConcatProperties DEF ManagerType

LEMMA TagsType ==
    ASSUME NEW b \in Seq(Conn)
    PROVE  {b[i] : i \in DOMAIN b} \in SUBSET Conn
OBVIOUS

LEMMA HandleCgiOutputType ==
    ASSUME TypeOK, NEW k \in Fd, cgiToClient[k] # None, HandleCgiOutput(k)
    PROVE  /\ KernelType' /\ ServerType' /\ ManagerType' /\ CgiType'
           /\ unread' \in [Conn -> Nat]
<1> USE DEF TypeOK
<1>1. CASE OrphanPipe(k)
  BY <1>1, CloseAndArmType, ForgetType
     DEF OrphanPipe, ManagerType, CgiType, PeerType, managerVars, cgiVars
<1>2. CASE NoResponse(k)
  BY <1>2, CloseClientType
     DEF NoResponse, ManagerType, CgiType, PeerType, managerVars, cgiVars
<1>3. ASSUME NEW h \in Fd, IsLowest(h, Holders(k)),
             StillRunning(k, h) \/ Finished(k, h)
      PROVE  KernelType' /\ ServerType' /\ ManagerType' /\ CgiType'
             /\ unread' \in [Conn -> Nat]
  <2>1. active[h] \in Cgi
    BY <1>3 DEF IsLowest, Holders, ManagerType
  <2>2. Strangers(k, active[h]) \in SUBSET Conn
    BY <2>1 DEF Strangers, IsConn, KernelType, CgiType
  <2>3. runTag' = [runTag EXCEPT ![active[h]] = @ \cup Strangers(k, active[h])]
        /\ unread' = Drained(k)
    BY <1>3 DEF StillRunning, Finished
  <2>4. runTag' \in [Cgi -> SUBSET Conn] /\ unread' \in [Conn -> Nat]
    BY <2>1, <2>2, <2>3 DEF CgiType, PeerType, Drained
  <2>5. CASE StillRunning(k, h)
    BY <2>4, <2>5 DEF StillRunning, KernelType, ServerType, ManagerType,
       CgiType, kernelVars, serverVars, managerVars
  <2>6. CASE Finished(k, h)
    <3>1. Reply(runTag'[active[h]]) \in Seq(SUBSET Conn)
      BY <2>1, <2>4, ReplyType
    <3>2. KernelType' /\ ServerType'
      BY <2>6, CloseAndArmType, ForgetType DEF Finished
    <3>3. DeleteResponses({h})
      BY <2>6 DEF Finished
    <3>4. /\ buf' \in [Fd -> Seq(Conn)]
          /\ resp' \in [Fd -> Seq(SUBSET Conn)]
      BY <2>6, <3>1 DEF Finished, ManagerType
    <3> QED
      BY <2>4, <3>2, <3>3, <3>4, DeleteResponsesType DEF ManagerType, CgiType
  <2> QED
    BY <1>3, <2>5, <2>6
<1> QED
  BY <1>1, <1>2, <1>3 DEF HandleCgiOutput

-----------------------------------------------------------------------------
(* Reading and writing a client.                                           *)

LEMMA ReadType ==
    ASSUME TypeOK, NEW e \in Events, Read(e)
    PROVE  /\ KernelType' /\ ServerType' /\ ManagerType' /\ CgiType'
           /\ unread' \in [Conn -> Nat]
           /\ mode' \in {"up", "killed"}
<1> USE DEF TypeOK
<1>1. e.fd \in Fd /\ fdTable[e.fd] \in Conn /\ mode = "up"
  BY DEF Read, ClientEvent, Event, Readable, IsConn, Events
<1> DEFINE f == e.fd
           c == fdTable[f]
           body(n) == buf[f] \o [i \in 1..n |-> c]
<1>2. PICK n \in 1..unread[c] :
          /\ unread' = [unread EXCEPT ![c] = @ - n]
          /\ \/ Incomplete(f, body(n)) \/ BadHeader(f, body(n)) \/ BadBody(f, body(n))
             \/ AnswerNow(f, body(n)) \/ StartCgi(f, body(n))
             \/ BodyWriteKills(f, body(n))
  BY DEF Read
<1> DEFINE b == body(n)
           tags == {b[i] : i \in DOMAIN b}
<1>3. unread[c] \in Nat /\ n \in Nat
  BY <1>1, <1>2 DEF PeerType
<1>4. unread' \in [Conn -> Nat]
  BY <1>1, <1>2, <1>3 DEF PeerType
<1>5. b \in Seq(Conn) /\ tags \in SUBSET Conn
  <2>1. b \in Seq(Conn)
    BY <1>1, <1>3, BufferType
  <2> QED
    BY <2>1, TagsType
<1>6. Reply(tags) \in Seq(SUBSET Conn)
  BY <1>5, ReplyType
<1> HIDE DEF f, c, b, tags
<1>7. CASE Incomplete(f, b)
  BY <1>1, <1>4, <1>5, <1>7 DEF Incomplete, KernelType, ServerType, ManagerType,
     CgiType, kernelVars, serverVars, cgiVars
<1>8. CASE BadHeader(f, b) \/ BadBody(f, b) \/ AnswerNow(f, b)
  <2>1. KernelType'
    BY <1>8, CloseAndArmType DEF BadHeader, BadBody, AnswerNow
  <2>2. /\ buf' = [buf EXCEPT ![f] = b] \/ buf' = [buf EXCEPT ![f] = <<>>]
        /\ resp' = [resp EXCEPT ![f] = Reply(tags)]
    BY <1>8 DEF BadHeader, BadBody, AnswerNow, tags
  <2>3. buf' \in [Fd -> Seq(Conn)]
    BY <1>5, <2>2, NoUnits DEF ManagerType
  <2>4. resp' \in [Fd -> Seq(SUBSET Conn)]
    BY <1>6, <2>2 DEF ManagerType
  <2> QED
    BY <1>1, <1>4, <1>8, <2>1, <2>3, <2>4 DEF BadHeader, BadBody, AnswerNow, ServerType,
       ManagerType, CgiType, serverVars, cgiVars
<1>9. CASE StartCgi(f, b)
  <2>1. f \in Fd
    BY <1>1 DEF f
  <2>2. PICK r \in Cgi, k \in FreeFds :
          /\ child' = [child EXCEPT ![r] = "running"]
          /\ outFd' = [outFd EXCEPT ![r] = k]
          /\ runTag' = [runTag EXCEPT ![r] = tags]
          /\ active' = [active EXCEPT ![f] = r]
          /\ fdTable' = [fdTable EXCEPT ![k] = r]
          /\ interest' = [interest EXCEPT ![k] = "in"]
          /\ fdTypes' = [fdTypes EXCEPT ![k] = "CGI"]
          /\ cgiToClient' = [cgiToClient EXCEPT ![k] = f]
    BY <1>9 DEF StartCgi, tags
  <2>3. k \in Fd
    BY DEF FreeFds
  <2>4. KernelType' /\ ServerType'
    BY <1>9, <2>1, <2>2, <2>3 DEF StartCgi, KernelType, ServerType
  <2>5. ManagerType'
    BY <1>5, <1>9, <2>1, <2>2 DEF StartCgi, ManagerType
  <2>6. CgiType'
    BY <1>5, <2>2, <2>3 DEF CgiType, ChildStates, Live
  <2> QED
    BY <1>1, <1>4, <1>9, <2>4, <2>5, <2>6 DEF StartCgi
<1>10. CASE BodyWriteKills(f, b)
  BY <1>4, <1>10 DEF BodyWriteKills, KernelType, ServerType, ManagerType,
     CgiType, kernelVars, serverVars, managerVars, cgiVars
<1> QED
  BY <1>2, <1>7, <1>8, <1>9, <1>10 DEF b

LEMMA HeardType ==
    ASSUME TypeOK, NEW f \in Fd, NEW c \in Conn,
           NEW n \in 1..Len(resp[f]), Heard(c, f, n)
    PROVE  heard' \in [Conn -> SUBSET Conn]
<1>1. resp[f] \in Seq(SUBSET Conn)
  BY DEF TypeOK, ManagerType
<1>2. \A i \in 1..n : resp[f][i] \in SUBSET Conn
  BY <1>1, ElementOfSeq
<1> QED
  BY <1>2 DEF Heard, TypeOK, PeerType

LEMMA WriteType ==
    ASSUME TypeOK, NEW e \in Events, WriteSome(e) \/ WriteAll(e)
    PROVE  KernelType' /\ ManagerType' /\ PeerType'
<1> USE DEF TypeOK
<1> DEFINE f == e.fd
           c == fdTable[f]
<1>1. f \in Fd /\ c \in Conn /\ resp[f] \in Seq(SUBSET Conn) /\ resp[f] # <<>>
  BY DEF WriteSome, WriteAll, ClientEvent, Event, Writable, IsConn, Events,
     ManagerType
<1>2. Len(resp[f]) \in Nat \ {0}
  BY <1>1, EmptySeq
<1> HIDE DEF f, c
<1>3. CASE WriteSome(e)
  <2>1. PICK n \in 1..(Len(resp[f]) - 1) :
          /\ resp' = [resp EXCEPT ![f] = SubSeq(@, n + 1, Len(@))]
          /\ Heard(c, f, n)
          /\ rcvd' = [rcvd EXCEPT ![c] = @ + n]
    BY <1>3 DEF WriteSome, f, c
  <2>2. n \in 1..Len(resp[f]) /\ n \in Nat
    BY <1>2, <2>1
  <2>3. heard' \in [Conn -> SUBSET Conn]
    BY <1>1, <2>1, <2>2, HeardType
  <2>4. SubSeq(resp[f], n + 1, Len(resp[f])) \in Seq(SUBSET Conn)
    BY <1>1, <2>2
  <2>5. rcvd' \in [Conn -> Nat]
    BY <1>1, <2>1, <2>2 DEF PeerType
  <2>6. resp' \in [Fd -> Seq(SUBSET Conn)]
    BY <2>1, <2>4 DEF ManagerType
  <2> QED
    BY <1>3, <2>3, <2>5, <2>6 DEF WriteSome, KernelType, ManagerType, PeerType,
       kernelVars
<1>4. CASE WriteAll(e)
  <2>1. /\ resp' = [resp EXCEPT ![f] = <<>>]
        /\ buf' = [buf EXCEPT ![f] = <<>>]
        /\ interest' = [interest EXCEPT ![f] = "in"]
        /\ Heard(c, f, Len(resp[f]))
        /\ rcvd' = [rcvd EXCEPT ![c] = 0]
        /\ sent' = [sent EXCEPT ![c] = 0]
        /\ left' = [left EXCEPT ![c] = IF @ = 0 THEN 0 ELSE @ - 1]
        /\ UNCHANGED <<fdTable, net, active, kind, unread>>
    BY <1>4 DEF WriteAll, f, c
  <2>2. heard' \in [Conn -> SUBSET Conn]
    BY <1>1, <1>2, <2>1, HeardType
  <2>3. KernelType'
    BY <2>1 DEF KernelType
  <2>4. ManagerType'
    BY <2>1, NoUnits DEF ManagerType
  <2>5. left' \in [Conn -> 0..MaxRequests]
    BY <1>1, <2>1 DEF PeerType
  <2> QED
    BY <1>1, <2>1, <2>2, <2>3, <2>4, <2>5 DEF PeerType
<1> QED
  BY <1>3, <1>4

-----------------------------------------------------------------------------
(* Type correctness.                                                       *)

LEMMA InitType == Init => TypeOK
<1> SUFFICES ASSUME Init PROVE TypeOK
  OBVIOUS
<1>1. KernelType /\ ServerType /\ CgiType
  BY DEF Init, KernelType, ServerType, CgiType, NetStates, ChildStates
<1>2. ManagerType
  BY NoUnits DEF Init, ManagerType
<1>3. PeerType
  BY DEF Init, PeerType
<1>4. LoopType
  BY DEF Init, LoopType
<1> QED
  BY <1>1, <1>2, <1>3, <1>4 DEF TypeOK

LEMMA EnvironmentType == TypeOK /\ Environment => TypeOK'
<1> SUFFICES ASSUME TypeOK, Environment PROVE TypeOK'
  OBVIOUS
<1> USE DEF TypeOK, kernelVars, serverVars, managerVars, cgiVars, peerVars,
            loopVars, KernelType, ServerType, ManagerType, CgiType, LoopType
<1>1. ASSUME NEW c \in Conn, Connect(c) PROVE TypeOK'
  <2>1. PICK q \in Kinds : kind' = [kind EXCEPT ![c] = q]
    BY <1>1 DEF Connect
  <2>2. PeerType'
    BY <1>1, <2>1 DEF Connect, PeerType
  <2>3. KernelType'
    BY <1>1 DEF Connect, NetStates
  <2> QED
    BY <1>1, <2>2, <2>3 DEF Connect
<1>2. ASSUME NEW c \in Conn, SendUnit(c) PROVE TypeOK'
  <2>1. sent' \in [Conn -> 0..(ReqLen + Extra)] /\ unread' \in [Conn -> Nat]
    BY <1>2 DEF SendUnit, PeerType
  <2> QED
    BY <1>2, <2>1 DEF SendUnit, PeerType
<1>3. ASSUME NEW c \in Conn, Leave(c) PROVE TypeOK'
  BY <1>3, SMTT(30) DEF Leave, PeerType, NetStates
<1>4. ASSUME NEW r \in Cgi, ChildOver(r) PROVE TypeOK'
  BY <1>4 DEF ChildOver, PeerType, ChildStates, Live
<1>5. CASE SignalArrives
  BY <1>5 DEF SignalArrives, PeerType
<1> QED
  BY <1>1, <1>2, <1>3, <1>4, <1>5 DEF Environment

(* What a handler of one event leaves to be shown: its own variables.      *)
LEMMA HandledType ==
    ASSUME TypeOK, NEW e, Handled(e), mode' \in {"up", "crashed", "killed"}
    PROVE  LoopType'
BY DEF TypeOK, LoopType, Handled

LEMMA EventType ==
    ASSUME TypeOK, NEW e \in batch, HandleEvent(e)
    PROVE  TypeOK'
<1> USE DEF TypeOK
<1>1. e \in Events
  BY DEF LoopType
<1>2. CASE Accept(e)
  <2>1. LoopType'
    BY <1>2, HandledType DEF Accept, Event
  <2>2. PICK f \in Fd, c \in Conn :
          /\ fdTable' = [fdTable EXCEPT ![f] = c]
          /\ interest' = [interest EXCEPT ![f] = "in"]
          /\ net' = [net EXCEPT ![c] = "up"]
          /\ fdTypes' = [fdTypes EXCEPT ![f] = "CLIENT"]
    BY <1>2 DEF Accept, FreeFds
  <2>3. KernelType' /\ ServerType'
    BY <1>2, <2>2 DEF Accept, KernelType, ServerType, NetStates
  <2> QED
    BY <1>2, <2>1, <2>3 DEF Accept, ManagerType, CgiType, PeerType,
       managerVars, cgiVars, peerVars
<1>3. CASE AcceptDrops(e) \/ AcceptFails(e)
  <2>1. LoopType'
    BY <1>3, HandledType DEF AcceptDrops, AcceptFails, Event
  <2>2. KernelType'
    BY <1>3 DEF AcceptDrops, AcceptFails, KernelType, NetStates, kernelVars
  <2> QED
    BY <1>3, <2>1, <2>2 DEF AcceptDrops, AcceptFails, ServerType, ManagerType,
       CgiType, PeerType, kernelVars, serverVars, managerVars, cgiVars, peerVars
<1>4. CASE UnknownFd(e)
  <2>1. LoopType'
    BY <1>4, HandledType DEF UnknownFd, Event
  <2> QED
    BY <1>4, <2>1, CloseAndArmType DEF UnknownFd, ServerType, ManagerType,
       CgiType, PeerType, serverVars, managerVars, cgiVars, peerVars
<1>5. CASE PipeEvent(e)
  <2>1. LoopType' /\ e.fd \in Fd
    BY <1>1, <1>5, HandledType DEF PipeEvent, Event, Events
  <2>2. KernelType' /\ ServerType' /\ ManagerType' /\ CgiType'
        /\ unread' \in [Conn -> Nat]
    <3>1. CASE cgiToClient[e.fd] # None /\ HandleCgiOutput(e.fd)
      BY <2>1, <3>1, HandleCgiOutputType
    <3>2. CASE /\ CloseAndArm({e.fd}, {}) /\ Forget({e.fd}, {})
               /\ UNCHANGED <<managerVars, cgiVars, unread>>
      BY <3>2, CloseAndArmType, ForgetType DEF ManagerType, CgiType, PeerType,
         managerVars, cgiVars
    <3>3. CASE UNCHANGED <<kernelVars, serverVars, managerVars, cgiVars, unread>>
      BY <3>3 DEF KernelType, ServerType, ManagerType, CgiType, PeerType,
         kernelVars, serverVars, managerVars, cgiVars
    <3> QED
      BY <1>5, <3>1, <3>2, <3>3 DEF PipeEvent
  <2> QED
    BY <1>5, <2>1, <2>2 DEF PipeEvent, SameExchange, PeerType
<1>6. CASE HangUpReading(e) \/ ReadFails(e)
  <2>1. LoopType'
    BY <1>6, HandledType DEF HangUpReading, ReadFails, ClientEvent, Event
  <2>2. KernelType' /\ ServerType'
    BY <1>6, CloseClientType DEF HangUpReading, ReadFails
  <2> QED
    BY <1>6, <2>1, <2>2 DEF HangUpReading, ReadFails, ManagerType, CgiType,
       PeerType, managerVars, cgiVars, peerVars
<1>7. CASE HangUpOtherwise(e) \/ WriteFails(e)
  <2>1. LoopType'
    BY <1>7, HandledType DEF HangUpOtherwise, WriteFails, ClientEvent, Event
  <2>2. KernelType' /\ ServerType'
    BY <1>7, CloseClientType DEF HangUpOtherwise, WriteFails
  <2>3. ManagerType' /\ CgiType'
    BY <1>7, ManagerCloseType DEF HangUpOtherwise, WriteFails
  <2> QED
    BY <1>7, <2>1, <2>2, <2>3 DEF HangUpOtherwise, WriteFails, PeerType, peerVars
<1>8. CASE Read(e)
  <2>1. LoopType'
    BY <1>1, <1>8, ReadType, HandledType DEF Read
  <2> QED
    BY <1>1, <1>8, <2>1, ReadType DEF Read, SameExchange, PeerType
<1>9. CASE WriteKills(e)
  <2>1. LoopType'
    BY <1>9, HandledType DEF WriteKills
  <2> QED
    BY <1>9, <2>1 DEF WriteKills, KernelType, ServerType, ManagerType,
       CgiType, PeerType, kernelVars, serverVars, managerVars, cgiVars, peerVars
<1>10. CASE WriteSome(e) \/ WriteAll(e)
  <2>1. LoopType'
    BY <1>10, HandledType DEF WriteSome, WriteAll, ClientEvent, Event
  <2>2. KernelType' /\ ManagerType' /\ PeerType'
    BY <1>1, <1>10, WriteType
  <2> QED
    BY <1>10, <2>1, <2>2 DEF WriteSome, WriteAll, ServerType, CgiType,
       serverVars, cgiVars
<1> QED
  BY <1>2, <1>3, <1>4, <1>5, <1>6, <1>7, <1>8, <1>9, <1>10 DEF HandleEvent

LEMMA GcType == TypeOK /\ (\E k \in Fd : GcSkip(k) \/ GcPoll(k)) => TypeOK'
<1> SUFFICES ASSUME TypeOK, NEW k \in Fd, GcSkip(k) \/ GcPoll(k) PROVE TypeOK'
  OBVIOUS
<1> USE DEF TypeOK
<1>1. cgiToClient[k] # None /\ Clobbered \in {"none", "eintr", "other"}
  BY DEF GcSkip, GcPoll, GcTurn, IsLowest, Mapped, Clobbered
<1>2. CASE GcSkip(k)
  BY <1>1, <1>2 DEF GcSkip, KernelType, ServerType, ManagerType, CgiType,
     PeerType, LoopType, kernelVars, serverVars, managerVars, cgiVars, peerVars
<1>3. CASE GcPoll(k)
  <2>1. LoopType'
    BY <1>1, <1>3 DEF GcPoll, LoopType
  <2> QED
    BY <1>1, <1>3, <2>1, HandleCgiOutputType DEF GcPoll, PeerType
<1> QED
  BY <1>2, <1>3

LEMMA EventInEvents ==
    ASSUME NEW f \in Fd \cup {0},
           NEW i \in BOOLEAN, NEW o \in BOOLEAN, NEW h \in BOOLEAN
    PROVE  [fd |-> f, in |-> i, out |-> o, hup |-> h] \in Events
BY DEF Events

LEMMA ServerStepType == TypeOK /\ Server => TypeOK'
<1> SUFFICES ASSUME TypeOK, Server PROVE TypeOK'
  OBVIOUS
<1> USE DEF TypeOK
<1>1. CASE EpollWait
  <2>1. ClientEvents \cup ListenEvent \in SUBSET Events
    <3>1. ASSUME NEW e \in ClientEvents PROVE e \in Events
      <4>1. PICK f \in Fd :
              e = [fd |-> f, in |-> interest[f] = "in",
                   out |-> interest[f] = "out", hup |-> Reset(fdTable[f])]
        BY DEF ClientEvents
      <4>2. /\ (interest[f] = "in") \in BOOLEAN
            /\ (interest[f] = "out") \in BOOLEAN
            /\ Reset(fdTable[f]) \in BOOLEAN
        BY DEF Reset
      <4> QED
        BY <4>1, <4>2, EventInEvents, Zenon
    <3>2. ASSUME NEW e \in ListenEvent PROVE e \in Events
      BY EventInEvents DEF ListenEvent
    <3> QED
      BY <3>1, <3>2
  <2>2. ASSUME NEW edge \in [Pipes -> {"quiet", "in", "hup", "inhup"}]
        PROVE  PipeEvents(edge) \in SUBSET Events
    <3>1. ASSUME NEW e \in PipeEvents(edge) PROVE e \in Events
      <4>1. PICK k \in Pipes :
              e = [fd |-> k, in |-> edge[k] # "hup", out |-> FALSE,
                   hup |-> edge[k] # "in"]
        BY DEF PipeEvents
      <4> QED
        BY <4>1, EventInEvents DEF Pipes
    <3> QED
      BY <3>1
  <2>3. LoopType'
    BY <1>1, <2>1, <2>2 DEF EpollWait, LoopType, Mapped
  <2> QED
    BY <1>1, <2>3 DEF EpollWait, KernelType, ServerType, ManagerType, CgiType,
       PeerType, kernelVars, serverVars, managerVars, cgiVars, peerVars
<1>2. CASE EpollInterrupted \/ NextRound \/ PollError
  BY <1>2 DEF EpollInterrupted, NextRound, PollError, RoundOver, KernelType,
     ServerType, ManagerType, CgiType, PeerType, LoopType, Mapped, kernelVars,
     serverVars, managerVars, cgiVars, peerVars, gcVars
<1>3. CASE GcDone
  <2>1. KernelType' /\ ServerType'
    BY <1>3, CloseAndArmType, ForgetType DEF GcDone
  <2> QED
    BY <1>3, <2>1 DEF GcDone, ManagerType, CgiType, PeerType, LoopType,
       managerVars, cgiVars, peerVars
<1>4. CASE Shutdown
  <2>1. KernelType' /\ ServerType'
    BY <1>4, CloseAndArmType, ForgetType DEF Shutdown
  <2>2. ManagerType' /\ CgiType'
    BY <1>4, DeleteResponsesType DEF Shutdown, ManagerType, CgiType
  <2> QED
    BY <1>4, <2>1, <2>2 DEF Shutdown, RoundOver, PeerType, LoopType, peerVars,
       gcVars
<1> QED
  BY <1>1, <1>2, <1>3, <1>4, EventType, GcType DEF Server

LEMMA StutterType == TypeOK /\ UNCHANGED vars => TypeOK'
BY DEF TypeOK, KernelType, ServerType, ManagerType, CgiType, PeerType, LoopType,
   vars, kernelVars, serverVars, managerVars, cgiVars, peerVars, loopVars

(* Every variable of the server keeps its type: no handler, whatever its   *)
(* interleaving with clients and children, leaves a map or a descriptor    *)
(* with a value the code does not give it.                                 *)
THEOREM TypeCorrect == Spec => []TypeOK
<1>1. Init => TypeOK
  BY InitType
<1>2. TypeOK /\ [Next]_vars => TypeOK'
  BY EnvironmentType, ServerStepType, StutterType DEF Next, Ended
<1> QED
  BY <1>1, <1>2, PTL DEF Spec

-----------------------------------------------------------------------------
(* Tracking: no socket is lost and no pipe leaked.  The invariant that is  *)
(* inductive is both together: that a pipe's number is the one its         *)
(* Response remembers is what makes deleting the Response close it, and    *)
(* a descriptor leaves _fd_types only in a step that closes it.            *)

Tracked == SocketsTracked /\ PipesTracked
TrackedInv == TypeOK /\ (mode = "up" => Tracked)

(* Closing: what is forgotten is closed, and so is the pipe of every child *)
(* whose Response is deleted.                                              *)
LEMMA ClosingKeepsTracked ==
    ASSUME TypeOK, Tracked, NEW K \in SUBSET Fd, NEW W, CloseAndArm(K, W),
           \A f \in Fd : f \in K \/ fdTypes'[f] = fdTypes[f],
           \A r \in Cgi : \/ outFd'[r] = outFd[r] /\ child'[r] = child[r]
                          \/ outFd[r] \in K \cup {0}
    PROVE  Tracked'
<1> USE DEF TypeOK, KernelType, ServerType, CgiType, IsConn
<1>1. \A f \in Fd : fdTable'[f] = IF f \in K THEN None ELSE fdTable[f]
  BY DEF CloseAndArm
<1>2. \A f \in Fd : f \notin K /\ interest[f] # "none" => interest'[f] # "none"
  BY DEF CloseAndArm
<1>3. \A c \in Conn : net'[c] = IF \E f \in K : fdTable[f] = c
                                THEN "down" ELSE net[c]
  BY DEF CloseAndArm
<1>4. \A f \in Fd : fdTable'[f] \in Conn \cup Cgi
                       => f \notin K /\ fdTable'[f] = fdTable[f]
  BY <1>1
<1>5. SocketsTracked'
  <2>1. \A f \in Fd : IsConn(f)' => fdTypes'[f] = "CLIENT" /\ interest'[f] # "none"
    BY <1>2, <1>4 DEF Tracked, SocketsTracked
  <2>2. ASSUME NEW f \in Fd, NEW g \in Fd, IsConn(f)', fdTable'[f] = fdTable'[g]
        PROVE  f = g
    <3>1. fdTable'[f] \in Conn /\ fdTable'[g] \in Conn
      BY <2>2
    <3>2. fdTable[f] = fdTable[g] /\ fdTable[f] \in Conn
      BY <1>4, <2>2, <3>1
    <3> QED
      BY <3>2 DEF Tracked, SocketsTracked
  <2>3. ASSUME NEW c \in Conn
        PROVE  Attached(c)' <=> \E f \in Fd : fdTable'[f] = c
    <3>1. Attached(c) <=> \E f \in Fd : fdTable[f] = c
      BY DEF Tracked, SocketsTracked
    <3>2. \A f, g \in Fd : fdTable[f] = c /\ fdTable[g] = c => f = g
      BY DEF Tracked, SocketsTracked
    <3>3. CASE \E f \in K : fdTable[f] = c
      <4>1. ~Attached(c)'
        BY <1>3, <3>3 DEF Attached
      <4>2. ~ \E f \in Fd : fdTable'[f] = c
        BY <1>4, <3>2, <3>3
      <4> QED
        BY <4>1, <4>2
    <3>4. CASE ~ \E f \in K : fdTable[f] = c
      <4>1. Attached(c)' <=> Attached(c)
        BY <1>3, <3>4 DEF Attached
      <4>2. \A f \in Fd : fdTable'[f] = c <=> fdTable[f] = c
        BY <1>1, <1>4, <3>4
      <4> QED
        BY <3>1, <4>1, <4>2
    <3> QED
      BY <3>3, <3>4
  <2> QED
    BY <2>1, <2>2, <2>3 DEF SocketsTracked
<1>6. PipesTracked'
  <2> SUFFICES ASSUME NEW f \in Fd, fdTable'[f] \in Cgi
               PROVE  /\ fdTypes'[f] = "CGI" /\ outFd'[fdTable'[f]] = f
                      /\ child'[fdTable'[f]] \in Live
    BY DEF PipesTracked
  <2>1. /\ f \notin K /\ fdTable'[f] = fdTable[f] /\ outFd[fdTable[f]] = f
        /\ fdTypes[f] = "CGI" /\ child[fdTable[f]] \in Live
    BY <1>4 DEF Tracked, PipesTracked
  <2> QED
    BY <2>1
<1> QED
  BY <1>5, <1>6 DEF Tracked

(* A step that opens and closes nothing.                                   *)
LEMMA QuietKeepsTracked ==
    ASSUME TypeOK, Tracked, UNCHANGED <<fdTable, fdTypes, outFd>>,
           \A f \in Fd : interest'[f] = interest[f] \/ interest'[f] # "none",
           \A c \in Conn : Attached(c)' <=> Attached(c),
           \A r \in Cgi : child'[r] = child[r] \/ child'[r] \in Live
    PROVE  Tracked'
BY DEF TypeOK, Tracked, SocketsTracked, PipesTracked, IsConn

LEMMA EnvironmentTracked ==
    ASSUME TypeOK, Tracked, Environment PROVE Tracked'
<1> USE DEF TypeOK, KernelType, CgiType, serverVars, cgiVars, kernelVars
<1>1. ASSUME NEW c \in Conn, Connect(c) PROVE Tracked'
  BY <1>1, QuietKeepsTracked DEF Connect, Attached
<1>2. ASSUME NEW c \in Conn, SendUnit(c) PROVE Tracked'
  BY <1>2, QuietKeepsTracked DEF SendUnit, Attached
<1>3. ASSUME NEW c \in Conn, Leave(c) PROVE Tracked'
  BY <1>3, QuietKeepsTracked DEF Leave, Attached
<1>4. ASSUME NEW r \in Cgi, ChildOver(r) PROVE Tracked'
  BY <1>4, QuietKeepsTracked DEF ChildOver, Attached, Live
<1>5. CASE SignalArrives
  BY <1>5, QuietKeepsTracked DEF SignalArrives, Attached
<1> QED
  BY <1>1, <1>2, <1>3, <1>4, <1>5 DEF Environment

(* Deleting Responses and closing the pipes they remember go together.     *)
LEMMA DeletedPipesClosed ==
    ASSUME TypeOK, NEW F \in SUBSET Fd, NEW K, DeleteResponses(F), PipesOf(F) \subseteq K
    PROVE  \A r \in Cgi : \/ outFd'[r] = outFd[r] /\ child'[r] = child[r]
                          \/ outFd[r] \in K \cup {0}
BY DEF DeleteResponses, Reaping, Unkilled, PipesOf, TypeOK, CgiType

LEMMA CloseClientTracked ==
    ASSUME TypeOK, Tracked, NEW cl \in Fd, NEW K \in SUBSET Fd, CloseClient(cl, K),
           \A r \in Cgi : \/ outFd'[r] = outFd[r] /\ child'[r] = child[r]
                          \/ outFd[r] \in K \cup {0}
    PROVE  Tracked'
<1> DEFINE closed == K \cup {cl} \cup CgisOf(cl)
<1>1. CloseAndArm(closed, {}) /\ Forget({cl} \cup CgisOf(cl), CgisOf(cl))
  BY DEF CloseClient
<1>2. \A f \in Fd : f \in closed \/ fdTypes'[f] = fdTypes[f]
  BY <1>1 DEF Forget
<1>3. \A r \in Cgi : \/ outFd'[r] = outFd[r] /\ child'[r] = child[r]
                     \/ outFd[r] \in closed \cup {0}
  OBVIOUS
<1>4. closed \in SUBSET Fd
  BY DEF CgisOf
<1> HIDE DEF closed
<1> QED
  BY <1>1, <1>2, <1>3, <1>4, ClosingKeepsTracked

LEMMA HandleCgiOutputTracked ==
    ASSUME TypeOK, Tracked, NEW k \in Fd, cgiToClient[k] # None, HandleCgiOutput(k)
    PROVE  Tracked'
<1>1. cgiToClient[k] \in Fd
  BY DEF TypeOK, ServerType
<1>2. CASE OrphanPipe(k)
  <2>1. CloseAndArm({k}, {}) /\ Forget({k}, {k}) /\ UNCHANGED cgiVars
    BY <1>2 DEF OrphanPipe
  <2> QED
    BY <2>1, ClosingKeepsTracked DEF Forget, cgiVars
<1>3. CASE NoResponse(k)
  BY <1>1, <1>3, CloseClientTracked DEF NoResponse, cgiVars
<1>4. ASSUME NEW h \in Fd, StillRunning(k, h) PROVE Tracked'
  BY <1>4, QuietKeepsTracked DEF StillRunning, kernelVars, serverVars, Attached
<1>5. ASSUME NEW h \in Fd, h \in Holders(k), Finished(k, h) PROVE Tracked'
  <2>1. /\ CloseAndArm({k}, {cgiToClient[k]}) /\ Forget({k}, {k})
        /\ DeleteResponses({h})
    BY <1>5 DEF Finished
  <2>2. PipesOf({h}) \subseteq {k}
    BY <1>5 DEF PipesOf, Runs, Holders
  <2> QED
    BY <2>1, <2>2, DeletedPipesClosed, ClosingKeepsTracked DEF Forget
<1> QED
  BY <1>2, <1>3, <1>4, <1>5 DEF HandleCgiOutput, IsLowest

LEMMA StartCgiTracked ==
    ASSUME TypeOK, Tracked, NEW f \in Fd, NEW b, StartCgi(f, b) PROVE Tracked'
<1>1. PICK r \in Cgi, k \in FreeFds :
        /\ child[r] = "none"
        /\ child' = [child EXCEPT ![r] = "running"]
        /\ outFd' = [outFd EXCEPT ![r] = k]
        /\ fdTable' = [fdTable EXCEPT ![k] = r]
        /\ interest' = [interest EXCEPT ![k] = "in"]
        /\ fdTypes' = [fdTypes EXCEPT ![k] = "CGI"]
  BY DEF StartCgi
<1>2. k \in Fd /\ fdTable[k] = None /\ UNCHANGED net
  BY DEF FreeFds, StartCgi
<1> USE DEF TypeOK, KernelType, ServerType, CgiType, Tracked
<1>3. \A g \in Fd : fdTable[g] # r
  BY <1>1 DEF PipesTracked, Live, Over
<1>4. SocketsTracked'
  BY <1>1, <1>2 DEF SocketsTracked, IsConn, Attached
<1>5. PipesTracked'
  BY <1>1, <1>2, <1>3 DEF PipesTracked, Live
<1> QED
  BY <1>4, <1>5

LEMMA EventTracked ==
    ASSUME TypeOK, Tracked, NEW e \in batch, HandleEvent(e), mode' = "up"
    PROVE  Tracked'
<1>1. e \in Events /\ (e.fd # 0 => e.fd \in Fd)
  BY DEF TypeOK, LoopType, Events
<1>2. CASE Accept(e)
  <2>1. PICK f \in FreeFds, c \in Conn :
          /\ net[c] = "queued"
          /\ fdTable' = [fdTable EXCEPT ![f] = c]
          /\ interest' = [interest EXCEPT ![f] = "in"]
          /\ net' = [net EXCEPT ![c] = "up"]
          /\ fdTypes' = [fdTypes EXCEPT ![f] = "CLIENT"]
    BY <1>2 DEF Accept
  <2>2. f \in Fd /\ fdTable[f] = None /\ UNCHANGED <<outFd, child>>
    BY <1>2 DEF FreeFds, Accept, cgiVars
  <2> USE DEF TypeOK, KernelType, ServerType, CgiType, Tracked
  <2>3. \A g \in Fd : fdTable[g] # c
    BY <2>1 DEF SocketsTracked, Attached
  <2>4. SocketsTracked'
    BY <2>1, <2>2, <2>3 DEF SocketsTracked, IsConn, Attached
  <2>5. PipesTracked'
    <3>1. c \notin Cgi /\ f \in Fd
      BY <2>2, IdentityAssumption
    <3>2. /\ \A g \in Fd : fdTable'[g] \in Cgi => fdTable'[g] = fdTable[g] /\ g # f
          /\ \A g \in Fd \ {f} : fdTypes'[g] = fdTypes[g]
      <4> SUFFICES ASSUME NEW g \in Fd
                   PROVE  IF g = f THEN fdTable'[g] = c
                          ELSE fdTable'[g] = fdTable[g] /\ fdTypes'[g] = fdTypes[g]
        BY <3>1
      <4> QED
        BY <2>1
    <3>3. UNCHANGED <<outFd, child>>
      BY <2>2
    <3> QED
      BY <3>2, <3>3, Zenon DEF PipesTracked
  <2> QED
    BY <2>4, <2>5
<1>3. CASE AcceptDrops(e) \/ AcceptFails(e)
  BY <1>3, QuietKeepsTracked DEF AcceptDrops, AcceptFails, kernelVars, serverVars,
     cgiVars, Attached, TypeOK, KernelType
<1>4. CASE UnknownFd(e)
  BY <1>1, <1>4, ClosingKeepsTracked DEF UnknownFd, serverVars, cgiVars
<1>5. CASE PipeEvent(e)
  <2>1. CASE cgiToClient[e.fd] # None /\ HandleCgiOutput(e.fd)
    BY <1>1, <1>5, <2>1, HandleCgiOutputTracked DEF PipeEvent
  <2>2. CASE /\ CloseAndArm({e.fd}, {}) /\ Forget({e.fd}, {})
             /\ UNCHANGED <<managerVars, cgiVars, unread>>
    BY <1>1, <1>5, <2>2, ClosingKeepsTracked DEF PipeEvent, Forget, cgiVars
  <2>3. CASE UNCHANGED <<kernelVars, serverVars, managerVars, cgiVars, unread>>
    BY <2>3, QuietKeepsTracked DEF kernelVars, serverVars, cgiVars, Attached
  <2> QED
    BY <1>5, <2>1, <2>2, <2>3 DEF PipeEvent
<1>6. CASE HangUpReading(e) \/ ReadFails(e)
  BY <1>1, <1>6, CloseClientTracked DEF HangUpReading, ReadFails, ClientEvent,
     cgiVars
<1>7. CASE HangUpOtherwise(e) \/ WriteFails(e)
  <2>1. /\ CloseClient(e.fd, PipesOf({e.fd})) /\ DeleteResponses({e.fd})
        /\ e.fd \in Fd
    BY <1>1, <1>7 DEF HangUpOtherwise, WriteFails, ClientEvent, ManagerClose
  <2>2. PipesOf({e.fd}) \in SUBSET Fd
    BY <2>1 DEF PipesOf, Runs, TypeOK, CgiType, ManagerType
  <2> QED
    BY <2>1, <2>2, DeletedPipesClosed, CloseClientTracked
<1>8. CASE Read(e)
  <2>1. e.fd \in Fd
    BY <1>1, <1>8 DEF Read, ClientEvent
  <2>2. PICK b : \/ Incomplete(e.fd, b) \/ BadHeader(e.fd, b) \/ BadBody(e.fd, b)
                 \/ AnswerNow(e.fd, b) \/ StartCgi(e.fd, b)
                 \/ BodyWriteKills(e.fd, b)
    BY <1>8 DEF Read
  <2>3. CASE Incomplete(e.fd, b)
    BY <2>3, QuietKeepsTracked DEF Incomplete, kernelVars, serverVars, cgiVars,
       Attached
  <2>4. CASE BadHeader(e.fd, b) \/ BadBody(e.fd, b) \/ AnswerNow(e.fd, b)
    BY <2>4, ClosingKeepsTracked DEF BadHeader, BadBody, AnswerNow, serverVars, cgiVars
  <2> QED
    BY <2>1, <2>2, <2>3, <2>4, StartCgiTracked DEF BodyWriteKills
<1>9. CASE WriteKills(e)
  BY <1>9 DEF WriteKills
<1>10. CASE WriteSome(e) \/ WriteAll(e)
  <2>1. UNCHANGED <<fdTable, fdTypes, outFd, child, net>>
    BY <1>10 DEF WriteSome, WriteAll, kernelVars, serverVars, cgiVars
  <2>2. \E x \in {"in", "out"} : interest' = [interest EXCEPT ![e.fd] = x]
    BY <1>10 DEF WriteSome, WriteAll
  <2> QED
    BY <2>1, <2>2, QuietKeepsTracked DEF Attached, TypeOK, KernelType
<1> QED
  BY <1>2, <1>3, <1>4, <1>5, <1>6, <1>7, <1>8, <1>9, <1>10 DEF HandleEvent

LEMMA ServerTracked ==
    ASSUME TypeOK, Tracked, Server, mode' = "up" PROVE Tracked'
<1>1. CASE EpollWait \/ EpollInterrupted \/ NextRound \/ PollError
  BY <1>1, QuietKeepsTracked DEF EpollWait, EpollInterrupted, NextRound,
     PollError, kernelVars, serverVars, cgiVars, Attached
<1>2. ASSUME NEW k \in Fd, GcSkip(k) PROVE Tracked'
  BY <1>2, QuietKeepsTracked DEF GcSkip, kernelVars, serverVars, cgiVars,
     Attached
<1>3. ASSUME NEW k \in Fd, GcPoll(k) PROVE Tracked'
  BY <1>3, HandleCgiOutputTracked DEF GcPoll, GcTurn, IsLowest, Mapped
<1>4. CASE GcDone
  <2>1. PICK W : CloseAndArm({}, W)
    BY <1>4 DEF GcDone
  <2>2. UNCHANGED <<outFd, child>> /\ \A f \in Fd : fdTypes'[f] = fdTypes[f]
    BY <1>4 DEF GcDone, Forget, cgiVars
  <2> QED
    BY <2>1, <2>2, ClosingKeepsTracked
<1>5. CASE Shutdown
  BY <1>5 DEF Shutdown
<1> QED
  BY <1>1, <1>2, <1>3, <1>4, <1>5, EventTracked DEF Server

LEMMA TrackedStep == TrackedInv /\ [Next]_vars => TrackedInv'
<1> SUFFICES ASSUME TrackedInv, [Next]_vars PROVE TrackedInv'
  OBVIOUS
<1>1. TypeOK'
  BY EnvironmentType, ServerStepType, StutterType DEF Next, Ended, TrackedInv
<1>2. ASSUME mode' = "up" PROVE Tracked'
  <2>1. CASE UNCHANGED vars
    BY <1>2, <2>1 DEF TrackedInv, Tracked, SocketsTracked, PipesTracked, IsConn,
       Attached, vars, kernelVars, serverVars, cgiVars, loopVars
  <2>2. CASE Environment
    <3>1. mode = "up"
      BY <1>2, <2>2 DEF Environment, Connect, SendUnit, Leave, ChildOver,
         SignalArrives
    <3> QED
      BY <2>2, <3>1, EnvironmentTracked DEF TrackedInv
  <2>3. CASE Server
    <3>1. mode = "up"
      BY <2>3 DEF Server, EpollWait, EpollInterrupted, GcSkip, GcPoll, GcTurn,
         GcDone, NextRound, Shutdown, PollError, RoundOver, HandleEvent, Accept,
         AcceptDrops, AcceptFails, UnknownFd, PipeEvent, HangUpReading, HangUpOtherwise,
         ReadFails, Read, WriteFails, WriteKills, WriteSome, WriteAll,
         ClientEvent, Event
    <3> QED
      BY <1>2, <2>3, <3>1, ServerTracked DEF TrackedInv
  <2> QED
    BY <2>1, <2>2, <2>3 DEF Next, Ended
<1> QED
  BY <1>1, <1>2 DEF TrackedInv

LEMMA TrackedAlways == Spec => []TrackedInv
<1>1. Init => TrackedInv
  BY InitType DEF Init, TrackedInv, Tracked, SocketsTracked, PipesTracked,
     IsConn, Attached
<1> QED
  BY <1>1, TrackedStep, PTL DEF Spec

(* No handler strands a connection: while the server is up, every socket   *)
(* it holds has one descriptor, is tracked as a client and is armed.       *)
THEOREM NoSocketIsLost == Spec => []NoLostSocket
<1>1. TrackedInv => NoLostSocket
  BY DEF TrackedInv, Tracked, NoLostSocket
<1> QED
  BY <1>1, TrackedAlways, PTL

(* No handler leaks a pipe: while the server is up, an open CGI pipe is    *)
(* tracked and belongs to a child whose Response still names it.           *)
THEOREM NoPipeIsLeaked == Spec => []NoLeakedPipe
<1>1. TrackedInv => NoLeakedPipe
  BY DEF TrackedInv, Tracked, NoLeakedPipe
<1> QED
  BY <1>1, TrackedAlways, PTL
-----------------------------------------------------------------------------
(* The pass over the scripts and errno.  A script that was started stays   *)
(* one in the records (no child goes back to "none"), and a descriptor is  *)
(* mapped to a client only by starting one.                                *)
Started == \E r \in Cgi : child[r] # "none"
ScriptsKept ==
    /\ \A r \in Cgi : child[r] # "none" => child'[r] # "none"
    /\ \A k \in Fd : cgiToClient'[k] # None => cgiToClient[k] # None \/ Started'

LEMMA ScriptsUnchanged ==
    ASSUME UNCHANGED <<child, cgiToClient>> PROVE ScriptsKept
BY DEF ScriptsKept

LEMMA ScriptsClosed ==
    ASSUME TypeOK, NEW T, NEW M, Forget(T, M),
           \/ UNCHANGED child
           \/ \E F : DeleteResponses(F)
    PROVE  ScriptsKept
BY DEF ScriptsKept, Forget, DeleteResponses, Reaping, TypeOK, CgiType, ServerType

LEMMA HandleCgiOutputKeeps ==
    ASSUME TypeOK, NEW k \in Fd, HandleCgiOutput(k) PROVE ScriptsKept
<1>1. CASE OrphanPipe(k)
  BY <1>1, ScriptsClosed DEF OrphanPipe, cgiVars
<1>2. CASE NoResponse(k)
  BY <1>2, ScriptsClosed DEF NoResponse, CloseClient, cgiVars
<1>3. ASSUME NEW h \in Fd, StillRunning(k, h) PROVE ScriptsKept
  BY <1>3, ScriptsUnchanged DEF StillRunning, serverVars
<1>4. ASSUME NEW h \in Fd, Finished(k, h) PROVE ScriptsKept
  BY <1>4, ScriptsClosed DEF Finished
<1> QED
  BY <1>1, <1>2, <1>3, <1>4 DEF HandleCgiOutput

LEMMA EventKeeps ==
    ASSUME TypeOK, NEW e \in batch, HandleEvent(e) PROVE ScriptsKept
<1>1. e.fd \in Fd \cup {0}
  BY DEF TypeOK, LoopType, Events
<1>2. CASE Accept(e) \/ AcceptDrops(e) \/ AcceptFails(e) \/ UnknownFd(e) \/ WriteKills(e)
            \/ WriteSome(e) \/ WriteAll(e)
  BY <1>2, ScriptsUnchanged DEF Accept, AcceptDrops, AcceptFails, UnknownFd, WriteKills,
     WriteSome, WriteAll, serverVars, cgiVars
<1>3. CASE PipeEvent(e)
  <2>1. e.fd \in Fd
    BY <1>1, <1>3 DEF PipeEvent
  <2>2. CASE HandleCgiOutput(e.fd)
    BY <2>1, <2>2, HandleCgiOutputKeeps
  <2>3. CASE Forget({e.fd}, {}) /\ UNCHANGED child
    BY <2>3, ScriptsClosed
  <2>4. CASE UNCHANGED <<child, cgiToClient>>
    BY <2>4, ScriptsUnchanged
  <2> QED
    BY <1>3, <2>2, <2>3, <2>4 DEF PipeEvent, serverVars, cgiVars
<1>4. CASE HangUpReading(e) \/ ReadFails(e)
  BY <1>4, ScriptsClosed DEF HangUpReading, ReadFails, CloseClient, cgiVars
<1>5. CASE HangUpOtherwise(e) \/ WriteFails(e)
  BY <1>5, ScriptsClosed DEF HangUpOtherwise, WriteFails, CloseClient, ManagerClose
<1>6. CASE Read(e)
  <2>1. PICK b : \/ Incomplete(e.fd, b) \/ BadHeader(e.fd, b) \/ BadBody(e.fd, b)
                 \/ AnswerNow(e.fd, b) \/ StartCgi(e.fd, b)
                 \/ BodyWriteKills(e.fd, b)
    BY <1>6 DEF Read
  <2>2. CASE StartCgi(e.fd, b)
    <3>1. PICK r \in Cgi : child' = [child EXCEPT ![r] = "running"]
      BY <2>2 DEF StartCgi
    <3> QED
      BY <3>1 DEF ScriptsKept, Started, TypeOK, CgiType
  <2>3. CASE ~StartCgi(e.fd, b)
    BY <2>1, <2>3, ScriptsUnchanged DEF Incomplete, BadHeader, BadBody, AnswerNow,
       BodyWriteKills, serverVars, cgiVars
  <2> QED
    BY <2>2, <2>3
<1> QED
  BY <1>2, <1>3, <1>4, <1>5, <1>6 DEF HandleEvent

LEMMA NextKeeps == ASSUME TypeOK, [Next]_vars PROVE ScriptsKept
<1>1. CASE Environment
  BY <1>1 DEF Environment, Connect, SendUnit, Leave, ChildOver, SignalArrives,
     ScriptsKept, serverVars, cgiVars, TypeOK, CgiType, Over
<1>2. CASE EpollWait \/ EpollInterrupted \/ NextRound \/ PollError
            \/ (\E k \in Fd : GcSkip(k)) \/ UNCHANGED vars
  BY <1>2, ScriptsUnchanged DEF EpollWait, EpollInterrupted, NextRound, PollError,
     GcSkip, vars, serverVars, cgiVars
<1>3. CASE \E k \in Fd : GcPoll(k)
  BY <1>3, HandleCgiOutputKeeps DEF GcPoll
<1>4. CASE GcDone
  BY <1>4, ScriptsClosed DEF GcDone, cgiVars
<1>5. CASE Shutdown
  BY <1>5, ScriptsClosed DEF Shutdown
<1>6. CASE \E e \in batch : HandleEvent(e)
  BY <1>6, EventKeeps
<1> QED
  BY <1>1, <1>2, <1>3, <1>4, <1>5, <1>6 DEF Next, Server, Ended

(* errno is set only by an interrupted epoll_wait, and overwritten only by *)
(* the pass, which has something to do only once a script was started.     *)
ErrnoInv ==
    /\ Mapped # {} => Started
    /\ errno # "none" => sig
    /\ errno = "other" => Started
    /\ AbortsOnlyInterrupted

LEMMA ErrnoStep == ASSUME TypeOK, ErrnoInv, [Next]_vars PROVE ErrnoInv'
<1>1. (Started => Started') /\ (Mapped' # {} => Started')
  BY NextKeeps DEF ScriptsKept, ErrnoInv, Started, Mapped
<1>2. /\ sig => sig'
      /\ errno' # "none" => sig'
      /\ errno' = "other" => Started'
  <2>1. ASSUME UNCHANGED errno, sig' = sig \/ sig' = TRUE
        PROVE  /\ sig => sig'
               /\ errno' # "none" => sig'
               /\ errno' = "other" => Started'
    BY <1>1, <2>1 DEF ErrnoInv
  <2>2. CASE Environment
    BY <2>1, <2>2 DEF Environment, Connect, SendUnit, Leave, ChildOver,
       SignalArrives, loopVars
  <2>3. CASE EpollWait \/ EpollInterrupted
    BY <2>3 DEF EpollWait, EpollInterrupted
  <2>4. ASSUME NEW k \in Fd, GcSkip(k) \/ GcPoll(k)
        PROVE  /\ sig => sig'
               /\ errno' # "none" => sig'
               /\ errno' = "other" => Started'
    <3>1. Started
      BY <2>4 DEF ErrnoInv, GcSkip, GcPoll, GcTurn, IsLowest, Mapped
    <3> QED
      BY <1>1, <2>4, <3>1 DEF GcSkip, GcPoll, Clobbered, ErrnoInv
  <2>5. CASE GcDone \/ NextRound \/ Shutdown \/ PollError \/ UNCHANGED vars
    BY <2>1, <2>5 DEF GcDone, NextRound, Shutdown, PollError, vars, loopVars
  <2>6. ASSUME NEW e \in batch, HandleEvent(e)
        PROVE  Handled(e)
    BY <2>6 DEF HandleEvent, Accept, AcceptDrops, AcceptFails, UnknownFd, PipeEvent,
       HangUpReading, HangUpOtherwise, ReadFails, Read, WriteFails, WriteKills,
       WriteSome, WriteAll
  <2>7. CASE \E e \in batch : HandleEvent(e)
    BY <2>1, <2>6, <2>7 DEF Handled
  <2> QED
    BY <2>2, <2>3, <2>4, <2>5, <2>7 DEF Next, Server, Ended
<1>3. mode' = "aborted" => mode = "aborted" \/ errno = "other"
  <2>1. CASE Environment
    BY <2>1 DEF Environment, Connect, SendUnit, Leave, ChildOver, SignalArrives,
       loopVars
  <2>2. CASE EpollWait \/ EpollInterrupted \/ GcDone \/ NextRound \/ Shutdown
              \/ PollError \/ UNCHANGED vars
    BY <2>2 DEF EpollWait, EpollInterrupted, GcDone, NextRound, Shutdown,
       PollError, vars, loopVars
  <2>3. CASE \E k \in Fd : GcSkip(k) \/ GcPoll(k)
    BY <2>3 DEF GcSkip, GcPoll
  <2>4. ASSUME NEW e \in batch, HandleEvent(e)
        PROVE  UNCHANGED mode \/ mode' \in {"up", "killed"}
    <3>1. e \in Events
      BY DEF TypeOK, LoopType
    <3>2. CASE Read(e)
      BY <3>1, <3>2, ReadType
    <3>3. CASE ~Read(e)
      BY <2>4, <3>3 DEF HandleEvent, Accept, AcceptDrops, AcceptFails, UnknownFd, PipeEvent,
         HangUpReading, HangUpOtherwise, ReadFails, WriteFails, WriteKills,
         WriteSome, WriteAll
    <3> QED
      BY <3>2, <3>3
  <2> QED
    BY <2>1, <2>2, <2>3, <2>4 DEF Next, Server, Ended
<1>4. AbortsOnlyInterrupted'
  BY <1>1, <1>2, <1>3 DEF ErrnoInv, AbortsOnlyInterrupted, Started
<1> QED
  BY <1>1, <1>2, <1>4 DEF ErrnoInv

(* "Poll error" ends the server only after a signal, and only if a script  *)
(* was started before it (WaitAndService, processDisconnectOrTimeoutCgis). *)
THEOREM OnlySignalsAbort == Spec => []AbortsOnlyInterrupted
<1>1. Init => ErrnoInv
  BY DEF Init, ErrnoInv, AbortsOnlyInterrupted, Mapped
<1>2. ErrnoInv => AbortsOnlyInterrupted
  BY DEF ErrnoInv
<1> QED
  BY <1>1, <1>2, ErrnoStep, TypeCorrect, PTL DEF Spec
-----------------------------------------------------------------------------
(* Where no script is asked for, whatever clients do: they may send more   *)
(* than they announced and leave at any moment.                            *)

Scriptless == Kinds \cap {"cgi", "post"} = {}

Departed(c) == net[c] \in {"fin", "rst", "broken"}

-----------------------------------------------------------------------------
(* No descriptor has anything to do with a script, and one that waits for  *)
(* writability has something to write.                                     *)
NoScript(f) ==
    /\ fdTable[f] \notin Cgi /\ fdTypes[f] # "CGI"
    /\ cgiToClient[f] = None /\ active[f] = None
Armed(f) == interest[f] = "out" => resp[f] # <<>>

(* What an event reported is still so when its turn comes: nothing between *)
(* epoll_wait and the handler takes it back.                               *)
Fresh(e) ==
    /\ IsConn(e.fd)
    /\ e.in <=> interest[e.fd] = "in"
    /\ e.hup => Reset(fdTable[e.fd])
    /\ e.in => unread[fdTable[e.fd]] > 0 \/ Departed(fdTable[e.fd])
FreshBatch ==
    /\ \A e \in batch : e.fd # 0 => Fresh(e)
    /\ \A d, e \in batch : d.fd = e.fd => d = e

Clean == (\A f \in Fd : NoScript(f) /\ Armed(f)) /\ gcDone = {} /\ FreshBatch
CleanInv == TrackedInv /\ (mode = "up" => Clean)

(* No connection is closed that its peer still holds.                      *)
NoneClosed == \A c \in Conn : net[c] = "up" => net'[c] # "down"

-----------------------------------------------------------------------------
(* What a step leaves alone.                                               *)

SameEntry(g) ==
    /\ fdTable'[g] = fdTable[g] /\ interest'[g] = interest[g]
    /\ fdTypes'[g] = fdTypes[g] /\ cgiToClient'[g] = cgiToClient[g]
    /\ resp'[g] = resp[g] /\ active'[g] = active[g]

(* A peer that sends or leaves only adds to what an event can have said.   *)
Grows(c) ==
    /\ unread[c] > 0 => unread'[c] > 0
    /\ Departed(c) => Departed(c)'
    /\ Reset(c) => Reset(c)'
    /\ net[c] = "up" => net'[c] # "down"

LEMMA StaysFresh ==
    ASSUME NEW e, Fresh(e), SameEntry(e.fd), Grows(fdTable[e.fd]) PROVE Fresh(e)'
BY DEF Fresh, SameEntry, Grows, IsConn

(* Only the descriptors T and the clients S are touched.                   *)
LEMMA OthersClean ==
    ASSUME TypeOK, Clean, NEW T \in SUBSET Fd, NEW S \in SUBSET Conn,
           \A g \in Fd \ T : SameEntry(g) /\ fdTable[g] \notin S,
           \A d \in Conn \ S : Grows(d),
           batch' \subseteq batch, gcDone' = gcDone,
           \A e \in batch' : e.fd \notin T,
           \A g \in T : NoScript(g)' /\ Armed(g)',
           \A d \in S : net[d] = "up" => net'[d] # "down"
    PROVE  Clean' /\ NoneClosed
<1>1. \A g \in Fd : NoScript(g)' /\ Armed(g)'
  BY DEF Clean, NoScript, Armed, SameEntry
<1>2. ASSUME NEW e \in batch', e.fd # 0 PROVE Fresh(e)'
  <2>1. e.fd \in Fd \ T /\ Fresh(e)
    BY <1>2 DEF Clean, FreshBatch, TypeOK, LoopType, Events
  <2>2. SameEntry(e.fd) /\ Grows(fdTable[e.fd])
    BY <2>1 DEF Fresh, IsConn
  <2> QED
    BY <2>1, <2>2, StaysFresh
<1>3. NoneClosed
  BY DEF NoneClosed, Grows
<1> QED
  BY <1>1, <1>2, <1>3 DEF Clean, FreshBatch

(* The handler of an event deals with its descriptor and that one's client.*)
LEMMA EventClean ==
    ASSUME TypeOK, Tracked, Clean, NEW e \in batch, e.fd \in Fd, Handled(e),
           \A g \in Fd \ {e.fd} : SameEntry(g),
           \A d \in Conn \ {fdTable[e.fd]} : Grows(d),
           NoScript(e.fd)', Armed(e.fd)',
           net[fdTable[e.fd]] = "up" => net'[fdTable[e.fd]] # "down"
    PROVE  Clean' /\ NoneClosed
<1>1. Fresh(e)
  BY FdAssumption DEF Clean, FreshBatch
<1>2. \A g \in Fd \ {e.fd} : fdTable[g] # fdTable[e.fd]
  BY <1>1 DEF Tracked, SocketsTracked, Fresh
<1>3. \A d \in batch' : d \in batch /\ d.fd # e.fd
  BY DEF Handled, Clean, FreshBatch
<1>4. {e.fd} \in SUBSET Fd /\ {fdTable[e.fd]} \in SUBSET Conn
  BY <1>1 DEF Fresh, IsConn
<1>5. gcDone' = gcDone
  BY DEF Handled
<1>6. batch' \subseteq batch /\ \A d \in batch' : d.fd \notin {e.fd}
  BY <1>3
<1>7. \A g \in Fd \ {e.fd} : SameEntry(g) /\ fdTable[g] \notin {fdTable[e.fd]}
  BY <1>2
<1>8. /\ \A g \in {e.fd} : NoScript(g)' /\ Armed(g)'
      /\ \A d \in {fdTable[e.fd]} : net[d] = "up" => net'[d] # "down"
  OBVIOUS
<1> QED
  BY <1>4, <1>5, <1>6, <1>7, <1>8, OthersClean

(* Without scripts, closing a client closes its descriptor and no other,   *)
(* and deletes nothing.                                                    *)
LEMMA AloneFacts ==
    ASSUME Clean, NEW f \in Fd
    PROVE  CgisOf(f) = {} /\ Runs({f}) = {} /\ PipesOf({f}) = {}
<1>1. Runs({f}) = {}
  BY DEF Runs, Clean, NoScript
<1>2. CgisOf(f) = {}
  BY IdentityAssumption DEF CgisOf, Clean, NoScript
<1> QED
  BY <1>1, <1>2 DEF PipesOf

LEMMA ClosingClean ==
    ASSUME TypeOK, Tracked, Clean, NEW e \in batch, e.fd \in Fd, Handled(e),
           CloseClient(e.fd, {}), UNCHANGED unread,
           \/ UNCHANGED managerVars
           \/ ManagerClose(e.fd),
           Departed(fdTable[e.fd])
    PROVE  Clean' /\ NoneClosed
<1> DEFINE f == e.fd
<1>1. CgisOf(f) = {} /\ Runs({f}) = {}
  BY AloneFacts
<1>2. CloseAndArm({f}, {}) /\ Forget({f}, {})
  BY <1>1 DEF CloseClient
<1>3. /\ \A g \in Fd : /\ fdTable'[g] = IF g = f THEN None ELSE fdTable[g]
                       /\ interest'[g] = IF g = f THEN "none" ELSE interest[g]
                       /\ fdTypes'[g] = IF g = f THEN None ELSE fdTypes[g]
                       /\ cgiToClient'[g] = cgiToClient[g]
      /\ \A c \in Conn : net'[c] = IF fdTable[f] = c THEN "down" ELSE net[c]
  BY <1>2 DEF CloseAndArm, Forget
<1>4. \A g \in Fd : active'[g] = active[g] /\ (g # f => resp'[g] = resp[g])
  BY DEF managerVars, ManagerClose, DeleteResponses, TypeOK, ManagerType, Clean, NoScript
<1>5. \A g \in Fd \ {f} : SameEntry(g)
  BY <1>3, <1>4 DEF SameEntry
<1>6. \A d \in Conn \ {fdTable[f]} : Grows(d)
  BY <1>3, SMTT(30) DEF Grows, Departed, Reset
<1>7. NoScript(f)' /\ Armed(f)'
  <2>1. fdTable'[f] = None /\ interest'[f] = "none" /\ fdTypes'[f] = None
    BY <1>3
  <2>2. cgiToClient'[f] = cgiToClient[f] /\ active'[f] = active[f]
    BY <1>3, <1>4
  <2>3. NoScript(f)'
    BY <2>1, <2>2, IdentityAssumption DEF Clean, NoScript
  <2>4. Armed(f)'
    BY <2>1 DEF Armed
  <2> QED
    BY <2>3, <2>4
<1> QED
  BY <1>5, <1>6, <1>7, EventClean DEF Departed

(* A reply or the end of one: the client's descriptor turns.               *)
LEMMA TurningClean ==
    ASSUME TypeOK, Tracked, Clean, NEW e \in batch, e.fd \in Fd, Handled(e),
           UNCHANGED <<fdTable, net, fdTypes, cgiToClient, active>>,
           \A g \in Fd \ {e.fd} : interest'[g] = interest[g] /\ resp'[g] = resp[g],
           Armed(e.fd)',
           \A d \in Conn \ {fdTable[e.fd]} : unread'[d] = unread[d]
    PROVE  Clean' /\ NoneClosed
<1>1. \A g \in Fd \ {e.fd} : SameEntry(g)
  BY DEF SameEntry
<1>2. \A d \in Conn \ {fdTable[e.fd]} : Grows(d)
  BY DEF Grows, Departed, Reset
<1>3. NoScript(e.fd)'
  BY DEF Clean, NoScript
<1> QED
  BY <1>1, <1>2, <1>3, EventClean

-----------------------------------------------------------------------------
(* The handlers.                                                           *)

LEMMA FreshFacts ==
    ASSUME TypeOK, Tracked, Clean, NEW e \in batch, e.fd # 0
    PROVE  /\ e.fd \in Fd /\ Fresh(e) /\ fdTable[e.fd] \in Conn
           /\ fdTypes[e.fd] = "CLIENT" /\ Armed(e.fd)
           /\ ~e.in => interest[e.fd] = "out"
<1>1. e.fd \in Fd /\ Fresh(e)
  BY DEF TypeOK, LoopType, Events, Clean, FreshBatch
<1> QED
  BY <1>1, ZenonT(40) DEF Fresh, IsConn, Tracked, SocketsTracked, Clean, TypeOK, KernelType

LEMMA AcceptClean ==
    ASSUME TypeOK, Tracked, Clean, NEW e \in batch, Accept(e)
    PROVE  Clean' /\ NoneClosed
<1>1. PICK f \in FreeFds, c \in Conn :
        /\ net[c] = "queued"
        /\ fdTable' = [fdTable EXCEPT ![f] = c]
        /\ interest' = [interest EXCEPT ![f] = "in"]
        /\ net' = [net EXCEPT ![c] = "up"]
        /\ fdTypes' = [fdTypes EXCEPT ![f] = "CLIENT"]
  BY DEF Accept
<1>2. /\ f \in Fd /\ fdTable[f] = None /\ batch' \subseteq batch /\ gcDone' = gcDone
      /\ cgiToClient' = cgiToClient /\ resp' = resp /\ active' = active
      /\ unread' = unread
  BY DEF Accept, Handled, FreeFds, managerVars, peerVars
<1>3. \A g \in Fd \ {f} : SameEntry(g)
  BY <1>1, <1>2 DEF SameEntry, TypeOK, KernelType, ServerType
<1>4. \A g \in Fd : fdTable[g] # c
  BY <1>1 DEF Tracked, SocketsTracked, Attached
<1>5. \A d \in Conn \ {c} : Grows(d)
  BY <1>1, <1>2 DEF Grows, Departed, Reset, TypeOK, KernelType
<1>6. \A d \in batch' : d.fd # f
  BY <1>2, IdentityAssumption, FdAssumption DEF Clean, FreshBatch, Fresh, IsConn
<1>7. NoScript(f)' /\ Armed(f)'
  BY <1>1, <1>2, IdentityAssumption
     DEF Clean, NoScript, Armed, TypeOK, KernelType, ServerType
<1>8. {f} \in SUBSET Fd /\ {c} \in SUBSET Conn
  BY <1>2
<1>9. \A g \in Fd \ {f} : SameEntry(g) /\ fdTable[g] \notin {c}
  BY <1>3, <1>4
<1>10. \A d \in batch' : d.fd \notin {f}
  BY <1>6
<1>11. \A g \in {f} : NoScript(g)' /\ Armed(g)'
  BY <1>7
<1> QED
  BY <1>1, <1>2, <1>5, <1>8, <1>9, <1>10, <1>11, OthersClean, Zenon

LEMMA ReplyThere == ASSUME NEW tags PROVE Reply(tags) # <<>>
<1>1. 1 \in DOMAIN Reply(tags)
  BY LengthAssumption DEF Reply
<1>2. DOMAIN <<>> = {}
  OBVIOUS
<1> QED
  BY <1>1, <1>2

LEMMA ReadClean ==
    ASSUME TypeOK, Tracked, Clean, Scriptless, NEW e \in batch, Read(e)
    PROVE  Clean' /\ NoneClosed
<1> DEFINE f == e.fd
           c == fdTable[f]
<1>1. /\ f \in Fd /\ Fresh(e) /\ c \in Conn /\ e.fd # 0 /\ Armed(f)
      /\ Handled(e) /\ e.in
  BY FreshFacts DEF Read, ClientEvent
<1>2. PICK n \in 1..unread[c] :
        LET b == buf[f] \o [i \in 1..n |-> c] IN
        /\ unread' = [unread EXCEPT ![c] = @ - n]
        /\ \/ Incomplete(f, b) \/ BadHeader(f, b) \/ BadBody(f, b)
           \/ AnswerNow(f, b) \/ StartCgi(f, b) \/ BodyWriteKills(f, b)
  BY DEF Read
<1> DEFINE b == buf[f] \o [i \in 1..n |-> c]
<1>3. \A d \in Conn \ {c} : unread'[d] = unread[d]
  BY <1>2 DEF TypeOK, PeerType
<1>4. CASE Incomplete(f, b)
  BY <1>1, <1>3, <1>4, TurningClean
     DEF Incomplete, kernelVars, serverVars, Armed
<1>5. CASE BadHeader(f, b) \/ BadBody(f, b) \/ AnswerNow(f, b)
  <2>1. PICK tags :
          /\ resp' = [resp EXCEPT ![f] = Reply(tags)] /\ CloseAndArm({}, {f})
          /\ UNCHANGED <<fdTypes, cgiToClient, active>>
    BY <1>5 DEF BadHeader, BadBody, AnswerNow, serverVars
  <2>2. /\ UNCHANGED <<fdTable, net>>
        /\ \A g \in Fd \ {f} : interest'[g] = interest[g] /\ resp'[g] = resp[g]
    BY <2>1 DEF CloseAndArm, TypeOK, KernelType, ManagerType
  <2>3. Armed(f)'
    BY <1>1, <2>1, ReplyThere DEF Armed, TypeOK, ManagerType
  <2> QED
    BY <1>1, <1>3, <2>1, <2>2, <2>3, TurningClean
<1>6. ~StartCgi(f, b) /\ ~BodyWriteKills(f, b)
  <2>1. b \in Seq(Conn)
    <3>1. n \in Nat
      BY <1>1 DEF TypeOK, PeerType
    <3>2. ManagerType
      BY DEF TypeOK
    <3> QED
      BY <1>1, <3>1, <3>2, BufferType
  <2>2. Len(b) >= ReqLen => kind[b[1]] \in Kinds \cup {None}
    <3> HIDE DEF b
    <3> SUFFICES ASSUME Len(b) >= ReqLen PROVE b[1] \in Conn
      BY DEF TypeOK, PeerType
    <3>1. Len(b) \in Nat /\ 1 \in 1..Len(b)
      BY <2>1, LengthAssumption
    <3> QED
      BY <2>1, <3>1, ElementOfSeq
  <2> HIDE DEF b
  <2> QED
    BY <2>2, NoKindAssumption DEF StartCgi, BodyWriteKills, Scriptless, AllKinds
<1> HIDE DEF b
<1> QED
  BY <1>2, <1>4, <1>5, <1>6 DEF b

(* Every handler keeps the batch fresh, and closes a client only because   *)
(* it departed.                                                            *)
LEMMA EventStep ==
    ASSUME TypeOK, Tracked, Clean, Scriptless, NEW e \in batch, HandleEvent(e),
           mode' = "up"
    PROVE  Clean' /\ NoneClosed
<1> DEFINE f == e.fd
           c == fdTable[f]
<1>1. ASSUME e.fd # 0
      PROVE  /\ f \in Fd /\ Fresh(e) /\ c \in Conn /\ fdTypes[f] = "CLIENT"
             /\ Armed(f) /\ (~e.in => interest[f] = "out")
             /\ CgisOf(f) = {} /\ PipesOf({f}) = {}
  BY <1>1, FreshFacts, AloneFacts
<1>2. CASE Accept(e)
  BY <1>2, AcceptClean
<1>3. CASE AcceptDrops(e) \/ AcceptFails(e)
  <2>1. /\ batch' \subseteq batch /\ gcDone' = gcDone
        /\ \A g \in Fd : SameEntry(g)
    BY <1>3 DEF AcceptDrops, AcceptFails, Handled, SameEntry, kernelVars,
       serverVars, managerVars
  <2>2. \A d \in Conn : Grows(d)
    BY <1>3 DEF AcceptDrops, AcceptFails, Grows, Departed, Reset, kernelVars,
       peerVars, TypeOK, KernelType
  <2> QED
    BY <2>1, <2>2, OthersClean, {} \in SUBSET Fd, {} \in SUBSET Conn
<1>4. ~UnknownFd(e) /\ ~PipeEvent(e)
  BY <1>1, IdentityAssumption DEF UnknownFd, PipeEvent
<1>5. CASE HangUpReading(e)
  <2>1. /\ e.fd # 0 /\ e.hup /\ CloseClient(f, {}) /\ Handled(e)
        /\ UNCHANGED managerVars /\ UNCHANGED unread
    BY <1>5 DEF HangUpReading, ClientEvent, peerVars
  <2> QED
    BY <1>1, <2>1, ClosingClean DEF Fresh, Reset, Departed
<1>6. CASE HangUpOtherwise(e)
  <2>1. /\ e.fd # 0 /\ e.hup /\ CloseClient(f, PipesOf({f})) /\ Handled(e)
        /\ ManagerClose(f) /\ UNCHANGED unread
    BY <1>6 DEF HangUpOtherwise, ClientEvent, peerVars
  <2> QED
    BY <1>1, <2>1, ClosingClean DEF Fresh, Reset, Departed
<1>7. CASE ReadFails(e)
  <2>1. /\ e.fd # 0 /\ e.in /\ ~Readable(f) /\ CloseClient(f, {}) /\ Handled(e)
        /\ UNCHANGED managerVars /\ UNCHANGED unread
    BY <1>7 DEF ReadFails, ClientEvent, peerVars
  <2>2. Departed(c)
    BY <1>1, <2>1 DEF Fresh, Readable, Reset, Departed
  <2> QED
    BY <1>1, <2>1, <2>2, ClosingClean
<1>8. CASE Read(e)
  BY <1>8, ReadClean
<1>9. CASE WriteFails(e)
  <2>1. /\ e.fd # 0 /\ ~e.in /\ ~Writable(f) /\ CloseClient(f, PipesOf({f}))
        /\ Handled(e) /\ ManagerClose(f) /\ UNCHANGED unread
    BY <1>9 DEF WriteFails, ClientEvent, peerVars
  <2>2. Departed(c)
    BY <1>1, <2>1 DEF Fresh, Armed, Writable, Reset, Departed
  <2> QED
    BY <1>1, <2>1, <2>2, ClosingClean
<1>10. ~WriteKills(e)
  BY DEF WriteKills
<1>11. CASE WriteSome(e)
  <2>1. PICK n \in 1..(Len(resp[f]) - 1) :
          resp' = [resp EXCEPT ![f] = SubSeq(@, n + 1, Len(@))]
    BY <1>11 DEF WriteSome
  <2>2. /\ e.fd # 0 /\ Handled(e) /\ interest' = [interest EXCEPT ![f] = "out"]
        /\ UNCHANGED <<fdTable, net, fdTypes, cgiToClient, active, unread>>
    BY <1>11 DEF WriteSome, ClientEvent, serverVars
  <2>3. Armed(f)'
    <3>1. resp[f] \in Seq(SUBSET Conn) /\ resp'[f] = SubSeq(resp[f], n + 1, Len(resp[f]))
      BY <1>1, <2>1, <2>2 DEF TypeOK, ManagerType
    <3>2. Len(resp'[f]) = Len(resp[f]) - n /\ Len(resp[f]) - n > 0
      BY <3>1
    <3> QED
      BY <3>2 DEF Armed
  <2>4. \A g \in Fd \ {f} : interest'[g] = interest[g] /\ resp'[g] = resp[g]
    BY <2>1, <2>2 DEF TypeOK, KernelType, ManagerType
  <2> QED
    BY <1>1, <2>2, <2>3, <2>4, TurningClean
<1>12. CASE WriteAll(e)
  <2>1. /\ e.fd # 0 /\ Handled(e) /\ interest' = [interest EXCEPT ![f] = "in"]
        /\ resp' = [resp EXCEPT ![f] = <<>>]
        /\ UNCHANGED <<fdTable, net, fdTypes, cgiToClient, active, unread>>
    BY <1>12 DEF WriteAll, ClientEvent, serverVars
  <2>2. Armed(f)'
    BY <1>1, <2>1 DEF Armed, TypeOK, KernelType
  <2>3. \A g \in Fd \ {f} : interest'[g] = interest[g] /\ resp'[g] = resp[g]
    BY <2>1 DEF TypeOK, KernelType, ManagerType
  <2> QED
    BY <1>1, <2>1, <2>2, <2>3, TurningClean
<1> QED
  BY <1>2, <1>3, <1>4, <1>5, <1>6, <1>7, <1>8, <1>9, <1>10, <1>11, <1>12
     DEF HandleEvent

LEMMA ServerClean ==
    ASSUME TypeOK, Tracked, Clean, Scriptless, mode = "up", Server, mode' = "up"
    PROVE  Clean' /\ NoneClosed
<1> DEFINE Quiet == (\A g \in Fd : SameEntry(g)) /\ UNCHANGED <<net, unread>>
<1>1. ASSUME Quiet PROVE (\A d \in Conn : Grows(d)) /\ NoneClosed
  BY <1>1 DEF Grows, Departed, Reset, NoneClosed
<1>2. ASSUME Quiet, batch' = {}, gcDone' = {} PROVE Clean'
  BY <1>2 DEF Clean, FreshBatch, NoScript, Armed, SameEntry
<1>3. Mapped = {}
  BY DEF Mapped, Clean, NoScript
<1>4. CASE EpollWait
  <2>1. Quiet /\ gcDone' = {} /\ UNCHANGED <<fdTable, interest, resp>>
    BY <1>4 DEF EpollWait, kernelVars, serverVars, managerVars, peerVars, SameEntry
  <2>2. Pipes = {}
    BY DEF Pipes, Clean, NoScript
  <2>3. batch' = ClientEvents \cup ListenEvent
    <3>1. PICK edge \in [Pipes -> {"quiet", "in", "hup", "inhup"}] :
            batch' = ClientEvents \cup ListenEvent \cup PipeEvents(edge)
      BY <1>4 DEF EpollWait
    <3>2. PipeEvents(edge) = {}
      BY <2>2 DEF PipeEvents
    <3> QED
      BY <3>1, <3>2
  <2>4. ASSUME NEW e \in batch', e.fd # 0 PROVE e \in ClientEvents
    BY <2>3, <2>4 DEF ListenEvent
  <2>5. ASSUME NEW e \in ClientEvents
        PROVE  /\ e.fd \in Fd /\ Fresh(e)
               /\ e = [fd |-> e.fd, in |-> interest[e.fd] = "in",
                       out |-> interest[e.fd] = "out", hup |-> Reset(fdTable[e.fd])]
    <3>1. PICK f \in Fd :
            /\ e = [fd |-> f, in |-> interest[f] = "in",
                    out |-> interest[f] = "out", hup |-> Reset(fdTable[f])]
            /\ IsConn(f)
            /\ \/ interest[f] = "out"
               \/ interest[f] = "in" /\ unread[fdTable[f]] > 0
               \/ net[fdTable[f]] \in {"fin", "rst", "broken"}
      BY DEF ClientEvents
    <3> QED
      BY <3>1 DEF Fresh, Departed
  <2>6. ASSUME NEW e \in batch', e.fd # 0 PROVE Fresh(e)'
    BY <2>1, <2>4, <2>5, <2>6 DEF Fresh, IsConn, Reset, Departed
  <2>7. ASSUME NEW d \in batch', NEW e \in batch', d.fd = e.fd PROVE d = e
    <3>1. CASE d.fd = 0
      <4>1. 0 \notin Fd
        BY FdAssumption
      <4>2. d \in ListenEvent /\ e \in ListenEvent
        BY <2>3, <2>5, <2>7, <3>1, <4>1, Zenon
      <4> QED
        BY <4>2, Zenon DEF ListenEvent
    <3>2. CASE d.fd # 0
      BY <2>4, <2>5, <2>7, <3>2
    <3> QED
      BY <3>1, <3>2
  <2>8. \A f \in Fd : NoScript(f)' /\ Armed(f)'
    BY <2>1 DEF Clean, NoScript, Armed, SameEntry
  <2> QED
    BY <1>1, <2>1, <2>6, <2>7, <2>8 DEF Clean, FreshBatch
<1>5. CASE EpollInterrupted
  BY <1>1, <1>2, <1>5
     DEF EpollInterrupted, kernelVars, serverVars, managerVars, peerVars, SameEntry
<1>6. ASSUME NEW k \in Fd PROVE ~GcSkip(k) /\ ~GcPoll(k)
  BY <1>3 DEF GcSkip, GcPoll, GcTurn, IsLowest
<1>7. CASE GcDone
  <2>1. /\ batch' = batch /\ gcDone' = {} /\ gcDone = {} /\ Forget({}, {})
        /\ CloseAndArm({}, {})
        /\ UNCHANGED <<resp, active, unread>>
    BY <1>7 DEF GcDone, Clean, managerVars, peerVars
  <2>2. Quiet
    BY <2>1 DEF CloseAndArm, Forget, SameEntry, TypeOK, KernelType, ServerType
  <2> QED
    BY <1>1, <2>1, <2>2, OthersClean, {} \in SUBSET Fd, {} \in SUBSET Conn
<1>8. ASSUME NEW e \in batch, HandleEvent(e) PROVE Clean' /\ NoneClosed
  BY <1>8, EventStep
<1>9. CASE NextRound
  BY <1>1, <1>2, <1>9 DEF NextRound, RoundOver, Clean, kernelVars, serverVars,
     managerVars, peerVars, gcVars, SameEntry
<1>10. ~Shutdown /\ ~PollError
  BY DEF Shutdown, PollError
<1> QED
  BY <1>4, <1>5, <1>6, <1>7, <1>8, <1>9, <1>10 DEF Server

LEMMA EnvironmentClean ==
    ASSUME TypeOK, Tracked, Clean, Environment
    PROVE  Clean' /\ NoneClosed
<1>1. /\ batch' = batch /\ gcDone' = gcDone /\ \A g \in Fd : SameEntry(g)
  BY DEF Environment, Connect, SendUnit, Leave, ChildOver, SignalArrives,
     kernelVars, serverVars, managerVars, loopVars, SameEntry
<1>2. \A d \in Conn : Grows(d)
  BY DEF Environment, Connect, SendUnit, Leave, ChildOver, SignalArrives,
     kernelVars, peerVars, Grows, Departed, Reset, TypeOK, KernelType, PeerType
<1> QED
  BY <1>1, <1>2, OthersClean, {} \in SUBSET Fd, {} \in SUBSET Conn

-----------------------------------------------------------------------------
(* The steps that end the process leave the sockets to the kernel.         *)
LEMMA EndingCloses ==
    ASSUME TypeOK, Clean, mode = "up", Server, mode' \notin {"up", "stopped"}
    PROVE  UNCHANGED net
<1>1. ASSUME NEW e \in batch, HandleEvent(e) PROVE UNCHANGED net
  <2>1. CASE Read(e)
    BY <2>1 DEF Read, Incomplete, BadHeader, BadBody, AnswerNow, StartCgi,
       BodyWriteKills, kernelVars
  <2>2. CASE WriteKills(e)
    BY <2>2 DEF WriteKills, kernelVars
  <2> QED
    BY <1>1, <2>1, <2>2 DEF HandleEvent, Accept, AcceptDrops, AcceptFails, UnknownFd, PipeEvent,
       HangUpReading, HangUpOtherwise, ReadFails, WriteFails, WriteSome, WriteAll
<1>2. ASSUME NEW k \in Fd PROVE ~GcSkip(k) /\ ~GcPoll(k)
  BY DEF GcSkip, GcPoll, GcTurn, IsLowest, Mapped, Clean, NoScript
<1>3. CASE PollError
  BY <1>3 DEF PollError, kernelVars
<1> QED
  BY <1>1, <1>2, <1>3 DEF Server, EpollWait, EpollInterrupted, GcDone, NextRound, Shutdown

LEMMA ScriptlessStep ==
    ASSUME Scriptless, CleanInv, [Next]_vars
    PROVE  /\ CleanInv'
           /\ mode' # "stopped" => NoneClosed
<1>1. TrackedInv' /\ TypeOK
  BY TrackedStep DEF CleanInv, TrackedInv
<1>2. CASE UNCHANGED vars
  BY <1>1, <1>2 DEF CleanInv, Clean, FreshBatch, Fresh, NoScript, Armed, IsConn,
     Reset, Departed, NoneClosed, vars, kernelVars, serverVars, managerVars,
     peerVars, loopVars
<1>3. CASE Next /\ ~UNCHANGED vars
  <2>1. mode = "up" /\ (Environment \/ Server)
    BY <1>3, ZenonT(30) DEF Next, Ended, Environment, Connect, SendUnit, Leave, ChildOver,
       SignalArrives, Server, EpollWait, EpollInterrupted, GcSkip, GcPoll, GcTurn,
       GcDone, HandleEvent, Accept, AcceptDrops, AcceptFails, UnknownFd, PipeEvent, HangUpReading,
       HangUpOtherwise, ReadFails, Read, WriteFails, WriteKills, WriteSome, WriteAll,
       ClientEvent, Event, NextRound, RoundOver, Shutdown, PollError
  <2>2. Tracked /\ Clean
    BY <2>1 DEF CleanInv, TrackedInv
  <2>3. CASE Environment
    BY <1>1, <2>2, <2>3, EnvironmentClean DEF CleanInv
  <2>4. CASE Server /\ mode' = "up"
    BY <1>1, <2>1, <2>2, <2>4, ServerClean DEF CleanInv
  <2>5. CASE Server /\ mode' # "up"
    BY <1>1, <2>1, <2>2, <2>5, EndingCloses DEF CleanInv, NoneClosed
  <2> QED
    BY <2>1, <2>3, <2>4, <2>5
<1> QED
  BY <1>2, <1>3

LEMMA ScriptlessAlways == ASSUME Scriptless PROVE Spec => []CleanInv
<1>1. Init => CleanInv
  <2> SUFFICES ASSUME Init PROVE CleanInv
    OBVIOUS
  <2>1. TrackedInv
    BY InitType, IdentityAssumption DEF Init, TrackedInv, Tracked, SocketsTracked, PipesTracked,
       IsConn, Attached
  <2> QED
    BY <2>1, IdentityAssumption DEF Init, CleanInv, Clean, FreshBatch, NoScript, Armed
<1> QED
  BY <1>1, ScriptlessStep, PTL DEF Spec

(* Where no script is asked for, the server closes a connection only after *)
(* its peer went away, or when it stops: whatever the clients send and     *)
(* when they leave, however numbers are reused within a batch, no event,   *)
(* failed read or empty reply is ever taken for the end of a client that   *)
(* is still there.                                                         *)
THEOREM InnocentStayOpen == ASSUME Scriptless PROVE Spec => NoInnocentClose
<1>1. CleanInv /\ [Next]_vars =>
         [\A c \in Conn : net[c] = "up" /\ net'[c] = "down" => mode' = "stopped"]_vars
  BY ScriptlessStep DEF NoneClosed
<1> QED
  BY <1>1, ScriptlessAlways, PTL DEF Spec, NoInnocentClose

(* And it waits for writability only with a reply to write.                *)
THEOREM ScriptlessWriters == ASSUME Scriptless PROVE Spec => []WriterHasReply
<1>1. CleanInv => WriterHasReply
  BY DEF CleanInv, Clean, Armed, WriterHasReply
<1> QED
  BY <1>1, ScriptlessAlways, PTL
=============================================================================
