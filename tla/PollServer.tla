----------------------------- MODULE PollServer -----------------------------
(***************************************************************************)
(* The event loop of the server: class PollServer (srcs/PollServer.cpp)    *)
(* with the RequestsManager it drives (srcs/RequestsManager.cpp), over the *)
(* process's file-descriptor table.  The process has one thread, so every  *)
(* handler of the loop is one step; what interleaves with the handlers is  *)
(* the environment: clients, CGI children, the clock, signals.             *)
(*                                                                         *)
(* A file descriptor is a small number the kernel hands out lowest first   *)
(* and hands out again as soon as it is closed, and the server keeps FIVE  *)
(* maps keyed by that number (fdTypes, cgiToClient, buf, resp, active).    *)
(* Most of what can go wrong is one of these maps outliving the socket it  *)
(* speaks of, so numbers and what they denote are kept apart here.         *)
(*                                                                         *)
(* Abstractions.  Bytes are units: a request is ReqLen units, a reply      *)
(* RespLen, and a unit is told apart by the connections it derives from.   *)
(* The sockets' peers always read what is sent to them.  The listening     *)
(* socket is descriptor 0, outside Fd; accept takes any queued connection. *)
(* The process never runs out of memory (no std::bad_alloc), epoll takes   *)
(* every pipe it is given, and children do not keep the parent's           *)
(* descriptors open after the parent closed them.  The system calls of one *)
(* closeCgi are one step here, and the write of a request body to a script *)
(* does not block: CgiHandler is about these two.                          *)
(***************************************************************************)
EXTENDS Naturals, Sequences, FiniteSets

CONSTANTS
    Conn,         \* connections, one per client that ever connects
    Cgi,          \* CGI children; when all are used fork() fails
    Fd,           \* descriptors the process may open besides the listener
    None,         \* no object, no type, no client
    Kinds,        \* what clients ask for: a subset of AllKinds
    LeavePhases,  \* phases of its exchange in which a client may go away
    Signals,      \* whether SIGINT or SIGQUIT may arrive
    Extra,        \* units a client may send beyond the request it waits for
    MaxRequests,  \* bound: requests one connection makes
    ReqLen,       \* units in a request, the first one its header
    RespLen       \* units in a reply

(* A header that cannot be parsed, a body that cannot, a request answered  *)
(* at once, a script without and with a request body.                      *)
AllKinds == {"badHeader", "badBody", "static", "cgi", "post"}
Bad == {"badHeader", "badBody"}

ASSUME IdentityAssumption ==
    /\ Conn \cap Cgi = {} /\ None \notin Conn \cup Cgi /\ None \notin Fd
    /\ None # "CLIENT" /\ None # "CGI"
ASSUME FdAssumption == Fd \subseteq Nat \ {0}
ASSUME KindAssumption == Kinds \subseteq AllKinds
ASSUME NoKindAssumption == None \notin AllKinds
ASSUME PhaseAssumption ==
    LeavePhases \subseteq {"idle", "sending", "waiting", "receiving"}
ASSUME SignalAssumption == Signals \in BOOLEAN
ASSUME LengthAssumption ==
    /\ ReqLen \in Nat \ {0} /\ RespLen \in Nat \ {0}
    /\ Extra \in Nat /\ MaxRequests \in Nat

VARIABLES
    fdTable, interest,                     \* kernel: descriptors and epoll
    fdTypes, cgiToClient,                  \* PollServer
    buf, resp, active,                     \* RequestsManager
    child, outFd, runTag,                  \* CGI children and their Response
    net, kind, left, sent, unread, rcvd, heard,   \* clients
    mode, phase, batch, gcTodo, gcDone, errno, sig \* the loop

kernelVars  == <<fdTable, interest, net>>
serverVars  == <<fdTypes, cgiToClient>>
managerVars == <<buf, resp, active>>
cgiVars     == <<child, outFd, runTag>>
peerVars    == <<kind, left, sent, unread, rcvd, heard>>
gcVars      == <<gcTodo, gcDone>>
loopVars    == <<mode, phase, batch, gcTodo, gcDone, errno, sig>>
vars == <<kernelVars, serverVars, managerVars, cgiVars, peerVars, loopVars>>

NetStates == {"unborn", "queued", "up", "fin", "rst", "broken", "down"}
(* A child that exited or is past its 30 seconds is over for               *)
(* checkCgiStatus.  One that was waited for is "reaped"; one that was sent *)
(* SIGKILL and is not waited for again is "killed", and stays a zombie.    *)
Over == {"exited", "overdue"}
Live == {"running"} \cup Over
Released == {"reaped", "killed"}
ChildStates == {"none"} \cup Live \cup Released
Events == [fd : Fd \cup {0}, in : BOOLEAN, out : BOOLEAN, hup : BOOLEAN]

(* Type invariant: what every variable ranges over.                        *)
KernelType ==
    /\ fdTable \in [Fd -> Conn \cup Cgi \cup {None}]
    /\ interest \in [Fd -> {"none", "in", "out"}]
    /\ net \in [Conn -> NetStates]
ServerType ==
    /\ fdTypes \in [Fd -> {"CLIENT", "CGI", None}]
    /\ cgiToClient \in [Fd -> Fd \cup {None}]
ManagerType ==
    /\ buf \in [Fd -> Seq(Conn)]
    /\ resp \in [Fd -> Seq(SUBSET Conn)]
    /\ active \in [Fd -> Cgi \cup {None}]
CgiType ==
    /\ child \in [Cgi -> ChildStates]
    /\ outFd \in [Cgi -> Fd \cup {0}]
    /\ runTag \in [Cgi -> SUBSET Conn]
PeerType ==
    /\ kind \in [Conn -> Kinds \cup {None}]
    /\ left \in [Conn -> 0..MaxRequests]
    /\ sent \in [Conn -> 0..(ReqLen + Extra)]
    /\ unread \in [Conn -> Nat] /\ rcvd \in [Conn -> Nat]
    /\ heard \in [Conn -> SUBSET Conn]
LoopType ==
    /\ mode \in {"up", "crashed", "killed", "aborted", "stopped"}
    /\ phase \in {"wait", "gc", "events"} /\ batch \in SUBSET Events
    /\ gcTodo \in SUBSET Fd /\ gcDone \in SUBSET Fd
    /\ errno \in {"none", "eintr", "other"} /\ sig \in BOOLEAN
TypeOK ==
    /\ KernelType /\ ServerType /\ ManagerType
    /\ CgiType /\ PeerType /\ LoopType

Init ==
    /\ fdTable = [f \in Fd |-> None] /\ interest = [f \in Fd |-> "none"]
    /\ fdTypes = [f \in Fd |-> None] /\ cgiToClient = [f \in Fd |-> None]
    /\ buf = [f \in Fd |-> <<>>] /\ resp = [f \in Fd |-> <<>>]
    /\ active = [f \in Fd |-> None]
    /\ child = [r \in Cgi |-> "none"] /\ outFd = [r \in Cgi |-> 0]
    /\ runTag = [r \in Cgi |-> {}]
    /\ net = [c \in Conn |-> "unborn"] /\ kind = [c \in Conn |-> None]
    /\ left = [c \in Conn |-> MaxRequests] /\ sent = [c \in Conn |-> 0]
    /\ unread = [c \in Conn |-> 0] /\ rcvd = [c \in Conn |-> 0]
    /\ heard = [c \in Conn |-> {}]
    /\ mode = "up" /\ phase = "wait" /\ batch = {}
    /\ gcTodo = {} /\ gcDone = {} /\ errno = "none" /\ sig = FALSE

-----------------------------------------------------------------------------
(* What the kernel and the maps say.                                       *)

FreeFds == {f \in Fd : fdTable[f] = None}
IsLowest(f, S) == f \in S /\ \A g \in S : f <= g
CgisOf(cl) == {k \in Fd : cgiToClient[k] = cl}
(* Seeded fault: the pass over the CGIs in flight is skipped.              *)
Mapped_NoPass == {}
Mapped == {k \in Fd : cgiToClient[k] # None}
Runs(F) == {active[f] : f \in F} \ {None}
IsRunning(r) == child[r] = "running"
IsConn(f) == fdTable[f] \in Conn
Reset(c) == net[c] \in {"rst", "broken"}

(* Where a client stands in its current exchange.                          *)
PeerPhase(c) ==
    CASE rcvd[c] > 0 -> "receiving"
      [] rcvd[c] = 0 /\ sent[c] = 0 -> "idle"
      [] rcvd[c] = 0 /\ sent[c] \in 1..(ReqLen - 1) -> "sending"
      [] OTHER -> "waiting"

-----------------------------------------------------------------------------
(* Effects the handlers are built from.                                    *)

(* close() of the descriptors in K, then ModifyFd(EPOLLOUT) of those in W. *)
CloseAndArm(K, W) ==
    /\ fdTable' = [f \in Fd |-> IF f \in K THEN None ELSE fdTable[f]]
    /\ interest' = [f \in Fd |-> IF f \in K THEN "none"
                                 ELSE IF f \in W THEN "out" ELSE interest[f]]
    /\ net' = [c \in Conn |-> IF \E f \in K : fdTable[f] = c
                              THEN "down" ELSE net[c]]

(* Seeded fault: the entry of _cgi_to_client is not erased.                *)
Forget_KeepsMapping(T, M) ==
    /\ fdTypes' = [f \in Fd |-> IF f \in T THEN None ELSE fdTypes[f]]
    /\ UNCHANGED cgiToClient

(* Seeded fault: the entry is set to the map's default, not erased.        *)
Forget_Zeroes(T, M) ==
    /\ fdTypes' = [f \in Fd |-> IF f \in T THEN None ELSE fdTypes[f]]
    /\ cgiToClient' = [f \in Fd |-> IF f \in M THEN 0 ELSE cgiToClient[f]]

(* Drop the descriptors T from _fd_types and M from _cgi_to_client.        *)
Forget(T, M) ==
    /\ fdTypes' = [f \in Fd |-> IF f \in T THEN None ELSE fdTypes[f]]
    /\ cgiToClient' = [f \in Fd |-> IF f \in M THEN None ELSE cgiToClient[f]]

(* Seeded fault: the client is dropped from epoll but not closed.          *)
CloseClient_NoClose(cl, K) ==
    /\ CloseAndArm(K \cup CgisOf(cl), {})
    /\ Forget({cl} \cup CgisOf(cl), CgisOf(cl))

(* PollServer::CloseClient together with a further descriptor set K the    *)
(* same handler closes: the client, its CGI pipes, their tracking.         *)
CloseClient(cl, K) ==
    /\ CloseAndArm(K \cup {cl} \cup CgisOf(cl), {})
    /\ Forget({cl} \cup CgisOf(cl), CgisOf(cl))

(* delete of the Responses kept for the descriptors F: closeCgi forgets    *)
(* the pipe and the child's pid.  The pipe's descriptor NUMBERS,           *)
(* PipesOf(F), are closed too, whatever they denote by now.  A child that  *)
(* exited is reaped; one that did not is, if SIGTERM and 50 ms do; else it *)
(* is sent SIGKILL, and one last waitpid(WNOHANG) comes in time or not.    *)
Unkilled(F) == {r \in Runs(F) : child[r] # "exited"}
Reaping(F, zombies) ==
    [r \in Cgi |-> CASE r \in zombies -> "killed"
                     [] r \in Runs(F) \ zombies -> "reaped"
                     [] OTHER -> child[r]]
PipesOf(F) == {outFd[r] : r \in Runs(F)} \ {0}
(* Seeded fault: the deleted Response stays in _active_responses.          *)
DeleteResponses_NoErase(F) ==
    /\ \E zombies \in SUBSET Unkilled(F) : child' = Reaping(F, zombies)
    /\ outFd' = [r \in Cgi |-> IF r \in Runs(F) THEN 0 ELSE outFd[r]]
    /\ UNCHANGED active
(* Seeded fault: a child still running is neither killed nor waited for.   *)
DeleteResponses_NoKill(F) ==
    /\ active' = [f \in Fd |-> IF f \in F THEN None ELSE active[f]]
    /\ child' = [r \in Cgi |-> IF r \in Runs(F) /\ child[r] # "running"
                                THEN "reaped" ELSE child[r]]
    /\ outFd' = [r \in Cgi |-> IF r \in Runs(F) THEN 0 ELSE outFd[r]]
DeleteResponses(F) ==
    /\ active' = [f \in Fd |-> IF f \in F THEN None ELSE active[f]]
    /\ \E zombies \in SUBSET Unkilled(F) : child' = Reaping(F, zombies)
    /\ outFd' = [r \in Cgi |-> IF r \in Runs(F) THEN 0 ELSE outFd[r]]

(* RequestsManager::CloseClient: forget everything kept for descriptor f.  *)
ManagerClose(f) ==
    /\ DeleteResponses({f})
    /\ buf' = [buf EXCEPT ![f] = <<>>]
    /\ resp' = [resp EXCEPT ![f] = <<>>]

Reply(tags) == [i \in 1..RespLen |-> tags]

-----------------------------------------------------------------------------
(* The environment.                                                        *)

Connect(c) ==
    /\ mode = "up" /\ net[c] = "unborn"
    /\ net' = [net EXCEPT ![c] = "queued"]
    /\ \E q \in Kinds : kind' = [kind EXCEPT ![c] = q]
    /\ UNCHANGED <<fdTable, interest, serverVars, managerVars, cgiVars,
                   left, sent, unread, rcvd, heard, loopVars>>

(* The client sends a unit of its request, or up to Extra units more while *)
(* it waits for the reply (a pipelined request, a stray line end).         *)
SendUnit(c) ==
    /\ mode = "up" /\ net[c] \in {"queued", "up"}
    /\ left[c] > 0 /\ sent[c] < ReqLen + Extra
    /\ sent' = [sent EXCEPT ![c] = @ + 1]
    /\ unread' = [unread EXCEPT ![c] = @ + 1]
    /\ UNCHANGED <<kernelVars, serverVars, managerVars, cgiVars,
                   kind, left, rcvd, heard, loopVars>>

(* The peer closes or half-closes ("fin"), resets ("rst"), or resets after *)
(* its FIN ("broken": the state in which a write raises SIGPIPE).          *)
Leave(c) ==
    /\ mode = "up" /\ net[c] \in {"up", "fin"} /\ PeerPhase(c) \in LeavePhases
    /\ \E s \in IF net[c] = "up" THEN {"fin", "rst"} ELSE {"broken"} :
          net' = [net EXCEPT ![c] = s]
    /\ UNCHANGED <<fdTable, interest, serverVars, managerVars, cgiVars,
                   peerVars, loopVars>>

(* The child exits, or runs past its 30 seconds (CgiHandler::isTimedOut):  *)
(* either way checkCgiStatus reports it complete from now on.              *)
ChildOver(r) ==
    /\ mode = "up" /\ child[r] = "running"
    /\ \E how \in Over : child' = [child EXCEPT ![r] = how]
    /\ UNCHANGED <<kernelVars, serverVars, managerVars, outFd, runTag,
                   peerVars, loopVars>>

(* SIGINT or SIGQUIT: main.cpp's handler stores g_signal_received.         *)
SignalArrives ==
    /\ Signals /\ mode = "up" /\ ~sig /\ sig' = TRUE
    /\ UNCHANGED <<kernelVars, serverVars, managerVars, cgiVars, peerVars,
                   mode, phase, batch, gcTodo, gcDone, errno>>

-----------------------------------------------------------------------------
(* WaitAndService: epoll_wait.                                             *)

(* Seeded fault: the end of the peer's stream is not reported.             *)
ClientEvents_NoEof ==
    {[fd |-> f, in |-> interest[f] = "in", out |-> interest[f] = "out",
      hup |-> Reset(fdTable[f])] :
        f \in {g \in Fd : /\ IsConn(g)
                          /\ \/ interest[g] = "out"
                             \/ interest[g] = "in" /\ unread[fdTable[g]] > 0
                             \/ Reset(fdTable[g])}}
ClientEvents ==
    {[fd |-> f, in |-> interest[f] = "in", out |-> interest[f] = "out",
      hup |-> Reset(fdTable[f])] :
        f \in {g \in Fd : /\ IsConn(g)
                          /\ \/ interest[g] = "out"
                             \/ interest[g] = "in" /\ unread[fdTable[g]] > 0
                             \/ net[fdTable[g]] \in {"fin", "rst", "broken"}}}

ListenEvent ==
    {[fd |-> 0, in |-> TRUE, out |-> FALSE, hup |-> FALSE] :
        c \in {d \in Conn : net[d] = "queued"}}

(* A pipe is registered edge-triggered (AddCgiFd): it is reported when     *)
(* output or the end of the child made an edge, and otherwise stays quiet. *)
PipeEvents(edge) ==
    {[fd |-> k, in |-> edge[k] # "hup", out |-> FALSE, hup |-> edge[k] # "in"] :
        k \in {g \in DOMAIN edge : edge[g] # "quiet"}}
Pipes == {k \in Fd : fdTable[k] \in Cgi /\ interest[k] # "none"}

EpollWait ==
    /\ mode = "up" /\ phase = "wait"
    /\ \E edge \in [Pipes -> {"quiet", "in", "hup", "inhup"}] :
          batch' = ClientEvents \cup ListenEvent \cup PipeEvents(edge)
    /\ errno' = "none" /\ phase' = "gc" /\ gcTodo' = Mapped /\ gcDone' = {}
    /\ UNCHANGED <<kernelVars, serverVars, managerVars, cgiVars, peerVars,
                   mode, sig>>

(* The signal interrupts epoll_wait: -1, errno EINTR.                      *)
EpollInterrupted ==
    /\ mode = "up" /\ phase = "wait" /\ sig
    /\ batch' = {} /\ errno' = "eintr" /\ phase' = "gc"
    /\ gcTodo' = Mapped /\ gcDone' = {}
    /\ UNCHANGED <<kernelVars, serverVars, managerVars, cgiVars, peerVars,
                   mode, sig>>

-----------------------------------------------------------------------------
(* CGI output.                                                             *)

(* RequestsManager::HandleCgiOutput finds the Response by the descriptor   *)
(* number of its pipe, the lowest client first.                            *)
(* Seeded fault: the first Response in flight is taken for the pipe's.     *)
Holders_AnyActive(k) == {h \in Fd : active[h] # None}
Holders(k) == {h \in Fd : active[h] # None /\ outFd[active[h]] = k}
ClientGone(cl) == fdTypes[cl] = None \/ fdTable[cl] = None

(* readFromCgi: what run r picks up from descriptor k when k is no longer  *)
(* its own pipe.                                                           *)
Strangers(k, r) ==
    CASE fdTable[k] \in Cgi \ {r} -> runTag[fdTable[k]]
      [] IsConn(k) /\ unread[fdTable[k]] > 0 -> {fdTable[k]}
      [] OTHER -> {}
Drained(k) == [c \in Conn |-> IF fdTable[k] = c THEN 0 ELSE unread[c]]

OrphanPipe(k) ==
    /\ ClientGone(cgiToClient[k])
    /\ CloseAndArm({k}, {}) /\ Forget({k}, {k})
    /\ UNCHANGED <<managerVars, cgiVars, unread>>

NoResponse(k) ==
    /\ ~ClientGone(cgiToClient[k]) /\ Holders(k) = {}
    /\ CloseClient(cgiToClient[k], {})
    /\ UNCHANGED <<managerVars, cgiVars, unread>>

StillRunning(k, h) ==
    /\ IsRunning(active[h])
    /\ runTag' = [runTag EXCEPT ![active[h]] = @ \cup Strangers(k, active[h])]
    /\ unread' = Drained(k)
    /\ UNCHANGED <<kernelVars, serverVars, managerVars, child, outFd>>

(* Seeded fault: the pipe of the finished child stays open.                *)
Finished_KeepsPipe(k, h) ==
    /\ ~IsRunning(active[h])
    /\ DeleteResponses({h})
    /\ runTag' = [runTag EXCEPT ![active[h]] = @ \cup Strangers(k, active[h])]
    /\ unread' = Drained(k)
    /\ resp' = [resp EXCEPT ![h] = Reply(runTag'[active[h]])]
    /\ buf' = [buf EXCEPT ![h] = <<>>]
    /\ CloseAndArm({}, {cgiToClient[k]}) /\ Forget({}, {k})

(* The reply is ready: it becomes the holder's, the mapped client starts   *)
(* writing, and the Response is deleted together with the pipe.            *)
Finished(k, h) ==
    /\ ~IsRunning(active[h])
    /\ DeleteResponses({h})
    /\ runTag' = [runTag EXCEPT ![active[h]] = @ \cup Strangers(k, active[h])]
    /\ unread' = Drained(k)
    /\ resp' = [resp EXCEPT ![h] = Reply(runTag'[active[h]])]
    /\ buf' = [buf EXCEPT ![h] = <<>>]
    /\ CloseAndArm({k}, {cgiToClient[k]}) /\ Forget({k}, {k})

HandleCgiOutput(k) ==
    \/ OrphanPipe(k)
    \/ NoResponse(k)
    \/ /\ ~ClientGone(cgiToClient[k])
       /\ \E h \in Fd : /\ IsLowest(h, Holders(k))
                        /\ StillRunning(k, h) \/ Finished(k, h)

-----------------------------------------------------------------------------
(* processDisconnectOrTimeoutCgis, one entry of _cgi_to_client per step.   *)

(* Seeded fault: errno is looked at although epoll_wait did not fail.      *)
Clobbered_Always == "other"
(* errno is "none" unless epoll_wait failed: only then is it looked at.    *)
Clobbered == IF errno = "none" THEN "none" ELSE "other"

GcTurn(k) ==
    /\ mode = "up" /\ phase = "gc" /\ IsLowest(k, gcTodo \cap Mapped)

GcSkip(k) ==
    /\ GcTurn(k)
    /\ fdTable[cgiToClient[k]] = None \/ fdTable[k] = None
    /\ gcDone' = gcDone \cup {k} /\ gcTodo' = gcTodo \ {k}
    /\ errno' = Clobbered
    /\ UNCHANGED <<kernelVars, serverVars, managerVars, cgiVars, peerVars,
                   mode, phase, batch, sig>>

(* When HandleCgiOutput erased the entry the loop's iterator points at,    *)
(* ++it is undefined: the process crashes, or the walk resumes anywhere.   *)
(* A read that found nothing leaves EAGAIN in errno.                       *)
GcPoll(k) ==
    /\ GcTurn(k)
    /\ fdTable[cgiToClient[k]] # None /\ fdTable[k] # None
    /\ HandleCgiOutput(k)
    /\ errno' \in {errno, Clobbered}
    /\ IF cgiToClient'[k] # None
       THEN mode' = mode /\ gcTodo' = gcTodo \ {k}
       ELSE /\ mode' \in {"up", "crashed"}
            /\ gcTodo' \in SUBSET (gcTodo \ {k})
    /\ UNCHANGED <<gcDone, phase, batch, sig,
                   kind, left, sent, rcvd, heard>>

(* The entries set aside are dropped and their clients made writable; a    *)
(* failed epoll_wait is only now looked at.                                *)
GcDone ==
    /\ mode = "up" /\ phase = "gc" /\ gcTodo \cap Mapped = {}
    /\ CloseAndArm({}, {f \in Fd : fdTable[f] # None /\ fdTypes[f] # None
                                   /\ gcDone \cap CgisOf(f) # {}})
    /\ Forget({}, gcDone)
    /\ phase' = "events" /\ gcDone' = {} /\ gcTodo' = {}
    /\ UNCHANGED <<managerVars, cgiVars, peerVars, mode, batch, errno, sig>>

-----------------------------------------------------------------------------
(* The loop over the reported events, in any order.                        *)

Event(e) == mode = "up" /\ phase = "events" /\ e \in batch
Handled(e) ==
    batch' = batch \ {e} /\ UNCHANGED <<phase, gcTodo, gcDone, errno, sig>>
SameExchange == UNCHANGED <<kind, left, sent, rcvd, heard>>

(* AcceptClient, AddFd(EPOLLIN, CLIENT_FD).                                *)
Accept(e) ==
    /\ Event(e) /\ e.fd = 0 /\ FreeFds # {}
    /\ \E f \in FreeFds, c \in Conn :
          /\ IsLowest(f, FreeFds) /\ net[c] = "queued"
          /\ fdTable' = [fdTable EXCEPT ![f] = c]
          /\ interest' = [interest EXCEPT ![f] = "in"]
          /\ net' = [net EXCEPT ![c] = "up"]
          /\ fdTypes' = [fdTypes EXCEPT ![f] = "CLIENT"]
    /\ Handled(e)
    /\ UNCHANGED <<cgiToClient, managerVars, cgiVars, peerVars, mode>>

(* AddFd fails (epoll_ctl finds no memory): the new socket is closed.      *)
AcceptDrops(e) ==
    /\ Event(e) /\ e.fd = 0 /\ FreeFds # {}
    /\ \E c \in Conn : /\ net[c] = "queued"
                       /\ net' = [net EXCEPT ![c] = "down"]
    /\ Handled(e)
    /\ UNCHANGED <<fdTable, interest, serverVars, managerVars, cgiVars,
                   peerVars, mode>>

(* accept() fails with EMFILE; the connection stays in the queue.          *)
AcceptFails(e) ==
    /\ Event(e) /\ e.fd = 0 /\ FreeFds = {}
    /\ Handled(e)
    /\ UNCHANGED <<kernelVars, serverVars, managerVars, cgiVars, peerVars, mode>>

(* handleSingleEpollEvent on a descriptor it does not track.               *)
UnknownFd(e) ==
    /\ Event(e) /\ e.fd # 0 /\ fdTypes[e.fd] = None
    /\ CloseAndArm({e.fd}, {}) /\ Handled(e)
    /\ UNCHANGED <<serverVars, managerVars, cgiVars, peerVars, mode>>

(* A CGI descriptor: EPOLLIN, EPOLLHUP or both end in HandleCgiOutput, the *)
(* second call of two finding nothing left to do.  An EPOLLOUT meant for a *)
(* client that had the number before is ignored.                           *)
PipeEvent(e) ==
    /\ Event(e) /\ e.fd # 0 /\ fdTypes[e.fd] = "CGI"
    /\ IF e.in \/ e.hup
       THEN \/ cgiToClient[e.fd] # None /\ HandleCgiOutput(e.fd)
            \/ /\ cgiToClient[e.fd] = None
               /\ CloseAndArm({e.fd}, {}) /\ Forget({e.fd}, {})
               /\ UNCHANGED <<managerVars, cgiVars, unread>>
       ELSE UNCHANGED <<kernelVars, serverVars, managerVars, cgiVars, unread>>
    /\ Handled(e) /\ SameExchange /\ UNCHANGED mode

ClientEvent(e) == Event(e) /\ e.fd # 0 /\ fdTypes[e.fd] = "CLIENT"

(* checkingEventError closes the client; the read that follows fails on    *)
(* the closed descriptor, so what the manager keeps for it stays.          *)
HangUpReading(e) ==
    /\ ClientEvent(e) /\ e.hup /\ e.in
    /\ CloseClient(e.fd, {}) /\ Handled(e)
    /\ UNCHANGED <<managerVars, cgiVars, peerVars, mode>>

(* With EPOLLOUT, or EPOLLHUP alone, the manager closes its side as well.  *)
HangUpOtherwise(e) ==
    /\ ClientEvent(e) /\ e.hup /\ ~e.in
    /\ CloseClient(e.fd, PipesOf({e.fd})) /\ ManagerClose(e.fd) /\ Handled(e)
    /\ UNCHANGED <<runTag, peerVars, mode>>

-----------------------------------------------------------------------------
(* HandleRead: PerformSocketRead, then ProcessBufferedData.                *)

(* Seeded fault: a read shorter than a request counts as a failed one.     *)
Readable_WholeOnly(f) ==
    IsConn(f) /\ ~Reset(fdTable[f]) /\ unread[fdTable[f]] >= ReqLen
Readable(f) == IsConn(f) /\ ~Reset(fdTable[f]) /\ unread[fdTable[f]] > 0

ReadFails(e) ==
    /\ ClientEvent(e) /\ ~e.hup /\ e.in /\ ~Readable(e.fd)
    /\ CloseClient(e.fd, {}) /\ Handled(e)
    /\ UNCHANGED <<managerVars, cgiVars, peerVars, mode>>

(* The buffer b after the read; its first unit is the header that decides  *)
(* what is asked.                                                          *)
(* Seeded fault: HandleRead returns 2 (write) instead of 1 (nothing).      *)
Incomplete_Arms(f, b) ==
    /\ Len(b) < ReqLen /\ kind[b[1]] # "badHeader"
    /\ buf' = [buf EXCEPT ![f] = b]
    /\ CloseAndArm({}, {f})
    /\ UNCHANGED <<serverVars, resp, active, cgiVars, mode>>

Incomplete(f, b) ==
    /\ Len(b) < ReqLen /\ kind[b[1]] # "badHeader"
    /\ buf' = [buf EXCEPT ![f] = b]
    /\ UNCHANGED <<kernelVars, serverVars, resp, active, cgiVars, mode>>

(* parseHeader throws (a "Cookie:", "Host:" or "Content-Type:" line without *)
(* a value): 500, as soon as the header is there, and nothing is kept.     *)
BadHeader(f, b) ==
    /\ kind[b[1]] = "badHeader"
    /\ buf' = [buf EXCEPT ![f] = <<>>]
    /\ resp' = [resp EXCEPT ![f] = Reply({b[i] : i \in DOMAIN b})]
    /\ CloseAndArm({}, {f})
    /\ UNCHANGED <<serverVars, active, cgiVars, mode>>

(* parseBody fails on the whole request: 400, and the buffer is kept.      *)
BadBody(f, b) ==
    /\ Len(b) >= ReqLen /\ kind[b[1]] = "badBody"
    /\ buf' = [buf EXCEPT ![f] = b]
    /\ resp' = [resp EXCEPT ![f] = Reply({b[i] : i \in DOMAIN b})]
    /\ CloseAndArm({}, {f})
    /\ UNCHANGED <<serverVars, active, cgiVars, mode>>

(* Answered at once: a file, a listing, a redirect, an error, or a CGI     *)
(* that could not be started (no descriptor, no process, no permission).   *)
(* Seeded fault: the request is answered before it is whole.               *)
AnswerNow_Early(f, b) ==
    /\ kind[b[1]] \notin Bad
    /\ buf' = [buf EXCEPT ![f] = <<>>]
    /\ resp' = [resp EXCEPT ![f] = Reply({b[i] : i \in DOMAIN b})]
    /\ CloseAndArm({}, {f})
    /\ UNCHANGED <<serverVars, active, cgiVars, mode>>
(* Seeded fault: the client is not switched to writing.                    *)
AnswerNow_NoArm(f, b) ==
    /\ Len(b) >= ReqLen /\ kind[b[1]] \notin Bad
    /\ buf' = [buf EXCEPT ![f] = <<>>]
    /\ resp' = [resp EXCEPT ![f] = Reply({b[i] : i \in DOMAIN b})]
    /\ UNCHANGED <<kernelVars, serverVars, active, cgiVars, mode>>

AnswerNow(f, b) ==
    /\ Len(b) >= ReqLen /\ kind[b[1]] \notin Bad
    /\ buf' = [buf EXCEPT ![f] = <<>>]
    /\ resp' = [resp EXCEPT ![f] = Reply({b[i] : i \in DOMAIN b})]
    /\ CloseAndArm({}, {f})
    /\ UNCHANGED <<serverVars, active, cgiVars, mode>>

(* startCgi: two pipes take the four lowest free descriptors; the third is *)
(* the end the parent keeps.  The Response replaces any kept for f, the    *)
(* request stays in the buffer and the client stays in read mode.          *)
StartCgi(f, b) ==
    /\ Len(b) >= ReqLen /\ kind[b[1]] \in {"cgi", "post"}
    /\ Cardinality(FreeFds) >= 4
    /\ \E r \in Cgi, k \in FreeFds :
          /\ child[r] = "none"
          /\ Cardinality({g \in FreeFds : g < k}) = 2
          /\ child' = [child EXCEPT ![r] = "running"]
          /\ outFd' = [outFd EXCEPT ![r] = k]
          /\ runTag' = [runTag EXCEPT ![r] = {b[i] : i \in DOMAIN b}]
          /\ active' = [active EXCEPT ![f] = r]
          /\ fdTable' = [fdTable EXCEPT ![k] = r]
          /\ interest' = [interest EXCEPT ![k] = "in"]
          /\ fdTypes' = [fdTypes EXCEPT ![k] = "CGI"]
          /\ cgiToClient' = [cgiToClient EXCEPT ![k] = f]
    /\ buf' = [buf EXCEPT ![f] = b]
    /\ UNCHANGED <<net, resp, mode>>

(* writeToCgi to a child that already exited or closed its input: SIGPIPE, *)
(* which main.cpp leaves at its default, terminates the server.            *)
BodyWriteKills(f, b) ==
    /\ Len(b) >= ReqLen /\ kind[b[1]] = "post"
    /\ \E r \in Cgi : child[r] = "none"
    /\ Cardinality(FreeFds) >= 4
    /\ mode' = "killed"
    /\ UNCHANGED <<kernelVars, serverVars, managerVars, cgiVars>>

Read(e) ==
    /\ ClientEvent(e) /\ ~e.hup /\ e.in /\ Readable(e.fd)
    /\ LET c == fdTable[e.fd] IN
       \E n \in 1..unread[c] :
          LET b == buf[e.fd] \o [i \in 1..n |-> c] IN
          /\ unread' = [unread EXCEPT ![c] = @ - n]
          /\ \/ Incomplete(e.fd, b)
             \/ BadHeader(e.fd, b)
             \/ BadBody(e.fd, b)
             \/ AnswerNow(e.fd, b)
             \/ StartCgi(e.fd, b)
             \/ BodyWriteKills(e.fd, b)
    /\ Handled(e) /\ SameExchange

-----------------------------------------------------------------------------
(* HandleWrite.                                                            *)

Writable(f) == IsConn(f) /\ ~Reset(fdTable[f]) /\ resp[f] # <<>>
RaisesSigpipe(f) == IsConn(f) /\ net[fdTable[f]] = "broken" /\ resp[f] # <<>>

(* write() returned 0 (nothing to send) or an error: both layers close.    *)
WriteFails(e) ==
    /\ ClientEvent(e) /\ ~e.hup /\ ~e.in
    /\ ~Writable(e.fd) /\ ~RaisesSigpipe(e.fd)
    /\ CloseClient(e.fd, PipesOf({e.fd})) /\ ManagerClose(e.fd) /\ Handled(e)
    /\ UNCHANGED <<runTag, peerVars, mode>>

WriteKills(e) ==
    /\ ClientEvent(e) /\ ~e.hup /\ ~e.in /\ RaisesSigpipe(e.fd)
    /\ mode' = "killed" /\ Handled(e)
    /\ UNCHANGED <<kernelVars, serverVars, managerVars, cgiVars, peerVars>>

Heard(c, f, n) ==
    heard' = [heard EXCEPT ![c] = @ \cup UNION {resp[f][i] : i \in 1..n}]

WriteSome(e) ==
    /\ ClientEvent(e) /\ ~e.hup /\ ~e.in /\ Writable(e.fd)
    /\ \E n \in 1..(Len(resp[e.fd]) - 1) :
          LET c == fdTable[e.fd] IN
          /\ resp' = [resp EXCEPT ![e.fd] = SubSeq(@, n + 1, Len(@))]
          /\ Heard(c, e.fd, n)
          /\ rcvd' = [rcvd EXCEPT ![c] = @ + n]
    /\ interest' = [interest EXCEPT ![e.fd] = "out"]
    /\ Handled(e)
    /\ UNCHANGED <<fdTable, net, serverVars, buf, active, cgiVars,
                   kind, left, sent, unread, mode>>

(* The reply is out: reset for the next request, back to read mode.        *)
WriteAll(e) ==
    /\ ClientEvent(e) /\ ~e.hup /\ ~e.in /\ Writable(e.fd)
    /\ LET c == fdTable[e.fd] IN
       /\ resp' = [resp EXCEPT ![e.fd] = <<>>]
       /\ buf' = [buf EXCEPT ![e.fd] = <<>>]
       /\ interest' = [interest EXCEPT ![e.fd] = "in"]
       /\ Heard(c, e.fd, Len(resp[e.fd]))
       /\ rcvd' = [rcvd EXCEPT ![c] = 0]
       /\ sent' = [sent EXCEPT ![c] = 0]
       /\ left' = [left EXCEPT ![c] = IF @ = 0 THEN 0 ELSE @ - 1]
    /\ Handled(e)
    /\ UNCHANGED <<fdTable, net, serverVars, active, cgiVars, kind, unread, mode>>

-----------------------------------------------------------------------------
(* After the batch.                                                        *)

RoundOver == mode = "up" /\ phase = "events" /\ batch = {} /\ errno # "other"

NextRound ==
    /\ RoundOver /\ ~sig /\ phase' = "wait"
    /\ UNCHANGED <<kernelVars, serverVars, managerVars, cgiVars, peerVars,
                   mode, batch, gcVars, errno, sig>>

(* start() leaves the loop: every client is closed, the maps are cleared,  *)
(* and the manager's destructor deletes the Responses it still holds.      *)
Shutdown ==
    /\ RoundOver /\ sig /\ mode' = "stopped"
    /\ LET Clients == {f \in Fd : fdTypes[f] = "CLIENT"} IN
       CloseAndArm(Clients \cup (UNION {CgisOf(f) : f \in Clients}) \cup PipesOf(Fd), {})
    /\ Forget(Fd, Fd) /\ DeleteResponses(Fd)
    /\ UNCHANGED <<buf, resp, runTag, peerVars, phase, batch, gcVars, errno, sig>>

(* errno is no longer EINTR when WaitAndService tests it: start() throws   *)
(* "Poll error", the destructors run, and main returns 0 all the same.     *)
PollError ==
    /\ mode = "up" /\ phase = "events" /\ errno = "other"
    /\ mode' = "aborted"
    /\ UNCHANGED <<kernelVars, serverVars, managerVars, cgiVars, peerVars,
                   phase, batch, gcVars, errno, sig>>

-----------------------------------------------------------------------------
Environment ==
    \/ \E c \in Conn : Connect(c) \/ SendUnit(c) \/ Leave(c)
    \/ \E r \in Cgi : ChildOver(r)
    \/ SignalArrives

HandleEvent(e) ==
    \/ Accept(e) \/ AcceptDrops(e) \/ AcceptFails(e)
    \/ UnknownFd(e) \/ PipeEvent(e)
    \/ HangUpReading(e) \/ HangUpOtherwise(e)
    \/ ReadFails(e) \/ Read(e)
    \/ WriteFails(e) \/ WriteKills(e) \/ WriteSome(e) \/ WriteAll(e)

Server ==
    \/ EpollWait \/ EpollInterrupted
    \/ \E k \in Fd : GcSkip(k) \/ GcPoll(k)
    \/ GcDone
    \/ \E e \in batch : HandleEvent(e)
    \/ NextRound \/ Shutdown \/ PollError

(* The process is gone: nothing moves any more.                            *)
Ended == mode # "up" /\ UNCHANGED vars

Next == Environment \/ Server \/ Ended

Spec == Init /\ [][Next]_vars

(* The loop is a thread that runs as long as it has a step to take, and    *)
(* time passes: a child that has not exited is overdue in the end.         *)
FairSpec == Spec /\ WF_vars(Server) /\ \A r \in Cgi : WF_vars(ChildOver(r))
-----------------------------------------------------------------------------
(* Properties.                                                             *)

(* Whatever clients, children and signals do, every connection the kernel  *)
(* holds open for the server has exactly one descriptor, is tracked as a   *)
(* client and is armed in epoll: AddFd/RemoveFd/close never strand a       *)
(* socket that no event will ever be reported for.                         *)
Attached(c) == net[c] \in {"up", "fin", "rst", "broken"}
SocketsTracked ==
    /\ \A f \in Fd : IsConn(f) => fdTypes[f] = "CLIENT" /\ interest[f] # "none"
    /\ \A c \in Conn : Attached(c) <=> \E f \in Fd : fdTable[f] = c
    /\ \A f, g \in Fd : IsConn(f) /\ fdTable[f] = fdTable[g] => f = g
NoLostSocket == mode = "up" => SocketsTracked

(* A pipe stays open only for a child that has not been reaped, and under  *)
(* the number its Response remembers: deleting a Response never leaks a    *)
(* descriptor, not even when numbers were reused meanwhile.                *)
PipesTracked ==
    \A f \in Fd : fdTable[f] \in Cgi =>
        /\ fdTypes[f] = "CGI" /\ outFd[fdTable[f]] = f
        /\ child[fdTable[f]] \in Live
NoLeakedPipe == mode = "up" => PipesTracked

(* A client is only ever sent units of replies to its own requests: what   *)
(* the manager keeps per descriptor never reaches a later connection on    *)
(* the same number.                                                        *)
OwnResponse == \A c \in Conn : heard[c] \subseteq {c}

(* The five maps agree on every CGI in flight: a mapped pipe is open and   *)
(* tracked, belongs to the run its client's Response holds, and its client *)
(* is connected; no pipe is open that no client waits for; what is tracked *)
(* is what is open.                                                        *)
MapsAgree ==
    mode = "up" =>
      \A f \in Fd :
        /\ cgiToClient[f] # None =>
             /\ fdTypes[f] = "CGI" /\ fdTable[f] \in Cgi
             /\ active[cgiToClient[f]] = fdTable[f] /\ IsConn(cgiToClient[f])
        /\ fdTable[f] \in Cgi => cgiToClient[f] # None /\ outFd[fdTable[f]] = f
        /\ active[f] # None => cgiToClient[outFd[active[f]]] = f
        /\ (fdTypes[f] = None) = (fdTable[f] = None)

(* A client waits for writability only while there is a reply to write:    *)
(* otherwise HandleWrite writes 0 bytes and takes that for a lost peer.    *)
WriterHasReply ==
    mode = "up" => \A f \in Fd : interest[f] = "out" => resp[f] # <<>>

(* Closing a connection leaves nothing behind under its descriptor.        *)
NothingLeftBehind ==
    mode = "up" => \A f \in Fd : fdTable[f] = None =>
                      buf[f] = <<>> /\ resp[f] = <<>> /\ active[f] = None

(* After a signal the server ends with every socket and pipe closed, and   *)
(* no script outlives it: every child was waited for or sent SIGKILL.      *)
CleanShutdown ==
    mode = "stopped" => /\ \A f \in Fd : fdTable[f] = None
                        /\ \A r \in Cgi : child[r] \in {"none"} \cup Released

(* "Poll error" ends the server only where a signal interrupted epoll_wait *)
(* while some script had been started: the system calls the pass over the  *)
(* scripts makes before errno is tested spoil a shutdown and nothing else. *)
AbortsOnlyInterrupted ==
    mode = "aborted" => sig /\ \E r \in Cgi : child[r] # "none"

(* To clients that wait for their replies, the loop, its maps and its      *)
(* scripts are the service HttpService describes: a reply begins only once *)
(* the request is whole, there is one per request, it holds nothing of     *)
(* another's, and no client that stays is closed before the server ends,   *)
(* unless it was just accepted under the number of a pipe that an event of *)
(* the same batch speaks of.                                               *)
Asked(c) == sent[c] >= IF kind[c] = "badHeader" THEN 1 ELSE ReqLen
Exchange ==
    [c \in Conn |-> CASE net[c] = "down" -> "closed"
                      [] net[c] # "down" /\ rcvd[c] > 0 -> "answering"
                      [] net[c] # "down" /\ rcvd[c] = 0 /\ Asked(c) -> "asked"
                      [] OTHER -> "idle"]
Answers == [c \in Conn |-> MaxRequests - left[c]]
Gone == {c \in Conn : net[c] \in {"fin", "rst", "broken", "down"}}
Http == INSTANCE HttpService WITH
    exchange <- Exchange, answers <- Answers, gone <- Gone, serving <- mode = "up"
HttpServed == Http!Spec

(* The server closes a connection only after its peer went away, or when   *)
(* it stops.                                                               *)
NoInnocentClose ==
    [][\A c \in Conn : net[c] = "up" /\ net'[c] = "down" => mode' = "stopped"]_vars

(* A whole request is answered, unless its client leaves or is closed.     *)
EveryRequestAnswered ==
    \A c \in Conn : sent[c] >= ReqLen
                      ~> sent[c] = 0 \/ net[c] \notin {"queued", "up"} \/ mode # "up"

(* A connection whose peer is gone does not linger: it is closed in the    *)
(* end, whatever it was doing.                                             *)
DeadPeersAreClosed ==
    \A c \in Conn : net[c] \in {"fin", "rst", "broken"}
                      ~> net[c] = "down" \/ mode # "up"

(* A script whose client stays does not run for ever: in the end it is     *)
(* waited for, or sent SIGKILL at its limit of 30 seconds; and one that    *)
(* exits by itself does not stay a zombie.                                 *)
EveryScriptEnds ==
    \A r \in Cgi :
        /\ child[r] = "running" ~> child[r] \in Released \/ mode # "up"
        /\ child[r] = "exited" ~> child[r] = "reaped" \/ mode # "up"

(* Answering a CGI request does not end the process.                       *)
SurvivesCgi == mode # "crashed"
=============================================================================
