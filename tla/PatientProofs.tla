---------------------------- MODULE PatientProofs ----------------------------
(* Proofs about PollServer with patient clients: they send the request     *)
(* they announced and no more, and once it is begun they stay until the    *)
(* reply comes.  For any number of them, of scripts and of descriptors.    *)
EXTENDS PollServerProofs

USE IdentityAssumption, FdAssumption, KindAssumption, SignalAssumption,
    LengthAssumption

Patient == LeavePhases \subseteq {"idle", "receiving"} /\ Extra = 0

-----------------------------------------------------------------------------
(* A client's descriptor is in one of three states.                        *)
Reading(f) == interest[f] = "in" /\ resp[f] = <<>> /\ active[f] = None
Awaiting(f) == interest[f] = "in" /\ resp[f] = <<>> /\ active[f] # None
Writing(f) == interest[f] = "out" /\ resp[f] # <<>> /\ active[f] = None

(* What is kept under the number of a client is the client's.              *)
OwnBytes(f, c) ==
    /\ \A i \in DOMAIN buf[f] : buf[f][i] = c
    /\ \A i \in DOMAIN resp[f] : resp[f][i] = {c}
    /\ active[f] # None => runTag[active[f]] = {c}

(* How far the exchange is fits what was sent and read.                    *)
InExchange(f, c) ==
    /\ Reading(f) \/ Awaiting(f) \/ Writing(f)
    /\ OwnBytes(f, c)
    /\ ~Writing(f) => rcvd[c] = 0
    /\ Reading(f) /\ net[c] # "up" => sent[c] = 0
    /\ Awaiting(f) => net[c] = "up"
    /\ IF kind[c] = "badHeader" THEN buf[f] = <<>> /\ ~Awaiting(f)
       ELSE IF Reading(f) THEN sent[c] = Len(buf[f]) + unread[c]
       ELSE sent[c] = ReqLen /\ unread[c] = 0

ExchangeAt(f) ==
    IF IsConn(f) THEN InExchange(f, fdTable[f])
    ELSE /\ buf[f] = <<>> /\ resp[f] = <<>> /\ active[f] = None
         /\ interest[f] # "out"
Exchanges == \A f \in Fd : ExchangeAt(f)

(* The clients the server has not met, and those that have sent something. *)
Accounted(c) ==
    /\ net[c] \in {"unborn", "queued"} =>
          unread[c] = sent[c] /\ rcvd[c] = 0 /\ left[c] = MaxRequests
    /\ net[c] = "unborn" => sent[c] = 0
    /\ sent[c] > 0 => left[c] > 0
Newcomers == \A c \in Conn : Accounted(c)

(* Descriptors, pipes, runs and children point at each other.              *)
OpenIsTracked == \A f \in Fd : fdTypes[f] = None <=> fdTable[f] = None
PipeIsMapped == \A k \in Fd : cgiToClient[k] # None <=> fdTable[k] \in Cgi
MappedHolds ==
    \A k \in Fd : cgiToClient[k] # None => active[cgiToClient[k]] = fdTable[k]
HeldIsMapped ==
    \A f \in Fd : active[f] # None =>
        outFd[active[f]] \in Fd /\ cgiToClient[outFd[active[f]]] = f
ChildIsHeld ==
    \A r \in Cgi : child[r] \in Live => \E f \in Fd : active[f] = r
Links ==
    /\ OpenIsTracked /\ PipeIsMapped /\ MappedHolds /\ HeldIsMapped /\ ChildIsHeld
    /\ gcDone = {}

(* What closing a client on an event needs: nothing is kept for it, and it *)
(* has left or is new.                                                     *)
MayClose(f, c) ==
    buf[f] = <<>> /\ (net[c] \in {"fin", "rst", "broken"} \/ left[c] = MaxRequests)

(* An event of the batch still fits its descriptor when its turn comes, or *)
(* meets a client that just got the number.                                *)
Timely(e) ==
    /\ e.in \/ e.out \/ e.hup
    /\ e.out => /\ ~e.in /\ IsConn(e.fd) /\ Writing(e.fd)
                /\ e.hup => Reset(fdTable[e.fd])
    /\ IsConn(e.fd) /\ ~e.out =>
          /\ Reading(e.fd)
          /\ e.hup \/ ~Readable(e.fd) => MayClose(e.fd, fdTable[e.fd])
BatchInv ==
    /\ \A e \in batch : e.fd # 0 => Timely(e)
    /\ \A d, e \in batch : d.fd = e.fd => d = e

Kept == Exchanges /\ Newcomers /\ Links /\ BatchInv
PatientInv == TrackedInv /\ (mode = "up" => Kept)

-----------------------------------------------------------------------------
(* Units of one origin.                                                    *)

LEMMA NoIndices == DOMAIN <<>> = {}
OBVIOUS

Only(c, b) ==
    /\ b \in Seq(Conn) /\ b # <<>> /\ b[1] = c
    /\ \A i \in DOMAIN b : b[i] = c
    /\ {b[i] : i \in DOMAIN b} = {c}

Longer(c, s, n, b) == Only(c, b) /\ Len(b) = Len(s) + n

LEMMA ReadBytes ==
    ASSUME NEW c \in Conn, NEW s \in Seq(Conn), \A i \in DOMAIN s : s[i] = c,
           NEW n \in Nat \ {0}, NEW b, b = s \o [i \in 1..n |-> c]
    PROVE  Longer(c, s, n, b)
<1> DEFINE t == [i \in 1..n |-> c]
<1>1. t \in Seq(Conn) /\ Len(t) = n /\ \A i \in 1..n : t[i] = c
  BY IsASeq
<1>2. Len(s) \in Nat /\ DOMAIN s = 1..Len(s)
  OBVIOUS
<1> HIDE DEF t
<1>3. /\ b \in Seq(Conn) /\ Len(b) = Len(s) + n
      /\ \A i \in 1..(Len(s) + n) : b[i] = IF i <= Len(s) THEN s[i] ELSE t[i - Len(s)]
  BY <1>1, ConcatProperties DEF t
<1>4. DOMAIN b = 1..(Len(s) + n)
  BY <1>3
<1>5. ASSUME NEW i \in 1..(Len(s) + n) PROVE b[i] = c
  <2>1. CASE i <= Len(s)
    <3>1. i \in DOMAIN s
      BY <1>2, <2>1
    <3> QED
      BY <1>3, <2>1, <3>1
  <2>2. CASE ~(i <= Len(s))
    <3>1. i - Len(s) \in 1..n
      BY <1>2, <2>2
    <3> QED
      BY <1>1, <1>3, <2>2, <3>1
  <2> QED
    BY <2>1, <2>2
<1>6. 1 \in DOMAIN b /\ b # <<>>
  BY <1>2, <1>4, NoIndices
<1>7. {b[i] : i \in DOMAIN b} = {c}
  BY <1>4, <1>5, <1>6
<1> QED
  BY <1>3, <1>4, <1>5, <1>6, <1>7 DEF Longer, Only

LEMMA ReplyBytes ==
    ASSUME NEW t
    PROVE  Reply(t) # <<>> /\ \A i \in DOMAIN Reply(t) : Reply(t)[i] = t
<1>1. 1 \in DOMAIN Reply(t)
  BY DEF Reply
<1> QED
  BY <1>1, NoIndices DEF Reply

LEMMA SentBytes ==
    ASSUME NEW s \in Seq(SUBSET Conn), NEW t, \A i \in DOMAIN s : s[i] = t,
           NEW n \in 1..Len(s)
    PROVE  UNION {s[i] : i \in 1..n} = t
<1>1. 1 \in 1..n /\ \A i \in 1..n : i \in DOMAIN s
  OBVIOUS
<1>2. {s[i] : i \in 1..n} = {t}
  BY <1>1
<1> QED
  BY <1>2

Units(u, t) == u # <<>> /\ \A i \in DOMAIN u : u[i] = t

LEMMA RestBytes ==
    ASSUME NEW s \in Seq(SUBSET Conn), NEW t, \A i \in DOMAIN s : s[i] = t,
           NEW n \in 1..(Len(s) - 1), NEW u, u = SubSeq(s, n + 1, Len(s))
    PROVE  Units(u, t)
<1>1. Len(s) \in Nat /\ \A i \in (n + 1)..Len(s) : s[i] \in SUBSET Conn
  OBVIOUS
<1>2. /\ u \in Seq(SUBSET Conn) /\ Len(u) = Len(s) - n
      /\ \A i \in 1..(Len(s) - n) : u[i] = s[n + i]
  BY <1>1, SubSeqProperties, n + 1 \in Int, Len(s) \in Int,
     \A i \in 1..(Len(s) - n) : n + 1 + i - 1 = n + i, Len(s) - (n + 1) + 1 = Len(s) - n
<1> QED
  BY <1>1, <1>2 DEF Units

-----------------------------------------------------------------------------
(* What the invariant says of a descriptor of each kind.                   *)

LEMMA ClientFacts ==
    ASSUME TypeOK, Tracked, Kept, NEW f \in Fd, fdTypes[f] = "CLIENT"
    PROVE  IsConn(f) /\ fdTable[f] \in Conn /\ InExchange(f, fdTable[f])
<1>1. fdTable[f] \in Conn
  BY DEF Kept, Links, OpenIsTracked, Tracked, PipesTracked, TypeOK, KernelType
<1> QED
  BY <1>1 DEF Kept, Exchanges, ExchangeAt, IsConn

LEMMA IdleFacts ==
    ASSUME TypeOK, Kept, NEW f \in Fd, active[f] = None
    PROVE  CgisOf(f) = {} /\ Runs({f}) = {} /\ PipesOf({f}) = {}
<1>1. CgisOf(f) = {}
  <2> SUFFICES ASSUME NEW k \in Fd, cgiToClient[k] = f PROVE FALSE
    BY DEF CgisOf
  <2>1. fdTable[k] \in Cgi /\ active[f] = fdTable[k]
    BY DEF Kept, Links, PipeIsMapped, MappedHolds
  <2> QED
    BY <2>1
<1>2. Runs({f}) = {}
  BY DEF Runs
<1> QED
  BY <1>1, <1>2 DEF PipesOf

LEMMA PipeFacts ==
    ASSUME TypeOK, Tracked, Kept, NEW k \in Fd, cgiToClient[k] # None,
           NEW cl, cl = cgiToClient[k]
    PROVE  /\ cl \in Fd /\ cl # k /\ IsConn(cl) /\ Awaiting(cl)
           /\ fdTable[k] \in Cgi /\ active[cl] = fdTable[k]
           /\ outFd[fdTable[k]] = k /\ ~ClientGone(cl)
           /\ Holders(k) = {cl} /\ CgisOf(cl) = {k}
<1> USE DEF Kept, Links, OpenIsTracked, PipeIsMapped, MappedHolds, HeldIsMapped
<1>1. cl \in Fd /\ fdTable[k] \in Cgi /\ active[cl] = fdTable[k]
  BY DEF TypeOK, ServerType
<1>2. IsConn(cl) /\ InExchange(cl, fdTable[cl]) /\ cl # k
  BY <1>1 DEF Exchanges, ExchangeAt, IsConn
<1>3. Awaiting(cl)
  BY <1>1, <1>2 DEF InExchange, Reading, Awaiting, Writing
<1>4. outFd[fdTable[k]] = k
  BY <1>1 DEF Tracked, PipesTracked
<1>5. ~ClientGone(cl)
  BY <1>1, <1>2 DEF ClientGone, IsConn
<1>6. Holders(k) = {cl}
  <2>1. cl \in Holders(k)
    BY <1>1, <1>4 DEF Holders
  <2>2. ASSUME NEW h \in Fd, active[h] # None, outFd[active[h]] = k PROVE h = cl
    BY <2>2
  <2> HIDE DEF Kept, Links
  <2> QED
    BY <2>1, <2>2, Zenon DEF Holders
<1>7. CgisOf(cl) = {k}
  <2>1. ASSUME NEW j \in Fd, cgiToClient[j] = cl PROVE j = k
    <3>1. cgiToClient[j] # None
      BY <1>1, <2>1
    <3>2. active[cl] = fdTable[j] /\ fdTable[j] \in Cgi
      BY <2>1, <3>1
    <3>3. outFd[fdTable[j]] = j
      BY <3>2 DEF Tracked, PipesTracked
    <3> QED
      BY <1>1, <1>4, <3>2, <3>3
  <2>2. k \in CgisOf(cl)
    BY DEF CgisOf
  <2> HIDE DEF Kept, Links
  <2> QED
    BY <2>1, <2>2, Zenon DEF CgisOf
<1> QED
  BY <1>1, <1>2, <1>3, <1>4, <1>5, <1>6, <1>7

-----------------------------------------------------------------------------
(* What a step leaves alone keeps what the invariant says of it.           *)

SameFd(g) ==
    /\ fdTable'[g] = fdTable[g] /\ interest'[g] = interest[g]
    /\ buf'[g] = buf[g] /\ resp'[g] = resp[g] /\ active'[g] = active[g]
SamePeer(c) ==
    /\ net'[c] = net[c] /\ kind'[c] = kind[c] /\ left'[c] = left[c]
    /\ sent'[c] = sent[c] /\ unread'[c] = unread[c] /\ rcvd'[c] = rcvd[c]

LEMMA SameExchangeAt ==
    ASSUME NEW g \in Fd, ExchangeAt(g), SameFd(g),
           IsConn(g) => SamePeer(fdTable[g]),
           active[g] # None => runTag'[active[g]] = runTag[active[g]]
    PROVE  ExchangeAt(g)'
BY DEF ExchangeAt, InExchange, OwnBytes, Reading, Awaiting, Writing, SameFd,
   SamePeer, IsConn

LEMMA SameTimely ==
    ASSUME NEW e, Timely(e), SameFd(e.fd), IsConn(e.fd) => SamePeer(fdTable[e.fd])
    PROVE  Timely(e)'
BY DEF Timely, Reading, Writing, MayClose, Readable, Reset, SameFd, SamePeer, IsConn

(* An event of a pipe that was closed, or of a free number that became one.*)
LEMMA StaleTimely ==
    ASSUME NEW e, Timely(e), ~IsConn(e.fd), ~IsConn(e.fd)'
    PROVE  Timely(e)'
BY DEF Timely

LEMMA SameLinks ==
    ASSUME TypeOK, Links, gcDone' = gcDone,
           \A f \in Fd : /\ fdTable'[f] \in Cgi <=> fdTable[f] \in Cgi
                         /\ fdTable[f] \in Cgi => fdTable'[f] = fdTable[f]
                         /\ fdTypes'[f] = None <=> fdTable'[f] = None
                         /\ cgiToClient'[f] = cgiToClient[f] /\ active'[f] = active[f],
           \A r \in Cgi : /\ outFd'[r] = outFd[r]
                          /\ \/ child'[r] = child[r]
                             \/ child[r] \in Live
    PROVE  Links'
<1>1. \A k \in Fd : cgiToClient[k] # None => cgiToClient[k] \in Fd
  BY DEF TypeOK, ServerType
<1>2. \A f \in Fd : active[f] # None => active[f] \in Cgi /\ outFd[active[f]] \in Fd
  BY DEF TypeOK, ManagerType, Links, HeldIsMapped
<1>3. OpenIsTracked' /\ PipeIsMapped'
  BY DEF Links, OpenIsTracked, PipeIsMapped
<1>4. ASSUME NEW k \in Fd, cgiToClient'[k] # None
      PROVE  active'[cgiToClient'[k]] = fdTable'[k]
  <2>1. cgiToClient'[k] = cgiToClient[k] /\ cgiToClient[k] \in Fd
    BY <1>1, <1>4
  <2>2. fdTable[k] \in Cgi /\ active[cgiToClient[k]] = fdTable[k]
    BY <1>4, <2>1 DEF Links, MappedHolds, PipeIsMapped
  <2> QED
    BY <2>1, <2>2
<1>5. ASSUME NEW f \in Fd, active'[f] # None
      PROVE  outFd'[active'[f]] \in Fd /\ cgiToClient'[outFd'[active'[f]]] = f
  <2>1. active'[f] = active[f] /\ active[f] # None
    BY <1>5
  <2>2. active[f] \in Cgi /\ outFd[active[f]] \in Fd
    BY <1>2, <2>1
  <2>3. cgiToClient[outFd[active[f]]] = f
    BY <2>1 DEF Links, HeldIsMapped
  <2> QED
    BY <2>1, <2>2, <2>3
<1>6. ChildIsHeld'
  BY DEF Links, ChildIsHeld
<1> QED
  BY <1>3, <1>4, <1>5, <1>6 DEF Links, MappedHolds, HeldIsMapped

(* Only the descriptors T and the clients S are touched.                   *)
LEMMA OthersKept ==
    ASSUME TypeOK, Tracked, Kept, NEW T \in SUBSET Fd, NEW S \in SUBSET Conn,
           \A g \in Fd \ T : /\ SameFd(g) /\ fdTable[g] \notin S
                             /\ active[g] # None => runTag'[active[g]] = runTag[active[g]],
           \A d \in Conn \ S : SamePeer(d),
           batch' \subseteq batch,
           \A g \in T : ExchangeAt(g)', \A d \in S : Accounted(d)',
           \A e \in batch' : e.fd \in T => Timely(e)'
    PROVE  Exchanges' /\ Newcomers' /\ BatchInv'
<1> USE DEF Kept
<1>1. \A g \in Fd \ T : IsConn(g) => SamePeer(fdTable[g])
  BY DEF IsConn
<1>2. Exchanges'
  <2> SUFFICES ASSUME NEW g \in Fd \ T PROVE ExchangeAt(g)'
    BY DEF Exchanges
  <2> QED
    BY <1>1, SameExchangeAt DEF Exchanges
<1>3. Newcomers'
  BY DEF Newcomers, Accounted, SamePeer
<1>4. BatchInv'
  <2>1. ASSUME NEW d \in batch', d.fd # 0, d.fd \notin T PROVE Timely(d)'
    <3>1. d \in batch /\ d.fd \in Fd \ T /\ Timely(d)
      BY <2>1 DEF BatchInv, TypeOK, LoopType, Events
    <3> QED
      BY <1>1, <3>1, SameTimely
  <2> QED
    BY <2>1 DEF BatchInv
<1> QED
  BY <1>2, <1>3, <1>4

(* The client of an event alone is touched.                                *)
LEMMA OwnEvent ==
    ASSUME TypeOK, Tracked, Kept, NEW e \in batch, batch' = batch \ {e},
           NEW f \in Fd, e.fd = f, NEW c \in Conn, fdTable[f] = c,
           \A g \in Fd \ {f} : SameFd(g),
           \A d \in Conn \ {c} : SamePeer(d),
           \A g \in Fd \ {f} : active[g] # None => runTag'[active[g]] = runTag[active[g]],
           ExchangeAt(f)', Accounted(c)'
    PROVE  Exchanges' /\ Newcomers' /\ BatchInv'
<1>1. \A g \in Fd \ {f} : fdTable[g] \notin {c}
  BY DEF Tracked, SocketsTracked, IsConn
<1>2. \A d \in batch' : d.fd \in {f} => Timely(d)'
  BY DEF Kept, BatchInv
<1>3. batch' \subseteq batch /\ {f} \in SUBSET Fd /\ {c} \in SUBSET Conn
  OBVIOUS
<1>4. /\ \A g \in Fd \ {f} : /\ SameFd(g) /\ fdTable[g] \notin {c}
                             /\ active[g] # None => runTag'[active[g]] = runTag[active[g]]
      /\ \A g \in {f} : ExchangeAt(g)'
      /\ \A d \in {c} : Accounted(d)'
  BY <1>1
<1> QED
  BY <1>2, <1>3, <1>4, OthersKept

LEMMA HandledFacts ==
    ASSUME TypeOK, NEW e \in batch, Handled(e)
    PROVE  e \in Events /\ batch' = batch \ {e} /\ gcDone' = gcDone
BY DEF TypeOK, LoopType, Handled

-----------------------------------------------------------------------------
(* A client is closed on an event of its own.                              *)

LEMMA OwnClose ==
    ASSUME TypeOK, Tracked, Kept, NEW e \in batch, Handled(e),
           NEW f \in Fd, e.fd = f, fdTypes[f] = "CLIENT", active[f] = None,
           CloseClient(f, PipesOf({f})) \/ CloseClient(f, {}),
           \A g \in Fd : active'[g] = active[g],
           \A g \in Fd \ {f} : buf'[g] = buf[g] /\ resp'[g] = resp[g],
           buf'[f] = <<>>, resp'[f] = <<>>,
           \A r \in Cgi : child'[r] = child[r] /\ outFd'[r] = outFd[r],
           UNCHANGED <<runTag, kind, left, sent, unread, rcvd>>
    PROVE  Kept'
<1>1. CgisOf(f) = {} /\ PipesOf({f}) = {}
  BY IdleFacts
<1>2. CloseAndArm({f}, {}) /\ Forget({f}, {})
  <2>1. {} \cup {f} \cup {} = {f} /\ {f} \cup {} = {f}
    OBVIOUS
  <2> QED
    BY <1>1, <2>1, ZenonT(30) DEF CloseClient
<1>3. PICK c \in Conn : fdTable[f] = c /\ \A g \in Fd : fdTable[g] = c => g = f
  BY ClientFacts DEF Tracked, SocketsTracked, IsConn
<1>4. \A g \in Fd \ {f} : SameFd(g)
  BY <1>2 DEF CloseAndArm, SameFd
<1>5. \A d \in Conn \ {c} : SamePeer(d)
  BY <1>2, <1>3 DEF CloseAndArm, SamePeer
<1>6. ExchangeAt(f)'
  BY <1>2 DEF CloseAndArm, ExchangeAt, IsConn
<1>7. Accounted(c)'
  BY <1>2, <1>3 DEF CloseAndArm, Accounted, Kept, Newcomers
<1>8. Exchanges' /\ Newcomers' /\ BatchInv'
  BY <1>3, <1>4, <1>5, <1>6, <1>7, HandledFacts, OwnEvent
<1>9. Links'
  <2>1. fdTable[f] \notin Cgi /\ fdTable'[f] = None /\ fdTypes'[f] = None
    BY <1>2, <1>3 DEF CloseAndArm, Forget
  <2>2. \A g \in Fd : /\ g # f => fdTable'[g] = fdTable[g] /\ fdTypes'[g] = fdTypes[g]
                      /\ cgiToClient'[g] = cgiToClient[g]
    BY <1>2 DEF CloseAndArm, Forget
  <2>3. \A g \in Fd : fdTypes[g] = None <=> fdTable[g] = None
    BY DEF Kept, Links, OpenIsTracked
  <2>4. gcDone' = gcDone
    BY HandledFacts
  <2> QED
    BY <2>1, <2>2, <2>3, <2>4, SameLinks DEF Kept
<1> QED
  BY <1>8, <1>9 DEF Kept

LEMMA CloseOnEvent ==
    ASSUME TypeOK, Tracked, Kept, NEW e \in batch,
           HangUpReading(e) \/ HangUpOtherwise(e) \/ ReadFails(e) \/ WriteFails(e)
    PROVE  Kept'
<1> DEFINE f == e.fd
<1>1. f \in Fd /\ fdTypes[f] = "CLIENT" /\ Handled(e) /\ Timely(e)
  BY HandledFacts DEF HangUpReading, HangUpOtherwise, ReadFails, WriteFails,
     ClientEvent, Event, TypeOK, LoopType, Events, Kept, BatchInv
<1>2. IsConn(f) /\ fdTable[f] \in Conn
  BY <1>1, ClientFacts
<1>3. active[f] = None
  BY <1>1, <1>2 DEF Timely, Reading, Writing
<1>4. CASE HangUpReading(e) \/ ReadFails(e)
  <2>1. Reading(f) /\ MayClose(f, fdTable[f])
    BY <1>1, <1>2, <1>4 DEF HangUpReading, ReadFails, Timely
  <2>2. buf[f] = <<>> /\ resp[f] = <<>>
    BY <2>1 DEF Reading, MayClose
  <2> QED
    BY <1>1, <1>3, <1>4, <2>2, OwnClose
       DEF HangUpReading, ReadFails, managerVars, cgiVars, peerVars
<1>5. CASE HangUpOtherwise(e) \/ WriteFails(e)
  <2>1. ManagerClose(f) /\ CloseClient(f, PipesOf({f})) /\ UNCHANGED <<runTag, peerVars>>
    BY <1>5 DEF HangUpOtherwise, WriteFails
  <2>2. Runs({f}) = {}
    BY <1>1, <1>3, IdleFacts
  <2>3. \A g \in Fd : active'[g] = active[g]
    BY <1>3, <2>1 DEF ManagerClose, DeleteResponses
  <2>4. \A r \in Cgi : child'[r] = child[r] /\ outFd'[r] = outFd[r]
    BY <2>1, <2>2 DEF ManagerClose, DeleteResponses, Reaping, Unkilled, TypeOK, CgiType
  <2>5. /\ \A g \in Fd \ {f} : buf'[g] = buf[g] /\ resp'[g] = resp[g]
        /\ buf'[f] = <<>> /\ resp'[f] = <<>>
    BY <1>1, <2>1 DEF ManagerClose, TypeOK, ManagerType
  <2> QED
    BY <1>1, <1>3, <2>1, <2>3, <2>4, <2>5, OwnClose DEF peerVars
<1> QED
  BY <1>4, <1>5

-----------------------------------------------------------------------------
(* A client is read.                                                       *)

(* A step that opens, closes and starts nothing and moves one client.      *)
LEMMA OwnStep ==
    ASSUME TypeOK, Tracked, Kept, NEW e \in batch, Handled(e),
           NEW f \in Fd, e.fd = f, NEW c \in Conn, fdTable[f] = c,
           UNCHANGED <<fdTable, active, runTag, serverVars, child, outFd>>,
           \A d \in Conn \ {c} : SamePeer(d),
           \A g \in Fd \ {f} : /\ interest'[g] = interest[g]
                               /\ buf'[g] = buf[g] /\ resp'[g] = resp[g],
           InExchange(f, c)', Accounted(c)'
    PROVE  Kept'
<1>1. \A g \in Fd \ {f} : SameFd(g)
  BY DEF SameFd
<1>2. ExchangeAt(f)'
  BY DEF ExchangeAt, IsConn
<1>3. Exchanges' /\ Newcomers' /\ BatchInv'
  BY <1>1, <1>2, HandledFacts, OwnEvent
<1>4. \A g \in Fd : fdTypes[g] = None <=> fdTable[g] = None
  BY DEF Kept, Links, OpenIsTracked
<1>5. Links'
  BY <1>4, SameLinks, HandledFacts DEF Kept, serverVars
<1> QED
  BY <1>3, <1>5 DEF Kept

(* What a client to be read is like, and what the buffer becomes.          *)
BytesRead(f, c, b) ==
    \E n \in Nat \ {0} :
       /\ Longer(c, buf[f], n, b)
       /\ unread'[c] \in Nat /\ unread[c] = unread'[c] + n
       /\ \A d \in Conn \ {c} : unread'[d] = unread[d]
ToBeRead(e, f, c) ==
    /\ e.fd = f /\ fdTable[f] = c /\ Handled(e) /\ SameExchange
    /\ Reading(f) /\ InExchange(f, c) /\ net[c] \in {"up", "fin"}

LEMMA ReadableFacts ==
    ASSUME TypeOK, Tracked, Kept, NEW e \in batch, Read(e)
    PROVE  \E f \in Fd, c \in Conn : \E b :
              /\ ToBeRead(e, f, c) /\ BytesRead(f, c, b)
              /\ \/ Incomplete(f, b) \/ BadHeader(f, b) \/ BadBody(f, b)
                 \/ AnswerNow(f, b) \/ StartCgi(f, b) \/ BodyWriteKills(f, b)
<1>1. /\ ClientEvent(e) /\ e.in /\ Readable(e.fd) /\ Handled(e) /\ SameExchange
      /\ e.fd \in Fd /\ Timely(e)
  BY HandledFacts DEF Read, ClientEvent, Event, Events, Kept, BatchInv
<1>2. PICK f \in Fd : f = e.fd
  BY <1>1
<1>3. fdTypes[f] = "CLIENT"
  BY <1>1, <1>2 DEF ClientEvent
<1>4. PICK c \in Conn : c = fdTable[f] /\ InExchange(f, c)
  BY <1>3, ClientFacts
<1>5. net[c] \in {"up", "fin"}
  BY <1>1, <1>2, <1>4 DEF Readable, Reset, Tracked, SocketsTracked, Attached
<1>6. Reading(f)
  BY <1>1, <1>2, <1>4 DEF Timely, IsConn
<1>7. PICK n \in Nat \ {0} :
          LET b == buf[f] \o [i \in 1..n |-> c] IN
          /\ n <= unread[c] /\ unread' = [unread EXCEPT ![c] = @ - n]
          /\ \/ Incomplete(f, b) \/ BadHeader(f, b) \/ BadBody(f, b)
             \/ AnswerNow(f, b) \/ StartCgi(f, b) \/ BodyWriteKills(f, b)
  <2>1. \A n \in 1..unread[c] : n \in Nat \ {0} /\ n <= unread[c]
    BY DEF TypeOK, PeerType
  <2> QED
    BY <1>2, <1>4, <2>1 DEF Read
<1> DEFINE b == buf[f] \o [i \in 1..n |-> c]
<1>8. BytesRead(f, c, b)
  <2>1. /\ buf[f] \in Seq(Conn) /\ \A i \in DOMAIN buf[f] : buf[f][i] = c
        /\ unread \in [Conn -> Nat]
    BY <1>4 DEF InExchange, OwnBytes, TypeOK, ManagerType, PeerType
  <2>2. Longer(c, buf[f], n, b)
    BY <2>1, ReadBytes
  <2>3. /\ unread'[c] \in Nat /\ unread[c] = unread'[c] + n
        /\ \A d \in Conn \ {c} : unread'[d] = unread[d]
    BY <1>7, <2>1
  <2> QED
    BY <2>2, <2>3, Zenon DEF BytesRead
<1>9. ToBeRead(e, f, c)
  BY <1>1, <1>2, <1>4, <1>5, <1>6 DEF ToBeRead
<1> QED
  BY <1>7, <1>8, <1>9

LEMMA ReadKept ==
    ASSUME Patient, TypeOK, Tracked, Kept, NEW e \in batch,
           NEW f \in Fd, NEW c \in Conn, NEW b, ToBeRead(e, f, c), BytesRead(f, c, b),
           Incomplete(f, b) \/ BadHeader(f, b) \/ BadBody(f, b) \/ AnswerNow(f, b)
    PROVE  Kept'
<1> USE DEF ToBeRead
<1>1. /\ b \in Seq(Conn) /\ b[1] = c
      /\ \A i \in DOMAIN b : b[i] = c
      /\ {b[i] : i \in DOMAIN b} = {c}
  BY DEF BytesRead, Longer, Only
<1>2. /\ unread[c] \in Nat \ {0} /\ unread'[c] \in Nat /\ sent[c] \in 0..ReqLen
      /\ Len(b) \in Nat /\ Len(b) > 0
      /\ kind[c] # "badHeader" => sent[c] = Len(b) + unread'[c]
  <2>1. Len(buf[f]) \in Nat /\ sent[c] \in 0..ReqLen
    BY DEF Patient, TypeOK, PeerType, ManagerType
  <2>2. kind[c] # "badHeader" => sent[c] = Len(buf[f]) + unread[c]
    BY DEF InExchange
  <2> QED
    BY <2>1, <2>2 DEF BytesRead, Longer
<1>3. \A d \in Conn \ {c} : unread'[d] = unread[d]
  BY DEF BytesRead
<1>4. UNCHANGED <<kind, left, sent, rcvd, net, fdTable, active, runTag, serverVars, child, outFd>>
  BY DEF SameExchange, Incomplete, BadHeader, BadBody, AnswerNow, CloseAndArm,
     kernelVars, cgiVars, TypeOK, KernelType
<1>10. (\A d \in Conn \ {c} : SamePeer(d)) /\ Accounted(c)'
  BY <1>3, <1>4 DEF SamePeer, Accounted, Kept, Newcomers
<1>5. CASE Incomplete(f, b)
  <2>1. buf'[f] = b /\ resp'[f] = resp[f] /\ interest'[f] = interest[f] /\ active'[f] = active[f]
    BY <1>5 DEF Incomplete, TypeOK, ManagerType, kernelVars
  <2>2. kind[c] # "badHeader"
    BY <1>1, <1>5 DEF Incomplete
  <2>3. Reading(f)' /\ resp'[f] = <<>> /\ rcvd'[c] = 0
    BY <1>4, <2>1 DEF Reading, InExchange, Writing
  <2>4. OwnBytes(f, c)'
    BY <1>1, <2>1, <2>3, NoIndices DEF OwnBytes, Reading
  <2>5. net[c] = "up"
    <3>1. sent[c] # 0
      BY <1>2, <2>2
    <3> QED
      BY <3>1 DEF InExchange
  <2>6. InExchange(f, c)'
    BY <1>2, <1>4, <2>1, <2>2, <2>3, <2>4, <2>5 DEF InExchange, Reading, Awaiting
  <2>7. \A g \in Fd \ {f} : /\ interest'[g] = interest[g]
                            /\ buf'[g] = buf[g] /\ resp'[g] = resp[g]
    BY <1>5 DEF Incomplete, kernelVars, TypeOK, ManagerType
  <2> QED
    BY <1>10, <1>4, <2>6, <2>7, OwnStep
<1>6. CASE BadHeader(f, b) \/ BadBody(f, b) \/ AnswerNow(f, b)
  <2>1. /\ resp'[f] = Reply({c}) /\ interest'[f] = "out" /\ active'[f] = active[f]
        /\ \A g \in Fd \ {f} : /\ interest'[g] = interest[g]
                               /\ buf'[g] = buf[g] /\ resp'[g] = resp[g]
    <3>1. resp' = [resp EXCEPT ![f] = Reply({c})] /\ CloseAndArm({}, {f})
          /\ active' = active
      BY <1>1, <1>6 DEF BadHeader, BadBody, AnswerNow
    <3>2. \E x : buf' = [buf EXCEPT ![f] = x]
      BY <1>6 DEF BadHeader, BadBody, AnswerNow
    <3>3. interest'[f] = "out" /\ \A g \in Fd \ {f} : interest'[g] = interest[g]
      BY <3>1 DEF CloseAndArm
    <3> QED
      BY <3>1, <3>2, <3>3 DEF TypeOK, ManagerType
  <2>2. /\ buf'[f] \in {b, <<>>}
        /\ kind[c] = "badHeader" => buf'[f] = <<>>
        /\ kind[c] # "badHeader" => Len(b) >= ReqLen
    BY <1>1, <1>6 DEF BadHeader, BadBody, AnswerNow, TypeOK, ManagerType, Bad
  <2>3. Writing(f)'
    BY <1>4, <2>1, ReplyBytes DEF Reading, Writing
  <2>4. OwnBytes(f, c)'
    <3>1. \A i \in DOMAIN resp'[f] : resp'[f][i] = {c}
      BY <2>1, ReplyBytes
    <3>2. \A i \in DOMAIN buf'[f] : buf'[f][i] = c
      BY <1>1, <2>2, NoIndices
    <3> QED
      BY <2>3, <3>1, <3>2 DEF OwnBytes, Writing
  <2>5. kind[c] # "badHeader" => sent'[c] = ReqLen /\ unread'[c] = 0
    BY <1>2, <1>4, <2>2
  <2>6. ~Reading(f)' /\ ~Awaiting(f)'
    BY <2>1 DEF Reading, Awaiting
  <2>7. InExchange(f, c)'
    BY <1>4, <2>2, <2>3, <2>4, <2>5, <2>6 DEF InExchange
  <2> QED
    BY <1>10, <1>4, <2>1, <2>7, OwnStep
<1> QED
  BY <1>5, <1>6

-----------------------------------------------------------------------------
(* A client is written to.                                                 *)

WrittenTo(e, f, c) ==
    /\ e.fd = f /\ fdTable[f] = c /\ Handled(e)
    /\ Writing(f) /\ InExchange(f, c) /\ net[c] \in {"up", "fin"}

LEMMA WritableFacts ==
    ASSUME TypeOK, Tracked, Kept, NEW e \in batch, WriteSome(e) \/ WriteAll(e)
    PROVE  \E f \in Fd, c \in Conn : WrittenTo(e, f, c)
<1>1. /\ ClientEvent(e) /\ ~e.in /\ ~e.hup /\ Writable(e.fd) /\ Handled(e)
      /\ e.fd \in Fd /\ Timely(e)
  BY HandledFacts DEF WriteSome, WriteAll, ClientEvent, Event, Events, Kept, BatchInv
<1>2. PICK f \in Fd : f = e.fd
  BY <1>1
<1>3. fdTypes[f] = "CLIENT"
  BY <1>1, <1>2 DEF ClientEvent
<1>4. PICK c \in Conn : c = fdTable[f] /\ InExchange(f, c)
  BY <1>3, ClientFacts
<1>5. net[c] \in {"up", "fin"}
  BY <1>1, <1>2, <1>4 DEF Writable, Reset, Tracked, SocketsTracked, Attached
<1>6. Writing(f)
  BY <1>1, <1>2 DEF Timely
<1> QED
  BY <1>1, <1>2, <1>4, <1>5, <1>6 DEF WrittenTo

LEMMA WriteKept ==
    ASSUME TypeOK, Tracked, Kept, NEW e \in batch, WriteSome(e) \/ WriteAll(e)
    PROVE  Kept'
<1>1. PICK f \in Fd, c \in Conn : WrittenTo(e, f, c)
  BY WritableFacts
<1> USE DEF WrittenTo
<1>2. resp[f] \in Seq(SUBSET Conn) /\ \A i \in DOMAIN resp[f] : resp[f][i] = {c}
  BY <1>1 DEF TypeOK, ManagerType, InExchange, OwnBytes
<1>3. UNCHANGED <<fdTable, active, runTag, serverVars, child, outFd, net, kind, unread>>
  BY DEF WriteSome, WriteAll, cgiVars
<1>4. CASE WriteSome(e)
  <2>1. PICK n \in 1..(Len(resp[f]) - 1) :
          /\ resp' = [resp EXCEPT ![f] = SubSeq(@, n + 1, Len(@))]
          /\ rcvd' = [rcvd EXCEPT ![c] = @ + n]
    BY <1>1, <1>4 DEF WriteSome
  <2>2. interest' = [interest EXCEPT ![f] = "out"] /\ UNCHANGED <<buf, left, sent>>
    BY <1>1, <1>4 DEF WriteSome
  <2>3. /\ interest'[f] = "out" /\ resp'[f] = SubSeq(resp[f], n + 1, Len(resp[f]))
        /\ \A g \in Fd \ {f} : /\ interest'[g] = interest[g]
                               /\ buf'[g] = buf[g] /\ resp'[g] = resp[g]
    BY <2>1, <2>2 DEF TypeOK, ManagerType, KernelType
  <2>4. resp'[f] # <<>> /\ \A i \in DOMAIN resp'[f] : resp'[f][i] = {c}
    <3>1. Units(resp'[f], {c})
      BY <1>2, <2>3, RestBytes
    <3> QED
      BY <3>1, Zenon DEF Units
  <2>5. \A d \in Conn \ {c} : SamePeer(d)
    BY <1>3, <2>1, <2>2 DEF SamePeer, TypeOK, PeerType
  <2>6. Writing(f)' /\ ~Reading(f)' /\ ~Awaiting(f)'
    BY <1>1, <1>3, <2>3, <2>4 DEF Writing, Reading, Awaiting
  <2>7. InExchange(f, c)'
    BY <1>1, <1>3, <2>2, <2>4, <2>6 DEF InExchange, OwnBytes, Writing, Reading
  <2>8. Accounted(c)'
    BY <1>1, <1>3, <2>2 DEF Accounted, Kept, Newcomers
  <2> QED
    BY <1>1, <1>3, <2>3, <2>5, <2>7, <2>8, OwnStep
<1>5. CASE WriteAll(e)
  <2>1. /\ resp' = [resp EXCEPT ![f] = <<>>] /\ buf' = [buf EXCEPT ![f] = <<>>]
        /\ interest' = [interest EXCEPT ![f] = "in"]
        /\ rcvd' = [rcvd EXCEPT ![c] = 0] /\ sent' = [sent EXCEPT ![c] = 0]
        /\ left' = [left EXCEPT ![c] = IF @ = 0 THEN 0 ELSE @ - 1]
    BY <1>1, <1>5 DEF WriteAll
  <2>2. /\ interest'[f] = "in" /\ resp'[f] = <<>> /\ buf'[f] = <<>>
        /\ \A g \in Fd \ {f} : /\ interest'[g] = interest[g]
                               /\ buf'[g] = buf[g] /\ resp'[g] = resp[g]
    BY <2>1 DEF TypeOK, ManagerType, KernelType
  <2>3. rcvd'[c] = 0 /\ sent'[c] = 0 /\ \A d \in Conn \ {c} : SamePeer(d)
    BY <1>3, <2>1 DEF SamePeer, TypeOK, PeerType
  <2>4. Reading(f)' /\ ~Awaiting(f)' /\ ~Writing(f)' /\ OwnBytes(f, c)'
    BY <1>1, <1>3, <2>2, NoIndices DEF Writing, Reading, Awaiting, OwnBytes
  <2>5. kind[c] # "badHeader" => unread[c] = 0
    BY <1>1 DEF InExchange, Writing, Reading
  <2>6. InExchange(f, c)'
    BY <1>3, <2>2, <2>3, <2>4, <2>5, EmptySeq DEF InExchange
  <2>7. Accounted(c)'
    BY <1>1, <1>3, <2>3 DEF Accounted
  <2> QED
    BY <1>1, <1>3, <2>2, <2>3, <2>6, <2>7, OwnStep
<1> QED
  BY <1>4, <1>5

(* What a client gets are units of its own reply.                          *)
Hears(c) == heard' = [heard EXCEPT ![c] = @ \cup {c}]

LEMMA OwnHeard ==
    ASSUME TypeOK, NEW e \in batch, WriteSome(e) \/ WriteAll(e),
           NEW f \in Fd, NEW c \in Conn, WrittenTo(e, f, c)
    PROVE  Hears(c)
<1> USE DEF WrittenTo
<1>1. resp[f] \in Seq(SUBSET Conn) /\ \A i \in DOMAIN resp[f] : resp[f][i] = {c}
  BY DEF TypeOK, ManagerType, InExchange, OwnBytes
<1>2. Len(resp[f]) \in Nat \ {0}
  BY <1>1, EmptySeq DEF Writing
<1>3. PICK n \in 1..Len(resp[f]) : Heard(c, f, n)
  <2>1. CASE WriteSome(e)
    <3>1. PICK n \in 1..(Len(resp[f]) - 1) : Heard(c, f, n)
      BY <2>1 DEF WriteSome
    <3>2. n \in 1..Len(resp[f])
      BY <1>2
    <3> QED
      BY <3>1, <3>2
  <2>2. CASE WriteAll(e)
    <3>1. Heard(c, f, Len(resp[f])) /\ Len(resp[f]) \in 1..Len(resp[f])
      BY <1>2, <2>2 DEF WriteAll
    <3> QED
      BY <3>1
  <2> QED
    BY <2>1, <2>2
<1>4. UNION {resp[f][i] : i \in 1..n} = {c}
  BY <1>1, SentBytes
<1> QED
  BY <1>3, <1>4 DEF Heard, Hears

LEMMA HeardKept ==
    ASSUME TypeOK, Tracked, Kept, NEW e \in batch, WriteSome(e) \/ WriteAll(e),
           OwnResponse
    PROVE  OwnResponse'
<1>1. PICK f \in Fd, c \in Conn : WrittenTo(e, f, c)
  BY WritableFacts
<1>2. Hears(c)
  BY <1>1, OwnHeard
<1> QED
  BY <1>2 DEF Hears, OwnResponse, TypeOK, PeerType

-----------------------------------------------------------------------------
(* A script is started.                                                    *)

LEMMA StartKept ==
    ASSUME Patient, TypeOK, Tracked, Kept, NEW e \in batch,
           NEW f \in Fd, NEW c \in Conn, NEW b, ToBeRead(e, f, c), BytesRead(f, c, b),
           StartCgi(f, b)
    PROVE  Kept'
<1> USE DEF ToBeRead
<1> DEFINE tags == {b[i] : i \in DOMAIN b}
<1>1. /\ b[1] = c /\ (\A i \in DOMAIN b : b[i] = c) /\ tags = {c}
      /\ \A d \in Conn \ {c} : unread'[d] = unread[d]
  BY DEF BytesRead, Longer, Only
<1> HIDE DEF tags
<1>2. PICK r \in Cgi, k \in FreeFds :
        /\ child[r] = "none"
        /\ child' = [child EXCEPT ![r] = "running"]
        /\ outFd' = [outFd EXCEPT ![r] = k]
        /\ runTag' = [runTag EXCEPT ![r] = tags]
        /\ active' = [active EXCEPT ![f] = r]
        /\ fdTable' = [fdTable EXCEPT ![k] = r]
        /\ interest' = [interest EXCEPT ![k] = "in"]
        /\ fdTypes' = [fdTypes EXCEPT ![k] = "CGI"]
        /\ cgiToClient' = [cgiToClient EXCEPT ![k] = f]
  BY DEF StartCgi, tags
<1>3. /\ k \in Fd /\ fdTable[k] = None /\ k # f /\ ~IsConn(k) /\ ~IsConn(k)'
      /\ active[f] = None /\ cgiToClient[k] = None
  BY <1>2 DEF FreeFds, IsConn, Reading, Kept, Links, PipeIsMapped, TypeOK, KernelType
<1>4. \A g \in Fd : active[g] # r
  <2> SUFFICES ASSUME NEW g \in Fd, active[g] = r PROVE FALSE
    OBVIOUS
  <2>1. outFd[r] \in Fd /\ cgiToClient[outFd[r]] = g
    BY DEF Kept, Links, HeldIsMapped
  <2>2. fdTable[outFd[r]] = r
    BY <2>1 DEF Kept, Links, MappedHolds
  <2> QED
    BY <1>2, <2>1, <2>2 DEF Tracked, PipesTracked, Live, Over
<1>5. sent[c] = ReqLen /\ unread'[c] = 0 /\ kind[c] # "badHeader"
  <2>1. Len(b) >= ReqLen /\ kind[c] # "badHeader"
    BY <1>1 DEF StartCgi
  <2>2. sent[c] = Len(buf[f]) + unread[c]
    BY <2>1 DEF InExchange
  <2>3. Len(buf[f]) \in Nat /\ sent[c] \in 0..ReqLen
    BY DEF Patient, TypeOK, PeerType, ManagerType
  <2> QED
    BY <2>1, <2>2, <2>3 DEF BytesRead, Longer
<1>6. UNCHANGED <<net, resp, kind, left, sent, rcvd>> /\ buf' = [buf EXCEPT ![f] = b]
  BY DEF StartCgi, SameExchange
<1>7. ExchangeAt(f)'
  <2>1. /\ fdTable'[f] = c /\ interest'[f] = interest[f] /\ active'[f] = r
        /\ buf'[f] = b /\ runTag'[r] = {c} /\ r # None
    BY <1>1, <1>2, <1>3, <1>6 DEF TypeOK, KernelType, ManagerType, CgiType
  <2>2. Awaiting(f)' /\ ~Reading(f)' /\ ~Writing(f)' /\ resp'[f] = <<>>
    BY <1>6, <2>1 DEF Reading, Awaiting, Writing
  <2>3. OwnBytes(f, c)'
    BY <1>1, <2>1, <2>2, NoIndices DEF OwnBytes
  <2>4. net[c] = "up" /\ rcvd[c] = 0
    BY <1>5 DEF InExchange, Reading, Writing
  <2>5. InExchange(f, c)'
    BY <1>5, <1>6, <2>2, <2>3, <2>4 DEF InExchange
  <2> QED
    BY <2>1, <2>5 DEF ExchangeAt, IsConn
<1>8. ExchangeAt(k)'
  <2>1. buf[k] = <<>> /\ resp[k] = <<>> /\ active[k] = None
    BY <1>3 DEF Kept, Exchanges, ExchangeAt
  <2>2. interest'[k] = "in"
    BY <1>2, <1>3 DEF TypeOK, KernelType
  <2> QED
    BY <1>2, <1>3, <1>6, <2>1, <2>2 DEF ExchangeAt, TypeOK, ManagerType
<1>9. Exchanges' /\ Newcomers' /\ BatchInv'
  <2>1. \A g \in Fd \ {f, k} :
           /\ SameFd(g) /\ fdTable[g] \notin {c}
           /\ active[g] # None => runTag'[active[g]] = runTag[active[g]]
    <3> SUFFICES ASSUME NEW g \in Fd \ {f, k}
                 PROVE  /\ SameFd(g) /\ fdTable[g] \notin {c}
                        /\ active[g] # None => runTag'[active[g]] = runTag[active[g]]
      OBVIOUS
    <3>1. SameFd(g)
      BY <1>2, <1>3, <1>6 DEF SameFd, TypeOK, KernelType, ManagerType
    <3>2. fdTable[g] # c
      BY DEF Tracked, SocketsTracked, IsConn
    <3>3. active[g] # None => active[g] \in Cgi /\ active[g] # r
      BY <1>4 DEF TypeOK, ManagerType
    <3> QED
      BY <1>2, <3>1, <3>2, <3>3 DEF TypeOK, CgiType
  <2>2. \A d \in Conn \ {c} : SamePeer(d)
    BY <1>1, <1>6 DEF SamePeer
  <2>3. Accounted(c)'
    BY <1>6 DEF Accounted, Kept, Newcomers
  <2>4. \A d \in batch' : d.fd \in {f, k} => Timely(d)'
    <3> SUFFICES ASSUME NEW d \in batch', d.fd \in {f, k} PROVE Timely(d)'
      OBVIOUS
    <3>1. d \in batch /\ d.fd = k /\ d.fd # 0
      BY <1>3, HandledFacts DEF Kept, BatchInv
    <3> QED
      BY <1>3, <3>1, StaleTimely DEF Kept, BatchInv
  <2>5. batch' \subseteq batch /\ {f, k} \in SUBSET Fd /\ {c} \in SUBSET Conn
    BY <1>3, HandledFacts
  <2>6. (\A g \in {f, k} : ExchangeAt(g)') /\ (\A d \in {c} : Accounted(d)')
    BY <1>7, <1>8, <2>3
  <2> QED
    BY <2>1, <2>2, <2>4, <2>5, <2>6, OthersKept
<1>10. Links'
  <2> USE DEF Kept, Links
  <2>1. OpenIsTracked' /\ PipeIsMapped' /\ gcDone' = {}
    BY <1>2, <1>3, HandledFacts
       DEF OpenIsTracked, PipeIsMapped, TypeOK, KernelType, ServerType
  <2>2. MappedHolds'
    <3> SUFFICES ASSUME NEW j \in Fd, cgiToClient'[j] # None
                 PROVE  active'[cgiToClient'[j]] = fdTable'[j]
      BY DEF MappedHolds
    <3>1. CASE j = k
      BY <1>2, <1>3, <3>1 DEF TypeOK, KernelType, ServerType, ManagerType
    <3>2. CASE j # k
      <4>1. cgiToClient'[j] = cgiToClient[j] /\ fdTable'[j] = fdTable[j] /\ cgiToClient[j] \in Fd
        BY <1>2, <3>2 DEF TypeOK, KernelType, ServerType
      <4>2. active[cgiToClient[j]] = fdTable[j] /\ fdTable[j] \in Cgi
        BY <4>1 DEF MappedHolds, PipeIsMapped
      <4>3. cgiToClient[j] # f
        BY <1>3, <4>2
      <4> QED
        BY <1>2, <4>1, <4>2, <4>3 DEF TypeOK, ManagerType
    <3> QED
      BY <3>1, <3>2
  <2>3. HeldIsMapped'
    <3> SUFFICES ASSUME NEW g \in Fd, active'[g] # None
                 PROVE  outFd'[active'[g]] \in Fd /\ cgiToClient'[outFd'[active'[g]]] = g
      BY DEF HeldIsMapped
    <3>1. CASE g = f
      BY <1>2, <1>3, <3>1 DEF TypeOK, CgiType, ServerType, ManagerType
    <3>2. CASE g # f
      <4>1. active'[g] = active[g] /\ active[g] \in Cgi \ {r}
        BY <1>2, <1>4, <3>2 DEF TypeOK, ManagerType
      <4>2. outFd'[active[g]] = outFd[active[g]]
        BY <1>2, <4>1 DEF TypeOK, CgiType
      <4>3. outFd[active[g]] \in Fd /\ cgiToClient[outFd[active[g]]] = g
        BY <4>1 DEF HeldIsMapped
      <4>4. outFd[active[g]] # k
        BY <1>3, <4>3
      <4> QED
        BY <1>2, <4>1, <4>2, <4>3, <4>4 DEF TypeOK, ServerType
    <3> QED
      BY <3>1, <3>2
  <2>4. ChildIsHeld'
    <3> SUFFICES ASSUME NEW q \in Cgi, child'[q] \in Live
                 PROVE  \E g \in Fd : active'[g] = q
      BY DEF ChildIsHeld
    <3>1. CASE q = r
      BY <1>2, <3>1 DEF TypeOK, ManagerType
    <3>2. CASE q # r
      <4>1. child'[q] = child[q]
        BY <1>2, <3>2 DEF TypeOK, CgiType
      <4>2. PICK g \in Fd : active[g] = q
        BY <4>1 DEF ChildIsHeld
      <4>3. g # f
        BY <1>3, <4>2
      <4> QED
        BY <1>2, <4>2, <4>3 DEF TypeOK, ManagerType
    <3> QED
      BY <3>1, <3>2
  <2> QED
    BY <2>1, <2>2, <2>3, <2>4
<1> QED
  BY <1>9, <1>10 DEF Kept

-----------------------------------------------------------------------------
(* The output of a script.                                                 *)

(* The descriptor read is the run's own: the read picks up nothing else.   *)
LEMMA OwnOutput ==
    ASSUME TypeOK, Tracked, Kept, NEW k \in Fd, cgiToClient[k] # None,
           NEW h, h = cgiToClient[k]
    PROVE  Strangers(k, active[h]) = {} /\ Drained(k) = unread
<1>1. fdTable[k] \in Cgi /\ active[h] = fdTable[k] /\ ~IsConn(k)
  BY PipeFacts DEF IsConn
<1>2. Strangers(k, active[h]) = {}
  BY <1>1 DEF Strangers
<1>3. Drained(k) = [c \in Conn |-> unread[c]]
  BY <1>1 DEF Drained
<1> QED
  BY <1>2, <1>3 DEF TypeOK, PeerType

LEMMA NothingKept ==
    ASSUME TypeOK, Tracked, Kept, batch' \subseteq batch, gcDone' = gcDone,
           UNCHANGED <<fdTable, interest, net, serverVars, managerVars, cgiVars,
                       kind, left, sent, unread, rcvd>>
    PROVE  Kept'
<1>1. Exchanges' /\ Newcomers' /\ BatchInv'
  <2>1. \A g \in Fd : /\ SameFd(g) /\ fdTable[g] \notin {}
                      /\ active[g] # None => runTag'[active[g]] = runTag[active[g]]
    BY DEF SameFd, managerVars, cgiVars
  <2>2. \A d \in Conn : SamePeer(d)
    BY DEF SamePeer
  <2>3. {} \in SUBSET Fd /\ {} \in SUBSET Conn
    OBVIOUS
  <2> QED
    BY <2>1, <2>2, <2>3, OthersKept
<1>2. \A g \in Fd : fdTypes[g] = None <=> fdTable[g] = None
  BY DEF Kept, Links, OpenIsTracked
<1>3. Links'
  BY <1>2, SameLinks DEF Kept, serverVars, managerVars, cgiVars
<1> QED
  BY <1>1, <1>3 DEF Kept

LEMMA FinishedKept ==
    ASSUME TypeOK, Tracked, Kept, NEW k \in Fd, cgiToClient[k] # None,
           NEW h, h = cgiToClient[k], Finished(k, h),
           batch' \subseteq batch, gcDone' = gcDone,
           UNCHANGED <<kind, left, sent, rcvd>>
    PROVE  Kept'
<1>1. /\ h \in Fd /\ h # k /\ IsConn(h) /\ Awaiting(h) /\ ~IsConn(k)
      /\ fdTable[k] \in Cgi /\ active[h] = fdTable[k]
      /\ outFd[fdTable[k]] = k /\ CgisOf(h) = {k}
  BY PipeFacts DEF IsConn
<1>2. PICK r \in Cgi : fdTable[k] = r /\ active[h] = r /\ r # None
  BY <1>1
<1>3. PICK c \in Conn : fdTable[h] = c /\ InExchange(h, c)
  BY <1>1 DEF Kept, Exchanges, ExchangeAt, IsConn
<1>4. runTag[r] = {c}
  BY <1>2, <1>3 DEF InExchange, OwnBytes
<1>5. Runs({h}) = {r}
  BY <1>2 DEF Runs
<1>6. /\ UNCHANGED <<unread, runTag>>
      /\ resp' = [resp EXCEPT ![h] = Reply({c})]
  <2>1. Strangers(k, active[h]) = {} /\ Drained(k) = unread
    BY OwnOutput
  <2>2. /\ runTag' = [runTag EXCEPT ![active[h]] = @ \cup Strangers(k, active[h])]
        /\ unread' = Drained(k)
        /\ resp' = [resp EXCEPT ![h] = Reply(runTag'[active[h]])]
    BY DEF Finished
  <2>3. runTag' = runTag
    BY <1>2, <2>1, <2>2 DEF TypeOK, CgiType
  <2>4. runTag'[active[h]] = {c}
    BY <1>2, <1>4, <2>3
  <2> QED
    BY <2>1, <2>2, <2>3, <2>4
<1>7. /\ active' = [g \in Fd |-> IF g = h THEN None ELSE active[g]]
      /\ child'[r] \in Released /\ \A q \in Cgi \ {r} : child'[q] = child[q]
      /\ outFd' = [q \in Cgi |-> IF q = r THEN 0 ELSE outFd[q]]
  BY <1>5 DEF Finished, DeleteResponses, Reaping, Unkilled, Released
<1>8. buf' = [buf EXCEPT ![h] = <<>>] /\ CloseAndArm({k}, {h}) /\ Forget({k}, {k})
  BY DEF Finished
<1>9. /\ \A g \in Fd : /\ fdTable'[g] = IF g = k THEN None ELSE fdTable[g]
                       /\ fdTypes'[g] = IF g = k THEN None ELSE fdTypes[g]
                       /\ cgiToClient'[g] = IF g = k THEN None ELSE cgiToClient[g]
      /\ interest'[h] = "out" /\ \A g \in Fd \ {h, k} : interest'[g] = interest[g]
      /\ \A d \in Conn : net'[d] = net[d]
  BY <1>1, <1>2, <1>8 DEF CloseAndArm, Forget
<1>10. ~IsConn(k)'
  BY <1>9 DEF IsConn
<1>11. ExchangeAt(h)'
  <2>1. /\ fdTable'[h] = c /\ interest'[h] = "out" /\ active'[h] = None
        /\ resp'[h] = Reply({c}) /\ buf'[h] = <<>>
    BY <1>1, <1>3, <1>6, <1>7, <1>8, <1>9 DEF TypeOK, ManagerType
  <2>2. Writing(h)' /\ ~Reading(h)' /\ ~Awaiting(h)'
    BY <2>1, ReplyBytes DEF Writing, Reading, Awaiting
  <2>3. OwnBytes(h, c)'
    BY <2>1, ReplyBytes, NoIndices DEF OwnBytes
  <2>4. kind[c] # "badHeader" => sent[c] = ReqLen /\ unread[c] = 0
    BY <1>1, <1>3 DEF InExchange, Awaiting, Reading
  <2>5. InExchange(h, c)'
    BY <1>6, <2>1, <2>2, <2>3, <2>4 DEF InExchange
  <2> QED
    BY <2>1, <2>5 DEF ExchangeAt, IsConn
<1>12. ExchangeAt(k)'
  <2>1. buf[k] = <<>> /\ resp[k] = <<>> /\ active[k] = None
    BY <1>1 DEF Kept, Exchanges, ExchangeAt
  <2>2. interest'[k] = "none"
    BY <1>8 DEF CloseAndArm
  <2> QED
    BY <1>1, <1>6, <1>7, <1>8, <1>10, <2>1, <2>2 DEF ExchangeAt, TypeOK, ManagerType
<1>13. Exchanges' /\ Newcomers' /\ BatchInv'
  <2>1. \A g \in Fd \ {h, k} :
           /\ SameFd(g) /\ fdTable[g] \notin {}
           /\ active[g] # None => runTag'[active[g]] = runTag[active[g]]
    BY <1>1, <1>6, <1>7, <1>8, <1>9 DEF SameFd, TypeOK, ManagerType
  <2>2. \A d \in Conn : SamePeer(d)
    BY <1>6, <1>9 DEF SamePeer
  <2>3. \A d \in batch' : d.fd \in {h, k} => Timely(d)'
    <3> SUFFICES ASSUME NEW d \in batch', d.fd \in {h, k} PROVE Timely(d)'
      OBVIOUS
    <3>1. d \in batch /\ d.fd # 0 /\ Timely(d)
      BY <1>1 DEF Kept, BatchInv
    <3>2. d.fd # h
      BY <1>1, <3>1 DEF Timely, Reading, Writing, Awaiting
    <3> QED
      BY <1>1, <1>10, <3>1, <3>2, StaleTimely
  <2>4. {h, k} \in SUBSET Fd /\ {} \in SUBSET Conn
    BY <1>1
  <2>5. \A g \in {h, k} : ExchangeAt(g)'
    BY <1>11, <1>12
  <2> QED
    BY <2>1, <2>2, <2>3, <2>4, <2>5, OthersKept
<1>14. Links'
  <2> USE DEF Kept, Links
  <2>1. OpenIsTracked' /\ PipeIsMapped' /\ gcDone' = {}
    BY <1>9 DEF OpenIsTracked, PipeIsMapped
  <2>2. MappedHolds'
    <3> SUFFICES ASSUME NEW j \in Fd, cgiToClient'[j] # None
                 PROVE  active'[cgiToClient'[j]] = fdTable'[j]
      BY DEF MappedHolds
    <3>1. /\ j # k /\ cgiToClient'[j] = cgiToClient[j] /\ fdTable'[j] = fdTable[j]
          /\ cgiToClient[j] \in Fd
      BY <1>9 DEF TypeOK, ServerType
    <3>2. cgiToClient[j] # h
      BY <1>1, <3>1 DEF CgisOf
    <3> QED
      BY <1>7, <3>1, <3>2 DEF MappedHolds
  <2>3. \A g \in Fd \ {h} : active[g] # r
    BY <1>1, <1>2 DEF HeldIsMapped
  <2>4. HeldIsMapped'
    <3> SUFFICES ASSUME NEW g \in Fd, active'[g] # None
                 PROVE  outFd'[active'[g]] \in Fd /\ cgiToClient'[outFd'[active'[g]]] = g
      BY DEF HeldIsMapped
    <3>1. g # h /\ active'[g] = active[g] /\ active[g] \in Cgi \ {r}
      BY <1>7, <2>3 DEF TypeOK, ManagerType
    <3>2. outFd[active[g]] \in Fd /\ cgiToClient[outFd[active[g]]] = g
      BY <3>1 DEF HeldIsMapped
    <3>3. outFd[active[g]] # k
      BY <3>1, <3>2
    <3> QED
      BY <1>7, <1>9, <3>1, <3>2, <3>3
  <2>5. ChildIsHeld'
    BY <1>2, <1>7 DEF ChildIsHeld, Live, Over, Released
  <2> QED
    BY <2>1, <2>2, <2>4, <2>5
<1> QED
  BY <1>13, <1>14 DEF Kept

(* A mapped pipe always has its client and its Response: the two fallbacks *)
(* of HandleCgiOutput, for a client that is gone and a Response that is    *)
(* missing, are never taken.                                               *)
LEMMA OutputKept ==
    ASSUME TypeOK, Tracked, Kept, NEW k \in Fd, cgiToClient[k] # None,
           HandleCgiOutput(k), batch' \subseteq batch, gcDone' = gcDone,
           UNCHANGED <<kind, left, sent, rcvd>>
    PROVE  Kept'
<1>1. PICK h \in Fd : h = cgiToClient[k] /\ Holders(k) = {h} /\ ~ClientGone(h)
  BY PipeFacts
<1>2. StillRunning(k, h) \/ Finished(k, h)
  BY <1>1 DEF HandleCgiOutput, OrphanPipe, NoResponse, IsLowest
<1>3. CASE StillRunning(k, h)
  <2>1. Strangers(k, active[h]) = {} /\ Drained(k) = unread
    BY <1>1, OwnOutput
  <2>2. UNCHANGED <<runTag, unread>>
    BY <1>3, <2>1 DEF StillRunning, TypeOK, CgiType
  <2> QED
    BY <1>3, <2>2, NothingKept DEF StillRunning, kernelVars, cgiVars
<1>4. CASE Finished(k, h)
  BY <1>1, <1>4, FinishedKept
<1> QED
  BY <1>2, <1>3, <1>4

LEMMA PipeEventKept ==
    ASSUME TypeOK, Tracked, Kept, NEW e \in batch, PipeEvent(e) PROVE Kept'
<1>1. e.fd \in Fd /\ fdTypes[e.fd] = "CGI" /\ Handled(e) /\ SameExchange
  BY HandledFacts DEF PipeEvent, Event, Events
<1>2. cgiToClient[e.fd] # None
  <2>1. fdTable[e.fd] # None
    BY <1>1 DEF Kept, Links, OpenIsTracked
  <2>2. fdTable[e.fd] \notin Conn
    BY <1>1 DEF Tracked, SocketsTracked, IsConn
  <2>3. fdTable[e.fd] \in Cgi
    BY <1>1, <2>1, <2>2 DEF TypeOK, KernelType
  <2> QED
    BY <1>1, <2>3 DEF Kept, Links, PipeIsMapped
<1>3. batch' \subseteq batch /\ gcDone' = gcDone
  BY <1>1, HandledFacts
<1>4. CASE HandleCgiOutput(e.fd)
  BY <1>1, <1>2, <1>3, <1>4, OutputKept DEF SameExchange
<1>5. CASE UNCHANGED <<kernelVars, serverVars, managerVars, cgiVars, unread>>
  BY <1>1, <1>3, <1>5, NothingKept DEF SameExchange, kernelVars
<1> QED
  BY <1>2, <1>4, <1>5 DEF PipeEvent

-----------------------------------------------------------------------------
(* A client is accepted; an event meets a closed descriptor.               *)

LEMMA AcceptKept ==
    ASSUME TypeOK, Tracked, Kept, NEW e \in batch, Accept(e) PROVE Kept'
<1>1. PICK f \in FreeFds, c \in Conn :
        /\ net[c] = "queued"
        /\ fdTable' = [fdTable EXCEPT ![f] = c]
        /\ interest' = [interest EXCEPT ![f] = "in"]
        /\ net' = [net EXCEPT ![c] = "up"]
        /\ fdTypes' = [fdTypes EXCEPT ![f] = "CLIENT"]
  BY DEF Accept
<1>2. /\ f \in Fd /\ fdTable[f] = None /\ f # 0 /\ ~IsConn(f)
      /\ batch' \subseteq batch /\ gcDone' = gcDone
      /\ UNCHANGED <<cgiToClient, managerVars, cgiVars, peerVars>>
  BY HandledFacts DEF FreeFds, Accept, IsConn
<1>3. buf[f] = <<>> /\ resp[f] = <<>> /\ active[f] = None
  BY <1>2 DEF Kept, Exchanges, ExchangeAt
<1>4. unread[c] = sent[c] /\ rcvd[c] = 0 /\ left[c] = MaxRequests
      /\ (sent[c] > 0 => left[c] > 0) /\ sent[c] \in Nat
  BY <1>1 DEF Kept, Newcomers, Accounted, TypeOK, PeerType
<1>5. /\ fdTable'[f] = c /\ net'[c] = "up" /\ Reading(f)' /\ ~Awaiting(f)' /\ ~Writing(f)'
      /\ buf'[f] = <<>>
  BY <1>1, <1>2, <1>3 DEF Reading, Awaiting, Writing, managerVars, TypeOK, KernelType
<1>6. ExchangeAt(f)'
  <2>1. OwnBytes(f, c)'
    BY <1>5, NoIndices DEF OwnBytes, Reading
  <2>2. unread[c] = 0 + unread[c]
    BY <1>4
  <2>3. InExchange(f, c)'
    BY <1>2, <1>4, <1>5, <2>1, <2>2, EmptySeq DEF InExchange, peerVars
  <2> QED
    BY <1>5, <2>3 DEF ExchangeAt, IsConn
<1>7. Exchanges' /\ Newcomers' /\ BatchInv'
  <2>1. \A g \in Fd \ {f} :
           /\ SameFd(g) /\ fdTable[g] \notin {c}
           /\ active[g] # None => runTag'[active[g]] = runTag[active[g]]
    <3>1. \A g \in Fd : fdTable[g] # c
      BY <1>1 DEF Tracked, SocketsTracked, Attached
    <3>2. \A g \in Fd \ {f} : SameFd(g)
      BY <1>1, <1>2 DEF SameFd, managerVars, TypeOK, KernelType
    <3> QED
      BY <1>2, <3>1, <3>2 DEF cgiVars
  <2>2. \A d \in Conn \ {c} : SamePeer(d)
    BY <1>1, <1>2 DEF SamePeer, peerVars
  <2>3. Accounted(c)'
    BY <1>2, <1>4, <1>5 DEF Accounted, peerVars
  <2>4. \A d \in batch' : d.fd \in {f} => Timely(d)'
    <3> SUFFICES ASSUME NEW d \in batch', d.fd = f PROVE Timely(d)'
      OBVIOUS
    <3>1. Timely(d) /\ ~d.out
      BY <1>2 DEF Kept, BatchInv, Timely
    <3>2. MayClose(f, c)'
      BY <1>2, <1>4, <1>5 DEF MayClose, peerVars
    <3> QED
      BY <1>5, <3>1, <3>2 DEF Timely
  <2>5. {f} \in SUBSET Fd /\ {c} \in SUBSET Conn
    BY <1>2
  <2>6. (\A g \in {f} : ExchangeAt(g)') /\ (\A d \in {c} : Accounted(d)')
    BY <1>6, <2>3
  <2> QED
    BY <1>2, <2>1, <2>2, <2>4, <2>5, <2>6, OthersKept
<1>8. Links'
  <2>1. /\ fdTable[f] \notin Cgi /\ c \notin Cgi /\ c # None
        /\ fdTypes'[f] = "CLIENT" /\ "CLIENT" # None
    BY <1>1, <1>2 DEF TypeOK, ServerType
  <2>2. \A g \in Fd \ {f} : fdTypes[g] = None <=> fdTable[g] = None
    BY DEF Kept, Links, OpenIsTracked
  <2>3. \A g \in Fd \ {f} : fdTable'[g] = fdTable[g] /\ fdTypes'[g] = fdTypes[g]
    BY <1>1
  <2>4. Links
    BY DEF Kept
  <2> QED
    BY <1>2, <1>5, <2>1, <2>2, <2>3, <2>4, SameLinks DEF managerVars, cgiVars
<1> QED
  BY <1>7, <1>8 DEF Kept

LEMMA DropKept ==
    ASSUME TypeOK, Tracked, Kept, NEW e \in batch, AcceptDrops(e) PROVE Kept'
<1>1. PICK c \in Conn : net[c] = "queued" /\ net' = [net EXCEPT ![c] = "down"]
  BY DEF AcceptDrops
<1>2. /\ batch' \subseteq batch /\ gcDone' = gcDone
      /\ UNCHANGED <<fdTable, interest, serverVars, managerVars, cgiVars, peerVars>>
  BY HandledFacts DEF AcceptDrops
<1>3. Exchanges' /\ Newcomers' /\ BatchInv'
  <2>1. \A g \in Fd : fdTable[g] # c
    BY <1>1 DEF Tracked, SocketsTracked, Attached
  <2>2. \A g \in Fd : /\ SameFd(g) /\ fdTable[g] \notin {c}
                      /\ active[g] # None => runTag'[active[g]] = runTag[active[g]]
    BY <1>2, <2>1 DEF SameFd, managerVars, cgiVars
  <2>3. \A d \in Conn \ {c} : SamePeer(d)
    BY <1>1, <1>2 DEF SamePeer, peerVars
  <2>4. Accounted(c)'
    BY <1>1, <1>2 DEF Kept, Newcomers, Accounted, peerVars, TypeOK, KernelType
  <2>5. {} \in SUBSET Fd /\ {c} \in SUBSET Conn
    OBVIOUS
  <2>6. \A g \in Fd \ {} :
           /\ SameFd(g) /\ fdTable[g] \notin {c}
           /\ active[g] # None => runTag'[active[g]] = runTag[active[g]]
    BY <2>2
  <2>7. /\ \A d \in {c} : Accounted(d)'
        /\ \A g \in {} : ExchangeAt(g)'
        /\ \A d \in batch' : d.fd \in {} => Timely(d)'
    BY <2>4
  <2>8. batch' \subseteq batch
    BY <1>2
  <2> QED
    BY <2>3, <2>5, <2>6, <2>7, <2>8, OthersKept
<1>4. \A g \in Fd : fdTypes[g] = None <=> fdTable[g] = None
  BY DEF Kept, Links, OpenIsTracked
<1>5. Links'
  BY <1>2, <1>4, SameLinks DEF Kept, serverVars, managerVars, cgiVars
<1> QED
  BY <1>3, <1>5 DEF Kept

LEMMA UnknownKept ==
    ASSUME TypeOK, Tracked, Kept, NEW e \in batch, UnknownFd(e) PROVE Kept'
<1>1. PICK f \in Fd : f = e.fd /\ fdTypes[f] = None
  BY HandledFacts DEF UnknownFd, Event, Events
<1>2. /\ Handled(e) /\ CloseAndArm({f}, {})
      /\ UNCHANGED <<serverVars, managerVars, cgiVars, peerVars>>
  BY <1>1 DEF UnknownFd
<1>3. fdTable[f] = None
  BY <1>1 DEF Kept, Links, OpenIsTracked
<1>4. /\ \A g \in Fd : fdTable'[g] = fdTable[g]
      /\ \A g \in Fd \ {f} : interest'[g] = interest[g]
      /\ \A c \in Conn : net'[c] = net[c]
  BY <1>2, <1>3 DEF CloseAndArm
<1>5. ExchangeAt(f)'
  <2>1. interest'[f] = "none"
    BY <1>2 DEF CloseAndArm
  <2> QED
    BY <1>2, <1>3, <1>4, <2>1 DEF Kept, Exchanges, ExchangeAt, IsConn, managerVars
<1>6. Exchanges' /\ Newcomers' /\ BatchInv'
  <2>1. \A g \in Fd \ {f} :
           /\ SameFd(g) /\ fdTable[g] \notin {}
           /\ active[g] # None => runTag'[active[g]] = runTag[active[g]]
    BY <1>2, <1>4 DEF SameFd, managerVars, cgiVars
  <2>2. \A d \in Conn : SamePeer(d)
    BY <1>2, <1>4 DEF SamePeer, peerVars
  <2>3. \A d \in batch' : d.fd \notin {f}
    BY <1>1, <1>2, HandledFacts DEF Kept, BatchInv
  <2>4. {f} \in SUBSET Fd /\ {} \in SUBSET Conn /\ batch' \subseteq batch
    BY <1>2, HandledFacts
  <2>5. \A g \in {f} : ExchangeAt(g)'
    BY <1>5
  <2> QED
    BY <2>1, <2>2, <2>3, <2>4, <2>5, OthersKept
<1>7. \A g \in Fd : fdTypes[g] = None <=> fdTable[g] = None
  BY DEF Kept, Links, OpenIsTracked
<1>8. Links'
  BY <1>2, <1>4, <1>7, SameLinks, HandledFacts DEF Kept, serverVars, managerVars, cgiVars
<1> QED
  BY <1>6, <1>8 DEF Kept

LEMMA EventKept ==
    ASSUME Patient, TypeOK, Tracked, Kept, NEW e \in batch, HandleEvent(e), mode' = "up"
    PROVE  Kept'
<1>1. CASE Accept(e) \/ AcceptDrops(e) \/ UnknownFd(e) \/ PipeEvent(e)
  BY <1>1, AcceptKept, DropKept, UnknownKept, PipeEventKept
<1>2. CASE HangUpReading(e) \/ HangUpOtherwise(e) \/ ReadFails(e) \/ WriteFails(e)
  BY <1>2, CloseOnEvent
<1>3. CASE WriteSome(e) \/ WriteAll(e)
  BY <1>3, WriteKept
<1>4. CASE Read(e)
  <2>1. PICK f \in Fd, c \in Conn : \E b :
          /\ ToBeRead(e, f, c) /\ BytesRead(f, c, b)
          /\ \/ Incomplete(f, b) \/ BadHeader(f, b) \/ BadBody(f, b)
             \/ AnswerNow(f, b) \/ StartCgi(f, b) \/ BodyWriteKills(f, b)
    BY <1>4, ReadableFacts
  <2>2. PICK b :
          /\ ToBeRead(e, f, c) /\ BytesRead(f, c, b)
          /\ \/ Incomplete(f, b) \/ BadHeader(f, b) \/ BadBody(f, b)
             \/ AnswerNow(f, b) \/ StartCgi(f, b) \/ BodyWriteKills(f, b)
    BY <2>1
  <2>3. ~BodyWriteKills(f, b)
    BY DEF BodyWriteKills
  <2>4. CASE StartCgi(f, b)
    BY <2>2, <2>4, StartKept
  <2>5. CASE Incomplete(f, b) \/ BadHeader(f, b) \/ BadBody(f, b) \/ AnswerNow(f, b)
    BY <2>2, <2>5, ReadKept
  <2> QED
    BY <2>2, <2>3, <2>4, <2>5
<1>5. CASE AcceptFails(e)
  BY <1>5, HandledFacts, NothingKept DEF AcceptFails, kernelVars, peerVars
<1>6. CASE WriteKills(e)
  BY <1>6 DEF WriteKills
<1> QED
  BY <1>1, <1>2, <1>3, <1>4, <1>5, <1>6 DEF HandleEvent

-----------------------------------------------------------------------------
(* epoll_wait, the pass over the scripts, the end of a round.              *)

(* What epoll reports of a client fits the client.                         *)
LEMMA ReportedClient ==
    ASSUME TypeOK, Tracked, Kept, NEW e \in ClientEvents
    PROVE  e.fd \in Fd /\ IsConn(e.fd) /\ Timely(e)
<1>1. PICK f \in Fd :
        /\ e.fd = f /\ e.in = (interest[f] = "in") /\ e.out = (interest[f] = "out")
        /\ e.hup = Reset(fdTable[f]) /\ IsConn(f)
        /\ \/ interest[f] = "out"
           \/ interest[f] = "in" /\ unread[fdTable[f]] > 0
           \/ net[fdTable[f]] \in {"fin", "rst", "broken"}
  BY DEF ClientEvents
<1>2. PICK c \in Conn : fdTable[f] = c /\ InExchange(f, c)
  BY <1>1 DEF Kept, Exchanges, ExchangeAt, IsConn
<1>3. Reading(f) \/ Awaiting(f) \/ Writing(f)
  BY <1>2 DEF InExchange
<1>4. e.in \/ e.out
  BY <1>1, <1>3 DEF Reading, Awaiting, Writing
<1>5. e.out => ~e.in /\ Writing(f)
  BY <1>1, <1>3 DEF Reading, Awaiting, Writing
<1>6. ASSUME ~e.out PROVE Reading(f)
  <2>1. CASE Writing(f)
    BY <1>1, <1>6, <2>1 DEF Writing
  <2>2. ~Awaiting(f)
    <3> SUFFICES ASSUME Awaiting(f) PROVE FALSE
      OBVIOUS
    <3>1. interest[f] = "in" /\ net[c] = "up" /\ unread[c] = 0
      BY <1>2 DEF Awaiting, InExchange, Reading
    <3> QED
      BY <1>1, <1>2, <3>1
  <2> QED
    BY <1>3, <2>1, <2>2
<1>7. ASSUME ~e.out, e.hup \/ ~Readable(f) PROVE MayClose(f, c)
  <2>1. Reading(f)
    BY <1>6, <1>7
  <2>2. interest[f] = "in" /\ unread[c] \in Nat
    BY <2>1 DEF Reading, TypeOK, PeerType
  <2>3. net[c] \in {"fin", "rst", "broken"}
    BY <1>1, <1>2, <1>7, <2>2 DEF Readable, Reset
  <2>4. sent[c] = 0
    BY <1>2, <2>1, <2>3 DEF InExchange
  <2>5. buf[f] \in Seq(Conn) /\ (buf[f] = <<>> \/ Len(buf[f]) = 0)
    <3>1. buf[f] \in Seq(Conn) /\ Len(buf[f]) \in Nat
      BY DEF TypeOK, ManagerType
    <3>2. buf[f] = <<>> \/ sent[c] = Len(buf[f]) + unread[c]
      BY <1>2, <2>1 DEF InExchange
    <3> QED
      BY <2>2, <2>4, <3>1, <3>2
  <2>6. buf[f] = <<>>
    BY <2>5, EmptySeq
  <2> QED
    BY <2>3, <2>6 DEF MayClose
<1> QED
  BY <1>1, <1>2, <1>4, <1>5, <1>6, <1>7 DEF Timely

LEMMA ReportedPipe ==
    ASSUME TypeOK, NEW edge \in [Pipes -> {"quiet", "in", "hup", "inhup"}],
           NEW e \in PipeEvents(edge)
    PROVE  e.fd \in Fd /\ ~IsConn(e.fd) /\ Timely(e)
<1>1. PICK k \in Fd :
        /\ fdTable[k] \in Cgi /\ e.fd = k /\ e.out = FALSE
        /\ e.in = (edge[k] # "hup") /\ e.hup = (edge[k] # "in")
  BY DEF PipeEvents, Pipes
<1>2. ~IsConn(k)
  BY <1>1 DEF IsConn
<1>3. e.in \/ e.hup
  BY <1>1
<1> QED
  BY <1>1, <1>2, <1>3 DEF Timely

LEMMA ReportedOnce ==
    ASSUME TypeOK, NEW edge \in [Pipes -> {"quiet", "in", "hup", "inhup"}],
           NEW d \in ClientEvents \cup ListenEvent \cup PipeEvents(edge),
           NEW e \in ClientEvents \cup ListenEvent \cup PipeEvents(edge),
           d.fd = e.fd
    PROVE  d = e
<1>1. ASSUME NEW x \in ClientEvents
      PROVE  /\ x = [fd |-> x.fd, in |-> interest[x.fd] = "in",
                     out |-> interest[x.fd] = "out", hup |-> Reset(fdTable[x.fd])]
             /\ x.fd \in Fd /\ fdTable[x.fd] \in Conn
  BY DEF ClientEvents, IsConn
<1>2. ASSUME NEW x \in ListenEvent
      PROVE  x = [fd |-> 0, in |-> TRUE, out |-> FALSE, hup |-> FALSE]
  BY DEF ListenEvent
<1>3. ASSUME NEW x \in PipeEvents(edge)
      PROVE  /\ x = [fd |-> x.fd, in |-> edge[x.fd] # "hup", out |-> FALSE,
                     hup |-> edge[x.fd] # "in"]
             /\ x.fd \in Fd /\ fdTable[x.fd] \in Cgi
  BY DEF PipeEvents, Pipes
<1>4. CASE d \in ClientEvents
  <2>1. e \in ClientEvents
    BY <1>1, <1>2, <1>3, <1>4
  <2> QED
    BY <1>1, <1>4, <2>1, ZenonT(30)
<1>5. CASE d \in ListenEvent
  <2>1. e \in ListenEvent
    BY <1>1, <1>2, <1>3, <1>5
  <2> QED
    BY <1>2, <1>5, <2>1
<1>6. CASE d \in PipeEvents(edge)
  <2>1. e \in PipeEvents(edge)
    BY <1>1, <1>2, <1>3, <1>6
  <2> QED
    BY <1>3, <1>6, <2>1, Zenon
<1> QED
  BY <1>4, <1>5, <1>6

(* A new batch, or none.                                                   *)
LEMMA BatchKept ==
    ASSUME TypeOK, Kept, BatchInv', gcDone' = {},
           UNCHANGED <<kernelVars, serverVars, managerVars, cgiVars, peerVars>>
    PROVE  Kept'
<1>1. \A g \in Fd : SameFd(g)
  BY DEF SameFd, kernelVars, managerVars
<1>2. \A d \in Conn : SamePeer(d)
  BY DEF SamePeer, kernelVars, peerVars
<1>3. Exchanges'
  BY <1>1, <1>2, SameExchangeAt DEF Kept, Exchanges, IsConn, cgiVars
<1>4. Newcomers'
  BY <1>2 DEF Kept, Newcomers, Accounted, SamePeer
<1>5. Links'
  <2>1. \A g \in Fd : fdTypes[g] = None <=> fdTable[g] = None
    BY DEF Kept, Links, OpenIsTracked
  <2>2. gcDone' = gcDone
    BY DEF Kept, Links
  <2> QED
    BY <2>1, <2>2, SameLinks DEF Kept, kernelVars, serverVars, managerVars, cgiVars
<1> QED
  BY <1>3, <1>4, <1>5 DEF Kept

LEMMA PollKept ==
    ASSUME TypeOK, Tracked, Kept, EpollWait \/ EpollInterrupted PROVE Kept'
<1>1. UNCHANGED <<kernelVars, serverVars, managerVars, cgiVars, peerVars>> /\ gcDone' = {}
  BY DEF EpollWait, EpollInterrupted
<1>2. CASE EpollInterrupted
  BY <1>1, <1>2, BatchKept DEF EpollInterrupted, BatchInv
<1>3. CASE EpollWait
  <2>1. PICK edge \in [Pipes -> {"quiet", "in", "hup", "inhup"}] :
          batch' = ClientEvents \cup ListenEvent \cup PipeEvents(edge)
    BY <1>3 DEF EpollWait
  <2>2. ASSUME NEW e \in batch', e.fd # 0 PROVE Timely(e)'
    <3>1. Timely(e) /\ e.fd \in Fd
      BY <2>1, <2>2, ReportedClient, ReportedPipe DEF ListenEvent
    <3> QED
      BY <1>1, <3>1, SameTimely DEF SameFd, SamePeer, IsConn, kernelVars, managerVars, peerVars
  <2>3. \A d, e \in batch' : d.fd = e.fd => d = e
    BY <2>1, ReportedOnce
  <2> QED
    BY <1>1, <2>2, <2>3, BatchKept DEF BatchInv
<1> QED
  BY <1>2, <1>3

LEMMA GcDoneKept == ASSUME TypeOK, Tracked, Kept, GcDone PROVE Kept'
<1>1. gcDone = {} /\ gcDone' = {} /\ batch' = batch
  BY DEF Kept, Links, GcDone
<1>2. /\ CloseAndArm({}, {}) /\ Forget({}, {})
      /\ UNCHANGED <<managerVars, cgiVars, peerVars>>
  <2>1. {f \in Fd : fdTable[f] # None /\ fdTypes[f] # None
                    /\ gcDone \cap CgisOf(f) # {}} = {}
    BY <1>1
  <2> QED
    BY <1>1, <2>1 DEF GcDone
<1>3. UNCHANGED <<fdTable, interest, net, serverVars>>
  BY <1>2 DEF CloseAndArm, Forget, TypeOK, KernelType, ServerType, serverVars
<1> QED
  BY <1>1, <1>2, <1>3, NothingKept DEF peerVars

LEMMA ServerKept ==
    ASSUME Patient, TypeOK, Tracked, Kept, Server, mode' = "up" PROVE Kept'
<1>1. CASE EpollWait \/ EpollInterrupted
  BY <1>1, PollKept
<1>2. ASSUME NEW k \in Fd, GcSkip(k) PROVE FALSE
  <2>1. cgiToClient[k] # None
    BY <1>2 DEF GcSkip, GcTurn, IsLowest, Mapped
  <2>2. IsConn(cgiToClient[k]) /\ fdTable[k] \in Cgi
    BY <2>1, PipeFacts
  <2> QED
    BY <1>2, <2>2 DEF GcSkip, IsConn
<1>3. ASSUME NEW k \in Fd, GcPoll(k) PROVE Kept'
  <2>1. /\ cgiToClient[k] # None /\ HandleCgiOutput(k)
        /\ UNCHANGED <<batch, gcDone, kind, left, sent, rcvd>>
    BY <1>3 DEF GcPoll, GcTurn, IsLowest, Mapped
  <2> QED
    BY <2>1, OutputKept
<1>4. CASE GcDone
  BY <1>4, GcDoneKept
<1>5. ASSUME NEW e \in batch, HandleEvent(e) PROVE Kept'
  BY <1>5, EventKept
<1>6. CASE NextRound
  BY <1>6, NothingKept DEF NextRound, kernelVars, peerVars, gcVars
<1>7. CASE Shutdown \/ PollError
  BY <1>7 DEF Shutdown, PollError
<1> QED
  BY <1>1, <1>2, <1>3, <1>4, <1>5, <1>6, <1>7 DEF Server

-----------------------------------------------------------------------------
(* Clients, scripts and signals.                                           *)

(* A client moves by itself.                                               *)
LEMMA PeerKept ==
    ASSUME TypeOK, Tracked, Kept, NEW c \in Conn,
           UNCHANGED <<fdTable, interest, serverVars, managerVars, cgiVars, batch, gcDone>>,
           \A d \in Conn \ {c} : SamePeer(d), Accounted(c)',
           \A f \in Fd : fdTable[f] = c =>
               /\ InExchange(f, c)'
               /\ \A e \in batch : e.fd = f => Timely(e)'
    PROVE  Kept'
<1> DEFINE T == {f \in Fd : fdTable[f] = c}
<1>1. \A g \in Fd \ T : /\ SameFd(g) /\ fdTable[g] \notin {c}
                        /\ active[g] # None => runTag'[active[g]] = runTag[active[g]]
  BY DEF SameFd, managerVars, cgiVars
<1>2. \A g \in T : ExchangeAt(g)'
  BY DEF ExchangeAt, IsConn
<1>3. \A e \in batch' : e.fd \in T => Timely(e)'
  OBVIOUS
<1>4. T \in SUBSET Fd /\ {c} \in SUBSET Conn /\ batch' \subseteq batch
      /\ \A d \in {c} : Accounted(d)'
  OBVIOUS
<1> HIDE DEF T
<1>5. Exchanges' /\ Newcomers' /\ BatchInv'
  BY <1>1, <1>2, <1>3, <1>4, OthersKept
<1>6. \A g \in Fd : fdTypes[g] = None <=> fdTable[g] = None
  BY DEF Kept, Links, OpenIsTracked
<1>7. Links'
  BY <1>6, SameLinks DEF Kept, serverVars, managerVars, cgiVars
<1> QED
  BY <1>5, <1>7 DEF Kept

LEMMA SendKept ==
    ASSUME Patient, TypeOK, Tracked, Kept, NEW c \in Conn, SendUnit(c) PROVE Kept'
<1>1. /\ UNCHANGED <<fdTable, interest, net, serverVars, managerVars, cgiVars,
                     kind, left, rcvd, batch, gcDone>>
      /\ net[c] \in {"queued", "up"} /\ left[c] > 0 /\ sent[c] < ReqLen
      /\ sent' = [sent EXCEPT ![c] = @ + 1] /\ unread' = [unread EXCEPT ![c] = @ + 1]
  BY DEF SendUnit, Patient, TypeOK, PeerType, kernelVars, loopVars
<1>2. /\ sent[c] \in Nat /\ unread[c] \in Nat
      /\ sent'[c] = sent[c] + 1 /\ unread'[c] = unread[c] + 1
      /\ \A d \in Conn \ {c} : SamePeer(d)
  BY <1>1 DEF TypeOK, PeerType, SamePeer
<1>3. Accounted(c)'
  BY <1>1, <1>2 DEF Accounted, Kept, Newcomers
<1>4. ASSUME NEW f \in Fd, fdTable[f] = c
      PROVE  /\ InExchange(f, c)'
             /\ \A e \in batch : e.fd = f => Timely(e)'
  <2>1. InExchange(f, c) /\ IsConn(f) /\ net[c] = "up"
    BY <1>1, <1>4 DEF Kept, Exchanges, ExchangeAt, IsConn, Tracked, SocketsTracked, Attached
  <2>2. OwnBytes(f, c)' /\ (Reading(f)' <=> Reading(f)) /\ (Awaiting(f)' <=> Awaiting(f))
        /\ (Writing(f)' <=> Writing(f))
    BY <1>1, <2>1 DEF InExchange, OwnBytes, Reading, Awaiting, Writing, managerVars, cgiVars
  <2>3. kind[c] # "badHeader" => Reading(f) /\ sent[c] = Len(buf[f]) + unread[c]
    BY <1>1, <2>1 DEF InExchange
  <2>4. kind[c] # "badHeader" => sent'[c] = Len(buf[f]) + unread'[c]
    BY <1>2, <2>3 DEF TypeOK, ManagerType
  <2>5. InExchange(f, c)'
    BY <1>1, <2>1, <2>2, <2>3, <2>4 DEF InExchange, managerVars
  <2>6. ASSUME NEW e \in batch, e.fd = f PROVE Timely(e)'
    <3>1. Timely(e) /\ f # 0
      BY <2>6 DEF Kept, BatchInv
    <3>2. Readable(f) => Readable(f)'
      BY <1>1, <1>2, <1>4 DEF Readable, Reset, IsConn
    <3>3. MayClose(f, c) => MayClose(f, c)'
      BY <1>1 DEF MayClose, managerVars
    <3> QED
      BY <1>1, <1>4, <2>1, <2>2, <2>6, <3>1, <3>2, <3>3 DEF Timely, Reset, IsConn
  <2> QED
    BY <2>5, <2>6
<1> QED
  BY <1>1, <1>2, <1>3, <1>4, PeerKept

LEMMA LeaveKept ==
    ASSUME Patient, TypeOK, Tracked, Kept, NEW c \in Conn, Leave(c) PROVE Kept'
<1>1. /\ UNCHANGED <<fdTable, interest, serverVars, managerVars, cgiVars,
                     peerVars, batch, gcDone>>
      /\ net[c] \in {"up", "fin"} /\ net'[c] \in {"fin", "rst", "broken"}
      /\ \A d \in Conn \ {c} : net'[d] = net[d]
  BY DEF Leave, loopVars, TypeOK, KernelType
<1>2. sent[c] = 0 \/ rcvd[c] > 0
  <2>1. PeerPhase(c) \in {"idle", "receiving"} /\ rcvd[c] \in Nat
    BY DEF Leave, Patient, TypeOK, PeerType
  <2> QED
    BY <2>1 DEF PeerPhase
<1>3. (\A d \in Conn \ {c} : SamePeer(d)) /\ Accounted(c)'
  BY <1>1 DEF SamePeer, peerVars, Accounted, Kept, Newcomers
<1>4. ASSUME NEW f \in Fd, fdTable[f] = c
      PROVE  /\ InExchange(f, c)'
             /\ \A e \in batch : e.fd = f => Timely(e)'
  <2>1. InExchange(f, c) /\ IsConn(f)
    BY <1>4 DEF Kept, Exchanges, ExchangeAt, IsConn
  <2>2. OwnBytes(f, c)' /\ (Reading(f)' <=> Reading(f)) /\ (Awaiting(f)' <=> Awaiting(f))
        /\ (Writing(f)' <=> Writing(f))
    BY <1>1, <2>1 DEF InExchange, OwnBytes, Reading, Awaiting, Writing, managerVars, cgiVars
  <2>3. ~Writing(f) => sent[c] = 0 /\ rcvd[c] = 0
    <3>1. ~Writing(f) => rcvd[c] = 0
      BY <2>1 DEF InExchange
    <3> QED
      BY <1>2, <3>1
  <2>4. ~Awaiting(f)
    BY <2>1, <2>3 DEF InExchange, Awaiting, Writing, Reading
  <2>5. InExchange(f, c)'
    BY <1>1, <2>1, <2>2, <2>3, <2>4 DEF InExchange, managerVars, peerVars, Reading, Writing
  <2>6. Reading(f) => buf[f] = <<>>
    <3>1. buf[f] \in Seq(Conn) /\ Len(buf[f]) \in Nat /\ unread[c] \in Nat
      BY DEF TypeOK, ManagerType, PeerType
    <3>2. Reading(f) => sent[c] = 0
      BY <2>3 DEF Reading, Writing
    <3>3. Reading(f) => buf[f] = <<>> \/ sent[c] = Len(buf[f]) + unread[c]
      BY <2>1 DEF InExchange
    <3>4. Reading(f) => buf[f] = <<>> \/ Len(buf[f]) = 0
      BY <3>1, <3>2, <3>3
    <3> QED
      BY <3>1, <3>4, EmptySeq
  <2>7. ASSUME NEW e \in batch, e.fd = f PROVE Timely(e)'
    <3>1. Timely(e) /\ f # 0
      BY <2>7 DEF Kept, BatchInv
    <3>2. ~Reset(c)
      BY <1>1 DEF Reset
    <3>3. Reading(f) => MayClose(f, c)'
      BY <1>1, <2>6 DEF MayClose, managerVars
    <3> QED
      BY <1>1, <1>4, <2>1, <2>2, <2>7, <3>1, <3>2, <3>3 DEF Timely, IsConn
  <2> QED
    BY <2>5, <2>7
<1> QED
  BY <1>1, <1>3, <1>4, PeerKept

LEMMA ConnectKept ==
    ASSUME TypeOK, Tracked, Kept, NEW c \in Conn, Connect(c) PROVE Kept'
<1>1. /\ UNCHANGED <<fdTable, interest, serverVars, managerVars, cgiVars,
                     left, sent, unread, rcvd, batch, gcDone>>
      /\ net[c] = "unborn" /\ net'[c] = "queued"
      /\ \A d \in Conn \ {c} : net'[d] = net[d] /\ kind'[d] = kind[d]
  BY DEF Connect, loopVars, TypeOK, KernelType, PeerType
<1>2. \A d \in Conn \ {c} : SamePeer(d)
  BY <1>1 DEF SamePeer
<1>3. Accounted(c)'
  BY <1>1 DEF Accounted, Kept, Newcomers
<1>4. \A f \in Fd : fdTable[f] # c
  BY <1>1 DEF Tracked, SocketsTracked, Attached
<1> QED
  BY <1>1, <1>2, <1>3, <1>4, PeerKept

LEMMA ChildOverKept ==
    ASSUME TypeOK, Tracked, Kept, NEW r \in Cgi, ChildOver(r) PROVE Kept'
<1>1. /\ UNCHANGED <<fdTable, interest, net, serverVars, managerVars, outFd, runTag,
                     kind, left, sent, unread, rcvd, batch, gcDone>>
      /\ child[r] = "running" /\ \A q \in Cgi \ {r} : child'[q] = child[q]
  BY DEF ChildOver, kernelVars, peerVars, loopVars, TypeOK, CgiType
<1>0. child[r] \in Live
  BY <1>1 DEF Live
<1>2. \A g \in Fd : /\ SameFd(g) /\ fdTable[g] \notin {}
                    /\ active[g] # None => runTag'[active[g]] = runTag[active[g]]
  BY <1>1 DEF SameFd, managerVars
<1>3. \A d \in Conn : SamePeer(d)
  BY <1>1 DEF SamePeer
<1>4. {} \in SUBSET Fd /\ {} \in SUBSET Conn
  OBVIOUS
<1>5. Exchanges' /\ Newcomers' /\ BatchInv'
  BY <1>1, <1>2, <1>3, <1>4, OthersKept
<1>6. \A g \in Fd : fdTypes[g] = None <=> fdTable[g] = None
  BY DEF Kept, Links, OpenIsTracked
<1>7. Links'
  BY <1>0, <1>1, <1>6, SameLinks DEF Kept, serverVars, managerVars
<1> QED
  BY <1>5, <1>7 DEF Kept

LEMMA EnvironmentKept ==
    ASSUME Patient, TypeOK, Tracked, Kept, Environment PROVE Kept'
<1>1. CASE SignalArrives
  BY <1>1, NothingKept DEF SignalArrives, kernelVars, peerVars
<1> QED
  BY <1>1, ConnectKept, SendKept, LeaveKept, ChildOverKept DEF Environment

-----------------------------------------------------------------------------
(* The inductive invariant.                                                *)

LEMMA PatientInit == Init => PatientInv
<1> SUFFICES ASSUME Init PROVE PatientInv
  OBVIOUS
<1>1. TypeOK /\ Tracked
  BY InitType DEF Init, Tracked, SocketsTracked, PipesTracked, IsConn, Attached
<1>2. Exchanges
  BY DEF Init, Exchanges, ExchangeAt, IsConn
<1>3. Newcomers
  BY DEF Init, Newcomers, Accounted
<1>4. Links
  BY DEF Init, Links, OpenIsTracked, PipeIsMapped, MappedHolds, HeldIsMapped,
     ChildIsHeld, Live, Over
<1>5. BatchInv
  BY DEF Init, BatchInv
<1> QED
  BY <1>1, <1>2, <1>3, <1>4, <1>5 DEF PatientInv, TrackedInv, Kept

(* A process that is gone stays so.                                        *)
LEMMA UpBefore ==
    ASSUME [Next]_vars, mode' = "up"
    PROVE  mode = "up"
<1>1. CASE UNCHANGED vars
  BY <1>1 DEF vars, loopVars
<1>2. CASE Environment
  BY <1>2 DEF Environment, Connect, SendUnit, Leave, ChildOver, SignalArrives
<1>3. CASE Server
  BY <1>3 DEF Server, EpollWait, EpollInterrupted, GcSkip, GcPoll, GcTurn,
     GcDone, NextRound, Shutdown, PollError, RoundOver, HandleEvent, Accept,
     AcceptDrops, AcceptFails, UnknownFd, PipeEvent, HangUpReading, HangUpOtherwise,
     ReadFails, Read, WriteFails, WriteKills, WriteSome, WriteAll,
     ClientEvent, Event
<1> QED
  BY <1>1, <1>2, <1>3 DEF Next, Ended

LEMMA UnchangedKept ==
    ASSUME TypeOK, Tracked, Kept, UNCHANGED vars PROVE Kept'
BY NothingKept DEF vars, kernelVars, peerVars, loopVars

LEMMA PatientStep ==
    ASSUME Patient, PatientInv, [Next]_vars PROVE PatientInv'
<1>1. TrackedInv'
  BY TrackedStep DEF PatientInv
<1>2. ASSUME mode' = "up" PROVE Kept'
  <2>1. mode = "up"
    BY <1>2, UpBefore
  <2>2. TypeOK /\ Tracked /\ Kept
    BY <2>1 DEF PatientInv, TrackedInv
  <2> QED
    BY <1>2, <2>2, EnvironmentKept, ServerKept, UnchangedKept DEF Next, Ended
<1> QED
  BY <1>1, <1>2 DEF PatientInv

LEMMA PatientAlways == ASSUME Patient PROVE Spec => []PatientInv
<1>1. PatientInv /\ [Next]_vars => PatientInv'
  BY PatientStep
<1> QED
  BY <1>1, PatientInit, PTL DEF Spec

-----------------------------------------------------------------------------
(* What the invariant is for.                                              *)

(* With patient clients the five maps agree on every script in flight.     *)
THEOREM MapsAlwaysAgree == ASSUME Patient PROVE Spec => []MapsAgree
<1>1. PatientInv => MapsAgree
  <2> SUFFICES ASSUME TypeOK, Tracked, Kept, NEW f \in Fd
               PROVE  /\ cgiToClient[f] # None =>
                           /\ fdTypes[f] = "CGI" /\ fdTable[f] \in Cgi
                           /\ active[cgiToClient[f]] = fdTable[f]
                           /\ IsConn(cgiToClient[f])
                      /\ fdTable[f] \in Cgi =>
                           cgiToClient[f] # None /\ outFd[fdTable[f]] = f
                      /\ active[f] # None => cgiToClient[outFd[active[f]]] = f
                      /\ (fdTypes[f] = None) = (fdTable[f] = None)
    BY DEF PatientInv, TrackedInv, MapsAgree
  <2>1. ASSUME cgiToClient[f] # None
        PROVE  /\ fdTypes[f] = "CGI" /\ fdTable[f] \in Cgi
               /\ active[cgiToClient[f]] = fdTable[f] /\ IsConn(cgiToClient[f])
    <3>1. fdTable[f] \in Cgi
      BY <2>1 DEF Kept, Links, PipeIsMapped
    <3> QED
      BY <2>1, <3>1, PipeFacts DEF Tracked, PipesTracked
  <2>2. fdTable[f] \in Cgi => cgiToClient[f] # None /\ outFd[fdTable[f]] = f
    BY DEF Kept, Links, PipeIsMapped, Tracked, PipesTracked
  <2>3. active[f] # None => cgiToClient[outFd[active[f]]] = f
    BY DEF Kept, Links, HeldIsMapped
  <2>4. (fdTypes[f] = None) = (fdTable[f] = None)
    BY DEF Kept, Links, OpenIsTracked
  <2> QED
    BY <2>1, <2>2, <2>3, <2>4
<1> QED
  BY <1>1, PatientAlways, PTL

(* With patient clients nothing waits for writability without a reply.     *)
THEOREM WritersHaveReplies == ASSUME Patient PROVE Spec => []WriterHasReply
<1>1. PatientInv => WriterHasReply
  <2> SUFFICES ASSUME TypeOK, Tracked, Kept, NEW f \in Fd, interest[f] = "out"
               PROVE  resp[f] # <<>>
    BY DEF PatientInv, TrackedInv, WriterHasReply
  <2>1. ExchangeAt(f)
    BY DEF Kept, Exchanges
  <2>2. Writing(f)
    BY <2>1 DEF ExchangeAt, InExchange, Reading, Awaiting
  <2> QED
    BY <2>2 DEF Writing
<1> QED
  BY <1>1, PatientAlways, PTL

(* With patient clients a number that is free has nothing kept under it.   *)
THEOREM NothingIsLeftBehind == ASSUME Patient PROVE Spec => []NothingLeftBehind
<1>1. PatientInv => NothingLeftBehind
  BY DEF PatientInv, NothingLeftBehind, Kept, Exchanges, ExchangeAt, IsConn
<1> QED
  BY <1>1, PatientAlways, PTL

-----------------------------------------------------------------------------
(* What patient clients see of PollServer: whose replies they get, how the *)
(* server ends, and that it is the service HttpService describes.          *)

(* Where the bytes a client got can change.                                *)
LEMMA HeardByWriting ==
    ASSUME [Next]_vars
    PROVE  \/ UNCHANGED heard
           \/ /\ mode = "up"
              /\ \E e \in batch : WriteSome(e) \/ WriteAll(e)
<1>1. CASE UNCHANGED vars
  BY <1>1 DEF vars, peerVars
<1>2. CASE Environment
  BY <1>2 DEF Environment, Connect, SendUnit, Leave, ChildOver, SignalArrives, peerVars
<1>3. CASE Server
  <2>1. ASSUME NEW e \in batch, HandleEvent(e)
        PROVE  UNCHANGED heard \/ (mode = "up" /\ (WriteSome(e) \/ WriteAll(e)))
    BY <2>1 DEF HandleEvent, Accept, AcceptDrops, AcceptFails, UnknownFd, PipeEvent, HangUpReading,
       HangUpOtherwise, ReadFails, Read, WriteFails, WriteKills, WriteSome, WriteAll,
       SameExchange, peerVars, ClientEvent, Event
  <2> QED
    BY <1>3, <2>1 DEF Server, EpollWait, EpollInterrupted, GcSkip, GcPoll, GcDone,
       NextRound, Shutdown, PollError, peerVars
<1> QED
  BY <1>1, <1>2, <1>3 DEF Next, Ended

(* A patient client never gets a unit of a reply to somebody else's        *)
(* request, however numbers are reused.                                    *)
THEOREM OnlyOwnResponses == ASSUME Patient PROVE Spec => []OwnResponse
<1>1. Init => OwnResponse
  BY DEF Init, OwnResponse
<1>2. PatientInv /\ OwnResponse /\ [Next]_vars => OwnResponse'
  <2> SUFFICES ASSUME PatientInv, OwnResponse, [Next]_vars PROVE OwnResponse'
    OBVIOUS
  <2>1. CASE UNCHANGED heard
    BY <2>1 DEF OwnResponse
  <2>2. ASSUME mode = "up", NEW e \in batch, WriteSome(e) \/ WriteAll(e)
        PROVE  OwnResponse'
    BY <2>2, HeardKept DEF PatientInv, TrackedInv
  <2> QED
    BY <2>1, <2>2, HeardByWriting
<1> QED
  BY <1>1, <1>2, PatientAlways, PTL DEF Spec

-----------------------------------------------------------------------------
(* The only step that stops the server in order.                           *)
LEMMA StopsByShutdown ==
    ASSUME [Next]_vars, mode' = "stopped"
    PROVE  UNCHANGED vars \/ (mode = "up" /\ Shutdown)
<1>1. CASE Environment
  BY <1>1 DEF Environment, Connect, SendUnit, Leave, ChildOver, SignalArrives, loopVars
<1>2. CASE Server
  <2>1. ASSUME NEW e \in batch, HandleEvent(e) PROVE FALSE
    BY <2>1 DEF HandleEvent, Accept, AcceptDrops, AcceptFails, UnknownFd, PipeEvent, HangUpReading,
       HangUpOtherwise, ReadFails, Read, Incomplete, BadHeader, BadBody, AnswerNow,
       StartCgi, BodyWriteKills, WriteFails, WriteKills, WriteSome, WriteAll,
       ClientEvent, Event
  <2> QED
    BY <1>2, <2>1 DEF Server, EpollWait, EpollInterrupted, GcSkip, GcPoll, GcTurn,
       GcDone, NextRound, Shutdown, PollError, RoundOver
<1> QED
  BY <1>1, <1>2 DEF Next, Ended

LEMMA ShutdownClean == ASSUME TypeOK, Tracked, Kept, Shutdown PROVE CleanShutdown'
<1> DEFINE Clients == {f \in Fd : fdTypes[f] = "CLIENT"}
           K == Clients \cup (UNION {CgisOf(f) : f \in Clients}) \cup PipesOf(Fd)
<1>1. CloseAndArm(K, {}) /\ DeleteResponses(Fd)
  BY DEF Shutdown
<1>2. ASSUME NEW f \in Fd, fdTable[f] # None PROVE f \in K
  <2>1. CASE IsConn(f)
    BY <2>1 DEF Tracked, SocketsTracked
  <2>2. CASE fdTable[f] \in Cgi
    <3>1. cgiToClient[f] # None
      BY <2>2 DEF Kept, Links, PipeIsMapped
    <3>2. PICK cl : cl = cgiToClient[f]
      OBVIOUS
    <3>3. cl \in Fd /\ IsConn(cl) /\ CgisOf(cl) = {f}
      BY <3>1, <3>2, PipeFacts
    <3>4. cl \in Clients /\ f \in CgisOf(cl)
      BY <3>3 DEF Tracked, SocketsTracked
    <3> QED
      BY <3>4
  <2> QED
    BY <1>2, <2>1, <2>2 DEF TypeOK, KernelType, IsConn
<1>3. \A f \in Fd : fdTable'[f] = None
  BY <1>1, <1>2 DEF CloseAndArm
<1> HIDE DEF Clients, K
<1>4. ASSUME NEW r \in Cgi PROVE child'[r] \in {"none"} \cup Released
  <2>1. child[r] \in Live => r \in Runs(Fd)
    <3> SUFFICES ASSUME child[r] \in Live PROVE r \in Runs(Fd)
      OBVIOUS
    <3>1. PICK f \in Fd : active[f] = r
      BY DEF Kept, Links, ChildIsHeld
    <3>2. r # None
      BY IdentityAssumption
    <3> QED
      BY <3>1, <3>2 DEF Runs
  <2> QED
    BY <1>1, <2>1 DEF DeleteResponses, Reaping, Unkilled, ChildStates, Released,
       TypeOK, CgiType
<1> QED
  BY <1>3, <1>4 DEF CleanShutdown

(* With patient clients a signal ends the server with every socket and     *)
(* pipe closed, and no script outlives it: each was waited for or sent     *)
(* SIGKILL (RequestsManager's destructor, CgiHandler::closeCgi).           *)
THEOREM ShutdownIsClean == ASSUME Patient PROVE Spec => []CleanShutdown
<1>1. Init => CleanShutdown
  BY DEF Init, CleanShutdown
<1>2. PatientInv /\ CleanShutdown /\ [Next]_vars => CleanShutdown'
  <2> SUFFICES ASSUME PatientInv, CleanShutdown, [Next]_vars, mode' = "stopped"
               PROVE  CleanShutdown'
    BY DEF CleanShutdown
  <2>1. CASE UNCHANGED vars
    BY <2>1 DEF CleanShutdown, vars, kernelVars, cgiVars, loopVars
  <2>2. CASE mode = "up" /\ Shutdown
    BY <2>2, ShutdownClean DEF PatientInv, TrackedInv
  <2> QED
    BY <2>1, <2>2, StopsByShutdown
<1> QED
  BY <1>1, <1>2, PatientAlways, PTL DEF Spec
-----------------------------------------------------------------------------
(* PollServer implements HttpService, step by step.                        *)

(* What a step does to what a client sees of its exchange.                 *)
SameTalk(c) == sent'[c] = sent[c] /\ rcvd'[c] = rcvd[c] /\ left'[c] = left[c]
SameNet(c) ==
    \/ net'[c] = net[c]
    \/ net[c] \in {"unborn", "queued"} /\ net'[c] \in {"queued", "up"}
    \/ net[c] = "fin" /\ net'[c] = "broken"

ViewOf(s, r, n) ==
    IF n = "down" THEN "closed"
    ELSE IF r > 0 THEN "answering" ELSE IF s >= ReqLen THEN "asked" ELSE "idle"

LEMMA ExchangeNow ==
    ASSUME TypeOK, "badHeader" \notin Kinds, NEW c \in Conn
    PROVE  Exchange[c] = ViewOf(sent[c], rcvd[c], net[c])
<1>1. kind[c] # "badHeader" /\ rcvd[c] \in Nat
  BY NoKindAssumption DEF TypeOK, PeerType, AllKinds
<1>2. Asked(c) <=> sent[c] >= ReqLen
  BY <1>1 DEF Asked
<1> QED
  BY <1>1, <1>2 DEF Exchange, ViewOf

LEMMA ExchangeNext ==
    ASSUME TypeOK', "badHeader" \notin Kinds, NEW c \in Conn
    PROVE  Exchange'[c] = ViewOf(sent'[c], rcvd'[c], net'[c])
<1>1. kind'[c] # "badHeader" /\ rcvd'[c] \in Nat
  BY NoKindAssumption DEF TypeOK, PeerType, AllKinds
<1>2. Asked(c)' <=> sent'[c] >= ReqLen
  BY <1>1 DEF Asked
<1> QED
  BY <1>1, <1>2 DEF Exchange, ViewOf

LEMMA SameService ==
    ASSUME TypeOK, TypeOK', "badHeader" \notin Kinds,
           \A c \in Conn : SameTalk(c) /\ SameNet(c), UNCHANGED <<heard, mode>>
    PROVE  UNCHANGED Http!vars
<1>1. \A c \in Conn : Exchange'[c] = Exchange[c]
  BY ExchangeNow, ExchangeNext DEF SameTalk, SameNet, ViewOf
<1>2. Exchange' = Exchange
  BY <1>1 DEF Exchange
<1>3. Answers' = Answers
  BY DEF Answers, SameTalk
<1>4. Gone' = Gone
  BY DEF Gone, SameNet
<1> QED
  BY <1>2, <1>3, <1>4 DEF Http!vars

(* The process ends: connections are closed with it or stay as they are.   *)
LEMMA EndService ==
    ASSUME TypeOK, TypeOK', "badHeader" \notin Kinds, mode = "up", mode' # "up",
           \A c \in Conn : SameTalk(c) /\ net'[c] \in {net[c], "down"}, UNCHANGED heard
    PROVE  Http!Next
<1> DEFINE S == {c \in Conn : net'[c] = "down"}
<1>1. \A c \in Conn : Exchange'[c] = IF c \in S THEN "closed" ELSE Exchange[c]
  BY ExchangeNow, ExchangeNext DEF SameTalk, ViewOf
<1>2. Exchange' = [c \in Conn |-> Exchange'[c]]
  BY DEF Exchange
<1>3. Exchange' = [c \in Conn |-> IF c \in S THEN "closed" ELSE Exchange[c]]
  BY <1>1, <1>2
<1>4. Answers' = Answers
  BY DEF Answers, SameTalk
<1>5. Gone' = Gone \cup S
  BY DEF Gone
<1>6. Http!End(S)
  BY <1>3, <1>4, <1>5 DEF Http!End, Http!Closing
<1>7. S \in SUBSET Conn
  OBVIOUS
<1> QED
  BY <1>6, <1>7 DEF Http!Next

(* One client's exchange moves.                                            *)
Moves(c, v) == Exchange' = [Exchange EXCEPT ![c] = v]

LEMMA ExchangeMoves ==
    ASSUME TypeOK, TypeOK', "badHeader" \notin Kinds, NEW c \in Conn,
           \A d \in Conn \ {c} : SameTalk(d) /\ SameNet(d)
    PROVE  Moves(c, ViewOf(sent'[c], rcvd'[c], net'[c]))
<1> DEFINE v == ViewOf(sent'[c], rcvd'[c], net'[c])
<1>1. Exchange'[c] = v
  BY ExchangeNext
<1>2. \A d \in Conn \ {c} : Exchange'[d] = Exchange[d]
  BY ExchangeNow, ExchangeNext DEF SameTalk, SameNet, ViewOf
<1>3. Exchange = [d \in Conn |-> Exchange[d]] /\ Exchange' = [d \in Conn |-> Exchange'[d]]
  BY DEF Exchange
<1> HIDE DEF v
<1>4. Exchange' = [Exchange EXCEPT ![c] = v]
  BY <1>1, <1>2, <1>3
<1> QED
  BY <1>4 DEF Moves, v

LEMMA SendService ==
    ASSUME Patient, TypeOK, TypeOK', Tracked, Kept, "badHeader" \notin Kinds,
           NEW c \in Conn, SendUnit(c)
    PROVE  [Http!Next]_(Http!vars)
<1>1. /\ UNCHANGED <<net, left, rcvd, heard, mode>> /\ mode = "up"
      /\ net[c] \in {"queued", "up"} /\ left[c] > 0 /\ left[c] \in 0..MaxRequests
      /\ sent[c] \in Nat /\ sent[c] < ReqLen /\ sent'[c] = sent[c] + 1
      /\ \A d \in Conn \ {c} : SameTalk(d)
  BY LengthAssumption DEF SendUnit, Patient, SameTalk, TypeOK, PeerType, kernelVars, loopVars
<1>2. \A d \in Conn : SameNet(d)
  BY <1>1 DEF SameNet
<1>3. rcvd[c] = 0
  <2>1. CASE net[c] = "queued"
    BY <2>1 DEF Kept, Newcomers, Accounted
  <2>2. CASE net[c] = "up"
    <3>1. PICK f \in Fd : fdTable[f] = c
      BY <2>2 DEF Tracked, SocketsTracked, Attached
    <3>2. InExchange(f, c)
      BY <3>1 DEF Kept, Exchanges, ExchangeAt, IsConn
    <3>3. kind[c] # "badHeader"
      BY NoKindAssumption DEF TypeOK, PeerType, AllKinds
    <3> QED
      BY <1>1, <3>2, <3>3 DEF InExchange, Reading, Writing
  <2> QED
    BY <1>1, <2>1, <2>2
<1>4. Exchange[c] = "idle"
  BY <1>1, <1>3, ExchangeNow, LengthAssumption DEF ViewOf
<1>5. Answers' = Answers /\ Gone' = Gone
  BY <1>1 DEF Answers, Gone
<1>6. CASE sent'[c] >= ReqLen
  <2>1. ViewOf(sent'[c], rcvd'[c], net'[c]) = "asked"
    BY <1>1, <1>3, <1>6 DEF ViewOf
  <2>2. Moves(c, "asked")
    BY <1>1, <1>2, <2>1, ExchangeMoves
  <2>3. Answers[c] < MaxRequests
    BY <1>1, LengthAssumption DEF Answers
  <2>4. Http!Ask(c)
    BY <1>1, <1>4, <1>5, <2>2, <2>3 DEF Http!Ask, Moves
  <2> QED
    BY <2>4 DEF Http!Next
<1>7. CASE ~(sent'[c] >= ReqLen)
  <2>1. ViewOf(sent'[c], rcvd'[c], net'[c]) = "idle"
    BY <1>1, <1>3, <1>7 DEF ViewOf
  <2>2. Moves(c, "idle")
    BY <1>1, <1>2, <2>1, ExchangeMoves
  <2>3. Exchange' = Exchange
    BY <1>4, <2>2 DEF Moves, Exchange
  <2> QED
    BY <1>1, <1>5, <2>3 DEF Http!vars
<1> QED
  BY <1>6, <1>7

LEMMA LeaveService ==
    ASSUME TypeOK, TypeOK', "badHeader" \notin Kinds, NEW c \in Conn, Leave(c)
    PROVE  [Http!Next]_(Http!vars)
<1>1. /\ UNCHANGED <<sent, rcvd, left, heard, mode>> /\ mode = "up"
      /\ \/ net[c] = "up" /\ net'[c] \in {"fin", "rst"}
         \/ net[c] = "fin" /\ net'[c] = "broken"
      /\ \A d \in Conn \ {c} : net'[d] = net[d]
  BY DEF Leave, peerVars, loopVars, TypeOK, KernelType
<1>2. \A d \in Conn : SameTalk(d)
  BY <1>1 DEF SameTalk
<1>3. CASE net[c] = "fin"
  BY <1>1, <1>2, <1>3, SameService DEF SameNet
<1>4. CASE net[c] = "up"
  <2>1. Exchange' = Exchange
    <3>1. \A d \in Conn : Exchange'[d] = Exchange[d]
      BY <1>1, <1>4, ExchangeNow, ExchangeNext DEF ViewOf
    <3> QED
      BY <3>1 DEF Exchange
  <2>2. Answers' = Answers
    BY <1>1 DEF Answers
  <2>3. c \notin Gone /\ Gone' = Gone \cup {c}
    BY <1>1, <1>4 DEF Gone
  <2>4. Http!Leave(c)
    BY <1>1, <2>1, <2>2, <2>3 DEF Http!Leave
  <2> QED
    BY <2>4 DEF Http!Next
<1> QED
  BY <1>1, <1>3, <1>4

LEMMA WriteService ==
    ASSUME TypeOK, TypeOK', Tracked, Kept, "badHeader" \notin Kinds,
           NEW e \in batch, WriteSome(e) \/ WriteAll(e)
    PROVE  Http!Next
<1>1. PICK f \in Fd, c \in Conn : WrittenTo(e, f, c)
  BY WritableFacts
<1>2. Hears(c)
  BY <1>1, OwnHeard
<1>3. e.fd = f /\ fdTable[f] = c /\ InExchange(f, c) /\ Writing(f) /\ net[c] \in {"up", "fin"}
  BY <1>1 DEF WrittenTo
<1>4. kind[c] # "badHeader"
  BY NoKindAssumption DEF TypeOK, PeerType, AllKinds
<1>5. sent[c] = ReqLen /\ sent[c] > 0 /\ left[c] > 0
  BY <1>3, <1>4, LengthAssumption DEF InExchange, Reading, Writing, Kept, Newcomers, Accounted
<1>6. Exchange[c] \in {"asked", "answering"}
  BY <1>3, <1>5, ExchangeNow, LengthAssumption DEF ViewOf
<1>7. UNCHANGED <<net, mode>> /\ mode = "up"
  BY DEF WriteSome, WriteAll, ClientEvent, Event
<1>8. Gone' = Gone
  BY <1>7 DEF Gone
<1>9. CASE WriteSome(e)
  <2>1. /\ UNCHANGED <<sent, left>> /\ rcvd'[c] > 0
        /\ \A d \in Conn \ {c} : rcvd'[d] = rcvd[d]
    <3>1. PICK n \in 1..(Len(resp[f]) - 1) : rcvd' = [rcvd EXCEPT ![c] = @ + n]
      BY <1>3, <1>9 DEF WriteSome
    <3>2. n \in Nat \ {0} /\ rcvd \in [Conn -> Nat]
      BY DEF TypeOK, PeerType, ManagerType
    <3> QED
      BY <1>9, <3>1, <3>2 DEF WriteSome
  <2>2. ViewOf(sent'[c], rcvd'[c], net'[c]) = "answering"
    BY <1>3, <1>7, <2>1 DEF ViewOf
  <2>3. Moves(c, "answering")
    BY <1>7, <2>1, <2>2, ExchangeMoves DEF SameTalk, SameNet
  <2>4. Answers' = Answers
    BY <2>1 DEF Answers
  <2>5. Http!Send(c)
    BY <1>2, <1>6, <1>7, <1>8, <2>3, <2>4 DEF Http!Send, Moves, Hears
  <2> QED
    BY <2>5 DEF Http!Next
<1>10. CASE WriteAll(e)
  <2>1. /\ rcvd' = [rcvd EXCEPT ![c] = 0] /\ sent' = [sent EXCEPT ![c] = 0]
        /\ left' = [left EXCEPT ![c] = IF @ = 0 THEN 0 ELSE @ - 1]
    BY <1>3, <1>10 DEF WriteAll
  <2>2. /\ rcvd'[c] = 0 /\ sent'[c] = 0 /\ left'[c] = left[c] - 1
        /\ \A d \in Conn \ {c} : SameTalk(d)
    BY <1>5, <2>1 DEF SameTalk, TypeOK, PeerType
  <2>3. ViewOf(sent'[c], rcvd'[c], net'[c]) = "idle"
    BY <1>3, <1>7, <2>2, LengthAssumption DEF ViewOf
  <2>4. Moves(c, "idle")
    BY <1>7, <2>2, <2>3, ExchangeMoves DEF SameNet
  <2>5. Answers' = [Answers EXCEPT ![c] = @ + 1]
    <3>1. MaxRequests - left'[c] = MaxRequests - left[c] + 1
      BY <2>2, LengthAssumption DEF TypeOK, PeerType
    <3> QED
      BY <2>2, <3>1 DEF Answers, SameTalk
  <2>6. Http!Complete(c)
    BY <1>2, <1>6, <1>7, <1>8, <2>4, <2>5 DEF Http!Complete, Moves, Hears
  <2> QED
    BY <2>6 DEF Http!Next
<1> QED
  BY <1>9, <1>10

(* A client is closed on an event: it left, or got nothing of a reply yet. *)
LEMMA CloseService ==
    ASSUME TypeOK, TypeOK', Tracked, Kept, "badHeader" \notin Kinds, NEW e \in batch,
           HangUpReading(e) \/ HangUpOtherwise(e) \/ ReadFails(e) \/ WriteFails(e)
    PROVE  Http!Next
<1> DEFINE f == e.fd
<1>1. f \in Fd /\ fdTypes[f] = "CLIENT" /\ Timely(e) /\ mode = "up"
      /\ UNCHANGED <<kind, left, sent, rcvd, heard, mode>>
  BY HandledFacts DEF HangUpReading, HangUpOtherwise, ReadFails, WriteFails,
     ClientEvent, Event, TypeOK, LoopType, Events, Kept, BatchInv, peerVars
<1>2. IsConn(f) /\ fdTable[f] \in Conn
  BY <1>1, ClientFacts
<1>3. PICK c \in Conn : fdTable[f] = c /\ \A g \in Fd : fdTable[g] = c => g = f
  BY <1>1, <1>2 DEF Tracked, SocketsTracked, IsConn
<1>4. InExchange(f, c) /\ net[c] \in {"up", "fin", "rst", "broken"}
  BY <1>1, <1>3, ClientFacts DEF Tracked, SocketsTracked, Attached
<1>5. c \in Gone \/ (Reading(f) /\ left[c] = MaxRequests)
  <2>1. CASE e.out
    <3>1. Writing(f) /\ ~e.in /\ (e.hup => Reset(c))
      BY <1>1, <1>3, <2>1 DEF Timely
    <3>2. Reset(c)
      BY <1>2, <1>3, <3>1 DEF HangUpReading, HangUpOtherwise, ReadFails, WriteFails,
         Writable, Writing
    <3> QED
      BY <3>2 DEF Reset, Gone
  <2>2. CASE ~e.out
    <3>1. Reading(f) /\ (e.hup \/ ~Readable(f) => MayClose(f, c)) /\ (e.in \/ e.hup)
      BY <1>1, <1>2, <1>3, <2>2 DEF Timely
    <3>2. MayClose(f, c)
      BY <3>1 DEF HangUpReading, HangUpOtherwise, ReadFails, WriteFails
    <3> QED
      BY <3>1, <3>2 DEF MayClose, Gone
  <2> QED
    BY <2>1, <2>2
<1>6. c \in Gone \cup Http!Unserved
  <2>1. CASE c \in Gone
    BY <2>1
  <2>2. CASE Reading(f) /\ left[c] = MaxRequests
    <3>1. rcvd[c] = 0
      BY <1>4, <2>2 DEF InExchange, Reading, Writing
    <3>2. Exchange[c] \in {"idle", "asked"}
      BY <1>4, <3>1, ExchangeNow DEF ViewOf
    <3>3. Answers[c] = 0
      BY <2>2, LengthAssumption DEF Answers
    <3> QED
      BY <3>2, <3>3 DEF Http!Unserved
  <2> QED
    BY <1>5, <2>1, <2>2
<1>7. net'[c] = "down" /\ \A d \in Conn \ {c} : net'[d] = net[d]
  <2>1. active[f] = None
    BY <1>1, <1>2, Zenon DEF Timely, Reading, Writing
  <2>2. CgisOf(f) = {} /\ PipesOf({f}) = {}
    BY <1>1, <2>1, IdleFacts
  <2>3. CloseAndArm({f}, {})
    <3>1. {} \cup {f} \cup {} = {f}
      OBVIOUS
    <3> QED
      BY <2>2, <3>1 DEF HangUpReading, HangUpOtherwise, ReadFails, WriteFails, CloseClient
  <2> QED
    BY <1>1, <1>3, <2>3 DEF CloseAndArm
<1>8. Http!Closing({c})
  <2>1. \A d \in Conn : Exchange'[d] = IF d \in {c} THEN "closed" ELSE Exchange[d]
    BY <1>1, <1>7, ExchangeNow, ExchangeNext DEF ViewOf
  <2>2. Exchange' = [d \in Conn |-> Exchange'[d]]
    BY DEF Exchange
  <2> QED
    BY <2>1, <2>2 DEF Http!Closing
<1>9. Answers' = Answers
  BY <1>1 DEF Answers
<1>10. Gone' = Gone \cup {c}
  BY <1>7 DEF Gone
<1>11. Http!Close({c})
  BY <1>1, <1>6, <1>8, <1>9, <1>10 DEF Http!Close
<1>12. {c} \in SUBSET Conn
  OBVIOUS
<1> QED
  BY <1>11, <1>12 DEF Http!Next

(* A client the server could not register is turned away unserved.         *)
LEMMA DropService ==
    ASSUME TypeOK, TypeOK', Kept, "badHeader" \notin Kinds, NEW e \in batch, AcceptDrops(e)
    PROVE  Http!Next
<1>1. PICK c \in Conn : net[c] = "queued" /\ net' = [net EXCEPT ![c] = "down"]
  BY DEF AcceptDrops
<1>2. mode = "up" /\ UNCHANGED <<kind, left, sent, rcvd, heard, mode>>
  BY DEF AcceptDrops, Event, peerVars
<1>3. rcvd[c] = 0 /\ left[c] = MaxRequests
  BY <1>1 DEF Kept, Newcomers, Accounted
<1>4. c \in Http!Unserved
  <2>1. Exchange[c] \in {"idle", "asked"}
    BY <1>1, <1>3, ExchangeNow DEF ViewOf
  <2>2. Answers[c] = 0
    BY <1>3, LengthAssumption DEF Answers
  <2> QED
    BY <2>1, <2>2 DEF Http!Unserved
<1>5. net'[c] = "down" /\ \A d \in Conn \ {c} : net'[d] = net[d]
  BY <1>1 DEF TypeOK, KernelType
<1>6. Http!Closing({c})
  <2>1. \A d \in Conn : Exchange'[d] = IF d \in {c} THEN "closed" ELSE Exchange[d]
    BY <1>2, <1>5, ExchangeNow, ExchangeNext DEF ViewOf
  <2>2. Exchange' = [d \in Conn |-> Exchange'[d]]
    BY DEF Exchange
  <2> QED
    BY <2>1, <2>2 DEF Http!Closing
<1>7. Answers' = Answers
  BY <1>2 DEF Answers
<1>8. Gone' = Gone \cup {c}
  BY <1>5 DEF Gone
<1>9. Http!Close({c})
  BY <1>2, <1>4, <1>6, <1>7, <1>8 DEF Http!Close
<1>10. {c} \in SUBSET Conn
  OBVIOUS
<1> QED
  BY <1>9, <1>10 DEF Http!Next

(* A script's output moves no client.                                      *)
LEMMA OutputService ==
    ASSUME TypeOK, Tracked, Kept, NEW k \in Fd, cgiToClient[k] # None,
           HandleCgiOutput(k)
    PROVE  \A c \in Conn : net'[c] = net[c]
<1>1. PICK h \in Fd : h = cgiToClient[k] /\ Holders(k) = {h} /\ ~ClientGone(h)
  BY PipeFacts
<1>2. StillRunning(k, h) \/ Finished(k, h)
  BY <1>1 DEF HandleCgiOutput, OrphanPipe, NoResponse, IsLowest
<1>3. ~IsConn(k)
  BY PipeFacts, IdentityAssumption DEF IsConn
<1> QED
  BY <1>2, <1>3 DEF StillRunning, Finished, CloseAndArm, kernelVars, IsConn

(* Every other event leaves what a client sees as it is, or accepts it.    *)
LEMMA EventService ==
    ASSUME TypeOK, Tracked, Kept, NEW e \in batch,
           \/ Accept(e) \/ AcceptFails(e) \/ UnknownFd(e) \/ PipeEvent(e)
           \/ Read(e) \/ WriteKills(e)
    PROVE  /\ \A c \in Conn : SameTalk(c) /\ SameNet(c)
           /\ mode' = "up" \/ \A c \in Conn : net'[c] = net[c]
           /\ UNCHANGED heard
<1>1. UNCHANGED <<sent, rcvd, left, heard>>
  BY DEF Accept, AcceptFails, UnknownFd, PipeEvent, Read, WriteKills, SameExchange, peerVars
<1>2. CASE Accept(e)
  BY <1>1, <1>2 DEF Accept, SameTalk, SameNet, TypeOK, KernelType, Event
<1>3. ASSUME \A c \in Conn : net'[c] = net[c]
      PROVE  /\ \A c \in Conn : SameTalk(c) /\ SameNet(c)
             /\ mode' = "up" \/ \A c \in Conn : net'[c] = net[c]
             /\ UNCHANGED heard
  BY <1>1, <1>3 DEF SameTalk, SameNet
<1>4. CASE AcceptFails(e) \/ WriteKills(e)
  BY <1>3, <1>4 DEF AcceptFails, WriteKills, kernelVars
<1>5. CASE UnknownFd(e)
  <2>1. e.fd \in Fd /\ fdTypes[e.fd] = None
    BY <1>5, HandledFacts DEF UnknownFd, Event, Events
  <2>2. fdTable[e.fd] = None
    BY <2>1 DEF Kept, Links, OpenIsTracked
  <2>3. \A c \in Conn : net'[c] = net[c]
    BY <1>5, <2>2, IdentityAssumption DEF UnknownFd, CloseAndArm
  <2> QED
    BY <1>3, <2>3
<1>6. CASE PipeEvent(e)
  <2>1. e.fd \in Fd /\ fdTypes[e.fd] = "CGI"
    BY <1>6, HandledFacts DEF PipeEvent, Event, Events
  <2>2. fdTable[e.fd] # None
    BY <2>1, IdentityAssumption DEF Kept, Links, OpenIsTracked
  <2>3. fdTable[e.fd] \notin Conn
    BY <2>1 DEF Tracked, SocketsTracked, IsConn
  <2>4. cgiToClient[e.fd] # None
    BY <2>1, <2>2, <2>3 DEF Kept, Links, PipeIsMapped, TypeOK, KernelType
  <2>5. CASE HandleCgiOutput(e.fd)
    BY <1>3, <2>1, <2>4, <2>5, OutputService
  <2>6. CASE UNCHANGED kernelVars
    BY <1>3, <2>6 DEF kernelVars
  <2> QED
    BY <1>6, <2>4, <2>5, <2>6 DEF PipeEvent
<1>7. CASE Read(e)
  <2>1. UNCHANGED net \/ CloseAndArm({}, {e.fd})
    BY <1>7 DEF Read, Incomplete, BadHeader, BadBody, AnswerNow, StartCgi,
       BodyWriteKills, kernelVars
  <2>2. \A c \in Conn : net'[c] = net[c]
    BY <2>1 DEF CloseAndArm
  <2> QED
    BY <1>3, <2>2
<1> QED
  BY <1>2, <1>4, <1>5, <1>6, <1>7

LEMMA ServerService ==
    ASSUME TypeOK, TypeOK', Tracked, Kept, "badHeader" \notin Kinds, mode = "up", Server
    PROVE  [Http!Next]_(Http!vars)
<1>1. ASSUME \A c \in Conn : SameTalk(c) /\ SameNet(c),
             mode' = "up" \/ \A c \in Conn : net'[c] = net[c], UNCHANGED heard
      PROVE  [Http!Next]_(Http!vars)
  <2>1. CASE mode' = "up"
    BY <1>1, <2>1, SameService
  <2>2. CASE mode' # "up"
    BY <1>1, <2>2, EndService
  <2> QED
    BY <2>1, <2>2
<1>2. CASE EpollWait \/ EpollInterrupted \/ NextRound \/ PollError
  BY <1>1, <1>2 DEF EpollWait, EpollInterrupted, NextRound, PollError, SameTalk, SameNet,
     kernelVars, peerVars
<1>3. ASSUME NEW k \in Fd, GcSkip(k) PROVE [Http!Next]_(Http!vars)
  BY <1>1, <1>3 DEF GcSkip, SameTalk, SameNet, kernelVars, peerVars
<1>4. ASSUME NEW k \in Fd, GcPoll(k) PROVE [Http!Next]_(Http!vars)
  <2>1. cgiToClient[k] # None /\ HandleCgiOutput(k) /\ UNCHANGED <<sent, rcvd, left, heard>>
    BY <1>4 DEF GcPoll, GcTurn, IsLowest, Mapped
  <2>2. \A c \in Conn : net'[c] = net[c]
    BY <2>1, OutputService
  <2> QED
    BY <1>1, <2>1, <2>2 DEF SameTalk, SameNet
<1>5. CASE GcDone
  <2>1. PICK W : CloseAndArm({}, W)
    BY <1>5 DEF GcDone
  <2>2. \A c \in Conn : net'[c] = net[c]
    BY <2>1 DEF CloseAndArm
  <2> QED
    BY <1>1, <1>5, <2>2 DEF GcDone, SameTalk, SameNet, peerVars
<1>6. CASE Shutdown
  <2>1. PICK K : CloseAndArm(K, {})
    BY <1>6 DEF Shutdown
  <2>2. \A c \in Conn : net'[c] \in {net[c], "down"}
    BY <2>1 DEF CloseAndArm
  <2>3. \A c \in Conn : SameTalk(c)
    BY <1>6 DEF Shutdown, SameTalk, peerVars
  <2> QED
    BY <1>6, <2>2, <2>3, EndService DEF Shutdown, peerVars
<1>7. ASSUME NEW e \in batch, HandleEvent(e) PROVE [Http!Next]_(Http!vars)
  BY <1>1, <1>7, WriteService, CloseService, DropService, EventService DEF HandleEvent
<1> QED
  BY <1>2, <1>3, <1>4, <1>5, <1>6, <1>7 DEF Server

LEMMA EnvironmentService ==
    ASSUME Patient, TypeOK, TypeOK', Tracked, Kept, "badHeader" \notin Kinds, Environment
    PROVE  [Http!Next]_(Http!vars)
<1>1. ASSUME NEW c \in Conn, Connect(c) PROVE [Http!Next]_(Http!vars)
  <2>1. \A d \in Conn : SameTalk(d) /\ SameNet(d)
    BY <1>1 DEF Connect, SameTalk, SameNet, TypeOK, KernelType
  <2> QED
    BY <1>1, <2>1, SameService DEF Connect, loopVars
<1>2. ASSUME NEW r \in Cgi, ChildOver(r) PROVE [Http!Next]_(Http!vars)
  BY <1>2, SameService DEF ChildOver, SameTalk, SameNet, kernelVars, peerVars, loopVars
<1>3. CASE SignalArrives
  BY <1>3, SameService DEF SignalArrives, SameTalk, SameNet, kernelVars, peerVars
<1> QED
  BY <1>1, <1>2, <1>3, SendService, LeaveService DEF Environment

LEMMA ServiceStep ==
    ASSUME Patient, "badHeader" \notin Kinds, PatientInv, TypeOK', [Next]_vars
    PROVE  [Http!Next]_(Http!vars)
<1>1. CASE UNCHANGED vars
  <2>1. UNCHANGED Http!vars
    BY <1>1 DEF vars, kernelVars, peerVars, loopVars, Http!vars, Exchange, Answers, Gone, Asked
  <2> QED
    BY <2>1
<1>2. CASE Environment
  <2>1. mode = "up"
    BY <1>2 DEF Environment, Connect, SendUnit, Leave, ChildOver, SignalArrives
  <2> QED
    BY <1>2, <2>1, EnvironmentService DEF PatientInv, TrackedInv
<1>3. CASE Server
  <2>1. mode = "up"
    BY <1>3 DEF Server, EpollWait, EpollInterrupted, GcSkip, GcPoll, GcTurn,
       GcDone, NextRound, Shutdown, PollError, RoundOver, HandleEvent, Accept,
       AcceptDrops, AcceptFails, UnknownFd, PipeEvent, HangUpReading, HangUpOtherwise,
       ReadFails, Read, WriteFails, WriteKills, WriteSome, WriteAll,
       ClientEvent, Event
  <2> QED
    BY <1>3, <2>1, ServerService DEF PatientInv, TrackedInv
<1> QED
  BY <1>1, <1>2, <1>3 DEF Next, Ended

LEMMA ServiceInit == ASSUME "badHeader" \notin Kinds, Init PROVE Http!Init
<1>1. TypeOK
  BY InitType
<1>2. \A c \in Conn : Exchange[c] = "idle"
  BY <1>1, ExchangeNow, LengthAssumption DEF Init, ViewOf
<1>3. Exchange = [c \in Conn |-> "idle"]
  BY <1>2 DEF Exchange
<1>4. Answers = [c \in Conn |-> 0]
  BY LengthAssumption DEF Init, Answers
<1>5. Gone = {}
  BY DEF Init, Gone
<1> QED
  BY <1>3, <1>4, <1>5 DEF Init, Http!Init

(* To patient clients whose headers parse the server is the service        *)
(* HttpService describes: one reply per request, made of their own, begun  *)
(* when the request is whole; a client that got anything of one is closed  *)
(* only after it left or when the server ends.                             *)
THEOREM ServesHttp ==
    ASSUME Patient, "badHeader" \notin Kinds PROVE Spec => HttpServed
<1>1. Init => Http!Init
  BY ServiceInit
<1>2. PatientInv /\ TypeOK' /\ [Next]_vars => [Http!Next]_(Http!vars)
  BY ServiceStep
<1>3. PatientInv => TypeOK
  BY DEF PatientInv, TrackedInv
<1> QED
  BY <1>1, <1>2, <1>3, PatientAlways, PTL DEF Spec, HttpServed, Http!Spec
=============================================================================
