# A verification of webserv

`src/` holds an HTTP/1.1 server in C++98: one thread, one epoll loop, CGI
scripts in child processes. The modules here model it from the source, from the
configuration file to the answer: TLC checks them on small instances, and TLAPS
proves most of the safety properties for every instance.

    tlc -workers 2 -config MCPollServer_patient.cfg MCPollServer
    tlapm PollServerProofs.tla

## 1. The system

| part | where | state | operations |
|---|---|---|---|
| event loop | `srcs/PollServer.cpp` | epoll set, `_fd_types`, `_cgi_to_client`, listening sockets | `start`, `WaitAndService`, `AcceptClient`, `HandleCgiOutput`, `processDisconnectOrTimeoutCgis`, `CloseClient`, `AddFd`/`ModifyFd`/`RemoveFd` |
| requests manager | `srcs/RequestsManager.cpp` | per descriptor: request buffer, reply, client state, active Response | `HandleRead`, `ProcessBufferedData`, `HandleWrite`, `HandleCgiOutput`, `CloseClient` |
| request parser | `srcs/Request.cpp` | one request, the chunked decoder's state | `setRequest`, `parseHeader`, `parseBody`, `processTransferEncoding`, `clear` |
| response | `srcs/Response.cpp` | request, configuration, CGI handler, state of the answer | `getResponse` (server, location, file, answer), `processCgiOutput`, `getFinalResponse` |
| CGI handler | `srcs/CgiHandler.cpp`, `CgiUtils.cpp` | pid, two pipes, status, start time | `startCgi`, `writeToCgi`, `readFromCgi`, `checkCgiStatus`, `closeCgi` |
| configuration parser | `srcs/Parser*.cpp` | cursor, two depths, directive counts, current block | `Parse`: `isValidBlock`, `DetectNextType`, `FillDirective`, once before the loop |
| configuration | `srcs/AConfigBase.cpp`, `*Config.cpp` | tree of http block, servers and locations | constructors, `back_ref` |
| listening sockets | `srcs/PollServer.cpp` | one socket per port | `setConfig`, `getUniqueServers`, `initializeServerSockets` |
| process | `srcs/main.cpp` | `g_signal_received` | signal handler, start and exit |
| logger, utilities | `srcs/Logger.cpp`, `Utils.cpp` | none | formatting |

`main` parses the configuration, opens a socket per port and calls
`PollServer::start`. The tree is not changed after that; every Response reads it. The loop calls
the manager with a descriptor number, and the number the manager returns says
what to do with epoll (0 close, 1 nothing, 2 write, 3 read, 4 register a CGI
pipe). The manager makes a `Response` per request; a script is run by the
Response's `CgiHandler`, whose output pipe comes back to the loop as one more
descriptor. Nothing is locked and nothing is persistent: what interleaves
with the handlers is the world outside - clients that send, stall, reset and
leave, the children, the clock and signals.

What is hard about it:

* **Descriptor numbers.** Two classes keep five maps keyed by a number that
  the kernel hands out again at once. Each map must forget a number when its
  socket is closed, in whichever class and handler that happens.
* **Order.** A batch of events is handled one by one, and each may close what
  a later one speaks of. The pass over the CGIs in flight runs between
  `epoll_wait` and the test of its `errno`.
* **Children.** A script writes, closes and exits between any two system calls
  of the server. Its exit, its last output and the time limit race.
* **Framing.** TCP cuts a message anywhere, and whether it is whole is decided
  anew at each read, from text searches over header and body.
* **Limits.** Descriptors and processes run out; a pipe is full; a write meets
  a reset peer.
* **Depth.** The file is parsed twice with one `static` depth beside the
  parser's own; blocks are left by comparing a depth with a `bool`.
* **The way up.** A location is found by climbing the target through merged
  copies of nested maps, and limits, pages, redirects, methods and index files by
  climbing the blocks, each by its own rule.

What makes each part correct: *loop and manager* - the maps agree with each
other and with the kernel, a client gets replies to its own requests only,
no socket or pipe is left without an event to come, closing and shutting down
leave nothing behind, whole requests are answered and no child runs for ever; *CGI
handler* - output in order and complete, an answer that fits the child's end,
every run ends and leaves neither child nor pipe; *framing* - a request is
answered exactly at its end, with the body that was sent, and leaves nothing
for the next one; *configuration* - a file is accepted exactly if it is well
formed, and the tree is the text; *listening* - all ports or none; *routing* - the
location with the longest prefix, the best index file, limits and redirects
obeyed, the disk changed only as the answer says, no request that ends the server.

The hazards behind these, each at its line, are the list `hazards` of
`PROJECT.json`.

## 2. The modules

| module | models |
|---|---|
| `PollServer` | event loop and requests manager over the kernel's descriptor table |
| `HttpService` | what a client may expect of the server (abstract); `PollServer` implements it |
| `CgiContract` | what a Response may expect of one CGI run (abstract) |
| `CgiHandler` | one CGI run, system call by system call, beside the child; implements `CgiContract` |
| `RequestFraming` | from bytes to requests: completeness, `parseBody`, the chunked decoder |
| `Config` | the configuration tree and the ways up it |
| `ConfigParser` | `Parser::Parse`: the validating pass, the building pass, the final check |
| `Listening` | the sockets opened at the start |
| `Routing` | `Response::getResponse`: from a whole request to its answer and the disk |
| `Site` | the three composed: parse, open, serve; and their properties |
| `MCPollServer`, `MCCgiHandler`, `MCRequestFraming`, `MCSite` | the above for TLC: symmetry, sets of messages, files and requests |
| `PollServerProofs` | theorems about `PollServer` with any clients, and with any clients but no scripts |
| `PatientProofs` | those that need patient clients, among them that `PollServer` implements `HttpService` |
| `CgiHandlerProofs`, `FramingProofs` | theorems about one CGI run, and about framing |
| `SiteProofs`, `RouteProofs` | theorems about the configuration, and about the requests it decides |
| `ParserProofs` | the parser's verdict and its tree: which texts are accepted, and what they become |
| `DataInduction` | induction over numbers, on which the proofs about sequences rest |

The `*_*` operators marked "Seeded fault" are variants of the operator that
follows them, with a plausible mistake. Nothing uses them: each exists to be put
in the place of the right one, to see that a property notices.

### PollServer

Each handler is one action, since the process has one thread. State and code:

| variable | code |
|---|---|
| `fdTable`, `interest`, `net` | the kernel: what a number denotes, what epoll watches it for, the connection |
| `fdTypes`, `cgiToClient` | `_fd_types`, `_cgi_to_client` |
| `buf`, `resp`, `active` | `_partial_requests`, `_partial_responses`, `_active_responses` |
| `child`, `outFd`, `runTag` | the child of a Response, `_output_pipe[0]`, whose bytes its output derives from |
| `kind`, `left`, `sent`, `unread`, `rcvd`, `heard` | the clients |
| `phase`, `batch`, `gcTodo`, `gcDone`, `errno`, `sig`, `mode` | where `WaitAndService` is, the events of `epoll_wait`, `completed_cgis`, `g_signal_received`, whether the process lives |

A round is `EpollWait` or `EpollInterrupted`, then `GcSkip`/`GcPoll` for each
mapped pipe, lowest first, and `GcDone`, then the events of the batch in any
order (`Accept`, `AcceptDrops` to `WriteAll`), then `NextRound`, `Shutdown` or `PollError`.
Between any two of these the environment moves: `Connect`, `SendUnit`,
`Leave`, `ChildOver`, `SignalArrives`.

Bytes are units tagged with the connection they came from; a request is
`ReqLen` units, the first its header, and a reply carries the tags of what it
was made of. So `OwnResponse` is about what reaches whom, across reused
numbers, and not about text. `accept` and `pipe` take the lowest free numbers;
with less than four free `startCgi` fails and with none `accept` does. A connection
that epoll refuses is closed at once (`AcceptDrops`).

A child ends by itself (`"exited"`) or runs past its limit (`"overdue"`). One that
exited is reaped when its Response is deleted; one that did not is, if SIGTERM and 50 ms
bring it down, and is else sent SIGKILL and, if the one `waitpid(WNOHANG)` left comes too
early, stays `"killed"`: its pid is forgotten and nobody waits for it again.

Undefined behaviour is a choice: when `GcPoll` erases the entry under the
loop's iterator the process crashes or the walk goes on anywhere.

`HttpService` is what this looks like from outside: per client one exchange at a
time, replies made of that client's own requests only, and a connection that is
closed only after its client left, before it got anything of a reply, or when the
service ends. The middle case is needed: an event of the batch that speaks of a number
closed and accepted again closes the client that has it now, which has never been
answered (four clients, five descriptors and a script show it). The mapping
(`PollServer!Http`) reads the exchange off the client's side of the connection, so it is the
server's maps that must make it true.

### CgiHandler and CgiContract

`PollServer` sees a child as running, exited or overdue, and what `closeCgi` leaves of it
as reaped or killed. `CgiHandler` is what stands behind these steps: every system
call of `startCgi`, `readFromCgi`, `checkCgiStatus` and `closeCgi` is a step,
and the child - any program - moves between them. `CgiContract` says what the
rest of the server relies on: one answer at most; the script's output only if
it exited with 0; 502 only after its end; 504 only after its time. The
refinement maps `pc` and `reply` to the stage of the contract.

A client that leaves while its script runs is a step of its own (`ClientLeaves`):
`PollServer::CloseClient` closes the pipe and drops the mapping, and from then on
nothing polls the run (`pc = "forgotten"`). It goes on only if the manager
deletes the Response, for the next client on that number or at the end (`Abandoned`).

### RequestFraming

One connection whose client sends a message, waits, sends the next. A read
takes any number of units still on the way. The decoder is a fold of `Step`,
one clause per `ChunkedState`, over the units that `parseBody` hands it. What the
code does by text search (`rfind("0\r\n\r\n")`, header lines in the body, the
skipped first line) is modelled as it is. `parseHeader` does not stop at the empty line:
a line of the body that begins with `Cookie:`, `Host:` or `Content-Type:` and has nothing
behind the colon makes it throw (`BareField`), which is answered 500, at the first pass or
at the second (`FirstPassThrows`, `SecondPassThrows`); so is one that was only read up to
its colon. Where `processTransferEncoding` runs
past the end of its string the outcome is `"undefined"`.

### Config, ConfigParser, Listening, Routing and Site

A run of the program as its file decides it. `stage` is where `main` is:
validating, parsing, parsed, serving, or ended (refused, unserved, crashed, hung).

| variable | code |
|---|---|
| `tree` | `HttpConfig`, `ServerConfig`, `LocationConfig`, by number; 1 is http, 0 is NULL |
| `file`, `pos` | the text and `ParserFiller`'s cursor |
| `nesting` | the `static` depth of `DetectNextType` |
| `depth`, `counts`, `current` | `Parse`'s depth, directives per depth, the block filled |
| `listening` | `_server_sockets` |
| `fs`, `kept`, `last` | the disk, `_accepted_types`, the last request and answer |

The text is what the parser sees of it: elements that end at the next `;`, `{` or
`}` or at the end of the file, with their words, and whether they follow the
element before without a blank (`flush`; only so do `http` and
`events` open no node of their own). A path is cut at its slashes. The pass that validates and the pass that
builds are one action per element, and the second starts with the `nesting` the
first left. What is not a well-placed element ends in `refused`, and reading through
a NULL block in `crashed`, as in the code.

`getResponse(q)` is one step, since the process has one thread, and each way out
of the function is a disjunct in the order of the code: too large, redirected,
script, upload, file, index, listing, deletion, error page. A request takes
the types that `clear()` left of the request before (`kept`), until
`NewConnection`. The write of an upload is unchecked, so its content may be cut.

The definitions of the parser and of the routing were compared with the compiled
program: the verdict on about 250 files, and the status of 33 requests.

## 3. The runs

Passing:

| run | instance | states | time | properties |
|---|---|---|---|---|
| `patient` | 2 clients x 2 requests, files and scripts, signal, 7 descriptors; clients leave only when idle or receiving | 717 k | 80 s | `TypeOK`, `OwnResponse`, `MapsAgree`, `WriterHasReply`, `NothingLeftBehind`, `CleanShutdown`, `AbortsOnlyInterrupted`, `HttpServed` |
| `crowd` | 3 clients, 2 scripts with a body, 6 descriptors, leaving while waiting | 1.5 M | 135 s | `NoLostSocket`, `NoLeakedPipe` |
| `static` | 2 clients on 1 descriptor, good and bad requests, one unit too many, leaving at any time, fair | 201 k | 35 s | `NoInnocentClose`, `DeadPeersAreClosed` |
| `live` | 2 clients, files and scripts, patient, fair | 78 k | 60 s | `EveryRequestAnswered`, `EveryScriptEnds` |
| `run` | body 4 for a pipe of 3, reads of 2, output up to 6, client may leave, fair | 5.7 k | 2 s | `TypeOK`, `OutputInOrder`, `NothingRunsOn`, `TimeoutForgetsPid`, `KeepsContract`, `EveryRunEnds` |
| `framing` | bodies of up to 4 characters, and some with lines that pass for fields, 2 messages, every cut; each body also coded in chunks for the decoder | 8.3 k | 8 s | `TypeOK`, `NeverBeforeTheEnd`, `AnsweredAtTheEnd`, `BodyAsSent`, `DecoderInverts` |
| `site` | every removal, swap and insertion in a file of twelve elements, and some special files; one file with nested locations, asked some thirty requests in any order | 7.4 k | 110 s | `TypeOK`, `VerdictFits`, `TreeAsWritten`, `ServesAllPorts`, `LocationIsLongestPrefix`, `IndexIsBest`, `SurvivesWhenCovered`, `AnswersObeyConfig`, `FilesChangeOnlyAsTold` |

Why these sizes. The faults of the loop are about a number that is reused, so
two connections on few descriptors suffice for one to inherit from another.
`crowd` needs its third client: only then a number that an abandoned run still
remembers becomes another script's pipe and is closed with the abandoned run
(`GcSkip` fires nowhere else). Two units per
request and reply give a partial read and a partial write. Six descriptors
hold two clients and the four pipe ends of one start: while the first script's
output pipe is open a second script fails to start, and once it is closed it
starts, so both branches are taken. `crowd` uses
units of one because there the numbers matter, not the cuts; and its `VIEW`, `UpToEnding`,
takes an exited and an overdue child for one, and a reaped and a killed one, which no
guard of the server and neither of its two properties tells apart. In `run` the output is
larger than the pipe and than a read, so a script blocks and is read in parts; the body is
larger than its pipe, so the server may sleep in `write`.
In `framing` every cut of every message is tried, and three characters suffice
to spell the empty line's pieces.

In `site` the edited file has two locations, one in the other, so the parser goes
down and up by two levels and leaves a block in which directives still follow; an edit
misplaces, repeats or drops one bracket or directive, and the two passes have to agree
on each. The special files have what one edit does not reach: blocks that repeat, a
path declared twice at different levels, servers without a port. `Kilo = 10` and
`LongMax = 127` make the largest size wrap, as the real ones do at 2^63. The served
file has every directive the routing reads, locations with and without a
closing slash, nested ones that are not on their parent's path, an alias, and two servers
on one port; the disk has for every test a file on either side of it. Sequences
of requests are unbounded: the disk takes finitely many values.

Several properties hold only for clients that behave in a certain way, and their
runs say which by `LeavePhases` and `Extra`: `patient` and `live` have clients
that send what they announced and wait for what they asked. For other clients
the code breaks them, as the next runs show; `NoLostSocket`, `NoLeakedPipe`,
`DeadPeersAreClosed` and all of `run` are checked without such a restriction.

Disagreements between the code and what it says of itself. Each run ends in a
counterexample; the lines quoted are in `findings` of `PROJECT.json`.

| run | property | what happens |
|---|---|---|
| `leftover` | `NothingLeftBehind` | a client leaves after half a request; the next one on its number continues it |
| `iterator` | `SurvivesCgi` | the pass over the CGIs erases under its own iterator |
| `incomplete` | `OutputComplete` | the script's last output is lost between read and `waitpid` |
| `methods` | `OnlyAllowedMethods` | a script runs, or a file is stored, whatever methods the route names |
| `chunked` | `BodyAsSent` | the first size line is skipped |

Other consequences of the code that the models contain, without a run of
their own; to see one, check the formula given as an invariant:

* a body larger than the pipe blocks the loop in `write` until the script reads
  it, and for ever if the script waits for the server to read first: no clock runs
  there (`<>(pc \in {"done", "killed", "forgotten"})` as a property of `run`;
  `CgiHandler.cpp:251`). `EveryRunEnds` names this way out of a run (`Asleep`);
* a write to a peer that has reset raises SIGPIPE, which has no handler
  (`WriteKills`, `mode # "killed"`);
* the pass over the CGIs runs between `epoll_wait` and the test of its `errno`:
  EINTR becomes EAGAIN and the shutdown "Poll error" (`Clobbered`);
  `AbortsOnlyInterrupted` says that nothing else ends the loop this way;
* a client that leaves while its script runs leaves a Response that nothing polls
  again: the script is not killed at its limit and is waited for only if the number's next
  client is closed by the manager or the server ends (`EveryScriptEnds` with `"waiting"` in
  `LeavePhases`; the other way out that `EveryRunEnds` names);
* a script that ignores SIGTERM is sent SIGKILL and may stay a zombie, since the last
  `waitpid` does not wait (`\A r \in Cgi : child[r] # "killed"`; `CgiHandler.cpp:346-354`).
  That is why `CleanShutdown` and `EveryScriptEnds` say "waited for or sent SIGKILL";
* the Response of such a script still holds the number of its closed pipe, and
  deleting it closes whatever has that number by then - another script's pipe,
  whose client is then closed without an answer (`PipesOf`; `NoInnocentClose`
  under the constants of `crowd`);
* an event of the batch that speaks of a number closed and accepted again
  closes the new client (`NoInnocentClose` with a script and four clients on
  five descriptors);
* `~Response` sends SIGTERM to a pid that `checkCgiStatus` has reaped (`~stray`);
  `TimeoutForgetsPid` says only that a run which timed out does not;
* a header whose last character is `0` passes for the last chunk, a trailer is
  waited for without end, a line of the body that reads
  `Transfer-Encoding: chunked` counts, and size digits that a failed decoder left
  come before the next request's (`NeverBeforeTheEnd`, `AnsweredAtTheEnd`,
  `BodyAsSent` and `outcome = "none" => digits = <<>>` on such messages); a line of the body
  that is just `Cookie:`, or was only read that far, is answered 500 (`outcome # "500"`). The
  properties of `framing` speak of messages without such lines (`FieldsInHeader`);
* in `Routing`: an alias takes the place of the whole rest of the path, not of
  the matched prefix only (`Aliased`), and the location's path stays below `root`,
  unlike the example in `HttpConfig.hpp:14-16`; a target that is not below `root` is
  looked for as an absolute path (`DirPath`); without an `Accept` line no
  index file is ever chosen, and a connection's first `Accept` line decides for all its
  requests (`Accepting`), and for the next client's on its number if `PollServer` closed it,
  for the manager's state is then kept (`IndexIsBest` without `DOMAIN kept = {}`); a target
  that does not begin with a slash fuses its first name with the last one of `root`
  (`Concat`); a POST is never answered 405; a missing file gets
  the server's error page and not the location's; a limit of 0 is the parent's limit;
  a `return` of the server is not obeyed where no location matches; an upload to a
  path that does not exist, with an `upload_store`, is to the store's own path
  and fails (`UploadPath`); a target without a slash hangs the server, and a POST that
  fits no location crashes it (`SurvivesWhenCovered` says that nothing else does);
* in `ConfigParser`: `http` after a line that is indented is no block, and the file is
  refused; an `http` inside a server that is written outermost is accepted, and what
  follows it belongs to another block than the one it stands in (`VerdictFits` and
  `TreeAsWritten` without `Outermost`).

**Deadlock.** Checked in every run of `PollServer`, `CgiHandler` and `Site`,
where a dead process or finished run has the explicit step `Ended`.
`RequestFraming` stops when the client has nothing more to send, so its cfg
files say `CHECK_DEADLOCK FALSE`.

**Fairness.** `PollServer!FairSpec` has `WF_vars(Server)`: the loop is a thread
that never blocks except in `epoll_wait`, which returns after a second at the latest.
`WF_vars(ChildOver(r))` is the clock: a child that has not exited is overdue
after 30 seconds. Nothing is assumed of clients or signals, nor of the order in
which epoll reports. A script of `live` is polled because its client stays (`Patient`), and
has no body to sleep over. `CgiHandler!FairSpec` has `WF_vars(Server)` and
`WF_vars(TimePasses)` and nothing for the child, which may hang at any point. `Server` there
is the loop's next turn over a run it still knows: `ClientLeaves` and `Abandoned` are not in
it, and a forgotten run has no turn.

**Bounds.** `MaxRequests`, `Extra`, `MaxOut` and `MaxMessages` bound what clients and
children do; they appear in the guards of `SendUnit`, `ChildWrites` and
`HandleWrite`. `Files`, `Requests` and `Disk` are what the program is given, and
`Served` names the files whose servers are sent requests. The descriptors `Fd` are
the process's limit, a real one.

## 4. The theorems

`tlapm` proves, for all values of the constants that satisfy the assumptions of
the modules:

| module | assumptions | what they say |
|---|---|---|
| `PollServer` | `IdentityAssumption`, `FdAssumption`, `KindAssumption`, `NoKindAssumption`, `PhaseAssumption`, `SignalAssumption`, `LengthAssumption` | clients, runs and "none" differ; descriptors are numbers above 0; a request and a reply have at least one unit |
| `CgiHandler` | `SizeAssumption` | pipe and read are not empty |
| `RequestFraming` | `MessageAssumption`, `BoundAssumption` | what a message is made of |
| `Config`, `ConfigParser` | `SizeUnitAssumption`, `FilesAssumption`, `PathAssumption`, `NameAssumption` | a file is a finite sequence of elements, a path in it a finite sequence of names; index files are named by words |
| `Routing` | `TargetAssumption`, `QualityAssumption`; `DiskAssumption`, which no proof uses | a target is a path too; qualities are tenths up to 1; the disk is a tree at the start |

Nothing is assumed about how many clients, scripts, descriptors, messages, blocks, files or
requests there are, nor about what a configuration says. Three theorems'
hypotheses go further, each because the code needs it, and are explained below: `Patient`,
`AllPlain` and `Tidy`.

### PollServer, any clients

* `PollServerProofs!TypeCorrect`: `Spec => []TypeOK`. One lemma per group of
  effects (`CloseAndArmType`, `ForgetType`, ...), one step per action.
* `NoSocketIsLost` and `NoPipeIsLeaked`: `Spec => []NoLostSocket` and
  `Spec => []NoLeakedPipe`, for any number of clients and scripts and whatever they do.
  The invariant is `TrackedInv`: the types and, while the process lives, both
  properties at once, and that a child's pipe is only open while the child is
  not reaped. Neither is inductive alone: closing by number is safe for the sockets
  only because a number that names a pipe names its own run's, and the other
  way round. The key lemma is `ClosingKeepsTracked`: a handler that closes a
  set of numbers, and forgets no type outside it and no pipe whose number is
  not in it, keeps the invariant. `CloseClient`, `HandleCgiOutput`, `Shutdown`
  and the unknown descriptor are instances of it. Abandoned runs are covered:
  their number stays in `outFd` although the pipe is closed.
* `OnlySignalsAbort`: `Spec => []AbortsOnlyInterrupted`. `ErrnoInv`: `errno` is set only
  once a signal came, and overwritten only when a pipe is mapped, hence a script
  was started; `NextKeeps` says that a script that was started is never again one
  that was not.
* `InnocentStayOpen` and `ScriptlessWriters`: where no script is asked for
  (`Scriptless`), `NoInnocentClose` and `[]WriterHasReply`, whatever clients send and
  whenever they leave. `CleanInv` adds to `TrackedInv` that what an event of the batch
  reported is still so at its turn (`FreshBatch`): a handler closes and arms only
  its own number, the batch names each number once, and a new client gets a number
  only from a handler that ran after the batch was taken. Scripts are excluded because
  with them it is false: the pass over the CGIs and a script's event
  close and re-arm other numbers, as section 3 says.

### PollServer, patient clients

`Patient` is `LeavePhases \subseteq {"idle", "receiving"}` and `Extra = 0`: clients send
the request they announced and no more, and once it is begun they stay until the reply
comes. The runs `leftover` and `crowd` show why: with a client that leaves after half
a request `NothingLeftBehind` is violated, with one that leaves while waiting
its script is abandoned. `PatientInv` strengthens `TrackedInv` by four things that only
hold together:

* `Exchanges`: a client's descriptor is `Reading`, `Awaiting` or `Writing`,
  which fix at once what epoll watches and which of the manager's maps have the
  number; what they hold is that client's (`OwnBytes`), and as long as what was
  sent and read says. A number without a client has nothing;
* `Newcomers`: clients that are not accepted yet have been given nothing;
* `Links`: pipe, `_cgi_to_client`, `_active_responses`, the handler's output pipe
  and the child point at each other in a circle;
* `BatchInv`: an event still fits its descriptor at its turn, or meets a client that just
  got the number and has had nothing of a reply.

From it:

* `MapsAlwaysAgree`, `WritersHaveReplies`, `NothingIsLeftBehind`: `[]MapsAgree`,
  `[]WriterHasReply` and `[]NothingLeftBehind`;
* `OnlyOwnResponses`: `[]OwnResponse`. A reply passes from the maps to the
  connection only in `HandleWrite`, by `OwnBytes`;
* `ShutdownIsClean`: `[]CleanShutdown`, with `ChildIsHeld`: every child that was
  neither waited for nor sent SIGKILL is one some Response holds, so deleting them all
  releases all;
* `ServesHttp`: `Spec => HttpServed`, the refinement of `HttpService`, step by step: every
  action is one of the service's or a stutter under the mapping. It needs also that no
  header is malformed (`"badHeader" \notin Kinds`): such a request is answered 400
  before it is whole, which the service does not do.

### CgiHandler

* `CgiHandlerProofs!TypeCorrect`: `Spec => []TypeOK`. That what a read takes and
  leaves are sequences within the pipe is the lemma `PipeSplit`.
* `NoRunGoesOn`: `Spec => []NothingRunsOn`. `RunInv` adds what the server knows
  at each point: while it reads it has a pid and a child not reaped; once the
  pid is forgotten the pipes are closed, and past the second `waitpid` a child
  that still runs has been sent SIGKILL.
* `TimeoutIsForgotten`: `Spec => []TimeoutForgetsPid`. `PidKnown` says at each point
  where the pid came from and when it is cleared.
* `NothingIsReordered`: `Spec => []OutputInOrder`, unit by unit: the n-th unit
  written is the n-th of buffer and pipe together (`Counted`), until the pipe is closed.
* `ImplementsContract`: `Spec => KeepsContract`. The same invariant, with what
  `_status` says of the child and the clock, makes every step one of
  `CgiContract` or a stutter; `GetFinalResponse` is `Answer`.

### Induction over data

The operators of the community modules and those of `Config` and `Routing` compute by
local recursive functions (`FlattenSeq`, `Nearest`, `Chain`, `Climb`, `Normal`,
`Indexes`, `IndexPath`), as do the properties' own (`Run`, `Level`, `Filled`). For
each the proofs show that the function exists and takes its own steps - by induction over
the length of the argument, which `DataInduction` provides for a set of numbers, from
the least one it lacks - and then reason about its steps (`Joins`, `Goes`, `Turns`,
`Gathers`, `Searches`, `Sums`).

### RequestFraming

A message is `Plain` if it is not chunked and no line of its body passes for a field
(`FieldsInHeader`). The run `chunked` is a counterexample to `BodyAsSent` without the
first, and section 3 names some without the second. The properties have the second in their
antecedent, the theorems the first; neither asks anything of the other messages on the connection.

* `FramingProofs!NoEarlyAnswer`, `AnswerInTime`, `BodiesArrive`:
  `[](msg.framing # "chunked" => P)` for `NeverBeforeTheEnd`, `AnsweredAtTheEnd` and
  `BodyAsSent`, for messages of any length, any number of them on a connection and any cuts.
  `FramingInv`: what was read of a plain message is a beginning of it (`fed`, `Stream`); once
  the header is in it the request is what the header announced; until the end nothing is
  answered, and at the end the body is the one that was sent. `PrefixFacts` shows of any
  beginning what the searches find in it. That what came before does not matter is because
  `HandleWrite` resets all but `_chunk_buffer`, and a plain message does not look at that.
* `TypeCorrect`: `[]TypeOK`, where all messages are plain (`AllPlain`).
* `DecodingInverts`: `Spec => []DecoderInverts`: whatever the message, its body
  in chunks of at most five characters, any number of them, comes out of the decoder as it went in.
  That the server starts the decoder one line too late is what the run `chunked` shows.

### The site

* `SiteProofs!TypeCorrect`: `Spec => []TypeOK`, for any set of files. The
  invariant is `ParserInv`: the cursor, the tree (`TreeSound`: every back reference leads
  upwards, ports and codes are in range) and, for each pass, what the two depths
  have to do with the brackets before the cursor. The validating pass keeps
  `nesting` equal to the number of blocks open before the cursor and lets a brace
  close only what is open (`FirstPass`, `ClosersFit`). The building pass is at the same
  depth at the same element, whatever `nesting` it inherits (`SecondPass`). So its own depth
  never falls below 0, which neither of its own tests would see to.
* `EveryPortServed`: `Spec => []ServesAllPorts`, from `PortsInv` and that the
  parser leaves every server with a port.
* `DiskFollowsAnswers`: `Spec => FilesChangeOnlyAsTold`, for any configuration, disk and
  requests, way out by way out (`UploadAsTold`, `DeleteAsTold`, `ResponseAsTold`).
* `RouteProofs!ConfigIsObeyed`: `Spec => AnswersObeyConfig`. The property asks of all blocks
  above a location, the code of the first that says anything; `NearestAbove` brings
  them together.
* `LongestPrefix` and `CoveredRequestsSurvive`: `[]LocationIsLongestPrefix` and
  `[]SurvivesWhenCovered`, with `Tidy`: no location path and no target has a slash right behind
  a slash. Without it `regress_path` may pass over a beginning that is a location's
  path. `TextInv` says that locations of a server differ in their paths, which
  `AddBlock` sees to (`Duplicate`). The invariant of the climb is `Turns`: no location that
  fits is longer than the path reached, and each turn shortens the path or makes it
  stay (`Stuck`). A target that begins with a slash comes to the path `/` and stops, so the
  loop ends; and one that some location fits is not left without. `SurvivalInv` carries this
  through the states.
* `IndexAlwaysBest`: `Spec => []IndexIsBest`, of a connection's requests up to the first with an
  `Accept` line (`NoneKept`), so that the types consulted are the request's own (`OwnAccept`). What
  the search has come to after k names is the first of those liked best among the k, or nothing if
  none is liked (`Standing`); a quality of 1 ends it because no liking is above; and no name
  chosen is empty, so an empty one means none, because every block's root, store and alias name
  something and the outermost one has a root (`PathsInv`, `RouteNamed`).
* `ParserProofs!VerdictAlwaysFits` and `TreeIsTheText`: `[]VerdictFits` and `[]TreeAsWritten`, for
  any set of texts. What brackets mean is stated of the text alone: its levels (`Level`), the block
  an element stands in (`Encloser`, the last one opened at the level before it) and, from
  those, `WellFormed` and the tree. `PassInv` says that every
  element the first pass went through is of a kind it knows and no level is below 0, and
  what the depths are: the level at the cursor, to which the second pass's `nesting` adds the level the
  first one ended with. `BuildInv` says of the second pass where `current` points and
  how nodes and their parents are numbered (`Placed`), and, as long as no server or location was
  written outermost (`NoStray`), that each node has its block's type, path, parent and exactly
  its directives so far (`Kept`). Past such a block `Kept` is false: the code notices it only at the
  end, by where `current` then points, and until then fills other nodes. Each way to refuse a text has a lemma that
  the text is not well formed (`UntypedRefused`, `StraysRefused`, `BareRefused`, `NotAddedRefused`), and
  what the end of the file leaves to check makes it so (`EndsWellPlaced`, `EndsApart`,
  `CompleteMeans`). `Outermost` is the properties' own hypothesis; section 3 says what happens without.

### Only model-checked

Liveness (`EveryRequestAnswered`, `DeadPeersAreClosed`, `EveryScriptEnds`, `EveryRunEnds`): it
rests on fairness and `ENABLED`, which the prover does not handle. Every other property of a
passing run is also a theorem, under the hypotheses named above.

## 5. Not modelled, and the plan

Left out of the modules for good: formatting of headers, listings and error pages,
the tables of status texts and MIME types, logging, the text of the configuration's
messages, `bad_alloc`, failing `close` and `fcntl`, the freeing of the
configuration at exit.

Left out of `Routing` and `ConfigParser`: URL decoding and `.`/`..` in targets; the
effect of one name being a prefix of another in the alias's text search; qualities
above 1; the `default_errors` prefix of a relative error page; `proxy_pass`, which is parsed
and never read. How `parseHeader` cuts `Host`, `Cookie` and `Content-Type`, and how `atoi`
reads `Content-Length`, are arithmetic on the text of a line and outside the modules'
view of a request; the port of a request without one is 80, as the code has it.

What is left of the plan:

1. `RequestFraming`: pipelined requests, bodies over the limit.
2. `PollServer`: inherited descriptors, so that a closed client may stay open in a
   child; the Response of a request as a choice of `Routing`.
3. `CgiHandler`: failing system calls at start (the second `pipe`), and several
   runs with reused pids.
