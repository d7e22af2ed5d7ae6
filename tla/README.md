# A verification project for tmuwp

TMUWP (`src/tmuwp`, C++ for Windows) forwards TCP connections to backend
servers and offers an HTTP and a SOCKS5 proxy. One process runs a main thread,
a pool of worker threads on one I/O completion port, one detached accept thread
per listener and a statistics thread. This directory holds TLA+ modules
translated from its source, the TLC configurations that check them on small
instances, and proofs checked by TLAPS.

    tlc -config MCIOCPManager_life.cfg MCIOCPManager     # model-check
    tlapm IOCPManagerProofs.tla                           # check proofs

## 1. Inventory

### The parts and their interactions

    main.cpp ──Start/Stop──► TcpForwarder, HttpProxy, Socks5Proxy
       │                            │ RegisterListener      │ RegisterConnection
       └──Initialize/Shutdown──► IOCPManager ◄──────────────┘
                                    │  accept threads, worker threads
                                    ▼  connections_, completion port
                                 Winsock
    everybody ──► Logger (own mutex)          Config ──rules──► main.cpp

| Part | State | Operations | Hard behaviour |
|---|---|---|---|
| IOCP manager: connections (`iocp.cpp`) | `connections_` (one entry under each socket of a pair, `connectionsMutex_`), a `ConnectionContext` with two `IOContext`s each, the port, `running_` | `HandleAccept`, `RegisterConnection`, `WorkerThread`, `HandleIOCompletion`, `PostRecv`, `PostSend`, `CloseConnection`, `Shutdown` | workers and accept threads close one connection concurrently; packets outlive the contexts they name; socket values are reissued; shutdown at any moment |
| IOCP manager: listeners (`iocp.cpp`) | `listenerRules_` (no lock), `roundRobinIndex_` (`balanceMutex_`) | `RegisterListener`, `GetNextTarget` | main thread inserts while accept threads search |
| TCP forwarder | `listenSocket_`, `running_` | `Start`, `Stop` | none of its own: it registers a listener |
| HTTP proxy | `connections_`, `connectionsMutex_`, per-client parser state | `AcceptLoop`, `Stop`, `CloseConnection`, `OnClientData`/`ProcessClientData`, `ParseHttpRequest`, `HandleConnectRequest`, `HandleHttpRequest` | a request arrives in segments of any size; a detached thread uses the object while main destroys it |
| SOCKS5 proxy | as HTTP, per-client `state` and `clientBuffer` | as HTTP with `HandleHandshake`, `HandleConnectRequest` | the same |
| Logger | stream, current size, `mutex_`, files on disk | `Log`, `WriteToFile`, `RotateLogFile` | a rotation is a chain of file operations, any of which may fail or be the last before a crash |
| Configuration | `rules_`, settings | `LoadFromFile`, `LoadFromJson`, the extractors | a scan for keys that takes fields in any order and text in any place; one `Config` object is loaded twice; a scan that does not advance |
| Process (`main.cpp`) | `g_running`, the owned objects, the statistics thread | start, signal handler, stop | any step of the start may fail; SIGINT at any moment; order of destruction against detached threads; `config.json` edited between its two loads |
| Load balancer classes, object pools, `StatsManager`, `PerformanceTimer` | — | — | the program does not use what they keep |

What makes each part correct:

* **Connections.** A connection is torn down once, by one thread. An entry of
  `connections_` names an open pair of sockets. Each `IOContext` is used by one
  operation at a time. Data pass unchanged, in order, to the right peer. No
  direction of a live connection is left without an operation. A connection
  ends when a peer or the network ends it, and only then. Shutdown returns and
  leaves nothing open.
* **Listeners.** Targets of a rule take turns; a client gets a target of its own
  rule; a client is not refused while a backend can be tried.
* **HTTP and SOCKS5 proxies.** How TCP cuts a request makes no difference; the
  answer is the protocol's and comes when it should; what is in `connections_`
  is what is open.
* **Process and configuration.** The rules loaded are the ones the document asks
  for. Whatever fails and whenever SIGINT comes, what was opened is closed before
  `main` returns, and it returns. A configuration that was good is not overwritten
  unless it changed or could not be read.
* **Logger.** The files hold the last lines in order without a gap, as many as
  there are backups for, each no larger than its limit.

`PROJECT.json` lists the hazards of the code line by line, with the property
that covers each or the reason why none does.

## 2. The modules

| Module | Models | Proofs |
|---|---|---|
| `IOCPManager` | connections, workers, accept threads, `Shutdown` | `IOCPManagerProofs`, `IOCPForwardingProofs` |
| `Forwarding` | abstract: what a transparent forwarder promises | (`IOCPForwardingProofs`) |
| `TargetSelection` | registration of listeners, `GetNextTarget` | `TargetSelectionProofs` |
| `ProxyAccept` | accept loop of the HTTP and SOCKS5 proxies, `Stop`, destruction | `ProxyAcceptProofs` |
| `HttpRequestParsing` | HTTP request handling on a segmented stream | `HttpRequestParsingProofs` |
| `Socks5Handshake` | SOCKS5 handshake on a segmented stream | `Socks5HandshakeProofs` |
| `LogRotation` | the log file and its backups | `LogRotationProofs` |
| `Configuration` | the scanner of `config.json`, as functions on tokens | in `ProcessProofs` |
| `Process` | `main`: start, stop, the statistics thread, SIGINT; the TCP forwarder; extends `Configuration` | `ProcessProofs` |

`MC*` modules define constants and symmetry for TLC.

### IOCPManager

*State.* `connections` is `connections_`. `clientSock`, `serverSock`, `closing`
are the fields of `ConnectionContext`; `ioSock`, `ioRemote`, `operation`,
`buffer` those of its two `IOContext`s. Each thread has a program counter `pc`
and the locals that survive a step: `key` and `ref` (argument and `ctx` of
`CloseConnection`), `task` (the packet a worker took), `accConn`, `accClient`,
`accServer` (locals of the accept lambda). `mainPc` and `todo` are the progress
of `Shutdown`. Winsock is `owner` (the socket table), `spent` (values used
before), `pending` (overlapped operations) and `port` (the packets queued).
The peers are `received`, `delivered`, `fin` (sides closed) and `fault`
(connections the network broke).

*Actions.* An action is what a thread does between two points where another
thread may interfere: a region under a mutex, or one Winsock call. `CloseLookup`
is the locked part of `CloseConnection` (find, erase both entries), `CloseClient`
and `CloseServer` the two `closesocket` calls. `Accept`, `Connected`/
`ConnectFailed`, `Associate`, `Insert`, `RecvClient`, `RecvServer`, `CleanClient`,
`CleanServer` are the accept lambda with `RegisterConnection` inlined, error paths
included. `Dequeue`, `Abandoned`, `HandleEnd`, `HandleRead`, `HandleWrite` are
`WorkerThread` and `HandleIOCompletion`. `StopRunning` … `JoinWorkers` are
`Shutdown`; its loop over the map closes one socket a step and keeps the mutex over
all of them (`mainPc = "closing"`), and everybody who needs the mutex waits. While
`main` stops the proxies one by one (`mainPc = "stopping"`) an accept thread whose
listener is not closed yet may still take a client.

*Abstractions.* A chunk is what one `WSARecv` returns; an overlapped send of a
chunk completes whole or fails. The port is a set: with more than one worker
the order packets are queued in does not decide the order they are handled in.
`callback_` is null in every execution, so `HandleIOCompletion` never calls it.
`inUse` is written and never read.

*Reuse.* With `Recycle = TRUE`, a closed socket's value may be given to the next
socket, and a worker that holds a pointer to a freed `IOContext` may find any
context at that address (`AtAddress`). With `FALSE`, freed memory keeps its
content and values are not reissued while the model runs. Both happen in the
real system; properties that hold only without reuse are checked only without.

### Forwarding

Two queues of at most one chunk per connection and the rule that a connection
is closed only if it has ended or the forwarder was halted. `IOCPManager`
implements it under `open <- endpoints that own a socket`, `ended <- a peer closed
or the network failed`, `halted <- mainPc # "run"`.

### TargetSelection

`listenerRules_` grows while accept threads search it. The insertion is two
steps, and a search between them (`Missed`) is the data race of `iocp.cpp:85` against
214 and 321: it finds the entry, misses it, never returns (the thread takes no more
steps) or crashes the process (`Crash`). `roundRobinIndex` is taken under its mutex, so
`GetNextTarget` is one step. `picks` counts choices and `active` the open
connections, which the code does not do; they serve the properties.

### ProxyAccept

The detached accept thread step by step against `Stop` and the destructor. The
`WSARecv` it posts is on a socket associated with nothing; `io` records its
outcome. Once the proxy is destroyed its accept thread's steps end: what it does
then is undefined.

### HttpRequestParsing and Socks5Handshake

A client's stream is cut in segments by the network, and each segment is one call
of `OnClientData`, in order, which is what `IForwarderCallback` promises. The
running program never makes that call (see *Heard* below), so these two modules
check the handlers against their contract and not a behaviour of today's
process. HTTP text is a sequence of symbols (words, `CR`, `LF`, text), with cuts
between symbols; SOCKS5 messages are numbers of bytes with the fields the code
looks at. `BufferSize` stands for the size of `clientBuffer`.

In `HttpRequestParsing`, `taken` is how much of the request has come, and `Receive`
appends the segment to `clientBuffer` and all of `clientBuffer` to `rawData`;
`ReadLine` is one iteration of the loop of `ParseHttpRequest`, from `pos` to the next
line end; `AwaitMore`, `RefuseRequest`, `ConnectFails`, `RegistrationFails` and
`ForwardRequest` are the ways the handler returns. The sockets do not block and the
result of `send` is not looked at: `ForwardRequest` and `Relay` send any beginning of
what they have, none of it included, and `cut` says that something was lost. When
`RegisterConnection` fails it has closed both sockets, which the handler does not
notice (`closed`). `WellFormed` is what the properties take for a request: three
words, CR LF, and lines with a colon up to an empty one, which is at `HeadEnd`.
Requests of another form are sent too.

In `Socks5Handshake` the greeting and the request have a version each; a message of
another version is not answered. Addresses
are IPv4, a domain, IPv6 or of a type the code does not know. The failure of
`RegisterConnection` closes the connection after `REP_SUCCESS` was sent.

### LogRotation

A file is the set of lines in it, lines are numbered, of equal length. Each of
`close`, `remove`, `rename` and `open` is a step, and a crash may come between any
two. As on Windows, a file another program holds cannot be removed or renamed and
a rename does not replace.

### Configuration

The text of `config.json` is a sequence of tokens: the six marks of JSON, a word for
any value without quotes, and the content of each string. Which strings there are
(`Quoted`), and which of them hold a colon before a digit (`Address`), are
converted by `std::stoi` (`Numeral`) or name a proxy type (`Http`, `Socks5`), are
constants. A `Document` is a value for `worker_threads` and a list of listeners, each
a list of fields in any order, a field's value being a string, a value without
quotes, or an array of those; deeper nesting and escaped quotes are left out.
`Text` writes a document down, and the `Extract…` functions do what the code does
with it: `ExtractObjectArray` counts braces to cut out each listener, and in that
piece the others look for a key from the beginning, then for a colon, and take what
stands behind it. `Scanned` is the list of complete rules and whether the scan ends
(`ExtractStringArray` stays where it is at a value that is not a string).

The reference is `README.md`, for documents without repeated keys and without a string
that is a key (`Plain`). `Asked` are the listeners its field list (114-125) asks for: with a
name, an address and, for TCP, targets. `Unserved` are those among them that the code
drops, the HTTP and SOCKS5 ones without targets. `AskedWorkers` is the number of workers, if
it is in quotes. Loops are recursive functions of the
number of tokens read. A `Config` object keeps its rules from one load to the next
unless the next clears them.

### Process

`pc` is where `main` stands, `next` its loop variable. A proxy object is `none`,
`ready`, `stopped` or `destroyed`, its listening socket is in `open`, and the
accept thread that belongs to a rule is before its test of `running_`, in
`accept`, serving a client, or done. The accept thread of an HTTP or SOCKS5 rule
uses the proxy, that of a TCP rule the manager; once that object is destroyed
`UseDestroyed` lets the thread end, go on, or bring the process down.
`CreateListener` and `RegisterListener` are the two halves of
`TcpForwarder::Initialize`; each may fail. `Interrupt` is `SignalHandler`; the C
library restores the default before it calls the handler and nothing installs
it again, so a second SIGINT ends the process at once. `Load` may fail to open the file
although it is there (`barred`). `WriteSample` writes `config.json`, which is the file that
was read unless `-c` named another one: then what was read stays as it was. What the workers and
accept threads do with clients is in the other modules; here the manager is up
or shut.

## 3. The runs

Every `cfg` says `CHECK_DEADLOCK FALSE`: in each model the process may have
stopped, or the bounded supply of clients, lines or bytes has run out.

| Run | Instance | Shows |
|---|---|---|
| `life` | 1 connection, 2 workers, 2 chunks each way, Ctrl+C at any moment | types; `EntriesPaired`, `NoSocketLost`, `OneOperation`, `NoDirectionForgotten`; the manager implements `Forwarding`; a connection whose peer ends is torn down and `Shutdown` returns (liveness) |
| `pair` | 2 connections, 2 workers, 1 accept thread | connections that share map, port and workers do not disturb each other: `EntriesPaired`, `OneOperation`, the refinement of `Forwarding`; `TornDownOnce` and the invariant of its proof |
| `rotation` | 2 listeners, 3 and 2 targets | `Rotation`, `EvenlyDistributed`, `OwnTarget`, `RefusedForAnother` |
| `proxy_stop` | 3 clients, Ctrl+C at any moment | `EntriesAreOpen`, `ClosedOnce` |
| `http_segments` | 12 requests (good, malformed, too long), all cuts, a buffer of 14 symbols, sends that fall short | `TunnelOpens`: a CONNECT whose first line came whole is not refused or left waiting, and behind its head nothing is lost unless `send` falls short; `WholeIsForwarded`: any other request in one segment is forwarded as it was, refused for want of a host, or held for a line of its body; `rawData` is bounded; the parser's loop ends (liveness) |
| `socks_segments` | good and bad clients, all cuts | `InStep`; `AnsweredRight`; `AnsweredInTime`: replies come with the whole message, refusals after ten bytes of the request |
| `process` | one listener with its fields in every order, two and three listeners, good and bad documents, the sample `main` writes, an edit between the loads; any failure, SIGINT at any moment | `TakenDown`, `CrashOnlyStopped`, `SampleOnlyIfUnread`, `RulesAsAsked`, `Ends` (liveness) |
| `log_rotate` | 3 backups, crashes, held files | `KeptInOrder` always; `Retained` and `SizeBounded` unless a file was held or the process killed |

Four runs show where the program does not do what its documents say; each finds
a counterexample of the one property it checks:

| Run | Property | What happens |
|---|---|---|
| `context` | `ContextAlive` | a worker handles a packet whose `IOContext` another worker freed (`iocp.cpp:255`) |
| `halfclose` | `HalfCloseDelivers` | one peer's half-close drops what the other has sent (`iocp.cpp:266`) |
| `least` | `LeastLoaded` | `least_connections` is served in rotation (`iocp.cpp:225`) |
| `proxy_heard` | `Heard` | the request of an HTTP or SOCKS5 client is received and no thread is told (`http_proxy.cpp:134`) |

Other departures met while modelling are part of the models' behaviours, and the
properties are stated so as to say how far they go:

* `HandleAccept` closes both sockets again after `RegisterConnection` failed
  (`iocp.cpp:343-346`); with reuse they may be another client's. The model does it,
  which is why `ForwardsTransparently` is checked without reuse.
* A connection entered after `connections_.clear()` stays open for good
  (`iocp.cpp:58`). `NoSocketLost` says that nothing else does.
* A client may be turned away while the next listener is registered
  (`iocp.cpp:85`), or the process crash. `RefusedForAnother` says that nothing else
  turns one away.
* Two rules of one name share the targets of the first (`iocp.cpp:215`). `OwnTarget`
  needs unique names, and with them holds.
* A backup held by another program costs the older ones (`logger.cpp:149-158`):
  `Retained` has the condition `~disturbed`, `KeptInOrder` needs none.
* A proxy is destroyed while its accept thread may be anywhere in `AcceptLoop`
  (`http_proxy.cpp:27`, `main.cpp:270`).
* A GET in two segments is sent on with its beginning twice (`http_proxy.cpp:286`):
  `WholeIsForwarded` is about one segment, for any method but CONNECT.
* A request that announces a body with no line end in it, the usual POST, is waited for
  after it came and never sent on (`http_proxy.cpp:329`): the first part of
  `WholeIsForwarded`.
* What `send` does not take at once is lost (`http_proxy.cpp:185`, 261), and so is what
  comes in one segment with the end of a CONNECT's head (`http_proxy.cpp:240`):
  `TunnelOpens` and `WholeIsForwarded` say that nothing else is.
* A SOCKS5 request for a domain of one or two letters, shorter than ten bytes, is
  never answered (`socks5.cpp:283`): the exception in `AnsweredInTime`. A refusal comes
  before the request is whole, an IPv6 address' after ten of 22 bytes.
* HTTP and SOCKS5 listeners without targets, those of `README.md:101-110` and of the
  sample, are dropped (`config.cpp:202`), and a number of workers without quotes, as
  there too, is not heard: `RulesAsAsked` leaves out `Unserved` and no other listener.
  An array with a number in it hangs the load, and a string that equals a key is taken
  for it: `RulesAsAsked` is about `Plain` documents.
* `config.json` is overwritten when the second load fails, although the file was good and
  nobody edited it, if another program holds it; with `-c` it is overwritten unread
  (`main.cpp:161`). `SampleOnlyIfUnread` says that nothing else makes it so.

### Bounds, and why they are enough

* Connections, handles, workers. A conflict in `CloseConnection` needs two threads
  and one connection: `life` has two workers, the accept thread and the main
  thread. A conflict between connections needs two: `pair`. Reuse of socket values
  needs more connections than TLC can take beside everything else; what is
  claimed of it (`TornDownOnce`) is proved for any number of threads, connections
  and values. What the runs check without reuse is proved too, but for liveness.
* `MaxChunk = 2` lets a context go through read, write and read again, so that
  order and reuse of the buffer matter. With two connections one chunk each
  already makes every pair of packets meet.
* `MaxPick = 4` takes the rotation of three targets past its first wrap.
* Three backups make first, middle and last of a shift differ. Without interference
  each file gets two lines, so ten lines fill all files and drop the oldest twice.
* Clients of `ProxyAccept` differ only in time: one in hand, one entered, one to
  come.
* Requests have every shape the parser tells apart (method, form of the target,   with
  and without `Host` and a length, with data behind a CONNECT), and four are
  malformed: two words, a line without a colon, no end, blanks in the first line. One
  POST has a line end in its body, one has none. A buffer of 14 symbols holds all but
  the two longest, which reach its limit. What the   run shows of safety is proved for
  any requests and any buffer.
* SOCKS5 clients vary in the versions of greeting and request, number of methods, method,
  command, address type and length, and whether they wait for replies.
* Documents of `process`: one listener with its fields in every order, its name good,
  empty or equal to a key, its targets absent, a string, or an array that is empty, of
  one or two strings, of a key or with a number in it; two and three listeners of all
  types, one of them incomplete; the sample; an empty list; no file. A file is edited at most
  once, before the second load: nobody reads it later.

### Fairness

`FairSpec` of `IOCPManager` assumes that the operating system schedules every
thread (`WF` of each worker, of the accept thread's own steps and of `Shutdown`),
that `ConnectToTarget` returns (it waits five seconds at most), and that a
submitted send ends. It does not assume that a peer sends, closes or connects,
nor that Ctrl+C is pressed. `WF` for the mutex is enough: its holder never waits
for another lock. `FairSpec` of `ProxyAccept` schedules both threads, and nothing
makes a client connect or send. `FairSpec` of `Process` schedules `main` and the
statistics thread, whose 30 seconds of sleep end. It does not assume that SIGINT
comes, and nothing of the detached accept threads, for which nobody waits.
`HttpRequestParsing` assumes that a handler once called runs on (`WF` of `Parse`), and
not that another segment comes.

## 4. The proofs

Eight modules hold theorems, each `Spec => []P` (and one refinement) for all
values of the constants that meet the named assumptions. These assumptions say that the sets of
threads, the `None` value and the data do not overlap, that sizes are natural
numbers, and that a rule has a target (`config.cpp:202` drops one without).

* **`IOCPManagerProofs`.** `TypeCorrect`, and `TearDownIsExclusive`: any number of
  threads, connections and values, reuse or not, a connection is torn down by one
  thread. `TornDownOnce` is not inductive: from it alone an accept thread might
  enter a context that is being closed. `TeardownInv` adds that an entry's key is
  one of the two sockets its context names (so erasing those two keys erases
  every entry of it, the point of the argument) and that a context which is yet
  to be entered has no entry, no closer, and was never closed. That `TeardownInv`
  itself always holds is `TeardownInvariant`.
  Without reuse (`~Recycle`), `EntriesArePairs` and
  `NothingIsLost`. `EntriesPaired` is not inductive: it says nothing of the sockets
  before they are entered and after they are taken out. `SocketInv` adds to
  `TeardownInv` that a value belongs to one endpoint for ever (`SocketsNamed`, the place
  where reuse would break the argument), what an accept thread has in its hands at
  each label (`InHand`), that both sockets of an entry are keys of it and, outside of
  `Shutdown`'s loop, not closed yet (`Paired`), who will close each open socket
  (`Held`), and what `CloseConnection` and `Shutdown`'s loop have closed so far
  (`Closing`).
* **`IOCPForwardingProofs`**, without reuse. `OneAtATime`: the invariant `Exclusive`
  says that operations, packets and tasks name different `IOContext`s; with it goes
  `StartsIdle`, that an accept thread's first `WSARecv` finds its `IOContext` idle.
  `Forwards`: the refinement of `Forwarding`, step by step. Each step of the manager
  is one of the abstract forwarder or changes nothing it sees (the `Maps…` lemmas); two
  invariants carry the argument. `DoomInv`: a socket is closed only if its connection is
  doomed, which is to say that it ended or that the proxy was halted, and everything on
  the way to `CloseConnection` (a failed packet, a thread in it, an accept thread giving
  up) is of a doomed connection. `FlowInv`: each operation is on the socket its
  `IOContext` stands for, and what was received is what was delivered plus at most
  one chunk, in the `IOContext`'s buffer, so every chunk crosses once and in order.
  `NothingForgotten`: `ActivityInv` extends the claim to contexts whose accept
  thread has yet to post the first `WSARecv` (`Watched`), and fixes that an entry's
  two `IOContext`s read from its two sockets, so that the `CloseConnection` a worker
  starts finds that entry and erases it.
* **`TargetSelectionProofs`.** `OwnRule` and `RefusedOnlyForAnother` are inductive
  with `TypeOK`: a thread runs only when its rule was entered. `Even`: the
  invariant is `Rotation`, which ties the counts to the index modulo the number of
  targets (`TakesTurns` states it); the step rests on the lemma that the index plus
  one is, modulo `n`, the next position or 0. That a name finds its own listener's rule comes from
  `UniqueNames`.
* **`LogRotationProofs`.** `KeepsOrder`: whatever fails or is cut short, a file with
  a smaller number holds later lines, and the lines held have no gap. The
  invariant is `KeptInOrder` with `TypeOK`, which says the stream is open only
  while the log exists and between no two steps of a rotation. `Retains` and
  `BoundsSize`, while nothing interferes: `Layout` gives the lines of every file
  exactly. With `b` lines gone from the log, backup `i` has those that are more than
  `i - 1` and at most `i` full logs back; in the midst of a rotation one backup is
  free and those above it have moved up. No sum over the files is needed, which
  would be another induction.
* **`ProxyAcceptProofs`.** `TypeCorrect`, `EntriesMatchSockets` and `NeverClosedTwice`, with the
  extra conjunct `InHand`: where the client in hand is at each label.
* **`Socks5HandshakeProofs`.** `KeepsStep`: no byte of the client is lost or read
  twice and the buffer begins where a message begins, for all message lengths and
  buffer sizes; the induction is over the numbers alone. `AnswersRight` and
  `AnswersInTime` add what the client was told at each state (`Said`) and that a
  message is never whole in the buffer of an open handshake with a client that waits
  (`Timely`), but for the short requests the property excepts.
* **`ProcessProofs`.** `TakesDown`, `CrashesOnlyStopped`, `SampleOnlyWhenUnread` and
  `TypeCorrect`, for any set of documents and edits and any number of rules. `TakenDown` is
  not inductive: that nothing is left when `main` returns depends on where each
  object was made. `OrderInv` ties each proxy to the loop variable (those behind it are
  stopped, those ahead not made yet), `PhaseInv` ties manager, Winsock and statistics
  thread to the program point, and `FileInv` says that a file not edited since the
  first load loads again if it can be opened. What is assumed of the documents is only that they are
  documents (`DocumentsAssumption`).
* **`ProcessProofs`, the configuration.** `LoadsAsAsked`: `RulesAsAsked` for every
  plain document, any number of listeners, fields and targets, and both loads. The
  argument goes from the text to what is found in it. `JoinedLayout` and
  `SeparatedLayout` say where each piece of a text lies, so a token belongs to one
  piece. `KeysAreKeys`: in a listener of a plain document a key stands where a field
  begins and nowhere else; `ValueIsFound`: so the first colon behind it is the field's.
  `StringIsRead` and `ArrayIsRead` give what the extractors return, and `RuleIsRead`
  puts them together. `ScanObject` carries the brace counter over one listener,
  `ObjectsOfArray` over the list, and `ListenersAreFound` says that the key
  `"listeners"` itself is found at the right place, `WorkersAreFound` that
  `"worker_threads"` is. `KeptAre`: dropping incomplete rules is keeping the listeners
  that are asked for and not `Unserved`. `ScannedIsAsked` is the result;
  `ScannedRules`, for documents that need not be plain, says that the scan gives a
  sequence of rules.
* **`HttpRequestParsingProofs`.** `TypeCorrect`, `RawDataIsBounded`,
  `WholeRequestIsForwarded` and `TunnelAlwaysOpens`, for all sets of requests and all
  buffer sizes. `RawDataBounded` is not inductive: `Buffered` bounds `rawData` by the
  triangle over `bufferLen`, which a segment of `n` symbols raises by at least what it
  appends. `LineRead` ties the parser's fields to its state: past the first line
  `rawData` has a line end and there is a method, which `ForwardData` needs to be text.
  `Whole`: when the request came in one segment, `rawData` is the request, `pos` is always
  the beginning of one of its lines, up to `HeadEnd`, and the headers known are those of the lines
  before it (`HeadersBefore`); so what is known at the empty line is `HeadersOf`, which
  decides whether the request is complete or held. `Tunnel` carries `TunnelOpens`: of a
  CONNECT cut in many segments `rawData` is a pile of its beginnings, one longer than
  the other (`Piled`). Where one stops and the next begins, the line is glued together
  from both, but it has a colon, because the whole first line, or a header, is in it
  (`ColonsUpTo`); and the empty line (`HeadEnd`) is read as soon as one of the
  beginnings reaches it, which is why the tunnel opens only then. `Sent` adds that what
  went through the tunnel is all that came in later segments, as long as nothing was cut.

What a recursive function computes is proved by induction over the numbers stated with
a set (`LeastElement`: a set of numbers that is not empty has a least one, from the
library's theorem on well-founded orders), since the library's induction rules take an operator as
a parameter, which no prover installed here instantiates; `Recursion` is the same for
the functions `Configuration` defines.

Proved: every safety property of the passing runs, invariants and actions, and the
refinement of `Forwarding`. Only model-checked: the liveness properties
(`EndedIsTornDown`, `ShutdownReturns`, `Ends`, `ParseEnds`), for which the prover would
need `ENABLED`.

## 5. What is not modelled, and why

* **Load balancer classes** (`load_balancer.cpp`): `LoadBalancerFactory::Create` is
  called nowhere; the manager chooses a target itself (`TargetSelection`).
* **Object pools, `StatsManager`, `PerformanceTimer`** (`pool.h`, `pool.cpp`): the
  pool is filled at start and nobody takes an object from it; no `On…` function of
  `StatsManager` is called, so its counters stay zero. No state of theirs reaches a behaviour.
* **`OnServerData`, `OnServerDisconnect`**, the bodies that run only with a callback
  set. `SetCallback` is called nowhere, so they never run; the two handlers of client
  data are modelled against their contract. The others are left out.
* **Name resolution, socket options, daemon and service code, message texts**:
  no state that a property here depends on. A target given as a host name is
  left out too: `inet_pton` fails, its result is ignored and the address is
  whatever was in memory (`iocp.cpp:375`).
* **Time.** The models have no clock.
* **The command line** but for `-c`: `-h` ends `main` before it does anything.
* **A process that is killed**: `TakenDown` and `Ends` say nothing of what it leaves
  behind; Windows closes its sockets.

## 6. Plan

Done: connections, listeners, proxies, requests, handshakes, log, configuration and
process; every safety property of the passing runs is proved. Left, in this order:

1. *Callbacks composed with the manager*, as soon as the program sets one: the handlers
   of client and server data beside the manager's own forwarding.
2. *Reuse of socket values with data on the way*: what `closesocket` on a value that
   is another client's by then (`iocp.cpp:344`) does to that client.
