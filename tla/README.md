# A TLA+ verification of the JITServer metric server

The repository adds a metric server to OpenJ9's JITServer: a thread inside the
JVM that answers `GET /metrics` and liveness probes over HTTP and HTTPS.  This
directory holds TLA+ modules translated from `src/server` and `src/demo`, the
configurations TLC checks them with, and proofs TLAPS checks.

## 1. Inventory

| Part (source) | State | Operations | Interacts with |
|---|---|---|---|
| Start of the handler: options, SSL context (`MetricServerHandler.cpp` 73-332) | port, timeout, limit, HTTPS port | read and check each option, create the context, construct and start the servers, or clear both and `exit(1)` | the VM's arguments, `Server` |
| `Server` (`MetricServerStruct.cpp`) | `_sockfd`, `_port` | `serverStart` (socket, setsockopt, bind, listen), `serverClear`, `serverClose` | the descriptor table, the ports of the machine |
| Poll loop `TR_MetricServerHandlerStart` (`MetricServerHandler.cpp`) | vectors `fds` and `clients`, the `Client` being accepted, `newfd`, `newfd_https` | `poll`, accept HTTP / HTTPS, serve / kill each entry, remove cleared entries, shut down | `Client`, the parser, the database; the exit flag of `TR_MetricServer`; the kernel |
| `Client` (`MetricClient.cpp`) | `_sockfd`, `_bio`, `_useSSL`, the receive buffer | `clientAccept`, `clientReceive`, `clientSend`, `clientClear` | the JVM's descriptor table, OpenSSL, the peer |
| `TR_MetricServer` (`MetricServer.cpp`) | monitor, thread pointers, attach and exit flags | `start`, `metricServerProc`, `stop`, `waitForMetricServerExit` | JVM threads, the handler |
| `HttpRequest` (`MetricHttpRequest.cpp`) | method, path, Connection header in fixed buffers | the constructor, `parse` | the poll loop |
| `HttpResponse`, `httpErrorCheck` | an append-only byte vector | status line, headers, body | the poll loop |
| `MetricDatabase` (`MetricDatabase.cpp`) | a map of metric names to values | `update`, `setMetric`, `prepareAllMetricsBody` | JITServer's counters, the operating system |
| Autoscaler (`src/demo/jitserver_autoscaler.py`) | lists of ports and instances | ask Prometheus, start instances, send ports and loads | Prometheus, port 2000 |
| Request launcher (`src/demo/jitserver_request_launcher.py`) | lists of ports and loads, requests left | receive ports and loads, launch requests in rounds | port 2000, the instances |
| Tester script (`src/tester`) | - | drives a stand-alone binary | not modelled |

What is hard here:

* **Shared descriptor numbers.**  The server is one thread of a JVM whose other
  threads open and close descriptors all the time.  A number closed twice, or
  kept after a close, may stand for somebody else's file.  Every early return
  of `Client`'s methods decides whether `_sockfd` and `_bio` are reset.
* **Two vectors, two listeners.**  `fds[i]` belongs to `clients[i-listeners]`,
  and entries are appended, marked with -1, removed and drained in different
  places.
* **Stale poll results.**  The loop acts on the `revents` of one `poll()`
  while peers go on sending, closing and resetting, and while it accepts new
  connections itself.
* **Limits.**  What happens at and above `MaxConnections`.
* **Bytes in pieces.**  A request arrives in segments and is read with whatever
  of it is there; an answer may be cut short; the parser leaves bytes of an
  earlier request where it writes a string without a terminator.
* **Values of different ages.**  The metrics are read between `poll` and the
  serving of requests; a source that fails leaves its old values in place.
* **Two servers, one start.**  The second may fail after the first listens; a
  failing call closes what a cleanup closes again; ports and options collide.
* **Shutdown and the monitor.**  `start`, `stop` and the server's thread meet
  in a monitor that `stop` destroys; some fields are read outside it.

The correctness properties that follow from this are listed run by run in
section 4; the hazards, each at its line, are in `PROJECT.json`.

## 2. Modules

| Module | Models | Notes |
|---|---|---|
| `MetricService` | what the server promises to whoever sees it from outside | the abstract specification |
| `Sockets` | descriptor table, connections, backlogs, peers, the JVM's other threads | external: what `accept`, `recv`, `send`, `close`, `poll` do for the code |
| `MetricClient` | the record `Client` and its methods | `Can...` is the condition of one way out of a method, `After...` the record it leaves |
| `MetricServerHandler` | the poll loop | composes `MetricClient` and `Sockets`; one action per step between two system calls; implements `MetricService` |
| `MetricStartup` | options, SSL context, both servers' start call by call | implements the opening of `MetricService` |
| `MetricServer` | the thread's life cycle | the handler is seen from outside: it runs, returns or exits the process |
| `MetricSystem` | the life cycle with the service inside | composes `MetricServer` and `MetricService` |
| `HttpRequest` | the parser and the choice of a status | operators on requests |
| `MetricDatabase` | `update()` source by source, and the sources | |
| `MetricExchange` | one connection: a peer's segments, `clientReceive`, the parser, the answer, `clientSend` | composes `HttpRequest` and `MetricDatabase` |
| `Demo` | autoscaler and launcher, and the port between them | |
| `MC...` | TLC instances: listeners, requests, options, symmetry | |
| `..._proofs` | the theorems (section 5) | TLAPS; `Ownership_`, `Iteration_` and `Service_proofs` are about the poll loop, `MetricSystem_proofs` is about the life cycle, too |

`MetricService` is the hinge.  The poll loop and the start are shown to
implement it, and it stands for both where the life cycle is composed with
them, so that `stop` and the drain meet in one model small enough to check.

### How the poll loop is modelled

`pc` is the place in the loop, `idx` the listener or the entry of `fds` it is
busy with.  Positions count from 1, so `fds[L + i]` belongs to `clients[i]`,
`L` being 1 or 2 (the code's `listeners`).

| Lines of `MetricServerHandler.cpp` | Actions |
|---|---|
| 287-332 | `StartServer`, `StartServerFails` |
| 336-405 | `PollStop`, `PollTimeout`, `PollReady`, `PollFails` |
| 407-467 | `SkipAccept`, `AcceptFails`, `Accept`, `SetSendTimeout`, `Handshake`, `HandshakeFails`, `ClearFailed`, `Admit`, `Refuse` |
| 474-563 | `ReceiveFails`, `ReceiveNothing`, `Receive`, `Reply`, `ReplyFails`, `Kill`, `PassOver`, `Clear`, `ClearAborts`, `ServeDone` |
| 565-577 | `Prune`, `PruneDone` |
| 580-604 | `DropListeners`, `DrainClient`, `DrainDone` |

A step ends where another thread or a peer can make a difference: at each
system call.  In particular the close inside a failed `clientReceive` and the
close in the `clientClear` after it are two steps, since in between another
thread may open the number.

Abstractions, and why they keep what the properties tell apart:

* A connection's input is one of "none", "part" (bytes that are no request),
  "close", "keep" (a request that ends, or keeps, the connection) and "big" (a
  request that fills the 4095 bytes).  The parser's answer for "big" may be
  anything, since it sees the first part only.
* `errno` after 4095 bytes, or after a bad TLS record, is what an earlier call
  left: `CanFailReceive` and `CanReceive` overlap there.
* Receive and send time out after one *microsecond* (the code passes 1 as
  `tv_usec`), so a handshake may always give up.
* `BIO_free_all` on freed memory is undefined: the step goes on (`Clear`), or
  the process is aborted (`ClearAborts`).
* A read or write of a number that another thread holds only fails.
* `accept` and both `setsockopt` calls are one step as long as none fails, as
  only then the number stays the connection's.  After the first failed one, which closes
  the descriptor and keeps its number, `SetSendTimeout` is a step of its own:
  another thread may have the number by then, and the second call, made on it,
  may fail and close that thread's descriptor.
* `EINTR` from `poll` changes nothing and is a stuttering step; `EMFILE` is
  `CanFailAccept` with no free descriptor.
* Reading a request and sending an answer are one step each; their loops are
  `MetricExchange`'s.
* The constant `HangUp` is what `poll` reports for a reset connection, in all runs
  the `POLLIN|POLLERR|POLLHUP` of Linux.
* Three variables are history: no action reads them, and they name for the
  properties what the code itself has forgotten.  `refused` is the descriptor of
  the refused `Client`: the object goes out of scope at `break` (422, 453), so
  `client` is a new one then and nothing in the program has the open socket any
  more.  `tainted` are the numbers a failed `setsockopt` has closed, while a
  `Client` has them.  `npolled` is the number of entries of the last poll.

### How the life cycle is modelled

One thread calls `start()`, then one thread may call `stop()`, and any number
may call `waitForMetricServerExit()`.  Each call of the monitor is a step:
`Enter` waits for `owner = Nobody`, a wait releases the monitor and joins
`waiting`, `notifyAll` empties `waiting`.  Reads outside the monitor
(`ReportAttach`, `Stop`, `WaitForExit`) are steps of their own.
`TR::Monitor::destroy` and the reset of the pointer right after it are one
step.  `HandlerGivesUp` says whether the handler may return by itself (it does
when the limit on connections is exceeded) and `HandlerExits` whether it may
call `exit(1)`.

### The abstract service and its refinement

`MetricService` knows open ports, open connections, the one whose request has
been read and not answered (`asking`), the one that is left open for good
(`spared`), and whether a lost connection counts among those taken (`lapsed`).
Its steps: a port opens; a connection is taken, unless the limit has been
exceeded; a request is read, and answered or dropped before anything else
happens to another connection; connections are dropped; the service stops when
it has been told to (`Obey`) or when it has taken one connection too many
(`GiveUp`), sheds its connections and then shuts its ports.  A connection that is
lost while it is taken (`Lapse`) may count until `Recover`: meanwhile the
service may give up early, and the connection it leaves open may be any or none.

`MetricServerHandler` implements it (`ImplementsService`): the ports are
`listening`, the connections the open sockets of the server, `asking` the current
one's between `Receive` and `Reply`, `spared` is `refused`, and `lapsed` says
that a number is tainted.  A dangling number is no connection any more.

### How the start is modelled

`MetricStartup` reads the four options in the code's order, each given, missing
or wrong; creates the SSL context or ends the process; constructs the servers
and starts one after the other, `CheckPort`, `Socket`, `SetOptions`, `Bind` and
`Listen` being calls that may fail.  `CloseAndFail` is the error path of
`serverStart`, `Clear` the `serverClear` of each server before `exit(1)`.
Between any two calls another thread may open or close a descriptor and another
process may take or leave a port: with `SO_REUSEADDR` the `bind` of a port
another process has bound as well succeeds, and `listen` is where the later one
fails.

### How an exchange is modelled

`MetricExchange` is one connection, from the peer's first byte to the answer's
last.  A request is a record of what its answers depend on: the method, the
endpoint its path names, what its Connection header writes into `_connection`
(how many letters, and which of them are those of "keep-alive"), and its size.
The peer sends it in segments, may finish or reset at any time, and asks again
over a connection that was kept.  The server polls, updates the database source
by source, reads what is there until nothing is left or the buffer is full,
parses, and sends the answer piece by piece.  What an earlier request of this
or another connection left on the stack is any set of letters (`before` in
`Parse`).  The other connections appear as what makes `poll` return "nothing"
for this one, which then is killed.  `MetricDatabase` keeps of a metric whether
it was read before or after the question in hand; a source may stop answering
and recover at any time.

* `errno` when the buffer is full is what an earlier call left: `ReceiveDone`
  and `ReceiveFails` overlap there.
* A path of 15 characters or more leaves `_metric` without a terminator:
  which endpoint it is taken for is any (`Endpoints` of "cut").
* Plain sockets only: over SSL the record layer decides how much a read returns.

### How the composition is modelled

`MetricSystem` puts `MetricService` in the place of the handler's opaque return:
the service takes steps only while the thread is in the handler, the exit flag
is the service's stop flag, the handler returns when the service is closed, and
`exit(1)` ends both.  `MetricSystem_proofs` shows that every step of the
composition is one of the life cycle's or leaves it alone, so that what is
proved about the threads holds of the whole.

### How the demo is modelled

An instance is its number.  `Round` is one round of the autoscaler - Prometheus
answers for any subset of the instances with any loads - and `SendNewPort` one
connection to port 2000, lost when nobody listens.  In the launcher a round of
requests is one `Fire` per port; `Receive` reads a port and one load per known
port, what the stream does not have counting as zero; `TimesOut` is a timeout
at `accept` or in the middle of a message.  `gaps` records that a port was not
heard of or a load not reported, after which loads and ports no longer match.

## 3. Fairness

* `MetricServerHandler`: `WF_vars(HandlerStep)` alone - the operating system
  runs the loop's thread, and no system call it makes can block for ever
  (`poll` has a timeout, the listeners are non-blocking, accepted sockets time
  out).  No peer, no other thread and no caller of `stop` has to act.
* `MetricServer`: weak fairness of each thread's own steps, and strong fairness
  of the server thread's: it gets a monitor that is free again and again, as
  when a starter woken without reason keeps taking and releasing it.  Nobody has to call
  `stop`.  The handler's return is owed once the exit flag is set, and only
  then; that the poll loop keeps this is `ShutdownCompletes`, checked on the
  loop itself.
* `MetricSystem`: the same for the threads.  In the handler a port opens unless
  the process ends, what was read is answered or dropped (weak fairness), and
  `Service!Close` is strongly fair: other requests disable `Obey` again and
  again, but the loop looks at the flag in every iteration.  Nothing else the
  service does is owed.
* `MetricExchange`: `WF(ServerStep)`, the loop's thread runs and no call blocks
  for ever, and `WF(Poll /\ reported' # "nothing")`, `poll` returns when this
  connection is ready.  Neither the peer nor a source is owed anything.
* `Demo`: `WF(LauncherStep)`; both sockets of the launcher have timeouts.  The
  autoscaler and Prometheus may fall silent at any time.

## 4. Runs

Passing runs:

| Run | Checks | On |
|---|---|---|
| `https` | `IInv` (the invariant of the proofs), `HeldOnce`, `NewcomersSurvive`, `DrainedOnExit`, `StrayCloseOnlyAfterFailure`, `StepsRunOut`, `ImplementsService` | two listeners, oversized requests, failed handshakes, failing `accept`, `setsockopt`, `recv`, `send`, `poll`, `bind`, another JVM thread |
| `http` | `TypeOK`, `VectorsAligned`, and liveness: `ShutdownCompletes`, `BacklogServed`, `RequestsConsumed`, `FinishedCloses` | one listener, the limit in reach, resets as Linux reports them, a failing `setsockopt` |
| `lifecycle` | `MonitorOutlivesUsers`, `StoppedMeansEnded`, `StartedMeansAttempted`, `JoinedMeansGone`, `AttachErrorExplained`, `LInv` (the invariant of the proofs), `ReturnedMeansSilent`, `OpenMeansStoppable`, and liveness: `StartCompletes`, `WaitingStopReturns`, `JoinCompletes`, `StopSilences` | `MetricSystem`: two ports, a service that closes on request, by itself, or exits the process; a starter that may be woken without reason |
| `exchange` | `BufferInBounds`, `KeptAsAsked`, `Fresh`, `WholeRequestsAnswered`, `TurnsRunOut`, and liveness: `RequestsSettled` | requests of each status, up to and beyond the buffer, in every segmentation, with resets and a failing source |
| `startup` | `ListensAsConfigured`, `NoForeignClose`, `StartupImplementsService` | every mix of given, missing, wrong and colliding options, every failing call, other threads and processes |
| `demo` | `LaunchesTotal`, `LoadsBelongToPorts`, and liveness: `LauncherEnds` | ports not heard of, loads not reported, timeouts, a stream cut short |

What these show beyond the single part:

* A `stop` or a join that returns leaves no port and no connection open but the
  refused one (`ReturnedMeansSilent`), and as long as anything is open `stop`
  finds the server (`OpenMeansStoppable`).  `StopSilences` holds even where
  `stop` itself never returns.
* The metrics in an answer are never older than its question, except those of
  a source that has failed since (`Fresh`): the database keeps their last value
  and the answer does not tell.
* A request that is all there when its turn comes, and fits, is read whole and
  accepted (`WholeRequestsAnswered`).  One of which only a part has arrived is
  rejected with the connection; `RequestsSettled` only promises that nobody
  waits for ever.
* Stack bytes of an earlier request can make a *beginning* of "keep-alive" keep
  a connection, but nothing else, and "keep-alive" itself always does
  (`KeptAsAsked`).
* When the poll loop begins both servers listen where the options say, whatever
  others do on the ports meanwhile; otherwise the whole JVM has ended.
* The launcher launches exactly what it was asked for, although loads and ports
  may stop matching.
* No peer holds the only thread up.  `StepsLeft` bounds the steps it takes before
  it polls again; in the poll loop every step of the handler's lowers it
  (`StepsRunOut`), a turn of serving being three of them, and in an exchange
  every step within such a turn does, while the peer's steps leave it alone
  (`TurnsRunOut`).  With the exit flag set the same holds up to the return.

Runs that end in a violation - each states a sentence of the repository that
the code does not keep (quoted under "findings" in `PROJECT.json`):

| Run | Property | What the trace shows |
|---|---|---|
| `refusal_ends` | `ReturnsOnlyWhenStopped` | with `MaxConnections = 1` two connections are admitted, and the third ends the server: `break` leaves the poll loop, and the third socket stays open |
| `kills_open` | `KillsOnlyClosedConnections` | an idle keep-alive connection is closed because another one had data |
| `double_close` | `ClearClosesOwnSocket` | after a failed receive the number is closed again, for another thread |
| `zombie` | `ResetsCleared` | a reset reported as Linux does matches no branch; the slot is lost and `poll` no longer waits |
| `stop_hangs` | `StopReturns` | the handler ends by itself between `stop`'s look at `_metricServer` and its wait |
| `short_answer` | `AnswersSentWhole` | after one microsecond without room at the peer a part of an answer counts as sent |

The code leaks a socket, closes descriptors of other threads and may share a
number between two `Client`s.  `HeldOnce`, `DrainedOnExit` and
`StrayCloseOnlyAfterFailure` say on which paths, and that there are no others:

* One socket is lost, that of the refused `Client` (422, 453), and it stays open
  for as long as the process lives, after `stop` and a join, too.  `refused` names
  it in the properties.
* Another thread's descriptor is closed on three paths: in the second close of a
  failed handshake, in that of a failed receive, and through a number that a failed
  `setsockopt` has closed, while the `Client` that was accepted nevertheless
  keeps it (`MetricClient.cpp` 35, 51, answers dropped at 126-127).
* Two `Client`s have the same number only if it is such a tainted one.

A connection whose peer has finished gives its slot back (`FinishedCloses`); one
that its peer has reset does not, on Linux (`zombie`).

The limit is tested before the new client is added
(`clients.size() > metricMaxConnections`, 420, 451): `MaxConnections + 1`
connections are served where `src/server/README.md` 15 promises
`MaxConnections` "at once".  The trace of `refusal_ends` shows this as well, and
a finding says so.  `ConnectionLimit` states what the code enforces; it is a part
of `IInv`, which needs it, and no property of a run by itself.

The models also contain, without a run of their own:

* after a failed receive over SSL the BIO is freed twice (`FreesTwice`,
  `ClearAborts`; `MetricClient.cpp` 194, 298);
* `start` prints "attach failed" of a server that attached and has already
  ended (`MetricServer.cpp` 137): `AttachErrorExplained` accepts that;
* metrics of a source that has failed are exported as they were last
  (`MetricDatabase.cpp` 106, 121, 147): `Fresh` excepts them;
* once a port was not heard of or a load not reported, the launcher takes loads
  for those of other ports (`jitserver_request_launcher.py` 37):
  `LoadsBelongToPorts` speaks of the time before.

### Bounds

Poll loop:

* `FD`: 3 descriptors (2 in the runs that end in a violation).  Two connections, or one and another
  thread's, are what it takes to mix up, leak or reuse a number; the third lets
  the limit be exceeded.
* `MaxConnections = 1`: the enforced limit is 2, so that admission below, at
  and above it all happen.
* `MaxBacklog = 1`, one pending input per connection: more would only repeat
  steps, as the loop accepts one connection per listener and iteration.
* `MaxForeign = 1`, and 0 in the liveness runs: with every descriptor held by
  others `accept` fails for ever, and nothing is owed to the backlog.
* `Requests`: in `https` "big" alone, which may fail or be read as any of the
  parser's answers, so that the others would add nothing; in `http` "keep" alone, the
  request that holds its slot.
* `Faults`: all of them in `https`, and "sockopt" alone in `http`, where
  `accept` or `poll` failing for ever would keep a peer out for ever.
* `HangUp`: in every run the events Linux reports.
* Descriptors are interchangeable in `Spec`; symmetry is used in the runs
  without liveness properties only.

Life cycle and composition:

* Two joiners: a join does not change what others see, so a third adds nothing.
* Two ports, two connections and `Limit = 1`: closing ports one after another is
  possible, and the service may give up.
* `CHECK_DEADLOCK FALSE`, since the system really stops when everything has
  returned, or when `stop` waits for a thread that has ended (`stop_hangs`).

Exchange:

* `Letters = 3`: a first, a middle and a last letter of "keep-alive".
* `Room = 3` units of the buffer and requests of 1 to 4: smaller than the buffer
  by more and by one, filling it, and beyond it.  Answers of 1 and 3 units: sent at
  once, or cut short in two ways.
* Six requests, so that each status, each form of the Connection header and each
  size occurs; one source that may fail, among five in the code's order.
* The peer may ask for ever: nothing is counted.

Start:

* Three descriptors: two servers' and another thread's.  Three ports: both
  defaults, so that a given port may collide with the other's default, and 65535.
* The ports given are 0, 1023, 7390, 7391, 65535, 65536, or none: both ends of
  the range from both sides, and the values `htons` maps to others (65536 to 0,
  which `bind` takes for any free port).  Timeout and limit are wrong, right or
  missing.

Demo:

* Loads 0, 1 and 3 with a high load of 2: idle, busy, above it.  Three instances
  and six requests: more than one round over more than one port.

## 5. Proofs

`MetricServerHandler_proofs` proves, for every finite or infinite `FD`, one or
two listeners, every `MaxConnections`, backlog and set of failing calls:

* `Invariance`: `Spec => []IInv`, and from it
* `TypeCorrect` (`TypeOK`), `Alignment` (`VectorsAligned`) and `Limit`
  (`ConnectionLimit`).

The three are not inductive by themselves.  `VectorsAligned` breaks in a state
where the index is past the vectors or at a listener's entry: `Prune` would
remove a listener, `Clear` would write outside `clients`.  `IInv` adds
`IndexInv`, which says where the index points in each phase (while removing:
nothing before the index is marked, so that a completed removal leaves no
marked entry for the next `poll`).  There is one lemma per action or group of
actions with the same effect (`QuietStep`, `PollStep`, `AdmitStep`,
`ReceiveStep`, `ClearStep`, `PruneStep`, `DrainStep`, ...), and `NextIInv`
puts them together.  The assumptions are those of the modules:
`SocketsAssumption` and `MaxConnectionsAssumption`.

`Ownership_proofs` proves of the same specification, with the same assumptions,
so that every call may fail:

* `LeakInvariance`: `Spec => []LeakInv`, and from it `Drained`
  (`DrainedOnExit`);
* `OwnershipInvariance`: `Spec => []HInv`, and from it
* `Ownership` (`HeldOnce`) and `StrayCloses` (the action property
  `StrayCloseOnlyAfterFailure`).

`LeakInv` is `IInv` with `NothingElseLeaks` and `Scope`: between two accepts the
loop has no `Client` outside the vector, so that an `accept` finds nothing to
overwrite, and `refused` names a socket only once the loop has been left.
`IInv` is needed: that a removal loses no number holds because the
entry and the record it erases are the same connection's (`VectorsAligned`).
`HInv` adds `Held`, the other half of `HeldOnce`, with the dangling records
named by their position.  A failed `setsockopt` closes the descriptor of a
connection that `clientAccept` then returns as accepted, and the kernel gives the
number to whoever asks next: `Held` says of every number outside `tainted` that
it is one record's alone, and the point of the proof is that a number gets into
a second record only while it is tainted, and that it ceases to be tainted
(`PruneDone`) only when no record has it.

`MetricSystem_proofs` proves of the life cycle alone (`MetricServer`), for every
set of joiners and whatever the handler may do:

* `LifecycleTypes` (`TypeOK`), with any thread's `wait()` returning without reason;
* `Started`, `Joined`, `Reported` (`StartedMeansAttempted`, `JoinedMeansGone`,
  `AttachErrorExplained`), with any thread's `wait()` returning without reason;
* `LifecycleInvariance`, `MonitorSafe`, `Stopped` (`LInv`,
  `MonitorOutlivesUsers`, `StoppedMeansEnded`), assuming
  `Stopper \notin SpuriousWakeups`.  The assumption is needed: `stop` has an
  `if` and one `wait()` where `start` has a `while`, and with the stopper in
  `SpuriousWakeups` TLC finds the monitor destroyed under the server's thread.

The argument has two layers.  `PhaseInv` relates every thread's place to the
fields and to the other threads' places (a server is published exactly while
its thread is past `Publish` and before `Finish`; nobody calls `stop` or joins before
`start` is back; the monitor is there until `stop` has destroyed it).
`MonitorInv` adds what the monitor's safety turns on: a `stop` that has been
woken was woken by `Finish`, hence the thread has ended.  That needs `PhaseInv`,
which rules out that the wake-up was `Publish`'s.  Neither needs mutual
exclusion: each section under the monitor is short enough to be one action, and
`owner` only orders them.

`LifecycleTypes`, `Started`, `Joined` and `Reported` follow from the first layer
alone.  The same module carries this over to the composition, from both sides:

* `SystemImplementsLifecycle`: `SystemSpec => Spec`, every step of the
  composition is a step of the life cycle or leaves it alone; so the theorems
  above hold of the whole;
* `SystemImplementsService`: `SystemSpec => Service!ServiceSpec`, every step of it
  is a step of the service or leaves that alone, so that what holds of the
  service holds of the whole: `SystemServiceTypes`, and `SystemLimit`, never more
  than one connection above the limit;
* `Stoppable` (`OpenMeansStoppable`), and `SilentAfterStop`
  (`ReturnedMeansSilent`), the latter with `Stopper \notin SpuriousWakeups`.

`HandlerInv` is the invariant: it says of each place of the server's thread
which phase its service is in.  With `StoppedMeansEnded` and `JoinedMeansGone`
a `stop` or join that returns finds the thread past the handler, hence the
service closed.

`Service_proofs` proves `Implementation`: the poll loop implements
`MetricService`, for the same constants as `Ownership_proofs`, whichever calls
fail.  While a number is tainted two records may have it, so the loop may exceed
its limit with fewer connections than records and close the refused socket in the
drain: these are the steps a lapse allows the service.
Initial states map to initial states and each action to a step of the service or to a stutter, one lemma per group of actions.
`SInv` adds to `HInv` what the mapping needs: no client without a number while
the loop polls and accepts (`Numbered`), since a close of a record without one
would be a step of the loop that closes no connection, and the number of
`clients` would not be the number of connections that `Limit` bounds
(`CountClients`); and which listeners are open at the start (`Opening`).

`Iteration_proofs` is about one iteration of the loop, for the constants of
`MetricServerHandler_proofs`: `Newcomers` (`NewcomersSurvive`) and
`ShutdownBounded` (the action property `StepsRunOut`).

A connection accepted in this iteration has no events, and a connection without events is closed; only `newfd` and
`newfd_https` protect it.  `NInv` says that behind the entries `poll` has seen
there are newcomers only, each with the number its own listener remembers and
with that listener's kind of connection.

For `StepsRunOut` each action is shown to lower the rank `StepsFrom(pc, idx,
Len(fds))` by arithmetic over the places.  An admission lengthens `fds` and with it
every later phase, but uses up a listener's turn, which counts for more; a
removal shortens `fds` and leaves the index where it is.  `IInv` keeps the rank
from falling below zero.  What `ShutdownCompletes` adds is fairness: that the
thread goes on running.

`MetricExchange_proofs` proves, for every size of buffer, request and answer,
every set of requests and every segmentation:

* `ExchangeInvariance`: `ExchangeSpec => []XInv`, and from it
* `BufferSafe`, `KeepsAsAsked`, `AnswersFresh`, `AnswersWholeRequests` and
  `TurnsBounded` (`BufferInBounds`, `KeptAsAsked`, `Fresh`,
  `WholeRequestsAnswered`, `TurnsRunOut`).

`XInv` accounts for the bytes (`Bytes`: unsent, arrived and read are never more
than the request; `Whole`: exactly the request if all of it was there when its
turn came), follows `update()` through its list of sources (`FreshInv`), and
keeps that a request `poll` has reported gets no new question before its answer
(`Heard`), without which "new" could turn "old" between `update()` and the body.
That a turn ends needs `BufferInBounds`: each unit read is one the buffer has no room
for any more, or the rank would fall below zero while a peer goes on sending.

`MetricStartup_proofs` proves, for all arguments, ports, descriptors and
failures, with and without SSL:

* `StartupInvariance`, `ServesAsConfigured` (`ListensAsConfigured`),
  `ForeignSafe` (`NoForeignClose`) and `StartupRefines`
  (`StartupImplementsService`).

Its invariant: every number a `Server` keeps is its own (`Table`), the options
read so far are the configuration (`OptionsRead`), and the servers before the
one at hand listen while those behind it hold nothing (`Ordered`).

`Demo_proofs` proves, for every number of instances and requests, every
threshold and set of loads, and whenever the sockets time out:

* `Launches` (`LaunchesTotal`) and `LoadsInPlace` (the action property
  `LoadsBelongToPorts`).

`DInv` types what is on its way to the launcher and keeps `fired + left = Total`:
a round launches at least 0, as `maxload` is at least the threshold that the
port's load is below, and at most what is left.  That the n-th reported load
exists is `NthExists`: take the least number at or below which there are n
instances (`Least`, from the well-foundedness of `<`).  `PlaceInv` is the
argument of `LoadsInPlace`: until a message is lost the ports the launcher has
are those of the first instances, in order, the messages in the backlog name the
next ones, and each message carries the loads of an initial part of the
instances, so that places and numbers are the same thing on both sides.

Only model-checked: all liveness (`ShutdownCompletes`, `BacklogServed`,
`RequestsConsumed`, `FinishedCloses`, `StartCompletes`, `WaitingStopReturns`,
`JoinCompletes`, `StopSilences`, `RequestsSettled`, `LauncherEnds`), since
fairness is out of the prover's reach.  `StepsRunOut` and `TurnsRunOut` are what
can be proved of it.  Every other property of a passing run is a theorem.

## 6. Not modelled, and why

* **SSL**: `createSSLContext` is one step that succeeds or ends the process;
  keys, certificates and TLS records are library matter.
* **Requests**: a peer that pipelines (what is in the buffer behind the first
  request is lost; no document promises otherwise) and requests with bodies.
  The scan for the Connection header is not followed character by character.
* **Answers**: the headers are fixed text.
* **The name of the fourth option**: the code reads `-XX:MetricHttpsPort=`
  (`MetricServerHandler.cpp` 206), `src/server/README.md` 16 documents
  `-XX:MetricServerHttpsPort=`: whoever follows the document gets port 7391.
* **The Host header**: `src/README.md` 25 and the tester (`tester.sh` 73-77) expect
  400 for a request without one; `httpErrorCheck` never looks at it (`Status`).
* **The tester script** otherwise: it drives a stand-alone binary that the
  repository does not build.
* **`stop` called twice or at the same time**: one caller, as in the JVM's
  shutdown.
* **The demo's surroundings**: the started processes, SIGINT, which ends
  everything, and Prometheus itself.
* **Logging** and the texts of messages.
