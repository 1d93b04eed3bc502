# A verification of networking-in-go

The repository is the code of a book on network programming in Go: some twenty
small programs, one or two to a chapter, most of them servers. They share no
code, but they share their difficulties: goroutines per client, connections that
cut, lose or repeat what is sent, contexts that are cancelled at any moment,
buffers that are used again, files that outlive a process. The modules here model
every program that has such state, TLC checks them on small instances, and TLAPS
proves for all instances every safety invariant that TLC checks on them, and that
the TFTP server, the RobotMaid service, the housework command, the echo servers and
the TLV encoding implement their abstract specifications.

## 1. The system

| Program | State | Operations | What is hard | What makes it correct |
|---|---|---|---|---|
| heartbeat `chapter3/ping.go` | interval, timer, reset channel | start, reset, tick, write, cancel | the three events of a `select` at once; draining a timer's channel | pings go on at the last interval asked for; a cancelled Pinger returns |
| TLV `chapter4/tlv.go` | the byte stream, decode's place in it | WriteTo, ReadFrom, decode | reads that return part; a stream cut in the middle | payloads arrive as they were sent |
| proxy `chapter4/proxy.go` | two connections, two copies | read, write, fail, end, return | which copy ends or fails first, half-closed and reset connections | no reply is lost while both ways out are sound; both copies end |
| UDP echo `chapter5/echo.go`, datagram echo `chapter7/server.go` | one socket, one buffer, the socket's file | ReadFrom, WriteTo, close | clients share the buffer; a client that is gone | each client gets its own data, every stayer is answered |
| TFTP server `chapter6/server.go`, codec `chapter6/tftp.go` | per transfer: block, tries, buffer | serve, send, acknowledge, time out, retry | loss, duplication, reordering, early deadlines, reused buffers | files arrive in order and whole; every goroutine ends |
| stream echo `chapter7/server.go`, TLS echo `chapter11/server.go` | listener, connections, deadline | listen, load, accept, read, write, close | partial reads and writes, slow clients, cancellation | the echo is faithful; idle clients are dropped; the context stops it |
| page with pushed resources `chapter9/push.go` | promises, page, resources | push, serve, ask | a push fails; the page overtakes a promise | every resource is sent, once |
| HTTP server `chapter9/push.go`, backend `chapter10/backend.go` | signal, listener, connections, `done` | serve, interrupt, shut down, return | three parties that wait for each other | no request is cut by a graceful stop; it ends |
| handlers and middleware `chapter9/handler.go`, `middleware.go`, wide log `chapter13/wide.go` | the response so far | WriteHeader, Write, drain, log | what `net/http` ignores, and when | the client learns what is allowed; in which cases the log tells what was sent |
| path restriction `chapter9/middleware.go`, `caddy/caddy-restrict-prefix` | none | one request | spellings of a path | no hidden file is served |
| housework command `chapter12/homework.go` with a storage, `proto`, `json` or `gob` | the data file | load, change, truncate, write, list | kills, failed writes, two commands at once | the list persists |
| RobotMaid service `chapter12/server/robot.go`, client `client/client.go` | the chores, each client's command | Add, Complete, List | List's slice is encoded after the unlock; a call fails after it was executed; 32-bit numbers | batches are kept whole; a reply is a list that was; a client sees what it did |
| dynamic level `chapter13/dynamic.go` | the level, a file, a channel | watch, signal, log | two goroutines, one unbuffered channel, events by others | the lines of the example; nobody waits for ever |
| log writers `chapter13/multi.go`, `level.go` | writers, errors so far | build, write | one writer of several fails | the others get the entry, and every error is told |
| instrumented server `chapter13/instrument` | gauge, counters, connections | count, observe, connect, print | connections that break, are retried, close late | the printed metrics are complete |

The programs interact with the outside only: TCP, TLS, UDP and Unix sockets, the
file system, timers, signals, `net/http`, gRPC and the clients. Each module
models these next to the code, as **external** actions that do all the code's
documentation, Go's documentation and the kernel allow, and marks them so.
The one composition inside the repository is middleware around handlers
(module `Responses`) and the codec under the TFTP server (`TFTPCodec` and `TFTP`).

Not modelled, and why: `chapter3/main.go` (one dial), `chapter4/port.go` (a
sequential loop), `chapter4/monitor.go` (one exchange through library readers
and writers), `chapter7/auth.go` (a sequence of system calls and look-ups, decided
by the kernel and the user database), chapter 8 (tests of `net/http`'s client),
`caddy-adapter` (two library calls), `chapter11/cert.go` (straight-line output),
`console.go`, `encoder.go`, `concurrent.go`, `rotation.go` and `sample.go` of chapter
13 (configurations of zap and lumberjack, whose algorithms are not in the
repository), the start of the RobotMaid server and of its client's connection
(library calls that succeed or end the program) and the generated gRPC code.
`PROJECT.json` lists every component and every hazard at its line.

## 2. The modules

| Module | Models | Variables and actions against the code |
|---|---|---|
| `TFTP` | `Server.Serve`, `Server.handle`, `Data.MarshalBinary` | one record of locals per goroutine (`pc`, `client`, `pos`, `block`, `tries`, `buf`), three bags of datagrams in flight, the client's `file`. `ServeRequest/Reject/Return` are the Serve loop, `HandleStart`, `SendData`, `Timeout`, `RecvAck`, `RecvOther`, `RecvErr`, `HandleFail` the places where handle can go on from |
| `FileTransfer` | the promise of a file server, without a network | the abstract specification that `TFTP` implements, with `delivered <- file`, `serves <- client`, `status <- Status(pc)` |
| `TFTPProofs` | proofs of `TFTP` | |
| `TFTPCodec` | `ReadReq`, `Data`, `Ack`, `Err`, the buffers of Serve and handle, and a client that decodes DATA | a datagram is a sequence of symbols; what is decoded is the datagram over what the buffer held (`Overlay`) |
| `Delivery` | the promise of whatever passes data on: each item once, in order, none left out before another | the abstract specification that `StreamServer`, `DatagramEcho` on a Unix socket and `TLV` implement; `offered` is what was sent, `taken` what came out |
| `TLV` | `chapter4/tlv.go` | `wire` is the stream, `wpc` the next Write of WriteTo, `rpc` the next read of decode; `ReadBody` returns any part. `Delivery` with one sender, `taken <- decoded` |
| `Pinger` | `chapter3/ping.go` | `pc` is the place in Pinger, the timer is the one of Go 1.23 |
| `Proxy` | `chapter4/proxy.go` | units counted in the six places a request or a reply can be; `main*` is the copy proxyConn waits for, `back*` the other; `clientEnd` and `serverEnd` are the peers' ends: open, shut down (`fin`), closed or reset. A write to a closed peer makes it reset the connection, and the next one fails (`MainWriteFail`, `BackWriteFail`) |
| `ProxyProofs` | proofs of `Proxy` | |
| `StreamServer` | `chapter11/server.go`, `streamingEchoServer` of `chapter7/server.go` | units in `inb`, `held`, `outb`, `got` of each connection; `maxIdle = 0` is chapter 7. `Delivery` with `offered <- Units(units[c])`, `taken <- got` |
| `StreamServerProofs` | proofs of `StreamServer` | |
| `DatagramEcho` | `chapter5/echo.go`, `datagramEchoServer` of `chapter7/server.go` | `buf` is the shared buffer byte by byte, `network` the argument of ListenPacket; UDP loses, doubles (`Double`, `ArrivedTwice`) and reorders. `Delivery` with the echo of each datagram sent, `taken <- inbox` |
| `WebStop` | `run` of `chapter9/push.go` and of `chapter10/backend.go` | `graceful` tells which; `run`, `stopper` are the two goroutines, `Shutdown` is the steps it takes; a signal reaches `stopper` once it has asked for it (`Notify`) |
| `WebStopProofs` | proofs of `WebStop` | |
| `Responses` | `chapter9/handler.go`, `Middleware`, `chapter13/wide.go` | `w` is the ResponseWriter and the wide one around it; its fields `overruled` and `implicit` remember what the handler did to the header after it was fixed, or that it fixed none |
| `Push` | the handler of `/` in `chapter9/push.go` | `stream` is the page's stream, in order; `at` the loop over `targets`; a push may fail each time |
| `PathRestrict` | both `RestrictPrefix` | a path is the sequence of its segments; `Clean` is `path.Clean`; `Kept`, a recursive function, is its loop over the segments |
| `ChoreList` | the promise of a chore list that changes by whole commands | the abstract specification that both of the next implement |
| `Housework` | `chapter12/homework.go` and the three storages | a process loads, creates, writes and lists in four steps; `storage` is the import; `ledger` is a history variable. `ChoreList` with `list <- Stored`, `lost <- damage` |
| `Rosie` | `chapter12/server/robot.go`, `chapter12/client/client.go` | a client's command and then its List; a call under the mutex is one step; List's reply is sized and encoded chore by chore. `ChoreList` with `list <- chores`, `lost <- FALSE` |
| `RosieProofs` | proofs of `Rosie` | |
| `LevelWatch` | `chapter13/dynamic.go` | `main` and `watch` are the places of the two goroutines, `events` the queue of the watcher; `Ready` is both ends of the channel |
| `LogWriters` | `chapter13/multi.go` under the loggers of `level.go` | `next` is the loop of Write, `err` what multierr has gathered, `lock` the mutex of `log.Logger` |
| `Instrumented` | `chapter13/instrument/server.go`, `metrics.go` | `client` and `using` are a goroutine of main and its connection, `socket` the server's end of it; `metric` the four metrics, `printed` what main reads |
| `MCTFTP`, `MCRosie` | instances of `TFTP` and of `Rosie` | symmetry; the constants are in the configurations |
| `MCServers`, `MCData`, `MCLogs` | instances of several modules | see below |
| `ServersProofs`, `DataProofs`, `LogsProofs` | proofs of `MCServers`, `MCData`, `MCLogs` and of the modules they follow | |

Every definition that stands for code is in the map of `PROJECT.json` with its
lines.

**One instance for several modules.** The programs that run for as long as their
peers like (`StreamServer`, `DatagramEcho`, `Proxy`, `WebStop`, `Push`, `Pinger`:
`MCServers`), what reads, changes and answers data (`TLV`, `TFTPCodec`, `Responses`,
`PathRestrict`, `Housework`: `MCData`) and the programs of chapter 13 (`LevelWatch`,
`LogWriters`, `Instrumented`: `MCLogs`)
share nothing, so their product would multiply states and show nothing new.
Each of the three MC modules has a variable `follow`: a behaviour follows
one module, chosen in the first state, and leaves the others in theirs. Every
property of a module is checked of the behaviours that follow it, and holds of
the first state in the rest. Fairness is that of the module followed. Where a
module states two halves of one promise, or several modules state the same one,
the MC module names their conjunction.

## 3. What the runs check

Runs that pass (the configuration has the name of the run):

| Run | Bounds | What it shows |
|---|---|---|
| `TFTPOneHandler` | 1 goroutine, 3 blocks (two full, one empty), numbers modulo 3, 3 tries, 2 faults | `IndInv`, of which `TypeOK` is a part, holds of every reachable state; `GiveUpNeedsFaults`: it takes as many faults as tries to exhaust a block's tries, a duplicate acknowledgment does not multiply a fault; `HandlerTerminates`; `ImplementsFileTransfer` |
| `TFTPTwoHandlers` | 2 goroutines for 1 client, 2 blocks, 2 tries, 2 requests, 1 fault, symmetric goroutines | `InOrder`, `SentMeansDelivered`, `StopAndWait`, `StaleBufferHarmless` when two transfers to one client interleave |
| `RobotMaid` | 3 clients at once; batches of 2; numbers 0, 2 and 9 typed where an int32 is 8 wide; symmetric clients | `ServiceIsChoreList`, `AddsAreKept`, `ResponseIsBounded`, `ClientSeesItsChange` and the `IndInv` they follow from, of which `TypeOK` is a part |
| `Data` | 3 payloads, one of them over the limit; packets longer than the buffer, DATA up to its size; bodies of 2 pieces, 2 calls of any handler; all paths of 5 segments; 3 commands one at a time with each storage, batches of 2, symmetric | `StreamIsFaithful` (`FaithfulUntilShortRead`, `EofMeansAll`), `StreamIsDelivery`; `PacketsAreRead` (`ServeAcceptsRequests`, `DirtyBufferIsHarmless`, `DataArrives`); `AnswersAreTold` (`AllowIsSent`, `LoggedAsSentIff`); `NoHiddenFile` (with `CaddyIsStricter`); `FileIsLedger` (with `PersistUnlessDamaged`, `ShowsItsChange`), `CommandIsChoreList` |
| `Logs` | 3 acts of others in the directory; 2 loggers of 3 writers, one nested and one shared, 3 callers, 2 failures; 2 clients of 2 requests, 2 broken connections | `OutputAsExpected`, `LevelWatchEnds` (`MainEnds`, `WatchEnds`); `Sustains`, `SameOrder`; `MetricsAreComplete` (with `GaugeInStep`), `ServerMainEnds` |
| `Servers` | 2 clients each, sockets of 2 units, 2 units or 3 datagrams, shorter and longer than the buffer, one of them or of the replies doubled by UDP; 3 requests of the proxy; 2 connections of 2 requests; 2 resources to push; 3 resets of 1, 2, 0 or a negative duration | `TrafficIsKept` (`EchoIsFaithful`, `RepliesAreEchoes`, `NoReplyLost`), `EchoIsDelivery` (of the streams and of the datagrams), `StreamsEnd` (`IdleIsClosed`, `EverythingComesBack`), `CancelStopsServing`; `StayersAreAnswered`; `RepliesArrive`, `NoLeak`; `NoRequestCut`, `InterruptStops`; `PageCompletes`; `PingsUntilCancelled` (`KeepsPinging`, `CancelStopsWriter`) |

Why these bounds are enough: they reach every branch (each action of each module
is taken), and each hazard at least once. In `TFTPOneHandler` the tries outnumber
the faults by one only, so that giving up is reached by early deadlines and by
strays; the last block number is 0, as after a wrap, and the last packet is
empty. Two goroutines are enough for `TFTPTwoHandlers`, since a goroutine meets
another one only through the file of their client; with one fault each of the
two can be the one that is hit. In `Servers` two connections let one be blocked
while the other goes on; a socket of two units is full after two. Two pieces of
a body let a client leave between them. In `RobotMaid` one client lists while a
second completes and a third adds, and the number 9 is chore 1 in an int32 of that
width. In `Logs` a first and a second connection of a client can break, and two of
the three writers of an entry can fail. Every bound is a named constant.

`CHECK_DEADLOCK FALSE` is in every configuration, because every program may stop
(the transfer is over, the server has returned, the clients are silent), and the
bounded environment then has nothing left to do. That something does not stop too
early is what the liveness properties say.

Runs that end in a violation; each refutes one sentence of the repository:

| Run | Property | What the code does |
|---|---|---|
| `PingerWriteError` | `CancelStops` | after a failed Write the deferred drain (`ping.go:38`) waits for ever for a tick that was received already |
| `TLVShortRead` | `DecodesWhatWasSent` | a short Read (`tlv.go:100`, `172`) pads one payload with zeroes and turns its rest into the next header |
| `ResponsesMiddleware` | `RefusedMeansBlocked` | no `return` after the 405 (`middleware.go:24-27`): the next handler runs |
| `RosieWraps` | `CompletesWhatWasTyped` | the number is cut to an int32 (`client.go:78`): another chore is completed, and the client reports success |
| `HouseworkCrash` | `ChoresPersist` | the file is truncated before it is written (`homework.go:59`) |
| `ProxyServerCloses` | `ReturnsWhenServerCloses` | proxyConn waits for the silent client when the server has closed (`proxy.go:31`) |

Three more remarks that the models bear out and no run of their own is spent on. A late
acknowledgment takes one of handle's tries without a wait (`server.go:121-125`,
`RecvAck`), so "exhausted retries" may be logged on the arrival of a reply, though
never for fewer faults than tries (`GiveUpNeedsFaults`). The counter of write
errors stays 0, since Write fills a buffer that net/http writes after the handler
(`instrument/server.go:31`, `Flush`). And the wide event does not always do what chapter
13's README says (`README.md:152-153`: "create your own response writer type to collect and
log the response code and length"): the wide writer never learns what net/http makes of
its calls (`wide.go:19-31`), so a handler that writes nothing, such as `Methods` on
OPTIONS, is logged as 0 while 200 is sent, a WriteHeader with another status after the
header was fixed is logged though it was not sent, and the text written to a HEAD
request is counted though it is dropped. `LoggedAsSentIff` says that the event differs
from what was sent in these three cases, whatever the handler, and in no other.

The counterexamples of `CancelStops` and `ReturnsWhenServerCloses` are behaviours
of a fair specification: the goroutine is stuck, not merely slow.

Conditions that properties name because the code needs them: `FaithfulUntilShortRead` and
`EofMeansAll` hold until a Read returns less than asked, and the latter up to the last
payload when the sender was cut off, since ReadFrom passes an `io.EOF` inside a payload on
as it is (`tlv.go:102`); `NoRequestCut` excepts an interrupt that comes before the goroutine
of `push.go` has called `signal.Notify`, which kills the process; `StreamIsDelivery` leaves
out the steps after a short Read, and `EchoIsDelivery` the datagrams of UDP, which may be
lost, doubled and overtaken; `ClientSeesItsChange` tells which chore was completed of the
numbers that an int32 holds; `PersistUnlessDamaged` is `ChoresPersist` without a command
that ended inside flush; `CancelStopsWriter` assumes that the writer is never closed;
`RepliesAreEchoes` allows a datagram one answer, and over UDP one more for each time that
the network doubled a datagram or a reply: the server adds none of its own. It counts
replies with a byte in them, as empty ones cannot be told apart; `NoReplyLost` says at all
times that no reply comes twice or is made up, and that none is lost while proxyConn runs,
the client reads (it has not closed, though it may have shut its sending side down) and the
server's connection is not reset: once the client has closed or reset, the second copy ends
at its next failing Write (`proxy.go:27`, `BackWriteFail`) whatever the first one is doing,
and what it carried is gone, as is what the server still sends; a request sent after the
server closed resets the server's side; `StayersAreAnswered` that no client leaves or stops
reading, over a Unix socket (a client that leaves ends the service for all,
`chapter7/server.go:94-96`); `RepliesArrive` that the client waits for its replies before it
shuts down or closes and that the server does not close first; `FileIsLedger` that commands
run one at a time and none ended inside flush; `OutputAsExpected` and `WatchEnds` that
nobody else creates, removes or moves the file: a signal that main does not wait for keeps
the watching goroutine where it is, and the code has nobody else to take it;
`MetricsAreComplete` states equality if no connection broke, since a request that is sent
again is counted again. That a server which cannot listen returns is stated of neither web
program: the backend does so at once, and `push.go` waits for `done`, which only an
interrupt closes (the model has both, `AfterServe`).

## 4. Fairness

Weak fairness of the steps of every goroutine: the Go scheduler runs what can run. In `TFTP`
that includes `Timeout`, as handle sets a read deadline before every Read. Errors that come
from nowhere (`HandleFail`, `ServeFail`, `ServeReturn`) are never owed: no goroutine may
count on one to end. In `Pinger` strong fairness of `SelectDone` alone: `select` chooses at
random among the cases that are ready, so one that is ready again and again is taken in the
end. In `StreamServer` time passes (`Tick`), and in `WebStop` every handler ends. In `Logs`
and for `Push` it is enough that some goroutine of the program runs whenever one can,
whichever: their behaviours have no cycles. Clients, networks, signals and callers owe
nothing, with these exceptions, each of which is part of what the property says: the reader
of the pings reads them (`WriteRead`, of an `io.Pipe` whose other end is in use), and the
two ends of the proxy read what reaches them and the client that has every reply ends
(`ClientFin` or `ClientClose`).

## 5. What is proved

Every invariant of every run that passes is stated by a theorem, and so are the refinements:
of `FileTransfer` by the TFTP server, of `ChoreList` by the service and by the command, of
`Delivery` by the stream server, the datagram server and the TLV stream. The shape is the
same everywhere: an inductive invariant, one lemma for each action that disturbs it, the
invariant's theorem, and the properties that follow from it. What TLC can evaluate of an
inductive invariant it checked on the run before the proof was tried. The assumptions on the
constants are `Parameters` of each module (`PayloadAssumption` and so on in `TFTP`): bounds
are natural numbers, sets that are counted are finite, and where a module needs more its
section says so. TLC evaluates them on each run. Where a definition recurs over a sequence
(`path.Clean`, a cut text, the types of a list), the proof takes the least number at which
the claim fails (`Induction` in `DataProofs`, a lemma on sets of numbers).

### The TFTP server

`TFTPProofs`, for every number of goroutines and clients, every payload, block size,
retry count and any number of requests and faults:

| Theorem | Statement |
|---|---|
| `TypeCorrect` | `Spec => []TypeOK` |
| `Inductive` | `Spec => []IndInv` |
| `FilesInOrder`, `SentImpliesDelivered`, `OneBlockAhead`, `StaleBuffer` | the safety properties of `TFTPTwoHandlers` |
| `Refinement` | `Spec => ImplementsFileTransfer` |
| `GiveUpIsBlamed` | `Spec => []GiveUpNeedsFaults` |

All but the first and the last assume `NoWrap`: the transfer has no more blocks than
there are block numbers (2^16 in the code, a payload of 32 MiB; the chapter's README
leaves larger ones open).

The argument for safety. None of the four safety properties is inductive: what a handler
may conclude from an acknowledgment depends on datagrams in flight, which depend on what
clients have stored. `IndInv` closes the circle. `DataInv`: a DATA packet in flight has
the number of its chunk and is at most one ahead of its client's file. `AckInv`: an
acknowledgment in flight, or left in a buffer, is for a block its client has stored.
`SenderInv` and `StopAndWait`: the handler is at most one block ahead and counts as the
client does. So a client that stores a block it expects stores the right chunk
(`InOrder`, from `DataInv` and the fact `BlockNumFacts` that under `NoWrap` a number
tells its chunk), and a handler that accepts an acknowledgment knows its block is stored
(`SentMeansDelivered`, from `AckInv`). `HandlerInv` ties the locals to the place;
`DataSource` says that a packet's sender exists. `TypeInv` and `SafeInv` in `TFTPProofs`
are the same conjuncts with the bags written out by their domains, which is all that
matters of a bag here: how often a datagram is in flight makes no difference to what
arrives (`BagAddFacts`, `BagRemoveFacts`, `DeliveryFacts`).

`Refinement` follows from the invariant: a step of `RecvAck` that ends the transfer is
`Finish`, one that gives up is `GiveUp`, `ClientReceive` of the expected block is
`Store`, `ServeRequest` is `Accept`, the rest stutters.

`GiveUpNeedsFaults` is the opposite: it is about nothing but how often. `BlameInv` is an
account of each exchange. Every datagram received is answered by at most one, so what is
in flight beyond the one that stop-and-wait needs was doubled by the network or goes
back to an early deadline: it is at most the exchange's faults (`All`). A try of the
current block was taken by a time out, after a loss or an early deadline, or by a
datagram that is not about the current block. Those in flight (`Other`) and the tries
taken therefore go back to faults of their own, and if nothing about the current block
is in flight, one more fault has been. When the tries are exhausted, the faults are as
many. A copy in a bag is an element of a set here (`Copies`), so that the library's
facts about finite sets count it, and block numbers may repeat: the account does not ask
what a datagram says.

### The RobotMaid service

`RosieProofs`, for every number of clients, every size of a batch, every number typed
and every width of a chore number that has room for a batch (`Parameters`):

| Theorem | Statement |
|---|---|
| `ServiceInductive` | `Spec => []IndInv` |
| `ServiceTypes`, `BatchesKept`, `ResponsesBounded`, `ClientsSeeChanges` | `TypeOK` and the safety properties of `RobotMaid` |
| `ServiceImplements` | `Spec => ServiceIsChoreList` |

The argument. List gives its slice away without the mutex, so what a response says
depends on what others did to the list since. `Listed` is what a client may still rely
on: the chores that List saw are where they were and their marks only ever get set; what
is encoded lies between the marks of then and of now; a size that is cached knows of a
mark only if it is set, and of every mark that List saw. The last two make an encoding
fail only on a chore completed since (`ResponseIsBounded`). `Done` is what the client
did itself: its mark, or its batch, is in the list, and from List on within the part it
was given (`ClientSeesItsChange`). Steps of others disturb neither, because they only
let the list grow (`Grown`, `ListedKept`, `DoneKept`); each action has one lemma.
What the refutation of `CompletesWhatWasTyped` leaves is a part of
`ClientSeesItsChange`: `Asked` says that the number sent is `Int32` of the one typed,
`Int32Fits` that this is the same number if an int32 holds it.
`ServiceImplements` needs of the invariant that a client's chores are not in the list
before its Add (`AddIsAdd`); all but Add and Complete stutter.

### The proxy

`ProxyProofs`, for every number of requests (`Parameters`):

| Theorem | Statement |
|---|---|
| `ProxyInductive` | `Spec => []Inv` |
| `ProxyTypes`, `RepliesKept` | `TypeOK` and `NoReplyLost` |

The argument is conservation: a request is in at most one of the four places up to the
server, a reply in at most one of the four back to the client, and in exactly one of
those while the way back is sound (`Sound`, `Conserved`): proxyConn runs, the client
reads, the server's connection is not reset. The bounds of `TypeOK`, which no step keeps
by itself, follow from the sums (`InvTypes`). The second copy may end in three ways: at a
read, where its buffer is empty (`Buffered`), because a Write failed, which only a client
that no longer reads can cause, or with `proxyConn`. Of these only the first leaves the way
sound, and then the server has closed and all it sent has been read (`GivenUp`), so
whatever was replied is with the client or about to reach it. `ReturnKeeps` is the return
of `proxyConn`, which may throw away what is in flight; after it, as after a close or a
reset, `NoReplyLost` only promises that no reply comes twice or from nowhere.

### The graceful stop

`WebStopProofs`, for every set of connections and every number of requests on each:

| Theorem | Statement |
|---|---|
| `StopInductive` | `Spec => []Inv` |
| `NothingCut` | `Spec => []NoRequestCut` |

The argument. The process ends when `run` returns, and cuts what is being handled then.
With a graceful stop `run` returns for `done` only (`WaitsForDone`), `done` is the
goroutine's last step and comes when no connection is open (`DoneIsLast`), and that
stays so, since the listener was closed before (`ListenerFirst`) and what is idle or
lost carries no request that a handler has begun (`EndedFacts`). An error of
`ListenAndServe` makes no difference: `run` waits all the same.

### The stream and the datagram servers

`StreamServerProofs`, for every set of connections, capacity, deadline and number of
units:

| Theorem | Statement |
|---|---|
| `StreamInductive` | `Spec => []Inv` |
| `StreamTypes`, `EchoFaithful` | `TypeOK` and `EchoIsFaithful` |
| `EchoDelivers` | `Spec => EchoIsDelivery` |

The argument. A unit is its number in the stream of its client. `Flow`: what a client
has got, what is on its way back, what the goroutine holds and what it has yet to read
are runs of consecutive numbers, each beginning where the one before ends (`Back`,
`Pending`), and nothing is held at a read, so that Read does not overwrite what Write
left over. A partial read or write moves units over one border and keeps the whole
(`SendUnit` and the lemmas after it); a close throws away the end of the stream only.
`EchoDelivers`: a unit that a client sends is an `Offer`, one that it reads is a `Take`,
since `Flow` makes it the next number after those it has got (`SendOffers`,
`ReceiveTakes`); all other steps stutter.

`ServersProofs`, for every set of clients and all sizes and lengths of datagrams, and
then for the specification that the run `Servers` checks:

| Theorem | Statement |
|---|---|
| `DatagramsAreEchoed` | `Start => [](DatagramInv /\ Account /\ RepliesAreEchoes)` |
| `ServerTypes`, `TrafficKept`, `NothingCut` | `FairSpec => []TypeOK`, `[]TrafficIsKept`, `[]NoRequestCut` |
| `EchoesDelivered` | `FairSpec => EchoIsDelivery` |

The argument for the datagram servers, whose clients share one buffer. What is left of an
earlier datagram in the buffer is harmless because the reply is cut to `n`: `ReplyIsReady`
says that before a write those bytes are a datagram of `clientAddr`. `QueueIsSound`: what is
in the queue was sent as it is there. How often a datagram is answered is a count of its own
(`Account`): its copies in the queue, in the loop's hands and in the client's inbox are at
most one more than the times that UDP doubled a datagram (`Tally`). A Read moves one copy, a
Write at most one, a loss takes one, and only `Double` and `ArrivedTwice`, which count, add
one (`TallyReadFrom`, `TallyWriteTo`, `TallyLose`, `TallyDouble`). Over a Unix socket the
order is kept too, and the datagrams that are not answered are all in the queue (`InTurn`),
so the replies are those of the first datagrams sent, in order, and a write that arrives
adds the next one (`DatagramTakes`; `DatagramOffers` is the client's). The stream servers,
the proxy and the graceful stop enter `TrafficKept`, `NothingCut` and `EchoesDelivered`
through their own theorems (`INSTANCE` of their proof modules): a behaviour of the
composition is one of each module, or stays where that module begins.

### The programs of chapter 13

`LogsProofs`, for every set of clients, callers, loggers and writers, and any number of
failures, of broken connections and of acts of others:

| Theorem | Statement |
|---|---|
| `LevelInductive`, `LogInductive`, `ServerInductive` | `FairSpec => []LevelInv`, `[]LogInv`, `[]ServerInv` |
| `LogTypes` | `FairSpec => []TypeOK` |
| `OutputInOrder` | `[]OutputAsExpected` |
| `WritesSustained`, `OrderAgreed` | `[]Sustains`, `[]SameOrder` |
| `MetricsComplete` | `[]MetricsAreComplete` |

`LevelInv` says, until others touch the file, of each place of the main goroutine which
events of the file are queued, what the watching goroutine is doing with the one before,
what the level is and which lines are out; main and the watcher are never more than one
event apart, as the channel has no room. `LogInv`: a caller in the loop of Write has, of
each writer it has passed, the entry written or the error in hand (`Progress`); it holds
its logger's lock, so whoever is before it in a writer of the same logger has returned,
and the two are in the same order in the other one. `ServerInv` counts: a request is on
at most one connection that works, every answer a client has got was counted and
observed before, and the gauge is the number of open sockets (`Counted`, with the
library's facts on cardinalities).

### What reads, changes and answers data

`DataProofs`, for every set of payloads, words, modes, segments, prefixes and processes,
every size of buffers and every bound:

| Theorem | Statement |
|---|---|
| `StreamInductive`, `CodecInductive`, `ResponseInductive`, `PathInductive` | `Spec => []StreamInv`, `[]CodecInv`, `[]ResponseInv`, `[]PathInv` |
| `CommandTypes` | `Spec => []Command!TypeOK` |
| `CommandInductive` | `Spec => []CommandInv` if commands run one at a time |
| `DataTypes` | `[]TypeOK` |
| `PayloadsFaithful`, `PacketsRead`, `AnswersTold`, `HiddenFilesStayHidden` | `[]StreamIsFaithful`, `[]PacketsAreRead`, `[]AnswersAreTold`, `[]NoHiddenFile` |
| `PayloadsDelivered` | `Spec => StreamIsDelivery` |
| `FileHoldsLedger`, `ChoresPersistUnlessDamaged`, `CommandImplements` | `[]FileIsLedger`, its part `[]PersistUnlessDamaged` and `CommandIsChoreList` if commands run one at a time |

`StreamInv`: until a Read returns less than asked, the wire holds the bytes `c` to `l` of
the stream of all payloads sent, of which the i-th ends at `pos[i]` (`Flow`); `l` is where
WriteTo is in the last one, `c` where decode is in the one after those it returned, and so
the end of the stream comes at `pos[i]` or inside the payload that the sender was cut off
in. `CodecInv` needs no history: each datagram is decoded as it arrives, over whatever the
buffer held; its lemmas say where a text ends in a buffer (`PacketOps`). They need that a
`Nul` is no part of a name or a mode and that a buffer holds a header (`Parameters`).
`ResponseInv` follows a response through the handler: the chapter's own handlers find it
untouched, and after any number of calls of any handler the wide writer has the length of
all texts and the status named last, which is the one that was fixed unless `overruled`
(`Counts`); each call of the writer keeps that (`WriteHeaderKeeps`, `WriteCounts`,
`ErrorKeeps`), and what net/http does after the handler makes the rest of the difference
(`Finish`). `PathInv` states the two middlewares' verdicts on every path. Its core is on
`Kept`, the loop of `path.Clean`: a path that is cleaned with a root and one without keep
the same segments but for the `..`s it begins with (`Climbs`). Of `strings.HasPrefix` it
uses that everything starts with the empty prefix and that `..` starts with whatever `.`
does. `CommandInv`: one command runs at a time (`Alone`); what it is about to write is its
change applied to the ledger (`Pending`), or, after a damage, no promise is left; a
command's chores are nowhere before it (`Unseen`) and are in the list from its change on
(`Changed`). `Kept` adds that they stay in the ledger whatever the commands after it do,
since the change of one command leaves that of another (`ApplyKeeps`): with `FileIsLedger`
that makes `PersistUnlessDamaged`. `PayloadsDelivered`: the step of WriteTo that begins a
payload is an `Offer` (`StreamOffers`), and the one that ends decode's a `Take` of the next
(`StreamTakes`), by `Flow` again. That commands run one at a time is the condition of the
promise, not of the proof: two at once lose a change, and neither property claims anything
of them.

### What is not proved

Model-checked only are the properties of what must happen: `HandlerTerminates`,
`LevelWatchEnds`, `ServerMainEnds`, `StreamsEnd`, `CancelStopsServing`,
`StayersAreAnswered`, `NoLeak`, `RepliesArrive`, `InterruptStops`, `PageCompletes`
and `PingsUntilCancelled`. They rest on fairness, whose definition has
`ENABLED`, out of the prover's reach. The six refutations are TLC's too: a
counterexample is its own proof. `Push` and `Pinger`, whose properties are all of that
kind, have their types proved (`ServerTypes`) and nothing else.

## 6. What is abstracted

Bytes, names, texts and addresses are members of small sets; a unit stands for any number of
bytes that travel together. Logging is left out, except where a property is about it. In
`TFTP` a goroutine is named by its local port and each port is used once, so a datagram from
an earlier transfer never reaches a later one on the same port; the client accepts the next
block from any of its transfers. In `Proxy` the buffers of the kernel have room for all
requests; a Write that blocks on a slow peer is a write that has not been made yet. A TCP
connection is reset by a peer that is sent something after it closed or that closes with
data unread, and a reset may be noticed by a Read or a Write, sooner or later. A UDP network
doubles datagrams `MaxDoubled` times in all. Empty datagrams are not in the run, which they
would make twice as long, but in the proofs, where the lengths are any numbers. `Housework`
takes all chores to be encoded in the same number of bytes, and encodes what a process may
see of a list written over a longer one as either the longer one's tail or a file that does
not decode; a Write that fails leaves some of the new list, or bytes that do not decode. In
`Rosie` the bytes of a response are read chore by chore, each atomically: Go gives no
guarantee for the unlocked read of `Complete`, but a boolean is old or new. protobuf
computes the sizes of the messages before it writes them, and a chore completed in between
makes the call fail, which `ResponseIsBounded` tells from a response with a wrong list. A
storage returns its list next to the call that fills it (`proto/homework.go:16` and its
like), in an order that Go leaves open and its compiler resolves by making the call first;
the model follows the compiler. gob writes a value in several pieces, which only overlapping
commands could tell, so `Housework` has gob for one command at a time. In `Instrumented` the
buckets of the histogram and the redirect of `/metrics` are left out, and a response is one
unit, since it is shorter than net/http's buffer. In `LogWriters` the count that Write
returns is left out: it is the sum over the writers, and `log.Logger` ignores it. TLS
handshakes, default configurations and the certificate files are not modelled.

## 7. The plan

Done: the modules above, six passing runs, six refutations, the proofs of every
invariant of the passing runs and of the refinements. What is left, in this order:

1. Abstract specifications of the log writers (`Delivery` of each entry to every writer
   that works) and of the proxy, and their refinement.
2. `TFTP` beyond `NoWrap`: which of the properties survive a wrap, and at what
   delay of a datagram they fail.
