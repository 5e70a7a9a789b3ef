# A TLA+ model of the NCX tunnel

NCX exposes services behind a firewall. `ncx_client`, next to the services,
keeps one *control connection* per service to `ncx_server`. For each control
connection the server opens a *proxy port*. When an outside *visitor* connects
to that port, the server queues the visitor and asks the client for a *data
channel*; the data channel is then bridged with the visitor, and the client
connects its other end to the local service.

Both programs are built on a small reactor library, `src/network/`.

## 1. Inventory

| Part | State | Operations | Hard behaviour |
|---|---|---|---|
| `EventLoop` | `tid_`, `to_do_list`, `stop_`, the eventfd, `activeChannels` | `run`, `poll`, dispatch, `run_on_onwer_thread`, `wakeup_loop`, `stop` | threads racing on the list and the eventfd; `tid_` unset before `run`; `stop` without a wakeup |
| `Buffer` | a vector, `read_index_`, `write_index_` | append, reserve, peek, retrieve | compaction or growth at the exact boundary; memory over a long life |
| `Connection` | socket, buffers, state, callbacks | `handle_data_in`, `handle_data_out`, `Send`, `handle_close`, `force_close` | short writes, `EAGAIN`, SIGPIPE; the message handler runs after the close |
| `Channel`, `Epoll` | the interest list, raw pointers to channels | enable, remove, `poll`, `handle_event` | channels of objects that are gone |
| `Server`, `Acceptor` | `connections` by random id | accept, disconnect | id collisions; deletion from inside a handler |
| `Client`, `Connector` | `conn_`, callbacks | connect, disconnect | two owners of one descriptor; deletion from inside a handler |
| `NServer`, `SControlChannel`, `BridgeCloser` | `sc_map_`, the proxy ports, `wait_handle_visitors_`, `bridge_closers_` | control hello, data hello, new visitor, close notices | pairing by queue order alone; closes before the notice is set; restarts |
| `NClient`, `CControlChannel`, `DataChannel` | control channels, `data_pool_` | handshakes, commands, START, deletion | one message handled per read event; the server gone in between |
| generated messages (`protocol.pb.*`) | a bit and a slot per field, a pointer to the content | set, clear, release, merge, copy, swap, serialise, parse | slots that outlive their bit; a content that stays allocated; sizes computed apart from the bytes |
| framing (`protoMsgUtil.h`) | none | pack, `canReadMsg`, unpack | messages that arrive in pieces or together |
| configuration, HTTP, command line | options, file, the pending operation and its timer, the body of the answer | parsing, validation, the GET session, start of the control channels | a gateway that fails or hangs at any stage; one bad entry among several; ports out of range |
| utilities, `EvPoolThread` | ids; unused | | |

How they interact: every handler of a program runs on its reactor thread, so
within a process a handler is atomic. Between the processes there are TCP
connections (ordered, reliable until one end goes), and each process may end at
any time, killed or by `errif`, which is `perror` and `exit(1)`.

The full list of what can go wrong where is `hazards` in `PROJECT.json`.

## 2. Modules

| Module | Models | Main source |
|---|---|---|
| `EventLoop` | the reactor, its to-do list and wakeup | `network/EventLoop.cpp`, `epoll.cpp`, `channel.cpp` |
| `Buffer` | the byte buffer | `network/buffer.cpp` |
| `ByteQueue` | what the buffer promises: a queue of bytes | (abstract specification) |
| `Stream` | the write loop of a connection against a socket buffer | `network/connection.cpp` |
| `NetworkProofs` | theorems about the reactor and the write loop | |
| `HelloClass` | the classes `Hello` and its content, function by function | `protocol/protocol.pb.h`, `protocol.pb.cc` |
| `HelloValue` | what a `Hello` promises: a value with optional fields | (abstract specification) |
| `EnumMessage` | the shape of `Ack`, `ControlChannelCmd`, `DataChannelCmd` | `protocol/protocol.pb.cc` |
| `Wire` | messages as bytes, and frames | `protocol/protocol.pb.cc`, `protoMsgUtil.h` |
| `WireProofs` | lemmas about varints, records, sizes, parsing and frames | |
| `Messages` | objects under any sequence of calls | `protocol/protocol.pb.h` |
| `MessagesProofs` | theorems about objects and their bytes, the refinement among them | |
| `Bridge` | the bytes of one visitor through both programs | `ncx_server/nserver.cpp`, `ncx_client/datachannel.cpp`, `network/connection.cpp` |
| `BridgeSteps` | the invariant of the bridge, and that every step keeps it | |
| `BridgeProofs` | theorems about it, with the frames of `WireProofs` | |
| `DataChannels` | the client's data channels and their descriptors | `network/client.cpp`, `socket.cpp`, `ncx_client/` |
| `Startup` | how both programs come up | `util/config.h`, `cli/cli.h`, `http/`, `ncx_client/nclient.cpp` |
| `ComponentProofs` | theorems about data channels, start-up and the buffer, the refinement among them | |
| `Tunnel` | the control plane of both programs, composed | `ncx_server/`, `ncx_client/` |
| `VisitorDesk` | what the tunnel promises visitors: one line per port, served in turn | (abstract specification) |
| `TunnelProofs` | theorems about it, the refinement among them | |
| `Lifetimes` | ownership and destruction of the server's connections | `network/server.cpp`, `connection.cpp`, `epoll.cpp`, `ncx_server/` |
| `LifetimesProofs` | theorems about it | |
| `MCEventLoop`, `MCBuffer`, `MCTunnel`, `MCMessages`, `MCBridge`, `MCStartup` | the instances for TLC | |

`Buffer`, `Stream` and `Startup` prefix their `Init`, `Next` and `Spec` with their
own names, and `Messages` calls them `NewObjects`, `Call` and `Calls`, because a
module of proofs extends each of them together with another specification.

### EventLoop

Variables carry the names of the members; `pc` is the place of the loop thread
in `run()`. The steps are what another thread can see: a poster's test of `tid_`
and the call or the push that follows it are two steps, its eventfd write is a
third, and so are the loop's eventfd read, its swap of the list under the mutex,
and each callback. `calling` is the place of each thread in
`run_on_onwer_thread`. User code runs before `run()`, inside
an event handler and inside a callback; from there it may post again or stop the
loop. `tid_` starts with any value, because the constructor leaves it
uninitialised. The eventfd counter is kept as zero or not zero: nothing else of
it is ever looked at. `ran` records which callback ran on which thread.

### Buffer and ByteQueue

The state is the vector and the two indexes. The vector's size and the length
of the reserved prefix are constants, so that the boundary cases (compaction
with exactly enough room, growth by one) appear with a handful of bytes. Every
public operation that changes the state is an action, with the precondition the
code asserts or its callers keep. `ByteQueue` has one variable, the unread
bytes. The refinement mapping is the slice of the vector between the indexes:
compaction and growth are stuttering steps of the queue.

### Stream

`Send` empties the output buffer into `send_buf` and writes it in a loop. The
model has the two counters of that loop, the kernel's socket buffer with a
`Capacity`, and a peer that reads one byte at a time or leaves. A byte is named
by its message and its place. `send_left` is signed in the code and is only
compared with 0, so the model stops it at 0.

### Tunnel and VisitorDesk

The server's state is kept per control connection, visitor and data channel;
the client's likewise. A control connection is named by its service and the
number of the client process, and its nonce is that same pair: nonces are fresh
random numbers, taken to be unique. Visitors and data channels are numbered in the
order in which they come, which names them and excludes nothing. What the file
says of the proxy ports is chosen once (`proxy_port`): a bind fails when the port
is in use on the machine or a control channel of the process already listens on
it, be it of an earlier client or of another service. Port 0, for which the
kernel would choose, is not among the files, and ids that collide are left to
`Lifetimes`. On a control connection the server sends one
HELLO and then identical CREATEs, so the channel is a count of commands sent and
not delivered (`down`) and the input buffer a count of those delivered and not
handled.

A read event delivers up to `MaxBatch` commands, and the end of the stream with
the last of them. The close is handled first, then the message handler runs
once, and takes one message: this is what `handle_data_in` does.

Faults, each switched on by the constant `Faults`: the client or the server
process is killed, the local service refuses the connection (which ends the
client), a visitor leaves. Beside these, a process ends itself where the code
does: a failed bind, an exception of `sc_map_->at`, `front()` of an empty queue,
SIGPIPE on a write, a connection refused. `died` says why the server did. The
server writes commands, START and forwarded bytes: to a peer that has gone a write
is lost, or fails and closes the connection, or raises SIGPIPE, and the deaths
caused by a visitor (`"visitor"`) and by a client (`"sigpipe"`) are told apart. The
client's own deaths by SIGPIPE are among those of `client_exits`. Where a read brings START and the close together, the client handles START
on a deleted object; the model lets it survive or die.

`VisitorDesk` is what all this promises a visitor, without hellos, commands,
processes and connections: those who come to a port wait in line, a carrier that
was called for a port takes the first in line there, once, and a pair that parts
has parted for good. In the mapping a port is a control channel, the line its
`wait_handle_visitors_`, a carrier a data channel, called for the control channel
of its nonce and used once the server has bridged it, and the pairs are
`bridge_closers_`. A new visitor is `Come`, a data
channel made for a CREATE is `Call`, the data hello is `Take`, an end that goes
away is `WalkOff` or, if it was bridged, `Part`, and the end of the server process
is `Close`. Control hellos, commands on their way, reads, START and the client's
restarts are stuttering steps.

### Lifetimes

A `Connection` lives as long as a shared pointer to it: the map of its `Server`,
the queue of waiting visitors, or the control channel. The bridge closers hold
weak pointers, epoll and the batch of `run()` raw ones. The model keeps those
owners and nothing of the payload. There is one control channel, so two servers:
the NCX port and one proxy port.

On the reactor's thread `run_on_onwer_thread` runs its argument in place, so a
close, the disconnect, the close notice and the close of the other end all
happen inside the handler that noticed the end of the stream. One dispatch is
therefore one step: it computes the set of connections it closes
(`handle_close`), and `Settle` takes those out of the maps and the interest list
and destroys what has no owner left. `conn_id` is any value at accept time, so
collisions happen: the new connection replaces the entry of the old one, and
each close erases the entry of its id, whoever is there.

The peers act between batches, and during one on the channels still in it; a
peer that acts on another channel during a batch is not seen before the next
`poll`, so nothing is lost by letting it act then. A failed write is a
connection reset, which closes the connection in `WriteNonBlocking` (the death
of the process by SIGPIPE is in `Tunnel`). A channel of the batch whose object
has been destroyed is dispatched as the code does; what that does is undefined,
so the process ends or nothing happens. Failing `accept` calls and the limit
`MAX_EVENTS` of a batch are left out.

### HelloClass, HelloValue, EnumMessage, Wire, Messages

An object of a generated class is a set of present fields, a slot for each and,
for the nested content, a pointer that may be null. `HelloClass` has one operator
per generated function. The code's `has` bits and slots are separate on purpose:
getters return the slot whatever the bit says, clearing leaves the content
allocated, and merging builds on what is behind the pointer. `Messages` applies
those functions to a set of objects in every order, the ones that take two
objects (merge, copy, move, swap, handing over the content) included.
`HelloValue` has none of this: a field is absent or has a value. The refinement
mapping reads a slot only under its bit.

`Wire` writes the bytes: the serialisers, the sizes computed beside them, the
parse tables, and the five-byte frame header. Varints, fixed32 and the parse
loop belong to the protobuf library and are modelled by what they do, on bytes a
serialiser wrote. What recurses (a varint, the parse loop) is a recursive
function on numbers or on byte strings, so that proofs can reach it. The length in front of the nested content is the one its last
`ByteSizeLong` cached. `canReadMsg` answers 0 for a frame that is not whole, and
also for a whole header that announces nothing, which it takes out of the buffer:
`LeftOnZero` is what is left behind an answer of 0. `EnumMessage` is instantiated for the three classes that
have the same shape. The programs call only the setters, the getters, `mutable_*`,
the serialisers and the parsers; the other functions of the classes are there
because parsing is merging, and because the class is what the generator gives to
whoever extends the programs. Arenas, reflection and unknown fields are left out: the
programs use none.

### Bridge

Four connections carry the bytes of a visitor, two in each process, named after
their peers: `visitor` and `origin` in the server, `server` and `service` in the
client. Per connection the model has the bytes on the way, the input buffer, and
whether the peer has closed. A read returns any prefix of what has arrived,
with the end of the stream or without. Hello and START are real frames of
`Wire` on the same stream as the data, so a cut inside a header or a frame with
data behind it happens. Both ends may close at any time, a process may be killed,
the service may refuse, and a write to a peer that has gone is lost, or fails and
closes the connection it was made on from inside the handler of the other one, or
raises SIGPIPE. In the server that close takes the bridge down; in the client the
close of the data connection deletes the channel, and that of the service's
connection is told to nobody. The hello may come with the end of its stream: the
data connection is then closed before it is bridged. Writes are taken whole here;
`Stream` has the short ones.

As in the code, bytes that come with the end of the visitor's or the data
connection's stream stay in the buffer; the close of the service's connection is
told to nobody; data for a service that has gone meets a null pointer; and bytes
that come with the close of the data connection are handled by a channel that
has been deleted. The last two end the client in the model, and
`NothingLost` shows that they need an end that leaves first.

### DataChannels

A `Client` allocates its socket when it is constructed, in its `Connector`'s
`TcpSocket`; the `Connection` it makes holds the same number, and both close it.
The model has the process's descriptor table, which gives the lowest free number
as the kernel does, and per channel the number each of the two believes to hold.
A service that closes first takes the number with its `Connection`; the
`TcpSocket` closes it once more when the channel is deleted. `LateDeletion` names
that case. What a channel does after it has used a socket of another one is not
followed: `crossed` records it, and the model stops.

### Startup

A file or an answer is what the TOML or JSON parser makes of it: fields with a
value, absent, or of another type. The guards are the checks of `config.h` and
`model.h` in their order of effect, and an exception is the exit or the abort it
ends in. The HTTP session is a chain of callbacks, each of which may fail; the
timer is a count of ticks that `on_resolve` and `on_connect` set and `on_write`
does not. Numbers are cut to 16 bits as the casts do.

As committed, the try block of `Cli::Parse` is empty, so nothing calls
`Cli::parse`; the model enters there, as the handler below that block intends.
`model.h:109` and `config.h:234` do not compile as committed (a missing semicolon,
and an assignment to the member function `body`) and are read as meant.

## 3. Runs

| Run | Instance | Shows |
|---|---|---|
| `eventloop` | 3 threads, 2, 2 and 1 posts, fair | `NoLostWakeup`, `EveryTaskOnce`, `PostersInOrder`, `OneStrayAtMost`, `TaskEventuallyRuns`, `StopEventuallySeen` |
| `buffer` | a vector of a few bytes | `IndexInvariant`, `MemoryBound`, `ImplementsQueue` |
| `stream_loop` | 3 messages of up to 4 bytes, room for 3, fair | `RepeatBound`, `RunsFromStart`, `SendReturns` |
| `stream_short` | the same, 2 messages | violation of `StreamIntact` |
| `tunnel` | 2 services, 3 files, 2 visitors, 2 processes of each kind, batches of 2, all faults, fair | `Pairing`, `VisitorInOnePlace`, `DeathHasCause`, `BridgesFallWhole`, `ServesInTurn`, `ServedUnlessStuck`, `BothEndsRelease` |
| `tunnel_batch` | 1 service, 2 visitors, batches of 2, no fault, fair | violation of `VisitorServed` |
| `lifetimes_owners` | 4 connections, 2 ids | `WatchedIffOpen`, `ClosedForgotten`, `DropNeedsCollision`, `EndsTogether` |
| `lifetimes_batch` | 3 connections, 2 ids | violation of `DispatchedAlive` |
| `messages` | 2 objects, 2 strings, 2 ports | `HasBitsSound`, `ImplementsValue`, `SizeExact`, `ParseMerges`, `FramesReadWhole`, `CommandsCross` |
| `bridge` | 3 bytes up, 2 down, every cut, fair | `InOrder`, `NothingLost`, `AllArrives`, `LeavingTearsDown` |
| `datachannels` | 4 channels, 5 descriptors, fair | `NoLeak`, `OwnFilesOnly`, `EndsReleased` |
| `startup` | all options, a file for each way it can be wrong, a timeout of 2 ticks, fair | `AllOrNothing`, `FailureStops`, `TwoTimeouts`, `ComesUpOrEnds` |

Type invariants are not listed in the runs: the theorems below prove them
(`Bridge` and `Startup` state none). `VisitorInOnePlace`, `ClosedForgotten` and `OwnFilesOnly` are each
the conjunction of two named properties.

Why the bounds are enough. Two posts of a thread are needed to speak of a
poster's order; the loop's thread and one other have them, and a third thread
races with both. A message longer than the socket buffer makes short writes and
`EAGAIN` happen; a third message shows that later ones are not mixed with it.
In the tunnel two visitors over two services share a queue or have one each; two
processes of each kind give every restart case; a batch of two holds HELLO and a
CREATE, or two CREATEs; the three files give the services ports of their own, one
port for both, or the server's. Four connections are a control
connection, a bridge and one more visitor or data connection, and two ids make
each of them collide or not. Two objects are all a function takes; a string of
zero bytes and one of some, and a port of one varint byte and one of several, are
what the encodings tell apart. Three bytes of a visitor are one before the data
channel is there, one that comes with START and one after. Five descriptors for
four channels of two sockets make numbers come back while their former holder
still exists, and the table run full. The theorems below remove the bounds for
the properties they cover.

Deadlock is checked in `buffer` and `messages`, whose operations are always there.
Elsewhere a loop that has stopped, a stream whose messages are sent, a tunnel
whose visitors are used up, a server whose connections are used up, a client
whose channels are used up, a bridge whose ends have sent everything, and a
program that is up or has ended may stop.

Fairness. `EventLoop`: the scheduler runs the loop thread and lets a poster
finish its call, callbacks return, `run()` is called; no I/O event is promised,
so an idle `epoll_wait` may last for ever, which is what makes
`TaskEventuallyRuns` depend on the wakeup. `Stream`: the write loop goes on, the
peer need not read. `Tunnel`: epoll keeps reporting a readable connection
(level triggered; the edge-trigger flag never reaches the kernel, because
`Channel::listen_events` returns a `short`), so each handler that stays enabled runs;
nothing is promised of visitors, process starts or exits. `ServedUnlessStuck` and
`BothEndsRelease` say that a good state comes again and again; since visitors,
channels and processes are bounded, every behaviour settles, and what holds again
and again is what it settles in. `Bridge` and
`DataChannels`: the same of each connection, and in `Bridge` the ends read what
reaches them; nobody has to send or close. `Startup`: the program's own steps are
taken, time passes, and the resolver answers because `getaddrinfo` gives up by
itself; the gateway need not answer anything, so only the timer ends a session
with a silent one.

## 4. What the violations show

Three statements of the code's own comments are refuted by runs; the quoted lines
are under `findings` in `PROJECT.json`.

- `stream_short`: after a short write the loop writes from the first byte again.
- `lifetimes_batch`: both ends of a bridge are ready in one batch. The handler of
  the first closes and destroys the second, whose channel is still in the batch;
  the guard in `handle_event` keeps only the connection being dispatched alive.
- `tunnel_batch`: two commands reach the client in one read, `wait_server_cmd` takes
  one, and no event makes it look at the other. The second visitor waits although
  both programs run and nothing has failed. `ServedUnlessStuck`, in `tunnel`, says
  that this is the only way to wait for ever.

Other limits of the code are stated by passing properties, as the exact
condition under which they bite:

- A command of a server that has been restarted makes the client name a nonce
  the new server does not know, and `at` throws; the control channel of a dead
  client keeps its port, and the next client's hello fails to bind it, as does the
  hello of a service whose port another one has; a write to a client that has
  ended raises SIGPIPE. `DeathHasCause` says that nothing short of these causes
  ends the server, a visitor that leaves apart: bytes for it may raise SIGPIPE
  too, and the server ends with all its bridges. `died` names that case, and no
  property excludes it.
- A thread that finds its own id in the uninitialised `tid_` runs its callback in
  place, and may do so after `run()` has begun. `OneStrayAtMost` says that this is
  one callback at most.
- The close notices are set after the bridge's ends may have closed. A visitor
  that left while queued is bridged, and nobody takes that bridge down; a data
  connection whose end came with its hello is bridged too, and its visitor stays
  connected until it leaves. `LeavingTearsDown` has both: what a visitor leaves
  open is a bridge orphaned in this way (`Orphaned`) or nothing, and a bridge falls
  when a peer of one of its *open* ends goes. `BridgesFallWhole` speaks of bridges
  with both ends open only.
- A descriptor closed twice may be another channel's the second time:
  `OwnFilesOnly` holds up to `LateDeletion`.

## 5. Proofs

All theorems hold for every value of the constants allowed by the named
assumptions of the modules.

- `NetworkProofs`, the reactor. `TypeCorrect`, and on it `WakeupNeverLost`
  (`NoLostWakeup`), which is inductive together with the types: the eventfd is
  cleared only while dispatching, and the list is swapped after dispatching.
  `StraysEnd` (`OneStrayAtMost`) rests on `TidInvariant`: from `run()` on, `tid_` is the
  loop thread, so nobody else passes the test; and the threads that passed it
  before all had the one id that `tid_` held, so they are one thread. `CallbacksOnce` (`EveryTaskOnce`) and
  `PostersKeepOrder` (`PostersInOrder`) are about the pipeline: callbacks run, then
  those swapped out, then those in the list. Their strengthening `OnceInOrder` adds `Numbered`
  (callbacks carry numbers their posters gave out, so a new one is new) and
  `QueuesInTurn` (a callback run in place overtakes none of its own thread: the
  swapped-out vector is empty outside `do_after_handle_events`, and before `run()`
  the thread `tid_` happens to name has nothing queued).
- `NetworkProofs`, the write loop. `StreamTyped`, `MessagesNeverMix` (`RunsFromStart`) and
  `RepeatsBounded` (`RepeatBound`). `LoopSound` says that a message under way is
  the last one sent. `WireSound` adds that no byte on the wire is of a later
  message, and that the bytes of the message under way and what the loop takes
  to be unsent are together at most its length: the last write adds at most one
  length to that, hence less than two.
- `ComponentProofs`, the buffer. `IndexesOrdered` (`IndexInvariant`): prefix <= read index <=
  write index <= size. `MemoryBounded` (`MemoryBound`) follows from the choice
  between compaction and growth. `BufferIsQueue` (`ImplementsQueue`): each
  operation maps to one of the queue or to a stutter.
- `TunnelProofs`. `TypeCorrect`; `PairingHolds` (`Pairing`): for each control
  channel known to the server, unserved data channels, commands delivered and
  commands on the way are together at most the queued visitors, the HELLO
  aside. `NeverPopsEmpty` is not inductive by itself; `Pairing` is the
  strengthening, and it needs its other conjuncts: nothing is on the way before
  HELLO, and incarnations to come have no connection. `QueueNeverEmptyOnPop`
  follows, because a pending data channel is one of those counted.
  `VisitorsPlaced` (`VisitorInOnePlace`) and `BridgedToRightService`
  (`RightService`) rest on `Places`: queues hold distinct visitors of their own
  control channel, a bridge joins ends of one control channel, bridges share no
  end with each other or with a queue, and an open visitor is in one of the two.
  `PendingMade` says the same of a data hello not served yet: the client made
  its channel, for some control channel. `BridgesWhole` (`BridgesFallWhole`) is an action property from the
  same invariant. `DeathsHaveCauses` (`DeathHasCause`) takes one fact per
  reason. `FirstServer`: while the first server runs, it knows every control channel
  that has had its HELLO, so with `PendingMade` a nonce is known to it.
  `ClientKeepsEnds`: a first client that runs still receives on every connection
  whose server end is not dead, and has given up no data channel the server has not
  cut, so a write to it raises no SIGPIPE. `Pairing` gives the pop, and for a bind
  that the control channels the server knows are of clients already started: two
  with one port are two services with one port, or two clients.
  `DeathHasCause` is not inductive without them, because it says nothing of a
  server that is still up.
  `TunnelServesInTurn` (`ServesInTurn`): the tunnel implements `VisitorDesk`. The
  initial states map to its initial state, and `DeskSimulation` shows step by step
  that each action is one step of the desk or a stutter. It takes `Pairing` (the
  line is not empty when a carrier takes from it), `Places` (a visitor that goes
  away is in one pair or in none, so one step of the desk is enough) and
  `UnmadeUnknown` (a data channel has no nonce before the client makes it, so a
  carrier is called once). `RightService` is a theorem only: the desk says more,
  because it also fixes the order.
- `LifetimesProofs`. `TypeCorrect`, `WatchedAreOpen` (`WatchedIffOpen`),
  `ClosedAreReleased` (`ClosedForgotten`) and `NoDropWithoutCollision` (`DropNeedsCollision`). The
  inductive invariant `Inv` has these three, the types, and two more conjuncts:
  `MissingNeedsCollision`, on which the action property rests (an open connection
  that its map does not lead to shares its id with another one of its server),
  and `ControlMade` (the control connection was accepted). Every handler ends in
  `Settle`, so the bulk of the proof is lemmas about `Settle` for any set of
  closed connections and any owners; each action only shows which ones it uses.
  `BridgeEndsTogether` (`EndsTogether`) needs `Apart` as well: the ends of bridges,
  the queue and the control channel share no connection, so a close reaches both
  ends of exactly one bridge and nothing else keeps them alive.
- `WireProofs`. What the encodings compute, by induction over numbers and byte
  strings. The library's induction theorems take an operator, which the provers
  cannot instantiate; its theorem that `<` is well-founded on the numbers can be
  cited, and gives `Least`: a set of numbers that is not empty has a least one.
  Applied to the numbers for which a fact fails, that is induction. `Recursion`
  uses it once to show that a function defined by recursion on a rank satisfies
  its defining equation, for any recursion given as a function from an argument
  and a candidate to a value; `VarintBytes`, `VarintSize`, `Varint` and the two
  parse loops are instances. On this rest `Varints` (length and bytes),
  `VarintReads` (every number is read back, whatever follows), `NumberFirst` and
  `DelimitedFirst` (a record is read back from the front of any bytes),
  `HelloSize` and `HelloBound` (the size is the length of the bytes and fits an
  int32), `FrameRead` (a cut frame is not read and stays in the buffer, a whole one is read) and `LoopTyped` (the
  parse loop gives an object for any bytes).
- `MessagesProofs`. `ObjectsSound` (`TypeOK` and `HasBitsSound`): for each
  generated function there is a lemma that it keeps an object sound, and each
  call of `Messages` uses one of them. `ObjectsAreValues` (`ImplementsValue`) needs
  that invariant: only of sound objects does a merge, or a content behind the
  pointer of a cleared field, map to what the value does. `SizesExact`
  (`SizeExact`), `ParsingMerges` (`ParseMerges`), `FramesRead` (`FramesReadWhole`) and
  `CommandsRead` (`CommandsCross`) follow from the same invariant and the lemmas of
  `WireProofs`: a sound object has a content wherever its bit says so, and its
  strings and ports are within bounds. `ParsingMerges` goes record by record: a row
  of the parse table does to the object read so far what merging one field does.
- `BridgeSteps` and `BridgeProofs`. `BytesInOrder` (`InOrder`) and `BytesKept`
  (`NothingLost`), for any nonce and any number of bytes. The inductive invariant
  `BridgeInv` has the types,
  and `Stages` (what cannot have happened before the hello and before the start
  command: before the bridge, what the server has of the data connection is
  exactly the hello; and the end of the data connection's stream arrives only once
  the client has closed, so a hello that comes with it is answered to nobody). `Up` and `Down` say of each direction what `Chain` says of
  three places in a row: what an end has read and has before it is a beginning of
  what the other sent; so is that together with the middle connection, behind the
  start command if that is still to come, while the middle one is open; and while
  all are open nothing is missing. `InOrder` is not inductive without the second
  part, because a byte that is read now was in the middle before; `NothingLost`
  is the third. `Calm` says that all are open while nobody has left or been
  stopped. `BridgeSteps` takes one fact about frames as a hypothesis of its
  lemmas, `FramesKnown`: from bytes that begin with the hello or with the start
  command, once `canReadMsg` finds a message, exactly the frame is taken.
  `BridgeProofs` proves it from the wire (`FramesUnderstood`, by `FramePrefix`: either
  the frame is not whole and nothing is taken, or exactly the frame is) and has the
  two theorems, which assume nothing of the kind.
- `ComponentProofs`, coming up. `ServicesWhole` (`AllOrNothing`) rests on `ArgsSound`: from the
  moment the arguments are made until the last control channel is connected, they
  are the services of the file or of the answer, each with the low 16 bits of its
  ports. `FailedSessionStops` (`FailureStops`) rests on `BodySound` (the
  body is empty until the session is over, and stays so when it fails);
  `SessionBounded` (`TwoTimeouts`) on `TimerSound` (what was waited and what is
  left of the timer add up to one timeout while connecting, to two at most after).
- `ComponentProofs`, the data channels. `DescriptorsKept` (`TypeOK`, `NoLeak`) and `ChannelsApart`
  (`OwnFilesOnly`). The inductive invariant adds `NumbersSound`:
  which numbers sockets and connections may hold in each phase, so that closing
  the numbers of one channel is seen to take no file of another unless its
  service had closed first.

The assumptions. Bounds and sizes are numbers; the buffer's prefix fits into its
first vector, and its users append strings of bytes. `HelloAssumption`: strings are
byte strings shorter than 2^29 and ports are int32 numbers that are not negative
(a message stays below the 2^31 bytes protobuf allows), and the values that stand
for null and absent are none of them. `BridgeAssumption`: the nonce is such a
string. `ParsersAssumption`: the parsers give a list of services, with numbers
for the ports they find. `DataChannelsAssumption`: channels and descriptors are
numbered.

Only model-checked: the liveness properties (`TaskEventuallyRuns`,
`StopEventuallySeen`, `SendReturns`, `ServedUnlessStuck`, `BothEndsRelease`, `AllArrives`,
`LeavingTearsDown`, `EndsReleased`, `ComesUpOrEnds`), because fairness is out of this
prover's reach. Every other property of a passing run is a theorem.

## 6. Not modelled

`EvPoolThread`, `session::Post`, `to_json` of the answer, the parsing of
`GetServiceReq` and `wait_ack` are used by no program. Arenas, reflection, descriptors and unknown fields of the
generated classes are not used by the programs either. The files under
`cmake-build-debug` are probes CMake generated. The utilities hold no state of
interest; ids and nonces are taken to be unique. The kernel's TIME_WAIT (the code
does not set SO_REUSEADDR) is left out: a restarted server always binds.

What a channel of the client does once it uses another channel's descriptor is
not followed further, and short writes and the data plane are not composed:
`Bridge` takes writes whole, `Stream` shows what a short one does.

## 7. Plan

`Bridge` with the write loop of `Stream`, and with several visitors.
