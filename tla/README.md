# The World Cup subscription service in TLA+

A verification project for the repository's STOMP server (Java, `src/server`),
its client (C++, `src/client`), and the two together. It models what the program
does, not what a STOMP server should do: where the code and `src/README.md`
differ, the model follows the code and a run shows the difference.

## The system

| Component | State | Operations | Talks to |
|---|---|---|---|
| Acceptor `BaseServer` | server socket | `serve` | makes a handler and a thread per client |
| `BlockingConnectionHandler` | socket, `connected` | constructor, `run`, `send`, `close` | feeds frames to the protocol, writes its answers |
| Protocol `StompMessagingProtocolimpl` | `connectionId`, `terminate` | `process`, `checkValid` | reads and writes the maps of `connectionsImpl` directly |
| `connectionsImpl` | eight hash maps, the lists in them, `connectionId`, `messageId` | both `send`, `disconnect`, both `addToMap...`, `removeFromMaps` | handlers of other connections |
| `Reactor`, `NonBlockingConnectionHandler` | selector, `selectorTasks`, write queues, buffer pool | `serve`, `updateInterestedOps`, `continueRead`, `continueWrite`, `send` | the pool, the protocol |
| `ActorThreadPool` | `acts`, `playingNow`, executor | `submit`, `complete`, `shutdown` | called by the selector thread and its own workers |
| Codec `Frame`, `MessageEncoderDecoderImpl` | byte buffer, header map | `decodeNextByte`, `encode`, parsing, `toString` | throws on text it cannot parse |
| Client `main` (`StompClient.cpp`) | the process and its two threads | start, socket loop, return | makes the keyboard thread, runs the socket loop itself |
| Client `StompProtocol` | login, user name, next subscription id and receipt number, subscriptions, requests by receipt | keyboard commands, server frames | both threads change its maps, without a lock |
| Client `ConnectionHandler` | socket | `connect`, `sendFrameAscii`, `getFrameAscii`, `close` | the text and its delimiter are two writes |
| `Games`, `event.cpp`, client `Frame` | events per user and game | add, parse, format | called by the client protocol |

All handler threads share one `connectionsImpl`, which has no lock. Everything
hard about this server follows from that: a frame is processed as a series of
calls on shared `HashMap`s and `LinkedList`s, each of which sees what the other
threads have done since the last. Iterators over live lists throw when the list
changed, removal by position may hit another element, and a test made in
`checkValid` is old when `process` acts on it. The second source of trouble is
failure: an exception in `process` ends the thread and closes the socket, and no
one cleans the maps. In the reactor form of the server a third one joins them: one
selector thread serves all connections, so what it loses or dies of concerns
everyone. A client is two threads over shared maps, and everything it asks for
crosses both programs: a number and a map entry in one thread, two writes, the
decoder, the server's maps, an answer, and a lookup in the other thread. The
complete list of hazards, each at its line and with the
properties that cover it, is in `PROJECT.json`.

What makes the components correct:

* sessions: one connection per login, the passcode of a user is the first one
  and stays, `CONNECTED` only with it, a returning user is admitted;
* subscriptions: a receipt means subscribed, a logout leaves every topic, the
  maps per connection and the lists per channel agree, removal removes the right
  element;
* publishing: only subscribers publish, everyone subscribed is reached, message
  ids are unique;
* reactor: a frame put into a write queue is written, a request for the selector
  thread wakes it, what a client sends is read, and the thread lives on;
* threads: no reference to something that does not exist, a handler's call ends
  unless it waits for a client to read, tasks of one connection run one at a time
  and in order;
* codec: what one program writes the other one reads;
* client: every answer is given to the request it answers, in order and once,
  every request settles or the program ends, a lost server is noticed;
* service: what a user was told is what the server's lists say, a report carries
  the name of its sender's login, the server is what the client takes it for.

## Modules

* `StompServer` - the thread-per-client server: acceptor, blocking handlers, the
  protocol and the shared maps.
* `MCStompServer` - symmetry of its model-checked instances.
* `StompServerProofs` - TLAPS proofs about `StompServer`: types and references,
  however frames overlap.
* `DeliveryProofs` - what a broadcast has delivered, however frames overlap.
* `SerialProofs` - sessions, subscriptions and publishing when they do not, and
  what a logout that ends has removed.
* `SerialExecutor` - abstract: per actor, tasks run one at a time, in order, and
  none is lost before a shutdown.
* `ActorThreadPool` - the pool of the reactor, with the monitors, the executor's
  queue and its worker threads, and its refinement mapping to `SerialExecutor`.
* `ActorThreadPoolProofs` - TLAPS proofs about `ActorThreadPool`.
* `Reactor` - the selector thread and the non-blocking handlers, with
  `SerialExecutor` as their pool.
* `ReactorProofs` - TLAPS proofs about `Reactor`.
* `FrameCodec` - the texts both programs write, and what the two parsers make of
  them.
* `FrameCodecProofs` - TLAPS proofs about `FrameCodec`.
* `StompClient` - the client process with its two threads, and an abstract server
  at the other end of its connection.
* `StompClientProofs` - TLAPS proofs about `StompClient`.
* `Service` - the clients of `StompClient` connected to `StompServer`, and the
  refinement mapping that makes this server the abstract one.
* `MCService` - symmetry of its model-checked instances.
* `ServiceProofs` - TLAPS proofs about `Service`, from those about both sides.

### StompServer and the code

One variable per map of `connectionsImpl`, with its name. Two representations
differ from the Java ones: the inner maps are functions with `Null` for a missing
entry, and a list is an object of its own (`lists`) to which
`channelToConnectionId` refers, named by its channel and the thread that made it,
because a thread may hold a list that another thread has replaced.

`pc[c]` is the next step of the thread of connection `c`:

| `pc` | action | code |
|---|---|---|
| `idle` | `ProcessConnect`, `ProcessSend`, `ProcessSubscribe`, `ProcessUnsubscribe`, `Disconnect`, `Malformed`, `Eof` | `in.read()`, the decoder, and `process` up to the next shared access that another thread can disturb |
| `put`, `rebind`, `bind`, `passcode` | `PutHandler`, `Rebind`, `Bind`, `PutPasscode` | CONNECT's case 0: the handler's entry and the second look at `loginPasscode`, then its two branches |
| `check` | `Check` | the membership loop of `checkValid` |
| `stamp`, `open` | `Stamp`, `Open` | SEND's case 0 and `send(channel, ...)` up to its loop |
| `next`, `recipient`, `write` | `GoOn` or `EndSend`, `NextRecipient`, `Write` | `hasNext()`, `next()`, and `send(connectionId, ...)` |
| `create`, `add`, `index` | `CreateList`, `AddSubscriber`, `IndexSubscription` | `addToMapchannelToConnectionId` and the rest of SUBSCRIBE |
| `scan`, `pick`, `remove` | `GoOn` or `EndScan`, `Pick`, `RemoveFound` | the loops of UNSUBSCRIBE and `removeFromMaps`: `hasNext()`, `next()` with its comparison, `remove(index)` |
| `unregister`, `unbind`, `leave` | `RemoveHandler`, `RemoveLogin`, `LeaveChannel` | `removeFromMaps` after `Disconnect` has closed the socket: the handler's entry, the login's, the outer loop |

The `Process...` actions are the code, with the headers of the frame as
parameters. Here `Connect`, `Send`, `Subscribe` and `Unsubscribe` choose the
headers from the constants; in `Service` they come from a text that a client wrote.

`Throw(c)` is an exception: the thread leaves `process`, its socket is closed,
every map stays as it is. All ten error answers of `process` are such exceptions,
because the text they are built from holds a line without a colon, on which the
`Frame` constructor throws before `terminate` is set. So is the `RECEIPT` of a
SEND, whose text lacks its blank line. `wire` is the frame a step writes to a
client and lets action properties speak about answers.

A constant, `Overlap`, says whether a frame may arrive while another one is
processed. With `FALSE` the handlers run one after the other: these runs show
what the sequential logic guarantees. With `TRUE` they interleave at every step.

What is atomic: a single call on a `HashMap` or a `LinkedList`, and an iterator's
`hasNext()` and `next()` are two. Calls share a step only where no other thread
can come between them with an effect of its own:

* puts and removals of entries that no other thread reads or writes (the
  connection's `clientidToIdTopicMap`, its record of channels, its
  `connectionIdTologin`) go with the one shared call beside them;
* `Check` walks the whole list at once. A walk that another thread disturbs has
  found the sender before, and is over; or its `next()` throws; or `hasNext()`
  turns false, and the answer to a sender that is not found throws. The walk at
  once ends in one of these ways, before the disturbance or after it;
* a look-up of a list or handler goes with the call on what it found
  (`AddSubscriber`, `NextRecipient`), `get(0)` with the put into
  `topicToChannelId` (`IndexSubscription`), which looks at no list, and `Write`
  counts and writes: the write looks at nothing but whether the recipient's socket
  is open.

So a list that becomes shorter in mid-walk ends a loop early in two ways, and both
are in the model: `next()` throws, or `hasNext()` turns false and the handler
answers as if it had been through. Java promises less for objects shared without a
lock (a resize during a `get`, a node linked half-way, a stale read), so a property that fails here fails in the program, and
one that holds under overlap holds for every interleaving of calls. `messageId++`
is not a call: it reads the boxed counter and writes it in a later instruction,
and `Increment` lets the value read be old.

Left out: the bytes of frames, log output, a CONNECT without a `login` header (it
would be stored under the key `null`), a second CONNECT under the same socket is
in the model like any other, subscription ids that are not numbers (they throw,
as `Malformed` does).

### ActorThreadPool and the code

The selector thread and the workers each have a `pc`; `monitor` is the intrinsic
lock of the handler object, `threads` the executor's queue. `get` and `put` in
`pendingRunnablesOf` are separate steps, as are `contains` and `add` in `submit`.
A task that throws is a task that ends, since `complete` is called in a `finally`
block. After `shutdownNow` the executor rejects what it is given. Not modelled:
the garbage collection of `WeakHashMap` entries whose handler is unreachable.

The refinement mapping: waiting for an actor is its task in the executor's queue
followed by its pending queue; running is the task of the worker whose `pc` is
`run` for the actor. `IsSerialExecutor` says that the pool, mapped so, is the
serial executor, fairness included.

### Reactor and the code

`pc` is the place of the selector thread in `serve()`, `key` the selected key it
handles and `ready` the keys still to be handled, with their ready operations:

| `pc` | action | code |
|---|---|---|
| `select` | `Select` | `selector.select()` |
| `tasks` | `RunTask`, `TasksDone` | `runSelectionThreadTasks` |
| `keys` | `Accept`, `AcceptFails`, `NextKey`, `KeysDone` | the loop over the selected keys, `handleAccept` |
| `isReadable`, `read` | `IsReadable`, `Read` | `key.isReadable()`, `continueRead` and `submit` |
| `isValid`, `isWritable` | `IsValid`, `IsWritable` | the two tests before `continueWrite` |
| `write` | `WriteFrame`, `WritePart`, `WriteFails`, `WriteDone` | one pass of the loop of `continueWrite` |
| `emptied`, `reset` | `Emptied`, `Reset` | its second test of the queue, and `updateInterestedOps` on the selector thread |

`Die` is an exception `serve()` has no handler for: the key of a channel that was
closed meanwhile is cancelled or gone. `step[c]` is the place of the task of
connection `c` on its worker: `Send`, `QueueFrame`, `RequestWrite` and `Wake` are
one call of `send` (or the answer to the client's own frame), with `writeQueue.add`,
`selectorTasks.add` and `selector.wakeup()` as steps of their own. `Logout` and
`RemoveHandler` are the two parts of `disconnect` that other threads see here.
Submitting, starting and finishing tasks are the actions of `SerialExecutor`,
which `ActorThreadPool` is shown to implement.

Abstracted: what `process` does to the maps (it sends any frames to any
registered connection, logs out, or throws); a write queue is its length; a read
brings some of the frames that have arrived, never a part of one; the buffers and
their pool. `terminate` is never set, because every error answer throws first, so
`continueWrite` never closes for it. `Reactor.close()` is called by nobody, and
`accept()` does not return null on a key that is ready.

### FrameCodec and the code

A text is what lies between two zero bytes: its lines, and what is behind the
last newline. A line is a word, or a key and a value around its first colon;
`getSplittedString`, `getNextLine` and `mapHeaders` of both programs look at
nothing else. `JavaParses` and `CppParses` are the conditions under which the two
`Frame` constructors return, `JavaGet` and `CppGet` the value a header then has:
of two headers with one key the Java map keeps the later, the C++ map the
earlier. They also end differently: the Java parser needs the blank line, the C++
parser takes a text that ends with a newline for one whose headers are complete.

The texts are those of the two programs, literally built. `DropLast` is
`answer.resize(len - 1)`, by which the client cuts the newline of the server's
last line. `ErrorDraft` and `SendReceiptDraft` are the texts of the server's error
answers and of its `RECEIPT` for a SEND. `LogoutFrame` is what `handleLogout`
sends: two pointers into string literals moved by an integer, the first to the
end of its literal, the second past the end of its own. Which bytes lie there is
the build's choice; the model only uses that they hold no newline.

### StompClient and the code

`proc` is the process: `running`, or how it ended: `refused` (no connection),
`crashed` (an index past the end of a vector, an uncaught exception, a race on a
tree), `aborted` (`main` returns while `keyboardThread` is joinable, which calls
`std::terminate`: the regular way out). `keyboard` is the place of the keyboard
thread:

| `keyboard` | action | code |
|---|---|---|
| `line` | `TypeLogin`, `TypeJoin`, `TypeExit`, `TypeLogout`, `TypeReport`, `TypeOther`, `TypeIgnored`, `TypeBroken` | `getline`, `processKeyboard` and the `handle...` of the command, up to its change of `receiptToOriginalMsg` |
| `insert` | `InsertRequest` | `receiptToOriginalMsg.insert` and the next receipt number |
| `report` | `NextEvent`, `EndReport` | the loop over the events of a file, `Games::MapEventToGame` |
| `text`, `delimiter` | `WriteText`, `WriteDelimiter`, `WriteFails` | the two `sendBytes` of `sendFrameAscii` |
| `ended` | | the thread has returned, `main` goes on |

`socket` is the place of the thread that runs `main`: `read` is the loop of
`ReadfromSocket` (`Receive`, `LookupRaces`, `ConnectionLost`), `left` is behind it
(`Terminate`). `LookupRaces` is the one place where the missing lock is visible to
the properties: a lookup in `receiptToOriginalMsg` while the keyboard thread
inserts is undefined, and one of its outcomes is a crash; that it finds what was
inserted before is another.

The other end is any server that obeys three actions: `Acknowledge` takes the
next complete frame and answers it, `PeerMessage` sends a `MESSAGE` at any time,
`PeerClose` closes, and drops what it has not read. `asked` and `printed` are
history: the requests for a receipt in the order in which they were typed, and
those the client told its user about.

Left out: the text of a `summary` (it reads a copy of the saved events and writes
it nowhere), the words inside an event, partial writes of a socket, which the
loop of `sendBytes` finishes or gives up, and functions without a caller
(`handleSend`, `getNextLine`, `getLine`, `sendLine`, `Open`). Counters do not
wrap: an `int` lasts for two thousand million requests. The host a user types
behind `login` only goes into a header: the client is connected to the fixed
address of `StompClient.cpp` by then.

### Service and the code

A client is named by the connection it makes. `Arrive` is `Client!Start`,
`Command`, `KeyboardStep` and `SocketStep` are those of `StompClient`; the server
side replaces the abstract server: `Read` gives the text at the head of a
client's stream to `process`, or to `Malformed` if the `Frame` constructor throws
on it; `Transfer` says what a server step does to the two streams, by the frame
it has written (`wire`) and by whether its socket is still open; `EndOfFile` is
the server's `in.read()` after a client has ended. The texts in both directions
are those of `FrameCodec`, and what the server sees of a frame is what `JavaGet`
finds in it.

The composition implements the specifications of both its parts. `IsServerSpec`
says that what the clients write and what becomes of their processes is nothing
`StompServer` does not let happen to a server. `Client!Spec`, with its abstract
server, is the abstract specification of what a client sees: `IsClientSpec`
says that every step of the real server is, for each client, a step of the
abstract one or a stutter, and `IsFairClientSpec` that it is as fair. So what
`StompClient` says about its users holds with this server and what `StompServer`
says about its maps with these clients, and the theorems about either hold for
the service.

## Runs

| Run | Instance | Shows |
|---|---|---|
| `ThreeClients` | 3 connections, 2 logins, 2 passcodes, 1 channel, serial | `SessionOwner`, `ConnectedKnowsPasscode`, `PasscodeKept`, `RemovesOnlyItself`, `NobodySkipped` |
| `PubSub` | 2 connections, 2 channels, 2 ids, serial | `OnlySubscribersPublish`, `ReceiptMeansSubscribed`, `CompletedLogoutLeavesAll`, `MessageIdUnique` |
| `Overlap` | 2 connections, 1 login, 1 channel, overlapping | `TypeOK`, `Consistent`, `SubscriptionIndexed`, `ReachedPrefix`, `HandlersFinish` |
| `Pool` | 2 connections, 2 workers, 3 tasks each | `Serialised`, `IsSerialExecutor` |
| `Reactor` | 2 connections, one of which talks, 1 frame in, 2 frames out | `NoFrameForgotten`, `NoSleepOverTasks`, `QueuedIsWritten`, `RequestsServed` |
| `Client` | 1 client, 2 users, 2 games, 3 lines, reports of up to 2 events | `TypeOK`, `ReceiptKnown`, `AnswersMatchRequests`, `RequestsSettle`, `LossNoticed` |
| `Service` | 2 clients, 2 users, 1 game, 3 lines each and 5 together, serial server | `BeliefTrue`, `ReporterLoggedIn`, `IsClientSpec` |
| `Alone` | 1 client, 1 user, 2 games, 4 lines, reports of up to 2 events, all threads fair | `BeliefTrue`, `IsServerSpec`, `IsFairClientSpec` |

The other runs each end in a counterexample, where the code does something its
documentation denies:

| Run | Property | What happens |
|---|---|---|
| `LoginRace` | `ConnectedKnowsPasscode` | two threads find a login free; the later one is connected, or overwrites the passcode of the first |
| `ReturningUser` | `ReturningUserAdmitted` | passcodes are compared as references, so no registered user is ever admitted again |
| `SelectorDies` | `ServesOn` | a logout closes a channel between `isValid()` and `isWritable()` of its key; the exception ends the selector thread, and the server with it |
| `LogoutUnanswered` | `LogoutAnswered` | the text of a logout is no frame; the server's parser throws and the connection closes without the promised receipt |

Six more configurations are kept beside them, for what the code does elsewhere.
Each checks one property on a small instance and ends in a counterexample:

| Configuration | Property | What happens |
|---|---|---|
| `LogoutTopics` (`MCStompServer`) | `LogoutLeavesTopics` | `src/README.md:468`, a logout removes the client from all topics: it removes from the list it iterates over, throws, and the user stays |
| `LogoutBoxed` (`MCStompServer`) | `CompletedLogoutLeavesAll` | ids above 127 are never equal as boxed `Integer`s; the logout ends and removed nothing |
| `LostSubscription` (`MCStompServer`) | `ReceiptMeansSubscribed` | two threads each make the first list of a channel; one subscriber has a receipt and is in no list |
| `SkippedSubscriber` (`MCStompServer`) | `NobodySkipped` | an unsubscription shortens the list behind the loop's back; the broadcast ends normally one recipient early |
| `ForeignId` (`MCStompServer`) | `OwnSubscriptionId` | `src/README.md:183`, a `MESSAGE` carries the subscription id of whoever receives it: it carries the sender's |
| `CarelessUser` (`Service`) | `BeliefTrueOfAll` | a user who joins a game twice and exits once is told that he left, and is still on the list |

`ConnectedKnowsPasscode`, `ReceiptMeansSubscribed` and `NobodySkipped` are
checked both ways on purpose: they hold when frames are processed one at a time
and fail when they overlap. They mark what the missing lock costs.
`SessionOwner`, `PasscodeKept`, `MessageIdUnique`, `RemovesOnlyItself` and
`OnlySubscribersPublish` likewise hold in the serial runs only; with `Overlap` set
to `TRUE` each has a counterexample (`RemovesOnlyItself` with three connections).
`BeliefTrue` and `BeliefTrueOfAll` are such a pair too: what a user is told is
true for one who joins what he is not in and exits what he is in, and only then.

Bounds. `MaxConnections`: two threads are enough for every race found, because
each is between one test and one write; three put an element behind the one that
is removed, and two of them behind the first, which is when an iteration throws.
`MaxSubscriptions`: two lets a connection subscribe to a second channel, or twice
to one. `MaxMessageId` only stops new SENDs: one overlapping SEND has more steps
than any other frame. `IntegerCacheHigh` is 127 in the JVM; `LogoutBoxed` sets it
to 0 so that connection 1 is the first beyond it. `MaxTasks`: three tasks are one
running, one pending, and one submitted while the pending one is fetched.
In `Reactor` a frame
from one client (`Talkers`, `MaxFrames`) starts one task, and its two frames
(`MaxSends`) can go to one queue or to two: that puts a second frame and its
request into every gap between the selector's tests of the queue and its reset of
the interest, and lets a closed channel be asked to write.
`MaxLines` and `MaxTyped`: a login, a join and an exit or a report are three
lines, the fourth comes back to a game or to a second one, and of two clients one
joins and reports while the other one's login is refused or accepted. `MaxEvents`:
two make a second pass of the report loop, with a failing write between them.
`MaxInFlight` limits only the messages of the abstract server; one is enough to be
in front of a receipt. `Ids` and `Receipts` hold every number the clients can
count to. `IntegerCacheHigh` keeps its value of the JVM in all of these.
`MaxSubscriptions`, `MaxMessageId` and `MaxInFlight` may be `Null`, no bound at
all. `ServiceAssumption` says that `Service` has none of them: its clients run
out of lines, and the real server sends what its lists say. `UniqueIds` is no
bound but an assumption about clients, that a subscription id is not used for a
second channel; the runs of `StompServer` make it, `Service` does not, because
its clients break it (an exit from a game never joined takes id 0).
Connections, subscriptions and tasks run out, so runs end in states without a
step: `CHECK_DEADLOCK` is off everywhere.

Fairness. `HandlersFinish` assumes that every handler thread is scheduled: weak
fairness of its step inside `process`, except at a socket. No step of `process`
waits for another thread, but `con.send` writes to a recipient's blocking socket
and waits for as long as that client is connected and does not read. Nothing in
the code bounds that, and `Fairness` does not assume that clients read: a thread
in `AtSocket` may stay there. The property says that this is the only way for a
call not to end, whatever the other threads do to the lists its loops walk.
(The handler's own answer is written by `run` after `process` has returned; a
handler that is kept there takes no further frame, and no fairness asks it to.) The pool assumes that of its threads, that tasks end, and that an idle
worker takes what is queued. A freed monitor goes to some waiting thread: with
weak fairness only, a waiting thread could be passed over as long as others come,
but each actor has one task in the executor, and the tasks are bounded. In `Reactor` the selector thread and
the workers are scheduled, and a client that stays connected goes on reading, so
that a frame cannot be written in parts for ever (strong fairness of `WriteFrame`,
because the selector comes back to the key again and again). Its liveness
properties except the states in which the selector thread is gone, or loops in
`continueWrite` over a closed channel with a frame left in the queue (`Lost`):
both happen, and then nobody is served. Nothing else is assumed about clients: they
may stay silent, or vanish. In `StompClient` both threads are scheduled and the
server does not leave a complete frame unread for ever (it answers or closes);
users owe nothing. In `Service` that assumption about the server is not made but
shown (`IsFairClientSpec`), from the fairness of its accept loop and of each
handler thread, and an ended client is an end of file at some time. There the
handlers' writes do end: the recipients are clients of this repository, whose
socket thread reads for as long as the process runs, and a process that has ended
has closed its socket.

## Proofs

`StompServerProofs` proves for any number of connections and any sets of logins,
passcodes, channels and ids, overlapping or not:

* `TypeCorrect`: `Spec => []TypeOK`;
* `AlwaysConsistent`: `Spec => []Consistent`;
* `AlwaysIndexed`: `Spec => []SubscriptionIndexed`, for clients with `UniqueIds`.

`SubscriptionIndexed` says of the current list of a channel that whoever it names
can be unsubscribed and logged out. It is not inductive: a step of one thread can
make an older list current, or finish what another thread's test began.
`Consistent` strengthens it to every list object ever made, allows for the
connection that has been added and not yet indexed, and adds what the threads
themselves carry: the channel, list, position and id in their locals exist, a
list belongs to the channel it was made for, and a connection id not handed out
belongs to nobody. `TypeOK /\ Consistent` is inductive (`InvStep`), with a lemma
per action or group of actions.

`DeliveryProofs` proves, overlapping or not:

* `BroadcastReachesPrefix`: `Spec => []ReachedPrefix`.

Its invariant `Walked` says how far a SEND is between two recipients and in the
middle of one. The thread itself keeps it easily; the question is what others do
to the list. Whoever adds or removes marks the iterator stale. A thread that makes
a list does not, and `CreatesUnseen` is why that is harmless: the list object it
is about to make is in no iterator and in no map, which rests on
`IteratorsKnown`, on the kept promise that a channel with a list always has one,
and on each thread making lists under its own name.

`SerialProofs` assumes `Overlap = FALSE` and proves, for any number of
connections, logins, passcodes, channels and ids:

* `SerialSessionOwner`, `SerialConnectedKnowsPasscode`, `SerialPasscodeKept`;
* `SerialOnlySubscribersPublish`, `SerialMessageIdUnique`, `SerialNobodySkipped`;
* `SerialReceiptMeansSubscribed`, `SerialRemovesOnlyItself`.

These are the properties that have a counterexample when frames overlap, so the
assumption is what they need and not a convenience. `SerialInv` starts from
`OneBusy`, at most one thread inside `process`. `Undisturbed` lists, per place of
that thread, what it saw and may still rely on: the login is still free, the
iterator is on the channel's current list and not stale, the sender is a
subscriber, the number it read is the counter, the list it makes is the first,
the element at its position is itself. `SessionsBound` relates the three session
maps at every moment, also between the writes of a registration and until a
DISCONNECT has come to the login, and `SendersKnown` covers the branch of `checkValid` that does not look.
`SerialRemovesOnlyItself` also needs that removal by position lowers nobody
else's count. `CountTakenOut` shows what taking one element out does to a count,
with an injection between positions in each direction.

About a logout it also assumes `MaxConnections <= IntegerCacheHigh + 1` and
proves:

* `SerialCompletedLogoutLeavesAll`: `Spec => CompletedLogoutLeavesAll`.

A client may subscribe to a channel twice, so the argument counts. `Recorded`: a
channel's list names a connection at most as often as the connection's own record
names the channel, and once more between the two writes of a SUBSCRIBE.
`Leaving`: from the DISCONNECT on, at most as often as the channels still to do
name it, plus one for the channel being searched, until the removal pays for that
one and leaves the iterator stale. `Scanning`: the search goes through the current
list, and until a removal makes its iterator stale it has come past no element that
it would have removed. A search that ends without a removal has then seen the whole
list and not found the connection in it (`NothingLeft`), which needs the second assumption: above the cache the ids
would not have matched, and the run `LogoutBoxed` shows what happens then. The
first is needed as well: when frames overlap, TLC finds a counterexample.

`ActorThreadPoolProofs` proves for any sets of actors and workers:

* `PoolSerialises`: `Spec => []Serialised`;
* `PoolRefinesSerialExecutor`: `Spec => Serial!Spec`.

`Serialised` is inductive as it stands. Its parts need one another: that
`playingNow` names exactly the actors with a task in the executor holds because
`contains` and `add`, and `isEmpty` and `remove`, happen under the same monitor;
that two tasks of an actor are never in the executor at once holds because only
an actor outside `playingNow`, or one whose only task just ended, gets a new one.

`ReactorProofs` proves for any set of connections and any bounds:

* `NoLostRequest`: `Spec => []NoFrameForgotten`;
* `NoLostWakeup`: `Spec => []NoSleepOverTasks`.

The invariant `Inv` adds to them what they rest on. `Unborn`: nothing refers to a
connection that is not accepted yet, so `Accept`, which sets the interest anew,
finds its queue empty. `AtRest`: a connection is between two steps of a task only
while its task runs, so a new task never overwrites the place of one that owes a
request or a wakeup. `TasksSeen`: `NoSleepOverTasks` already from the end of
`runSelectionThreadTasks` on, not only at `select()`. The step that could lose a
frame is `Reset`; it follows `Emptied`, which saw the queue empty, and whoever has
added a frame since has its request pending until the selector is through with
the key.

`FrameCodecProofs` proves for all users, games, ids and numbers:

* `ParsersAgree`: what the Java parser accepts without a repeated header, the C++
  parser accepts, with the same values;
* `ClientFramesRead`, `ServerFramesRead`: what one side wrote the other one reads,
  the client also without the last character;
* `ErrorNeverParses`, `SendReceiptNeverParses`: no error answer, and no receipt of
  a SEND, gets past the server's own constructor.

`StompClientProofs` proves for any number of clients, any users and games, and
any bounds:

* `ClientTypesHold`: `Spec => []TypeOK`;
* `ReceiptsAreKnown`: `Spec => []ReceiptKnown`;
* `AnswersFollowRequests`: `Spec => []AnswersMatchRequests`.

The last says that no answer is lost, repeated, or given to another request.
Neither it nor `ReceiptKnown` is inductive, for they do not mention the frames and
numbers on their way. The invariant `Inv` puts all of them on one line: the
receipts on their way back, then the receipt of the frames not yet read, then
that of the draft. `InFlight` says that this line of numbers is increasing
(`Increasing`), without a gap (`Gapless`), and bounded by the requests printed on
one side and the next number on the other (`Bounded`). `FiledAsAsked` ties the
numbers to requests: under number `k` the map holds the `k+1`st request typed.
`Drafted` covers the time in which a request is typed and not filed, and
`PrintedAsAsked` is what follows when the line is consumed from its front. Each
action moves one number one place along the line, appends at its end, or cuts it
(a closed connection); the lemmas about sequences (`Front`, `Tail`, concatenation
of the three parts) carry the proof. The codec theorems say that the numbers at
both ends are those that were written.

`ServiceProofs` proves for any number of clients, any users, passcodes and games,
and any number of lines:

* `ServiceIsServer`: `ServiceSpec => IsServerSpec`;
* `ServiceIsClient`: `ServiceSpec => IsClientSpec`;
* `ReportersAreLoggedIn`: `ServiceSpec => []ReporterLoggedIn`, if `Overlap = FALSE`;
* `WhatUsersBelieveIsTrue`: `ServiceSpec => []BeliefTrue`, if `Overlap = FALSE`.

The first two lean on each other. The server is asked nothing but what
`StompServer` lets be asked because the texts in the streams are texts of clients
(`StompClientProofs!Inv`), and that holds because the server answers as
`StompClient` assumes. So neither refinement can be shown first: `ServiceInv`
joins the invariants of both sides and is inductive as one. What it adds is
`Bridged`. `Linked`: the server's end of a connection is open exactly as long as
its thread serves it, and a client that has not started has left nothing.
`InProcess`: while a thread is inside `process()`, the frame it works on is still
at the head of its stream and its locals are what the codec finds in that text,
so that the receipt written at the end is that of the frame then taken from the
stream. `ServerStepIsPeer` says what a server step is to each client: nothing, a
message, an answer to the first frame, or the end of the connection; and that a
step of one thread is one of these for every client at once. The codec theorems
turn the text of a frame into the arguments of `process()` and back.

`ReporterLoggedIn` is about a name the client writes and the server never checks.
Its invariant `Reporters` is about what is on its way: before each report in a
stream, being drafted, or still to be typed by a user who has typed `login`,
there is a CONNECT of that user (`Earlier`), or it has been processed and the
login is `Bound` to this connection. A refused CONNECT ends the connection, and
`serverOpen` with it; that is the whole protection, since the client counts as
logged in from the moment it types. `BoundKept` says that no other connection can
take a bound login over, which is where frames must not overlap (`LoginRace` shows
the alternative).

`BeliefTrue` spans both programs: a line typed, its number, an id or a game in a
text, two maps and a list on the server, a receipt, and the client's lookup.
`BeliefInv` follows a request along that way. On the client, `Worded`: a text
with number `r` in a stream or a draft is the wording of the `r+1`st request,
with the subscription id that its game still has; `Distinct`: a user who joins
what he is not in and exits what he is in (`Careful`) has given every game an id
of its own, so the number in an UNSUBSCRIBE names one game only (`IdOf` gives
id 0 to a game never joined, which a careful user does not exit). On the server,
`Reads`: the thread's locals are what the text says; `Listed` with `m`: the ids
name their games and each list names the connection once or not at all, as the
first `m` requests left them. Between the write to a list and the end of its
frame the list is one request ahead (`Mid`). `Belief` says that there is such an
`m` as long as the connection lasts, and `Through` that the frames still in the
stream are exactly the requests from `m` on that are about a game. Each request
then moves `m` by one: `AtIs` says that the frame in process is the first request
not yet counted, `AtJoin` and `AtExit` that it means what its text says,
`ListedIndex` and `ListedEnd` that the lists are as after it. When nothing is on
its way any more (`SettledIs`), all requests were processed and printed, and what
was printed is what is listed. Without `Careful`, `m` requests do not determine
the lists: `CarelessUser` joins twice.

The proofs assume what `BoundsAssumption`, `NullAssumption`, `PoolAssumption`,
`ReactorAssumption`, `ClientAssumption` and `ServiceAssumption` state: bounds are
natural numbers, `Null` and `None` are nobody's value, the selector is no worker,
the clients' numbers are among the server's `Ids` and `Receipts`.

Only model-checked: liveness (`HandlersFinish`, `QueuedIsWritten`,
`RequestsServed`, `RequestsSettle`, `LossNoticed`, and the fairness half of
`IsSerialExecutor` and `IsFairClientSpec`), which is beyond the prover. Every
safety property that a passing run checks is also a theorem.

## What is left

1. Abstract specifications of the server's own: sessions and subscriptions, which
   the serial server implements up to the logouts that throw.
2. `Service` over `Reactor` instead of handler threads.

Not modelled, and why:

* `json.hpp`: a vendored library and nearly all of the C++ lines of the
  repository. The client asks it for the events of a file; that it yields some or
  throws is an input (`TypeReport`, `TypeBroken`).
* `echoClient.cpp` and the example protocols `echo`, `newsfeed` and `rci`:
  teaching examples that neither program uses.
* `StompServer.main` and the other entry points: they choose a server and start
  it.
* Formatting of reports and summaries, log lines, and the growth of byte buffers.
