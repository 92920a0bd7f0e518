------------------------------ MODULE Reactor ------------------------------
(***************************************************************************)
(* The server in its reactor form: one selector thread accepts, reads and  *)
(* writes for all connections, and hands what it read to the pool, whose   *)
(* workers decode and process it.  A worker that has a frame for some      *)
(* connection puts it into the write queue of that connection's            *)
(* NonBlockingConnectionHandler and asks the selector thread, through      *)
(* selectorTasks, to wait for the channel to become writable.              *)
(*                                                                         *)
(* The pool is SerialExecutor, which ActorThreadPool implements: a task is *)
(* the number of frames completed by one read.  process() is abstracted to *)
(* what it may do to the handlers: any frames to any registered ones, a    *)
(* logout, an exception.  A write queue is its length.  terminate is never *)
(* set (see StompServer), so continueWrite never closes for it.            *)
(***************************************************************************)
EXTENDS Integers, Sequences

CONSTANTS
    Conns,
    None,
    Talkers,      \* clients that send frames (bound)
    MaxFrames,    \* frames such a client sends (bound)
    MaxSends      \* frames the workers queue (bound)

ASSUME ReactorAssumption ==
    /\ MaxFrames \in Nat /\ MaxSends \in Nat
    /\ None \notin Conns /\ None \notin Nat

VARIABLES
    peer, inbox, sent,      \* client's end; its frames not yet read; and in all
    chan,                   \* the channel of each connection
    handlers,               \* connections with a handler in connectionIdToHandler
    interest,               \* the ops the selector waits for
    writeQueue,             \* frames waiting to be written
    selectorTasks, wakeup,  \* connections to set to OP_WRITE; selector.wakeup()
    pc, key,                \* the selector thread, and the key it handles
    ready, accepting,       \* the selected keys: their ready ops; OP_ACCEPT
    waiting, running, stopped,  \* the pool
    step, left, target,     \* a task: its step, its frames, whom it sends to
    sends                   \* frames queued in all

network == <<peer, inbox, sent>>
mail == <<writeQueue, sends>>
requests == <<selectorTasks, wakeup>>
selection == <<pc, key, ready, accepting>>
pool == <<waiting, running, stopped>>
work == <<step, left, target>>
vars == <<network, chan, handlers, interest, mail, requests, selection, pool,
          work>>

Pool == INSTANCE SerialExecutor WITH Actors <- Conns, Tasks <- 1 .. MaxFrames

NoKeys == [c \in Conns |-> {}]

Init ==
    /\ peer = [c \in Conns |-> "up"]
    /\ inbox = [c \in Conns |-> 0]
    /\ sent = [c \in Conns |-> 0]
    /\ chan = [c \in Conns |-> "new"]
    /\ handlers = {}
    /\ interest = [c \in Conns |-> {}]
    /\ writeQueue = [c \in Conns |-> 0]
    /\ selectorTasks = << >>
    /\ wakeup = FALSE
    /\ pc = "select"
    /\ key = None
    /\ ready = NoKeys
    /\ accepting = FALSE
    /\ Pool!Init
    /\ step = [c \in Conns |-> "idle"]
    /\ left = [c \in Conns |-> 0]
    /\ target = [c \in Conns |-> None]
    /\ sends = 0

----------------------------------------------------------------------------
(* Clients.                                                                *)

ClientSends(c) ==
    /\ c \in Talkers
    /\ chan[c] = "open" /\ peer[c] = "up"
    /\ sent[c] < MaxFrames
    /\ sent' = [sent EXCEPT ![c] = @ + 1]
    /\ inbox' = [inbox EXCEPT ![c] = @ + 1]
    /\ UNCHANGED <<peer, chan, handlers, interest, mail, requests, selection, pool, work>>

\* The client closes its end, or its connection breaks.
ClientLeaves(c) ==
    /\ chan[c] = "open" /\ peer[c] = "up"
    /\ \E how \in {"eof", "reset"} : peer' = [peer EXCEPT ![c] = how]
    /\ UNCHANGED <<inbox, sent, chan, handlers, interest, mail, requests, selection, pool,
                   work>>

----------------------------------------------------------------------------
(* The selector thread.                                                    *)

Close(c) == chan' = [chan EXCEPT ![c] = "closed"]

\* The selector thread goes on with the same key, leaves it, or leaves serve().
Goto(s) == pc' = s /\ UNCHANGED <<key, ready, accepting>>

KeyDone ==
    /\ pc' = "keys" /\ key' = None
    /\ ready' = [ready EXCEPT ![key] = {}]
    /\ UNCHANGED accepting

Quit(s) == pc' = s /\ key' = None /\ ready' = NoKeys /\ accepting' = FALSE

\* NullPointerException or CancelledKeyException on the key of a channel that
\* was closed: serve() has no handler for it, and its try block closes the
\* selector and the server socket.  The pool is not shut down.
Die == Quit("dead")

Readable(c) ==
    chan[c] = "open" /\ "read" \in interest[c] /\ (inbox[c] > 0 \/ peer[c] # "up")

Writable(c) == chan[c] = "open" /\ "write" \in interest[c]

\* Of the writable connections those are ready whose send buffer has room.
Select ==
    /\ pc = "select"
    /\ accepting' \in {FALSE, \E c \in Conns : chan[c] = "new"}
    /\ \E room \in SUBSET {c \in Conns : Writable(c)} :
         ready' = [c \in Conns |-> {op \in {"read", "write"} :
                      IF op = "read" THEN Readable(c) ELSE c \in room}]
    /\ wakeup \/ accepting' \/ ready' # NoKeys
    /\ wakeup' = FALSE
    /\ pc' = "tasks"
    /\ UNCHANGED <<network, chan, handlers, interest, mail, selectorTasks, key, pool, work>>

\* interestOps(OP_READ | OP_WRITE), as the task updateInterestedOps queued.
RunTask ==
    /\ pc = "tasks"
    /\ selectorTasks # << >>
    /\ selectorTasks' = Tail(selectorTasks)
    /\ \/ /\ chan[Head(selectorTasks)] = "open"
          /\ interest' = [interest EXCEPT ![Head(selectorTasks)] = {"read", "write"}]
          /\ Goto("tasks")
       \/ /\ chan[Head(selectorTasks)] # "open"
          /\ Die
          /\ UNCHANGED interest
    /\ UNCHANGED <<network, chan, handlers, mail, wakeup, pool, work>>

TasksDone ==
    /\ pc = "tasks"
    /\ selectorTasks = << >>
    /\ Goto("keys")
    /\ UNCHANGED <<network, chan, handlers, interest, mail, requests, pool, work>>

\* handleAccept: the handler registers itself, the channel its interest.
Accept(c) ==
    /\ pc = "keys" /\ accepting
    /\ chan[c] = "new"
    /\ accepting' = FALSE
    /\ chan' = [chan EXCEPT ![c] = "open"]
    /\ handlers' = handlers \cup {c}
    /\ interest' = [interest EXCEPT ![c] = {"read"}]
    /\ UNCHANGED <<network, mail, requests, pc, key, ready, pool, work>>

\* An IOException ends serve() the orderly way.
AcceptFails ==
    /\ pc = "keys" /\ accepting
    /\ Quit("ended")
    /\ Pool!Shutdown
    /\ UNCHANGED <<network, chan, handlers, interest, mail, requests, work>>

\* The next selected key, in any order; one that is no longer valid is skipped.
NextKey(c) ==
    /\ pc = "keys"
    /\ ready[c] # {}
    /\ IF chan[c] = "open"
       THEN pc' = "isReadable" /\ key' = c /\ UNCHANGED ready
       ELSE ready' = [ready EXCEPT ![c] = {}] /\ UNCHANGED <<pc, key>>
    /\ UNCHANGED <<network, chan, handlers, interest, mail, requests, accepting, pool, work>>

\* The loop is done; selectedKeys().clear()
KeysDone ==
    /\ pc = "keys"
    /\ ready = NoKeys /\ ~accepting
    /\ Goto("select")
    /\ UNCHANGED <<network, chan, handlers, interest, mail, requests, pool, work>>

\* key.isReadable() throws if a worker closed the channel since isValid().
IsReadable ==
    /\ pc = "isReadable"
    /\ IF chan[key] # "open" THEN Die
       ELSE Goto(IF "read" \in ready[key] THEN "read" ELSE "isValid")
    /\ UNCHANGED <<network, chan, handlers, interest, mail, requests, pool, work>>

\* continueRead, and pool.submit of the task it returns.  A read may bring less
\* than has arrived, because the buffer is full, but at least one frame.
Read ==
    /\ pc = "read"
    /\ Goto("isValid")
    /\ \/ /\ chan[key] = "open" /\ peer[key] # "reset" /\ inbox[key] > 0
          /\ \E frames \in 1 .. inbox[key] :
               /\ inbox' = [inbox EXCEPT ![key] = @ - frames]
               /\ Pool!Submit(key, frames)
          /\ UNCHANGED chan
       \/ /\ chan[key] # "open" \/ peer[key] = "reset" \/ inbox[key] = 0
          /\ Close(key)
          /\ UNCHANGED <<inbox, pool>>
    /\ UNCHANGED <<peer, sent, handlers, interest, mail, requests, work>>

\* key.isValid() && key.isWritable(), which throws like isReadable().
IsValid ==
    /\ pc = "isValid"
    /\ IF chan[key] = "open" THEN Goto("isWritable") ELSE KeyDone
    /\ UNCHANGED <<network, chan, handlers, interest, mail, requests, pool, work>>

IsWritable ==
    /\ pc = "isWritable"
    /\ \/ chan[key] # "open" /\ Die
       \/ chan[key] = "open" /\ "write" \in ready[key] /\ Goto("write")
       \/ chan[key] = "open" /\ "write" \notin ready[key] /\ KeyDone
    /\ UNCHANGED <<network, chan, handlers, interest, mail, requests, pool, work>>

CanWrite(c) == chan[c] = "open" /\ peer[c] # "reset"

\* The loop of continueWrite: chan.write takes all of the first frame.
WriteFrame ==
    /\ pc = "write"
    /\ writeQueue[key] > 0 /\ CanWrite(key)
    /\ writeQueue' = [writeQueue EXCEPT ![key] = @ - 1]
    /\ Goto("write")
    /\ UNCHANGED <<network, chan, handlers, interest, sends, requests, pool, work>>

\* It takes a part of it, and continueWrite returns.
WritePart ==
    /\ pc = "write"
    /\ writeQueue[key] > 0 /\ CanWrite(key)
    /\ KeyDone
    /\ UNCHANGED <<network, chan, handlers, interest, mail, requests, pool, work>>

\* It throws: the channel is closed, the frame stays, the loop goes on.
WriteFails ==
    /\ pc = "write"
    /\ writeQueue[key] > 0 /\ ~CanWrite(key)
    /\ Close(key)
    /\ Goto("write")
    /\ UNCHANGED <<network, handlers, interest, mail, requests, pool, work>>

WriteDone ==
    /\ pc = "write"
    /\ writeQueue[key] = 0
    /\ Goto("emptied")
    /\ UNCHANGED <<network, chan, handlers, interest, mail, requests, pool, work>>

\* The queue is tested once more after the loop.
Emptied ==
    /\ pc = "emptied"
    /\ IF writeQueue[key] = 0 THEN Goto("reset") ELSE KeyDone
    /\ UNCHANGED <<network, chan, handlers, interest, mail, requests, pool, work>>

\* MUTANT: the read interest is lost with the write interest.
NoOps == {}

ReadOps == {"read"}

\* interestOps(OP_READ), at once because this is the selector thread.
Reset ==
    /\ pc = "reset"
    /\ \/ /\ chan[key] = "open"
          /\ interest' = [interest EXCEPT ![key] = ReadOps]
          /\ KeyDone
       \/ chan[key] # "open" /\ Die /\ UNCHANGED interest
    /\ UNCHANGED <<network, chan, handlers, mail, requests, pool, work>>

----------------------------------------------------------------------------
(* The task of a connection, on some worker.                               *)

At(c, s) == step' = [step EXCEPT ![c] = s]

StartTask(c) ==
    /\ Pool!Start(c)
    /\ At(c, "frame")
    /\ left' = [left EXCEPT ![c] = Head(waiting[c])]
    /\ UNCHANGED <<network, chan, handlers, interest, mail, requests, selection,
                   target>>

\* The buffer has no more frames, or process() has thrown.
EndTask(c) ==
    /\ step[c] = "frame"
    /\ Pool!Finish(c)
    /\ At(c, "idle")
    /\ left' = [left EXCEPT ![c] = 0]
    /\ UNCHANGED <<network, chan, handlers, interest, mail, requests, selection,
                   target>>

\* process() has returned: the next frame.
NextFrame(c) ==
    /\ step[c] = "frame" /\ left[c] > 0
    /\ left' = [left EXCEPT ![c] = @ - 1]
    /\ UNCHANGED <<network, chan, handlers, interest, mail, requests, selection,
                   pool, step, target>>

\* process() sends to a handler it has looked up, or has an answer for its own.
Send(c) ==
    /\ step[c] = "frame" /\ left[c] > 0
    /\ sends < MaxSends
    /\ sends' = sends + 1
    /\ \E r \in handlers \cup {c} : target' = [target EXCEPT ![c] = r]
    /\ At(c, "add")
    /\ UNCHANGED <<network, chan, handlers, interest, writeQueue, requests, selection, pool,
                   left>>

\* writeQueue.add
QueueFrame(c) ==
    /\ step[c] = "add"
    /\ writeQueue' = [writeQueue EXCEPT ![target[c]] = @ + 1]
    /\ At(c, "ops")
    /\ UNCHANGED <<network, chan, handlers, interest, sends, requests, selection, pool,
                   left, target>>

\* MUTANT: the worker sets the interest itself.
AskAtOnce(c) ==
    /\ interest' = [interest EXCEPT ![c] = {"read", "write"}]
    /\ UNCHANGED selectorTasks

Ask(c) ==
    /\ selectorTasks' = Append(selectorTasks, c)
    /\ UNCHANGED interest

\* updateInterestedOps: selectorTasks.add, then selector.wakeup().
RequestWrite(c) ==
    /\ step[c] = "ops"
    /\ Ask(target[c])
    /\ At(c, "wake")
    /\ UNCHANGED <<network, chan, handlers, mail, wakeup, selection, pool, left,
                   target>>

\* MUTANT: no wakeup while the selector is busy anyway.
AwakeIfAsleep == wakeup \/ pc = "select"

Awake == TRUE

Wake(c) ==
    /\ step[c] = "wake"
    /\ wakeup' = Awake
    /\ At(c, "frame")
    /\ target' = [target EXCEPT ![c] = None]
    /\ UNCHANGED <<network, chan, handlers, interest, mail, selectorTasks, selection, pool,
                   left>>

\* A DISCONNECT: disconnect closes the channel, then removes the handler.
Logout(c) ==
    /\ step[c] = "frame" /\ left[c] > 0
    /\ c \in handlers
    /\ Close(c)
    /\ At(c, "remove")
    /\ UNCHANGED <<network, handlers, interest, mail, requests, selection, pool,
                   left, target>>

RemoveHandler(c) ==
    /\ step[c] = "remove"
    /\ handlers' = handlers \ {c}
    /\ At(c, "frame")
    /\ UNCHANGED <<network, chan, interest, mail, requests, selection, pool, left,
                   target>>

----------------------------------------------------------------------------
SelectorStep ==
    \/ Select \/ RunTask \/ TasksDone \/ KeysDone \/ AcceptFails
    \/ \E c \in Conns : Accept(c) \/ NextKey(c)
    \/ IsReadable \/ Read \/ IsValid \/ IsWritable
    \/ WriteFrame \/ WritePart \/ WriteFails \/ WriteDone \/ Emptied \/ Reset

TaskStep(c) ==
    \/ StartTask(c) \/ EndTask(c) \/ NextFrame(c)
    \/ Send(c) \/ QueueFrame(c) \/ RequestWrite(c) \/ Wake(c)
    \/ Logout(c) \/ RemoveHandler(c)

Next ==
    \/ \E c \in Conns : ClientSends(c) \/ ClientLeaves(c) \/ TaskStep(c)
    \/ SelectorStep

Spec == Init /\ [][Next]_vars

\* Every thread is scheduled and the pool starts what waits.  A client that stays
\* reads what it is sent, so a frame cannot be written in parts for ever.
Fairness ==
    /\ WF_vars(SelectorStep)
    /\ \A c \in Conns : SF_vars(key = c /\ WriteFrame) /\ WF_vars(TaskStep(c))
FairSpec == Spec /\ Fairness

----------------------------------------------------------------------------
(* What the reactor promises.                                              *)

ClientTypeOK ==
    /\ peer \in [Conns -> {"up", "eof", "reset"}]
    /\ inbox \in [Conns -> Nat] /\ sent \in [Conns -> Nat]

HandlerTypeOK ==
    /\ chan \in [Conns -> {"new", "open", "closed"}]
    /\ handlers \subseteq Conns
    /\ interest \in [Conns -> SUBSET {"read", "write"}]
    /\ writeQueue \in [Conns -> Nat] /\ sends \in Nat

KeySteps ==
    {"isReadable", "read", "isValid", "isWritable", "write", "emptied", "reset"}

SelectorTypeOK ==
    /\ selectorTasks \in Seq(Conns) /\ wakeup \in BOOLEAN
    /\ pc \in KeySteps \cup {"select", "tasks", "keys", "dead", "ended"}
    /\ key \in Conns \cup {None}
    /\ pc \in KeySteps => key \in Conns
    /\ ready \in [Conns -> SUBSET {"read", "write"}] /\ accepting \in BOOLEAN

TaskTypeOK ==
    /\ waiting \in [Conns -> Seq(Nat)]
    /\ running \in [Conns -> Nat \cup {None}]
    /\ stopped \in BOOLEAN
    /\ step \in [Conns -> {"idle", "frame", "add", "ops", "wake", "remove"}]
    /\ left \in [Conns -> Nat]
    /\ target \in [Conns -> Conns \cup {None}]
    /\ \A c \in Conns : step[c] \in {"add", "ops", "wake"} => target[c] \in Conns

TypeOK == ClientTypeOK /\ HandlerTypeOK /\ SelectorTypeOK /\ TaskTypeOK

Requested(c) ==
    \/ \E k \in 1 .. Len(selectorTasks) : selectorTasks[k] = c
    \/ \E w \in Conns : step[w] = "ops" /\ target[w] = c

\* No lost request: a frame in the write queue of an open channel is one the
\* selector waits to write, or is about to be asked to.  The worker's add and
\* its request, and the selector's two tests of the queue and its own reset of
\* the interest, come in any order.
NoFrameForgotten ==
    \A c \in Conns : chan[c] = "open" /\ writeQueue[c] > 0 =>
        \/ Requested(c)
        \/ "write" \in interest[c] /\ ~(pc = "reset" /\ key = c)

\* No lost wakeup: the selector does not sleep over a task that was queued while
\* it was busy with the keys.
NoSleepOverTasks ==
    pc = "select" /\ selectorTasks # << >> =>
        wakeup \/ \E c \in Conns : step[c] = "wake"

\* The selector thread is gone, or writes to one closed channel for ever.
Lost ==
    \/ pc \in {"dead", "ended"}
    \/ pc = "write" /\ chan[key] # "open" /\ writeQueue[key] > 0

\* As long as the selector thread is there, frames for a connection that stays
\* open are all written.
QueuedIsWritten ==
    \A c \in Conns :
        writeQueue[c] > 0 ~> writeQueue[c] = 0 \/ chan[c] # "open" \/ Lost

Idle(c) == inbox[c] = 0 /\ peer[c] = "up" /\ waiting[c] = << >>

\* As long as the selector thread is there, what a client sends is read and its
\* task started, and the end of its connection is noticed: an interest that was
\* set for writing has not cost the interest in reading.
RequestsServed ==
    \A c \in Conns :
        chan[c] = "open" /\ ~Idle(c) ~> chan[c] # "open" \/ Idle(c) \/ Lost

\* Reactor.java "server was requested to be closed": serve() ends for that, or
\* for an IOException, and not because a client's connection has ended.
ServesOn == pc # "dead"
=============================================================================
