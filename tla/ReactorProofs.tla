--------------------------- MODULE ReactorProofs ---------------------------
(***************************************************************************)
(* The handshake between the workers and the selector thread of Reactor,   *)
(* proved for any set of connections and any bounds: whatever the order of *)
(* their steps, no frame in a write queue is forgotten and the selector    *)
(* does not sleep over a request.                                          *)
(***************************************************************************)
EXTENDS Reactor, SequenceTheorems, TLAPS

----------------------------------------------------------------------------
(* The inductive invariant.                                                *)

\* Nothing refers to a connection that is not accepted yet.
Unborn ==
    \A c \in Conns : chan[c] = "new" =>
        /\ c \notin handlers
        /\ writeQueue[c] = 0
        /\ waiting[c] = << >> /\ step[c] = "idle"
        /\ \A w \in Conns : target[w] # c

\* NoSleepOverTasks, from the end of runSelectionThreadTasks on.
TasksSeen ==
    pc \notin {"tasks", "dead", "ended"} /\ selectorTasks # << >> =>
        wakeup \/ \E c \in Conns : step[c] = "wake"

\* A connection is between two steps of a task only while its task runs.
AtRest == \A c \in Conns : running[c] = None => step[c] = "idle"

Inv == TypeOK /\ Unborn /\ AtRest /\ NoFrameForgotten /\ TasksSeen

----------------------------------------------------------------------------
(* Types.                                                                  *)

LEMMA InitTypes == Init => TypeOK
<1> SUFFICES ASSUME Init PROVE TypeOK
  OBVIOUS
<1> USE DEF Init, NoKeys
<1>1. ClientTypeOK  BY DEF ClientTypeOK
<1>2. HandlerTypeOK  BY DEF HandlerTypeOK
<1>3. SelectorTypeOK  BY EmptySeq DEF SelectorTypeOK, KeySteps
<1>4. TaskTypeOK  BY EmptySeq DEF TaskTypeOK, Pool!Init
<1> QED BY <1>1, <1>2, <1>3, <1>4 DEF TypeOK

LEMMA ClientTypes ==
    ASSUME TypeOK, NEW c \in Conns, ClientSends(c) \/ ClientLeaves(c)
    PROVE  TypeOK'
<1> USE DEF TypeOK, mail, requests, selection, pool, work
<1>1. ClientTypeOK'
  <2>1. CASE ClientSends(c)  BY <2>1 DEF ClientSends, ClientTypeOK
  <2>2. CASE ClientLeaves(c)  BY <2>2 DEF ClientLeaves, ClientTypeOK
  <2> QED BY <2>1, <2>2
<1>2. HandlerTypeOK'
  BY DEF ClientSends, ClientLeaves, HandlerTypeOK
<1>3. SelectorTypeOK'
  BY DEF ClientSends, ClientLeaves, SelectorTypeOK
<1>4. TaskTypeOK'
  BY DEF ClientSends, ClientLeaves, TaskTypeOK
<1> QED BY <1>1, <1>2, <1>3, <1>4

\* The selector thread leaves what belongs to the workers alone, except that it
\* submits and shuts down.
LEMMA SelectorThreadTypes ==
    ASSUME TypeOK, SelectorStep
    PROVE  SelectorTypeOK'
<1> USE DEF TypeOK, SelectorTypeOK, KeySteps, requests, Goto, KeyDone, Quit, Die, NoKeys
<1>1. CASE Select
  <2>1. ready' \in [Conns -> SUBSET {"read", "write"}] /\ accepting' \in BOOLEAN
    BY <1>1 DEF Select
  <2> QED BY <1>1, <2>1 DEF Select
<1>2. CASE RunTask
  <2>1. Head(selectorTasks) \in Conns /\ Tail(selectorTasks) \in Seq(Conns)
    BY <1>2, HeadTailProperties DEF RunTask
  <2> QED BY <1>2, <2>1 DEF RunTask
<1>3. CASE TasksDone  BY <1>3 DEF TasksDone
<1>4. CASE KeysDone  BY <1>4 DEF KeysDone
<1>5. CASE AcceptFails  BY <1>5 DEF AcceptFails
<1>6. ASSUME NEW c \in Conns, Accept(c) PROVE SelectorTypeOK'
  BY <1>6 DEF Accept
<1>7. ASSUME NEW c \in Conns, NextKey(c) PROVE SelectorTypeOK'
  BY <1>7 DEF NextKey
<1>8. CASE IsReadable  BY <1>8 DEF IsReadable
<1>9. CASE Read  BY <1>9 DEF Read
<1>10. CASE IsValid  BY <1>10 DEF IsValid
<1>11. CASE IsWritable  BY <1>11 DEF IsWritable
<1>12. CASE WriteFrame  BY <1>12 DEF WriteFrame
<1>13. CASE WritePart  BY <1>13 DEF WritePart
<1>14. CASE WriteFails  BY <1>14 DEF WriteFails
<1>15. CASE WriteDone  BY <1>15 DEF WriteDone
<1>16. CASE Emptied  BY <1>16 DEF Emptied
<1>17. CASE Reset  BY <1>17 DEF Reset
<1> QED BY <1>1, <1>2, <1>3, <1>4, <1>5, <1>6, <1>7, <1>8, <1>9, <1>10, <1>11, <1>12,
           <1>13, <1>14, <1>15, <1>16, <1>17 DEF SelectorStep

\* Submit and Shutdown keep the lines of waiting tasks lines of tasks.
LEMMA PoolTypes ==
    ASSUME TaskTypeOK
    PROVE  /\ \A c \in Conns : \A n \in Nat : Pool!Submit(c, n) =>
                 waiting' \in [Conns -> Seq(Nat)] /\ UNCHANGED <<running, stopped>>
           /\ Pool!Shutdown =>
                 waiting' \in [Conns -> Seq(Nat)] /\ stopped' = TRUE /\ UNCHANGED running
<1>1. ASSUME NEW c \in Conns, NEW n \in Nat, Pool!Submit(c, n)
      PROVE  waiting' \in [Conns -> Seq(Nat)] /\ UNCHANGED <<running, stopped>>
  <2>1. Append(waiting[c], n) \in Seq(Nat)
    BY <1>1, AppendProperties DEF TaskTypeOK
  <2> QED BY <1>1, <2>1 DEF Pool!Submit, TaskTypeOK
<1>2. ASSUME Pool!Shutdown
      PROVE  waiting' \in [Conns -> Seq(Nat)] /\ stopped' = TRUE /\ UNCHANGED running
  <2>1. PICK lost \in SUBSET {a \in Conns : waiting[a] # << >>} :
          waiting' = Pool!Dropped(lost)
    BY <1>2 DEF Pool!Shutdown
  <2>2. \A a \in lost : Tail(waiting[a]) \in Seq(Nat)
    BY HeadTailProperties DEF TaskTypeOK
  <2>3. waiting' \in [Conns -> Seq(Nat)]
    BY <2>1, <2>2 DEF Pool!Dropped, TaskTypeOK
  <2> QED BY <1>2, <2>3 DEF Pool!Shutdown
<1> QED BY <1>1, <1>2

LEMMA SelectorTypes ==
    ASSUME TypeOK, SelectorStep
    PROVE  TypeOK'
<1> USE DEF TypeOK
<1>1. SelectorTypeOK'
  BY SelectorThreadTypes
<1>2. pc \in KeySteps => key \in Conns
  BY DEF SelectorTypeOK
<1>3. /\ UNCHANGED <<peer, sent, sends, step, left, target>>
      /\ (Read \/ UNCHANGED inbox)
      /\ (Read \/ AcceptFails \/ UNCHANGED pool)
  BY DEF SelectorStep, Select, RunTask, TasksDone, KeysDone, AcceptFails, Accept, NextKey,
         IsReadable, Read, IsValid, IsWritable, WriteFrame, WritePart, WriteFails, WriteDone,
         Emptied, Reset, network, mail, pool, work
<1>4. CASE Read
  <2>1. key \in Conns /\ UNCHANGED <<handlers, interest, writeQueue>>
    BY <1>2, <1>4 DEF Read, KeySteps, mail
  <2>2. chan' \in [Conns -> {"new", "open", "closed"}]
    BY <1>4 DEF Read, Close, HandlerTypeOK
  <2>3. HandlerTypeOK'
    BY <1>3, <2>1, <2>2 DEF HandlerTypeOK
  <2>4. CASE UNCHANGED <<inbox, pool>>
    BY <1>1, <1>3, <2>3, <2>4 DEF ClientTypeOK, TaskTypeOK, pool
  <2>5. ASSUME NEW frames \in 1 .. inbox[key],
               inbox' = [inbox EXCEPT ![key] = @ - frames], Pool!Submit(key, frames)
        PROVE  ClientTypeOK' /\ TaskTypeOK'
    <3>1. inbox[key] \in Nat
      BY <2>1 DEF ClientTypeOK
    <3>2. frames \in Nat /\ inbox[key] - frames \in Nat
      BY <3>1
    <3>3. ClientTypeOK'
      BY <1>3, <2>5, <3>2 DEF ClientTypeOK
    <3>4. waiting' \in [Conns -> Seq(Nat)] /\ UNCHANGED <<running, stopped>>
      BY <2>1, <2>5, <3>2, PoolTypes
    <3>5. TaskTypeOK'
      BY <1>3, <3>4 DEF TaskTypeOK
    <3> QED BY <3>3, <3>5
  <2> QED BY <1>1, <1>4, <2>3, <2>4, <2>5 DEF Read
<1>5. CASE AcceptFails
  <2>1. UNCHANGED <<inbox, chan, handlers, interest, writeQueue>> /\ Pool!Shutdown
    BY <1>5 DEF AcceptFails, network, mail
  <2>2. waiting' \in [Conns -> Seq(Nat)] /\ stopped' = TRUE /\ UNCHANGED running
    BY <2>1, PoolTypes
  <2> QED BY <1>1, <1>3, <2>1, <2>2 DEF ClientTypeOK, HandlerTypeOK, TaskTypeOK
<1>6. CASE ~Read /\ ~AcceptFails
  <2>1. ClientTypeOK' /\ TaskTypeOK'
    BY <1>3, <1>6 DEF ClientTypeOK, TaskTypeOK, pool
  <2>2. HandlerTypeOK'
    <3> USE DEF HandlerTypeOK
    <3>1. CASE UNCHANGED <<chan, handlers, interest, writeQueue>>
      BY <1>3, <3>1
    <3>2. CASE RunTask
      <4>1. Head(selectorTasks) \in Conns
        BY <3>2, HeadTailProperties DEF RunTask, SelectorTypeOK
      <4> QED BY <3>2, <4>1 DEF RunTask, mail
    <3>3. ASSUME NEW c \in Conns, Accept(c) PROVE HandlerTypeOK'
      BY <3>3 DEF Accept, mail
    <3>4. CASE WriteFrame
      BY <1>2, <3>4 DEF WriteFrame, KeySteps
    <3>5. CASE WriteFails
      BY <1>2, <3>5 DEF WriteFails, KeySteps, Close, mail
    <3>6. CASE Reset
      BY <1>2, <3>6 DEF Reset, ReadOps, KeySteps, mail
    <3> QED
      BY <1>6, <3>1, <3>2, <3>3, <3>4, <3>5, <3>6
      DEF SelectorStep, Select, TasksDone, KeysDone, NextKey, IsReadable, IsValid, IsWritable,
          WritePart, WriteDone, Emptied, mail
  <2> QED BY <1>1, <2>1, <2>2
<1> QED BY <1>4, <1>5, <1>6

LEMMA TaskTypes ==
    ASSUME TypeOK, NEW c \in Conns, TaskStep(c)
    PROVE  TypeOK'
<1> USE DEF TypeOK, At
<1>1. ClientTypeOK'
  BY DEF ClientTypeOK, TaskStep, StartTask, EndTask, NextFrame, Send, QueueFrame,
         RequestWrite, Wake, Logout, RemoveHandler, network
<1>2. HandlerTypeOK'
  <2> USE DEF HandlerTypeOK
  <2>1. CASE UNCHANGED <<chan, handlers, interest, writeQueue>> /\ sends' \in Nat
    BY <2>1
  <2>2. CASE QueueFrame(c)
    BY <2>2 DEF QueueFrame, TaskTypeOK
  <2>3. CASE Logout(c)
    BY <2>3 DEF Logout, Close, mail
  <2>4. CASE RemoveHandler(c)
    BY <2>4 DEF RemoveHandler, mail
  <2> QED BY <2>1, <2>2, <2>3, <2>4
          DEF TaskStep, StartTask, EndTask, NextFrame, Send, RequestWrite, Ask, Wake, mail
<1>3. SelectorTypeOK'
  <2> USE DEF SelectorTypeOK, selection
  <2>1. CASE UNCHANGED <<selectorTasks, wakeup>>
    BY <2>1 DEF TaskStep, StartTask, EndTask, NextFrame, Send, QueueFrame,
                RequestWrite, Wake, Logout, RemoveHandler
  <2>2. CASE RequestWrite(c)
    <3>1. target[c] \in Conns
      BY <2>2 DEF RequestWrite, TaskTypeOK
    <3>2. Append(selectorTasks, target[c]) \in Seq(Conns)
      BY <3>1, AppendProperties
    <3> QED BY <2>2, <3>2 DEF RequestWrite, Ask
  <2>3. CASE Wake(c)
    BY <2>3 DEF Wake, Awake
  <2> QED BY <2>1, <2>2, <2>3
          DEF TaskStep, StartTask, EndTask, NextFrame, Send, QueueFrame, Logout,
              RemoveHandler, requests
<1>4. TaskTypeOK'
  <2> USE DEF TaskTypeOK, pool
  <2>1. CASE StartTask(c)
    <3>1. Head(waiting[c]) \in Nat /\ Tail(waiting[c]) \in Seq(Nat)
      BY <2>1, HeadTailProperties DEF StartTask, Pool!Start
    <3> QED BY <2>1, <3>1 DEF StartTask, Pool!Start
  <2>2. CASE EndTask(c)
    BY <2>2 DEF EndTask, Pool!Finish
  <2>3. CASE NextFrame(c)
    BY <2>3 DEF NextFrame
  <2>4. CASE Send(c)
    BY <2>4 DEF Send, HandlerTypeOK
  <2>5. CASE QueueFrame(c)
    BY <2>5 DEF QueueFrame
  <2>6. CASE RequestWrite(c)
    BY <2>6 DEF RequestWrite
  <2>7. CASE Wake(c)
    BY <2>7 DEF Wake
  <2>8. CASE Logout(c)
    BY <2>8 DEF Logout
  <2>9. CASE RemoveHandler(c)
    BY <2>9 DEF RemoveHandler
  <2> QED BY <2>1, <2>2, <2>3, <2>4, <2>5, <2>6, <2>7, <2>8, <2>9 DEF TaskStep
<1> QED BY <1>1, <1>2, <1>3, <1>4

----------------------------------------------------------------------------
(* What the invariant adds to the types.                                   *)

\* What a step does to a connection that is not accepted yet, or to those that
\* are: a connection is never made anew.
LEMMA UnbornStep ==
    ASSUME TypeOK, Unborn, Next
    PROVE  Unborn'
<1> SUFFICES ASSUME NEW d \in Conns, chan'[d] = "new"
             PROVE  /\ d \notin handlers' /\ writeQueue'[d] = 0
                    /\ waiting'[d] = << >> /\ step'[d] = "idle"
                    /\ \A w \in Conns : target'[w] # d
  BY DEF Unborn
<1> USE DEF TypeOK
<1>1. CASE SelectorStep
  <2>1. UNCHANGED <<step, target>>
    BY <1>1 DEF SelectorStep, Select, RunTask, TasksDone, KeysDone, AcceptFails, Accept,
         NextKey, IsReadable, Read, IsValid, IsWritable, WriteFrame, WritePart, WriteFails,
         WriteDone, Emptied, Reset, work
  <2>2. chan[d] = "new"
    BY <1>1 DEF SelectorStep, Select, RunTask, TasksDone, KeysDone, AcceptFails, Accept,
         NextKey, IsReadable, Read, IsValid, IsWritable, WriteFrame, WritePart, WriteFails,
         WriteDone, Emptied, Reset, HandlerTypeOK, Close
  <2>3. d \notin handlers /\ writeQueue[d] = 0 /\ waiting[d] = << >>
    BY <2>2 DEF Unborn
  <2>4. d \notin handlers'
    <3>1. ASSUME NEW c \in Conns, Accept(c) PROVE d \notin handlers'
      BY <2>3, <3>1 DEF Accept, HandlerTypeOK
    <3> QED BY <1>1, <2>3, <3>1
      DEF SelectorStep, Select, RunTask, TasksDone, KeysDone, AcceptFails, NextKey,
          IsReadable, Read, IsValid, IsWritable, WriteFrame, WritePart, WriteFails, WriteDone,
          Emptied, Reset
  <2>5. writeQueue'[d] = 0
    <3>1. CASE WriteFrame
      BY <2>3, <3>1 DEF WriteFrame, HandlerTypeOK
    <3> QED BY <1>1, <2>3, <3>1
      DEF SelectorStep, Select, RunTask, TasksDone, KeysDone, AcceptFails, Accept, NextKey,
          IsReadable, Read, IsValid, IsWritable, WritePart, WriteFails, WriteDone, Emptied,
          Reset, mail
  <2>6. waiting'[d] = << >>
    <3>1. CASE Read
      <4>1. CASE UNCHANGED pool
        BY <2>3, <4>1 DEF pool
      <4>2. CASE UNCHANGED chan /\ chan[key] = "open"
                   /\ \E frames \in 1 .. inbox[key] : Pool!Submit(key, frames)
        BY <2>2, <2>3, <4>2 DEF Pool!Submit, TaskTypeOK
      <4> QED BY <3>1, <4>1, <4>2 DEF Read
    <3>2. CASE AcceptFails
      BY <2>3, <3>2 DEF AcceptFails, Pool!Shutdown, Pool!Dropped
    <3> QED BY <1>1, <2>3, <3>1, <3>2
      DEF SelectorStep, Select, RunTask, TasksDone, KeysDone, Accept, NextKey, IsReadable,
          IsValid, IsWritable, WriteFrame, WritePart, WriteFails, WriteDone, Emptied, Reset,
          pool
  <2> QED BY <2>1, <2>2, <2>4, <2>5, <2>6 DEF Unborn
<1>2. ASSUME NEW c \in Conns, ClientSends(c) \/ ClientLeaves(c)
      PROVE  /\ d \notin handlers' /\ writeQueue'[d] = 0
             /\ waiting'[d] = << >> /\ step'[d] = "idle"
             /\ \A w \in Conns : target'[w] # d
  BY <1>2 DEF ClientSends, ClientLeaves, Unborn, mail, pool, work
<1>3. ASSUME NEW c \in Conns, TaskStep(c)
      PROVE  /\ d \notin handlers' /\ writeQueue'[d] = 0
             /\ waiting'[d] = << >> /\ step'[d] = "idle"
             /\ \A w \in Conns : target'[w] # d
  <2>1. chan[d] = "new"
    BY <1>3 DEF TaskStep, StartTask, EndTask, NextFrame, Send, QueueFrame, RequestWrite,
         Wake, Logout, RemoveHandler, HandlerTypeOK, Close
  <2>2. /\ d \notin handlers /\ writeQueue[d] = 0
        /\ waiting[d] = << >> /\ step[d] = "idle"
        /\ \A w \in Conns : target[w] # d
    BY <2>1 DEF Unborn
  <2>3. c # d
    BY <1>3, <2>2 DEF TaskStep, StartTask, Pool!Start, EndTask, NextFrame, Send, QueueFrame,
         RequestWrite, Wake, Logout, RemoveHandler
  <2>4. step'[d] = "idle"
    BY <1>3, <2>2, <2>3 DEF TaskStep, StartTask, EndTask, NextFrame, Send, QueueFrame,
         RequestWrite, Wake, Logout, RemoveHandler, At, TaskTypeOK
  <2>5. waiting'[d] = << >>
    BY <1>3, <2>2, <2>3 DEF TaskStep, StartTask, Pool!Start, EndTask, Pool!Finish, NextFrame,
         Send, QueueFrame, RequestWrite, Wake, Logout, RemoveHandler, pool, TaskTypeOK
  <2>6. d \notin handlers' /\ writeQueue'[d] = 0
    <3>1. CASE QueueFrame(c)
      BY <2>2, <3>1 DEF QueueFrame, HandlerTypeOK
    <3> QED BY <1>3, <2>2, <3>1 DEF TaskStep, StartTask, EndTask, NextFrame, Send,
         RequestWrite, Wake, Logout, RemoveHandler, mail
  <2>7. ASSUME NEW w \in Conns PROVE target'[w] # d
    <3>1. CASE Send(c)
      BY <2>2, <2>3, <3>1 DEF Send, TaskTypeOK
    <3>2. CASE Wake(c)
      BY <2>2, <3>2, ReactorAssumption DEF Wake, TaskTypeOK
    <3> QED BY <1>3, <2>2, <3>1, <3>2 DEF TaskStep, StartTask, EndTask, NextFrame,
         QueueFrame, RequestWrite, Logout, RemoveHandler
  <2> QED BY <2>4, <2>5, <2>6, <2>7
<1> QED BY <1>1, <1>2, <1>3 DEF Next

LEMMA AtRestStep ==
    ASSUME TypeOK, AtRest, Next
    PROVE  AtRest'
<1> USE DEF TypeOK, TaskTypeOK, AtRest
<1>1. CASE SelectorStep
  BY <1>1 DEF SelectorStep, Select, RunTask, TasksDone, KeysDone, AcceptFails, Accept,
       NextKey, IsReadable, Read, IsValid, IsWritable, WriteFrame, WritePart, WriteFails,
       WriteDone, Emptied, Reset, work, pool, Pool!Submit, Pool!Shutdown
<1>2. ASSUME NEW c \in Conns, ClientSends(c) \/ ClientLeaves(c) PROVE AtRest'
  BY <1>2 DEF ClientSends, ClientLeaves, pool, work
<1>3. ASSUME NEW c \in Conns, TaskStep(c) PROVE AtRest'
  <2>1. CASE StartTask(c)
    <3>1. Head(waiting[c]) \in Nat
      BY <2>1, HeadTailProperties DEF StartTask, Pool!Start
    <3>2. running'[c] # None
      BY <2>1, <3>1, ReactorAssumption DEF StartTask, Pool!Start
    <3> QED BY <2>1, <3>2 DEF StartTask, Pool!Start, At
  <2>2. CASE EndTask(c)
    BY <2>2 DEF EndTask, Pool!Finish, At
  <2>3. CASE UNCHANGED running /\ step[c] # "idle"
    <3>1. \A w \in Conns : w # c => step'[w] = step[w]
      BY <1>3 DEF TaskStep, StartTask, EndTask, NextFrame, Send, QueueFrame, RequestWrite,
         Wake, Logout, RemoveHandler, At
    <3> QED BY <2>3, <3>1
  <2> QED BY <1>3, <2>1, <2>2, <2>3 DEF TaskStep, NextFrame, Send, QueueFrame, RequestWrite,
         Wake, Logout, RemoveHandler, pool
<1> QED BY <1>1, <1>2, <1>3 DEF Next

\* Only Select drops a wakeup, and runSelectionThreadTasks comes next; between
\* a worker's add to selectorTasks and its wakeup stands only its own step.
LEMMA TasksSeenStep ==
    ASSUME TypeOK, AtRest, TasksSeen, Next
    PROVE  TasksSeen'
<1> USE DEF TasksSeen
<1>1. CASE SelectorStep
  <2>1. UNCHANGED step
    BY <1>1 DEF SelectorStep, Select, RunTask, TasksDone, KeysDone, AcceptFails, Accept,
         NextKey, IsReadable, Read, IsValid, IsWritable, WriteFrame, WritePart, WriteFails,
         WriteDone, Emptied, Reset, work
  <2>2. CASE Select
    BY <2>2 DEF Select
  <2>3. CASE RunTask
    BY <2>3 DEF RunTask, Goto, Die, Quit
  <2>4. CASE TasksDone
    BY <2>4 DEF TasksDone, requests
  <2>5. CASE AcceptFails
    BY <2>5 DEF AcceptFails, Quit
  <2>6. CASE UNCHANGED requests /\ pc \notin {"tasks", "dead", "ended"}
    BY <2>1, <2>6 DEF requests
  <2> QED BY <1>1, <2>2, <2>3, <2>4, <2>5, <2>6
      DEF SelectorStep, KeysDone, Accept, NextKey, IsReadable, Read, IsValid, IsWritable,
          WriteFrame, WritePart, WriteFails, WriteDone, Emptied, Reset
<1>2. ASSUME NEW c \in Conns, ClientSends(c) \/ ClientLeaves(c) PROVE TasksSeen'
  BY <1>2 DEF ClientSends, ClientLeaves, requests, selection, work
<1>3. ASSUME NEW c \in Conns, TaskStep(c) PROVE TasksSeen'
  <2>1. pc' = pc /\ step \in [Conns -> {"idle", "frame", "add", "ops", "wake", "remove"}]
    BY <1>3 DEF TaskStep, StartTask, EndTask, NextFrame, Send, QueueFrame, RequestWrite,
         Wake, Logout, RemoveHandler, selection, TypeOK, TaskTypeOK
  <2>2. CASE RequestWrite(c)
    <3>1. step'[c] = "wake"
      BY <2>1, <2>2 DEF RequestWrite, At
    <3> QED BY <3>1
  <2>3. CASE Wake(c)
    BY <2>3 DEF Wake, Awake
  <2>4. CASE UNCHANGED requests /\ step[c] # "wake"
    <3>1. \A w \in Conns : w # c => step'[w] = step[w]
      BY <1>3, <2>1 DEF TaskStep, StartTask, EndTask, NextFrame, Send, QueueFrame,
         RequestWrite, Wake, Logout, RemoveHandler, At
    <3> QED BY <2>1, <2>4, <3>1 DEF requests
  <2> QED BY <1>3, <2>2, <2>3, <2>4 DEF TaskStep, StartTask, EndTask, NextFrame, Send,
         QueueFrame, Logout, RemoveHandler, AtRest, Pool!Start
<1> QED BY <1>1, <1>2, <1>3 DEF Next

\* The handshake itself.  A frame comes into a queue with a request pending
\* (QueueFrame); a request becomes an element of selectorTasks (RequestWrite),
\* and that becomes the interest (RunTask).  The interest goes only by Reset,
\* after Emptied has seen the queue empty: whatever a worker has added since is
\* requested, and its request stands until the selector is done with the key.
LEMMA NoFrameForgottenStep ==
    ASSUME Inv, Next, TypeOK'
    PROVE  NoFrameForgotten'
<1> USE DEF Inv, TypeOK
<1> SUFFICES ASSUME NEW d \in Conns, chan'[d] = "open", writeQueue'[d] > 0,
                    ~Requested(d)'
             PROVE  "write" \in interest'[d] /\ ~(pc' = "reset" /\ key' = d)
  BY DEF NoFrameForgotten
<1>1. ASSUME NEW c \in Conns, ClientSends(c) \/ ClientLeaves(c)
      PROVE  "write" \in interest'[d] /\ ~(pc' = "reset" /\ key' = d)
  BY <1>1 DEF ClientSends, ClientLeaves, mail, requests, selection, work, NoFrameForgotten,
       Requested
<1>2. ASSUME NEW c \in Conns, TaskStep(c)
      PROVE  "write" \in interest'[d] /\ ~(pc' = "reset" /\ key' = d)
  <2>1. UNCHANGED <<interest, pc, key>> /\ chan[d] = "open"
    BY <1>2 DEF TaskStep, StartTask, EndTask, NextFrame, Send, QueueFrame, RequestWrite, Ask,
         Wake, Logout, RemoveHandler, selection, HandlerTypeOK, Close
  <2>2. ~Requested(d)
    <3>1. CASE RequestWrite(c)
      <4>1. target[c] \in Conns /\ selectorTasks \in Seq(Conns)
        BY <3>1 DEF RequestWrite, TaskTypeOK, SelectorTypeOK
      <4>2. selectorTasks' = Append(selectorTasks, target[c])
        BY <3>1 DEF RequestWrite, Ask
      <4>3. /\ Len(selectorTasks) \in Nat
            /\ Len(selectorTasks') = Len(selectorTasks) + 1
            /\ \A k \in 1 .. Len(selectorTasks) : selectorTasks'[k] = selectorTasks[k]
            /\ selectorTasks'[Len(selectorTasks) + 1] = target[c]
        BY <4>1, <4>2, AppendProperties, LenProperties
      <4>4. target[c] # d
        BY <4>3 DEF Requested
      <4>5. \A k \in 1 .. Len(selectorTasks) : selectorTasks[k] # d
        BY <4>3 DEF Requested
      <4>6. \A w \in Conns : w # c => step'[w] = step[w] /\ target'[w] = target[w]
        BY <3>1 DEF RequestWrite, At, TaskTypeOK
      <4> QED BY <4>4, <4>5, <4>6 DEF Requested
    <3>2. CASE ~RequestWrite(c)
      <4>1. UNCHANGED selectorTasks
        BY <1>2, <3>2 DEF TaskStep, StartTask, EndTask, NextFrame, Send, QueueFrame, Wake,
             Logout, RemoveHandler, requests
      <4>2. step[c] # "ops"
        BY <1>2, <3>2 DEF TaskStep, StartTask, EndTask, NextFrame, Send, QueueFrame, Wake,
             Logout, RemoveHandler, AtRest, Pool!Start
      <4>3. \A w \in Conns : w # c => step'[w] = step[w] /\ target'[w] = target[w]
        <5>1. CASE StartTask(c) \/ EndTask(c) \/ NextFrame(c) \/ Send(c)
          BY <5>1 DEF StartTask, EndTask, NextFrame, Send, At, TaskTypeOK
        <5>2. CASE QueueFrame(c) \/ RequestWrite(c) \/ Wake(c) \/ Logout(c) \/ RemoveHandler(c)
          BY <5>2 DEF QueueFrame, RequestWrite, Wake, Logout, RemoveHandler, At, TaskTypeOK
        <5> QED BY <1>2, <5>1, <5>2 DEF TaskStep
      <4> QED BY <4>1, <4>2, <4>3 DEF Requested
    <3> QED BY <3>1, <3>2
  <2>3. writeQueue[d] > 0
    <3>1. CASE QueueFrame(c)
      <4>1. step'[c] = "ops" /\ target'[c] = target[c]
        BY <3>1 DEF QueueFrame, At, TaskTypeOK
      <4>2. target[c] # d
        BY <4>1 DEF Requested
      <4> QED BY <3>1, <4>2 DEF QueueFrame, HandlerTypeOK
    <3>2. CASE ~QueueFrame(c)
      BY <1>2, <3>2 DEF TaskStep, StartTask, EndTask, NextFrame, Send, RequestWrite, Wake,
           Logout, RemoveHandler, mail
    <3> QED BY <3>1, <3>2
  <2> QED BY <2>1, <2>2, <2>3 DEF NoFrameForgotten
<1>3. CASE SelectorStep
  <2>1. UNCHANGED <<step, target>>
    BY <1>3 DEF SelectorStep, Select, RunTask, TasksDone, KeysDone, AcceptFails, Accept,
         NextKey, IsReadable, Read, IsValid, IsWritable, WriteFrame, WritePart, WriteFails,
         WriteDone, Emptied, Reset, work
  <2>2. CASE RunTask
    <3>1. /\ Head(selectorTasks) \in Conns /\ Len(selectorTasks) \in Nat
          /\ selectorTasks' = Tail(selectorTasks)
          /\ Len(Tail(selectorTasks)) = Len(selectorTasks) - 1
          /\ \A k \in 1 .. Len(Tail(selectorTasks)) :
                 Tail(selectorTasks)[k] = selectorTasks[k + 1]
          /\ Head(selectorTasks) = selectorTasks[1]
      BY <2>2, HeadTailProperties, LenProperties DEF RunTask, SelectorTypeOK
    <3>2. pc' # "reset" /\ UNCHANGED <<chan, writeQueue>>
      BY <2>2 DEF RunTask, Goto, Die, Quit, mail
    <3>3. CASE Head(selectorTasks) = d
      BY <2>2, <3>2, <3>3 DEF RunTask, HandlerTypeOK
    <3>4. CASE Head(selectorTasks) # d
      <4>1. \A k \in 1 .. Len(selectorTasks) : selectorTasks[k] # d
        <5>1. SUFFICES ASSUME NEW k \in 1 .. Len(selectorTasks), selectorTasks[k] = d
                       PROVE  FALSE
          OBVIOUS
        <5>2. k # 1
          BY <3>1, <3>4, <5>1
        <5>3. k - 1 \in 1 .. Len(Tail(selectorTasks)) /\ (k - 1) + 1 = k
          BY <3>1, <5>2
        <5>4. selectorTasks'[k - 1] = d
          BY <3>1, <5>1, <5>3
        <5> QED BY <3>1, <5>3, <5>4 DEF Requested
      <4>2. ~Requested(d)
        BY <2>1, <4>1 DEF Requested
      <4>3. "write" \in interest[d] /\ interest'[d] = interest[d]
        BY <2>2, <3>2, <3>4, <4>2 DEF RunTask, NoFrameForgotten, HandlerTypeOK
      <4> QED BY <3>2, <4>3
    <3> QED BY <3>3, <3>4
  <2>3. CASE ~RunTask
    <3>1. UNCHANGED selectorTasks
      BY <1>3, <2>3 DEF SelectorStep, Select, TasksDone, KeysDone, AcceptFails, Accept,
         NextKey, IsReadable, Read, IsValid, IsWritable, WriteFrame, WritePart, WriteFails,
         WriteDone, Emptied, Reset, requests
    <3>2. ~Requested(d)
      BY <2>1, <3>1 DEF Requested
    <3>3. writeQueue[d] > 0
      <4>1. CASE WriteFrame
        BY <4>1 DEF WriteFrame, HandlerTypeOK, SelectorTypeOK, KeySteps
      <4>2. CASE ~WriteFrame
        BY <1>3, <2>3, <4>2 DEF SelectorStep, Select, TasksDone, KeysDone, AcceptFails,
         Accept, NextKey, IsReadable, Read, IsValid, IsWritable, WritePart, WriteFails,
         WriteDone, Emptied, Reset, mail
      <4> QED BY <4>1, <4>2
    <3>4. chan[d] = "open"
      <4>1. ASSUME NEW c \in Conns, Accept(c) PROVE chan[d] = "open"
        BY <3>3, <4>1 DEF Accept, Unborn, HandlerTypeOK
      <4> QED BY <1>3, <2>3, <4>1 DEF SelectorStep, Select, TasksDone, KeysDone, AcceptFails,
         NextKey, IsReadable, Read, IsValid, IsWritable, WriteFrame, WritePart, WriteFails,
         WriteDone, Emptied, Reset, HandlerTypeOK, Close
    <3>5. "write" \in interest[d] /\ ~(pc = "reset" /\ key = d)
      BY <3>2, <3>3, <3>4 DEF NoFrameForgotten
    <3>6. "write" \in interest'[d]
      <4>1. ASSUME NEW c \in Conns, Accept(c) PROVE interest'[d] = interest[d]
        BY <3>4, <4>1 DEF Accept, HandlerTypeOK
      <4>2. CASE Reset
        BY <3>5, <4>2 DEF Reset, HandlerTypeOK
      <4> QED BY <1>3, <2>3, <3>5, <4>1, <4>2 DEF SelectorStep, Select, TasksDone, KeysDone,
         AcceptFails, NextKey, IsReadable, Read, IsValid, IsWritable, WriteFrame, WritePart,
         WriteFails, WriteDone, Emptied
    <3>7. ~(pc' = "reset" /\ key' = d)
      <4>1. CASE Emptied
        BY <3>3, <4>1 DEF Emptied, Goto, KeyDone
      <4> QED BY <1>3, <2>3, <3>5, <4>1 DEF SelectorStep, Select, TasksDone, KeysDone,
         AcceptFails, Accept, NextKey, IsReadable, Read, IsValid, IsWritable, WriteFrame,
         WritePart, WriteFails, WriteDone, Reset, Goto, KeyDone, Quit, Die
    <3> QED BY <3>6, <3>7
  <2> QED BY <2>2, <2>3
<1> QED BY <1>1, <1>2, <1>3 DEF Next

----------------------------------------------------------------------------
(* The invariant, and what follows from it.                                *)

LEMMA InvInit == Init => Inv
<1> SUFFICES ASSUME Init PROVE Inv
  OBVIOUS
<1>1. TypeOK
  BY InitTypes
<1>2. Unborn /\ AtRest
  BY ReactorAssumption DEF Init, Pool!Init, Unborn, AtRest
<1>3. NoFrameForgotten
  BY DEF Init, NoFrameForgotten
<1>4. TasksSeen
  BY DEF Init, TasksSeen
<1> QED BY <1>1, <1>2, <1>3, <1>4 DEF Inv

LEMMA InvStep == Inv /\ [Next]_vars => Inv'
<1> SUFFICES ASSUME Inv, [Next]_vars PROVE Inv'
  OBVIOUS
<1>1. CASE Next
  <2>1. TypeOK'
    BY <1>1, ClientTypes, SelectorTypes, TaskTypes DEF Inv, Next
  <2>2. Unborn' /\ AtRest' /\ TasksSeen'
    BY <1>1, UnbornStep, AtRestStep, TasksSeenStep DEF Inv
  <2>3. NoFrameForgotten'
    BY <1>1, <2>1, NoFrameForgottenStep
  <2> QED BY <2>1, <2>2, <2>3 DEF Inv
<1>2. CASE UNCHANGED vars
  BY <1>2 DEF Inv, TypeOK, ClientTypeOK, HandlerTypeOK, SelectorTypeOK, TaskTypeOK, Unborn,
       AtRest, NoFrameForgotten, Requested, TasksSeen, vars, network, mail, requests,
       selection, pool, work
<1> QED BY <1>1, <1>2

\* The inductive invariant holds in every state of the reactor.
THEOREM InvHolds == Spec => []Inv
  BY InvInit, InvStep, PTL DEF Spec

\* No lost request: in every interleaving of the selector thread with any number
\* of workers, a frame queued for an open channel is one the selector waits to
\* write or is about to be asked to (continueWrite, send, updateInterestedOps).
THEOREM NoLostRequest == Spec => []NoFrameForgotten
<1>1. Inv => NoFrameForgotten
  BY DEF Inv
<1> QED BY InvHolds, <1>1, PTL

\* No lost wakeup: the selector thread never goes into select() with a task in
\* selectorTasks and nobody about to wake it.
THEOREM NoLostWakeup == Spec => []NoSleepOverTasks
<1>1. Inv => NoSleepOverTasks
  BY DEF Inv, TasksSeen, NoSleepOverTasks
<1> QED BY InvHolds, <1>1, PTL
=============================================================================
