-------------------------- MODULE ActorThreadPool --------------------------
(***************************************************************************)
(* The thread pool of the reactor.  The selector thread submits one task   *)
(* per read of a connection, with the connection's handler as the actor;   *)
(* complete(act) of the worker that ran a task sends the actor's next one  *)
(* to the executor.  Both hold the actor's monitor.  The executor is a     *)
(* FIFO queue served by a fixed set of threads; a task that throws runs    *)
(* complete in its finally block like any other, and the executor replaces *)
(* the thread.                                                             *)
(***************************************************************************)
EXTENDS Integers, Sequences

CONSTANTS
    Actors,
    Workers,      \* the threads of the executor
    Selector,     \* the thread that submits
    None,
    MaxTasks      \* tasks submitted per actor (bound)

Threads == Workers \cup {Selector}
Tasks == 1 .. MaxTasks    \* the k-th task submitted for an actor

ASSUME PoolAssumption ==
    /\ MaxTasks \in Nat
    /\ Selector \notin Workers
    /\ None \notin Workers \cup {Selector} /\ None \notin Actors /\ None \notin Tasks
    /\ None \notin Seq(Tasks)

VARIABLES
    acts,         \* actor -> its pending tasks, or None if it has no queue yet
    playingNow,   \* actors with a task in the executor
    threads,      \* the executor's queue, of [act, task]
    monitor,      \* actor -> the thread inside synchronized (act), or None
    pc, act, task,  \* where each thread is, and for which actor and task
    submitted,    \* tasks submitted per actor
    stopped       \* shutdown() was called

vars == <<acts, playingNow, threads, monitor, pc, act, task, submitted, stopped>>

Init ==
    /\ acts = [a \in Actors |-> None]
    /\ playingNow = {}
    /\ threads = << >>
    /\ monitor = [a \in Actors |-> None]
    /\ pc = [th \in Threads |-> "idle"]
    /\ act = [th \in Threads |-> None]
    /\ task = [th \in Threads |-> None]
    /\ submitted = [a \in Actors |-> 0]
    /\ stopped = FALSE

----------------------------------------------------------------------------
Goto(th, step) == pc' = [pc EXCEPT ![th] = step]

\* MUTANT: submit and complete are not synchronized.
LockAnyway(th) == monitor' = [monitor EXCEPT ![act[th]] = th]

\* The monitor of the thread's actor, taken and given back.  A thread that
\* gives it back has left submit or complete.
Lock(th) ==
    /\ monitor[act[th]] = None
    /\ monitor' = [monitor EXCEPT ![act[th]] = th]

Unlock(th) ==
    /\ monitor' = [monitor EXCEPT ![act[th]] = None]
    /\ Goto(th, "idle")
    /\ act' = [act EXCEPT ![th] = None]
    /\ task' = [task EXCEPT ![th] = None]

\* threads.execute: after shutdownNow it throws RejectedExecutionException,
\* and the task is gone.
Execute(a, t) ==
    threads' = IF stopped THEN threads ELSE Append(threads, [act |-> a, task |-> t])

\* The selector has read from a connection and hands the task over.
Submit(a) ==
    /\ pc[Selector] = "idle"
    /\ submitted[a] < MaxTasks
    /\ submitted' = [submitted EXCEPT ![a] = @ + 1]
    /\ act' = [act EXCEPT ![Selector] = a]
    /\ task' = [task EXCEPT ![Selector] = submitted[a] + 1]
    /\ Goto(Selector, "enter")
    /\ UNCHANGED <<acts, playingNow, threads, monitor, stopped>>

\* After the selector's loop: shutdownNow() empties the executor's queue.
Shutdown ==
    /\ pc[Selector] = "idle"
    /\ Goto(Selector, "ended")
    /\ stopped' = TRUE
    /\ threads' = << >>
    /\ UNCHANGED <<acts, playingNow, monitor, act, task, submitted>>

\* synchronized (act)
Enter(th) ==
    /\ pc[th] = "enter"
    /\ Lock(th)
    /\ Goto(th, IF th = Selector THEN "test" ELSE "lookup")
    /\ UNCHANGED <<acts, playingNow, threads, act, task, submitted, stopped>>

\* playingNow.contains(act)
Test(th) ==
    /\ pc[th] = "test"
    /\ Goto(th, IF act[th] \in playingNow THEN "lookup" ELSE "start")
    /\ UNCHANGED <<acts, playingNow, threads, monitor, act, task, submitted, stopped>>

\* playingNow.add(act) and execute(r, act)
StartPlaying(th) ==
    /\ pc[th] = "start"
    /\ playingNow' = playingNow \cup {act[th]}
    /\ Execute(act[th], task[th])
    /\ Unlock(th)
    /\ UNCHANGED <<acts, submitted, stopped>>

\* What pendingRunnablesOf is called for.
AfterLookup(th) == IF th = Selector THEN "pend" ELSE "next"

\* acts.get(act), under the read lock
Lookup(th) ==
    /\ pc[th] = "lookup"
    /\ Goto(th, IF acts[act[th]] = None THEN "make" ELSE AfterLookup(th))
    /\ UNCHANGED <<acts, playingNow, threads, monitor, act, task, submitted, stopped>>

\* acts.put(act, new LinkedList), under the write lock
Make(th) ==
    /\ pc[th] = "make"
    /\ acts' = [acts EXCEPT ![act[th]] = << >>]
    /\ Goto(th, AfterLookup(th))
    /\ UNCHANGED <<playingNow, threads, monitor, act, task, submitted, stopped>>

\* pendingRunnablesOf(act).add(r)
Pend(th) ==
    /\ pc[th] = "pend"
    /\ acts' = [acts EXCEPT ![act[th]] = Append(@, task[th])]
    /\ Unlock(th)
    /\ UNCHANGED <<playingNow, threads, submitted, stopped>>

\* MUTANT: the actor plays on although nothing is pending.
DoneForgotten(th) == playingNow

Done(th) == playingNow \ {act[th]}

\* The rest of complete: the next pending task, or none.
Complete(th) ==
    LET a == act[th] IN
    /\ pc[th] = "next"
    /\ \/ /\ acts[a] = << >>
          /\ playingNow' = Done(th)
          /\ UNCHANGED <<acts, threads>>
       \/ /\ acts[a] # << >>
          /\ acts' = [acts EXCEPT ![a] = Tail(@)]
          /\ Execute(a, Head(acts[a]))
          /\ UNCHANGED playingNow
    /\ Unlock(th)
    /\ UNCHANGED <<submitted, stopped>>

\* An idle thread of the executor takes the first task of its queue.
Take(th) ==
    /\ pc[th] = "idle"
    /\ threads # << >>
    /\ act' = [act EXCEPT ![th] = Head(threads).act]
    /\ task' = [task EXCEPT ![th] = Head(threads).task]
    /\ threads' = Tail(threads)
    /\ Goto(th, "run")
    /\ UNCHANGED <<acts, playingNow, monitor, submitted, stopped>>

\* r.run() returns or throws.
RunTask(th) ==
    /\ pc[th] = "run"
    /\ Goto(th, "enter")
    /\ UNCHANGED <<acts, playingNow, threads, monitor, act, task, submitted, stopped>>

InPool(th) ==
    \/ Enter(th) \/ Test(th) \/ StartPlaying(th) \/ Lookup(th) \/ Make(th)
    \/ Pend(th) \/ Complete(th)

Next ==
    \/ Shutdown
    \/ \E a \in Actors : Submit(a)
    \/ \E th \in Threads : InPool(th)
    \/ \E w \in Workers : Take(w) \/ RunTask(w)

Spec == Init /\ [][Next]_vars

\* Every thread is scheduled, tasks end, and an idle worker takes what is
\* queued.  A free monitor goes to some waiting thread, and not fairly.
Fairness ==
    /\ \A th \in Threads : WF_vars(InPool(th))
    /\ \A w \in Workers : WF_vars(Take(w)) /\ WF_vars(RunTask(w))
FairSpec == Spec /\ Fairness

----------------------------------------------------------------------------
(* What the pool keeps true.                                               *)

Queue(a) == IF acts[a] = None THEN << >> ELSE acts[a]

InMonitor == {"test", "start", "lookup", "make", "pend", "next"}
Busy == {"run", "enter", "lookup", "make", "next"}

TypeOK ==
    /\ acts \in [Actors -> Seq(Tasks) \cup {None}]
    /\ playingNow \subseteq Actors
    /\ threads \in Seq([act: Actors, task: Tasks])
    /\ monitor \in [Actors -> Threads \cup {None}]
    /\ pc \in [Threads -> InMonitor \cup {"idle", "enter", "run", "ended"}]
    /\ \A w \in Workers : pc[w] \in Busy \cup {"idle"}
    /\ pc[Selector] \notin {"run", "next"}
    /\ act \in [Threads -> Actors \cup {None}]
    /\ task \in [Threads -> Tasks \cup {None}]
    /\ \A th \in Threads : pc[th] \notin {"idle", "ended"} =>
          act[th] \in Actors /\ task[th] \in Tasks
    /\ submitted \in [Actors -> 0 .. MaxTasks]
    /\ stopped \in BOOLEAN

\* A thread is between the monitor's entry and exit exactly while it holds it.
MonitorHeld ==
    \A th \in Threads, a \in Actors :
        monitor[a] = th <=> pc[th] \in InMonitor /\ act[th] = a

\* The tasks of an actor that are in the executor's queue or on a worker, its
\* completion included, are never two.
OneInExecutor ==
    /\ \A j, k \in DOMAIN threads : threads[j].act = threads[k].act => j = k
    /\ \A v, w \in Workers :
          pc[v] # "idle" /\ pc[w] # "idle" /\ act[v] = act[w] => v = w
    /\ \A k \in DOMAIN threads, w \in Workers :
          pc[w] # "idle" => threads[k].act # act[w]

InExecutor(a) ==
    \/ \E k \in DOMAIN threads : threads[k].act = a
    \/ \E w \in Workers : pc[w] # "idle" /\ act[w] = a

\* playingNow names the actors with a task in the executor (after a shutdown
\* also those whose task was dropped), and the answer of contains stays true
\* until submit has acted on it.
PlayingExact ==
    /\ \A a \in Actors : InExecutor(a) => a \in playingNow
    /\ ~stopped => \A a \in playingNow : InExecutor(a)
    /\ pc[Selector] = "start" => act[Selector] \notin playingNow
    /\ pc[Selector] \in {"lookup", "make", "pend"} => act[Selector] \in playingNow

\* A task only pends behind one that is in the executor and will fetch it.
PendingServed ==
    /\ \A a \in Actors : Queue(a) # << >> => a \in playingNow
    /\ \A th \in Threads : pc[th] \in {"next", "pend"} => acts[act[th]] # None

\* pendingRunnablesOf puts a new queue only where there is still none: its get
\* and its put are separate calls, and a queue made in between would be lost.
NoQueueReplaced ==
    \A th \in Threads : pc[th] = "make" => acts[act[th]] = None

StopIsFinal ==
    stopped <=> pc[Selector] = "ended"

\* Serialisation of the tasks of one handler: the inductive invariant of the
\* pool.  A worker between two calls of complete, a selector between contains
\* and add, and the executor's own queue together never hold two tasks of one
\* actor, and never none while one pends.
Serialised ==
    /\ TypeOK
    /\ MonitorHeld
    /\ OneInExecutor
    /\ PlayingExact
    /\ PendingServed
    /\ NoQueueReplaced
    /\ StopIsFinal
    /\ stopped => threads = << >>

----------------------------------------------------------------------------
(* The pool is a serial executor.                                          *)

\* The task of an actor in a queue that holds at most one.
TaskIn(q, a) ==
    IF \E k \in DOMAIN q : q[k].act = a
    THEN << q[CHOOSE k \in DOMAIN q : q[k].act = a].task >>
    ELSE << >>

Waiting == [a \in Actors |-> TaskIn(threads, a) \o Queue(a)]

Runners(a) == {w \in Workers : pc[w] = "run" /\ act[w] = a}

Running ==
    [a \in Actors |-> IF Runners(a) = {} THEN None
                      ELSE task[CHOOSE w \in Runners(a) : TRUE]]

Serial == INSTANCE SerialExecutor WITH
    waiting <- Waiting, running <- Running, stopped <- stopped

\* One at a time per handler, in the order the selector read, none lost, and
\* each started and finished in the end: the pool as SerialExecutor.
IsSerialExecutor == Serial!FairSpec
=============================================================================
