----------------------- MODULE ActorThreadPoolProofs -----------------------
(* The pool serialises the tasks of every actor, whatever the numbers of   *)
(* actors, workers and tasks, and implements SerialExecutor.               *)
EXTENDS ActorThreadPool, SequenceTheorems, TLAPS

\* Who acts in a step, and what a step of another thread leaves alone.
Step(th) == InPool(th) \/ (th \in Workers /\ (Take(th) \/ RunTask(th)))

LEMMA NextCases ==
    ASSUME [Next]_vars
    PROVE  \/ UNCHANGED vars \/ Shutdown \/ (\E a \in Actors : Submit(a))
           \/ \E th \in Threads : Step(th)
BY DEF Next, Step, Threads

----------------------------------------------------------------------------
Entries == [act: Actors, task: Tasks]

LEMMA HeadAndTail ==
    ASSUME NEW S, NEW s \in Seq(S), s # << >>
    PROVE  /\ Head(s) \in S /\ Tail(s) \in Seq(S)
           /\ 1 \in DOMAIN s /\ Head(s) = s[1]
           /\ \A k \in DOMAIN Tail(s) : k + 1 \in DOMAIN s /\ Tail(s)[k] = s[k + 1]
           /\ \A k \in DOMAIN s : k = 1 \/ (k - 1 \in DOMAIN Tail(s) /\ Tail(s)[k - 1] = s[k])
OBVIOUS

LEMMA Appended ==
    ASSUME NEW S, NEW s \in Seq(S), NEW e \in S
    PROVE  /\ Append(s, e) \in Seq(S)
           /\ \A k \in DOMAIN s : k \in DOMAIN Append(s, e) /\ Append(s, e)[k] = s[k]
           /\ \A k \in DOMAIN Append(s, e) :
                 k = Len(s) + 1 \/ (k \in DOMAIN s /\ Append(s, e)[k] = s[k])
           /\ Len(s) + 1 \in DOMAIN Append(s, e) /\ Append(s, e)[Len(s) + 1] = e
           /\ Len(s) + 1 \notin DOMAIN s
OBVIOUS

LEMMA UnlockTypes ==
    ASSUME TypeOK, NEW th \in Threads, act[th] \in Actors, Unlock(th)
    PROVE  /\ monitor' \in [Actors -> Threads \cup {None}]
           /\ pc' \in [Threads -> InMonitor \cup {"idle", "enter", "run", "ended"}]
           /\ act' \in [Threads -> Actors \cup {None}]
           /\ task' \in [Threads -> Tasks \cup {None}]
           /\ \A w \in Workers : pc'[w] \in Busy \cup {"idle"}
           /\ pc'[Selector] \notin {"run", "next"}
           /\ \A u \in Threads : pc'[u] \notin {"idle", "ended"} =>
                 act'[u] \in Actors /\ task'[u] \in Tasks
BY DEF TypeOK, Unlock, Goto, Threads

LEMMA ExecuteTypes ==
    ASSUME TypeOK, NEW a \in Actors, NEW t \in Tasks, Execute(a, t)
    PROVE  threads' \in Seq(Entries)
<1>1. [act |-> a, task |-> t] \in Entries
  BY DEF Entries
<1>2. threads \in Seq(Entries)
  BY DEF TypeOK, Entries
<1> QED BY <1>1, <1>2, Appended DEF Execute

LEMMA GotoTypes ==
    ASSUME TypeOK, NEW th \in Threads, NEW step, Goto(th, step),
           step \in InMonitor \cup {"idle", "enter", "run", "ended"},
           th = Selector => step \notin {"run", "next"},
           th # Selector => step \in Busy \cup {"idle"},
           step \notin {"idle", "ended"} => act'[th] \in Actors /\ task'[th] \in Tasks,
           \A u \in Threads \ {th} : act'[u] = act[u] /\ task'[u] = task[u]
    PROVE  /\ pc' \in [Threads -> InMonitor \cup {"idle", "enter", "run", "ended"}]
           /\ \A w \in Workers : pc'[w] \in Busy \cup {"idle"}
           /\ pc'[Selector] \notin {"run", "next"}
           /\ \A u \in Threads : pc'[u] \notin {"idle", "ended"} =>
                 act'[u] \in Actors /\ task'[u] \in Tasks
BY PoolAssumption DEF TypeOK, Goto, Threads

LEMMA TypeStep ==
    ASSUME TypeOK, PendingServed, [Next]_vars
    PROVE  TypeOK'
<1> USE PoolAssumption
<1>1. CASE UNCHANGED vars
  BY <1>1 DEF vars, TypeOK
<1>2. CASE Shutdown
  <2>1. /\ pc' = [pc EXCEPT ![Selector] = "ended"] /\ stopped' = TRUE /\ threads' = << >>
        /\ UNCHANGED <<acts, playingNow, monitor, act, task, submitted>>
    BY <1>2 DEF Shutdown, Goto
  <2> QED BY <2>1 DEF TypeOK, Threads
<1>3. ASSUME NEW a \in Actors, Submit(a) PROVE TypeOK'
  <2>1. submitted[a] + 1 \in Tasks /\ Selector \in Threads
    BY <1>3 DEF Submit, TypeOK, Tasks, Threads
  <2>2. act'[Selector] = a /\ task'[Selector] = submitted[a] + 1
        /\ \A u \in Threads \ {Selector} : act'[u] = act[u] /\ task'[u] = task[u]
    BY <1>3, <2>1 DEF Submit, TypeOK
  <2>3. Goto(Selector, "enter")
    BY <1>3 DEF Submit
  <2>4. /\ submitted' \in [Actors -> 0 .. MaxTasks]
        /\ act' \in [Threads -> Actors \cup {None}]
        /\ task' \in [Threads -> Tasks \cup {None}]
    BY <1>3, <2>1 DEF Submit, TypeOK, Tasks
  <2> QED BY <1>3, <2>1, <2>2, <2>3, <2>4, GotoTypes DEF Submit, TypeOK, InMonitor, Busy
<1>4. ASSUME NEW th \in Threads, Step(th) PROVE TypeOK'
  <2>0. pc[th] \notin {"idle", "ended"} => act[th] \in Actors /\ task[th] \in Tasks
    BY DEF TypeOK
  <2>1. CASE Enter(th)
    <3>1. CASE th = Selector
      <4>1. Goto(th, "test")
        BY <2>1, <3>1 DEF Enter
      <4> QED BY <2>0, <2>1, <3>1, <4>1, GotoTypes DEF Enter, Lock, TypeOK, InMonitor
    <3>2. CASE th # Selector
      <4>1. Goto(th, "lookup")
        BY <2>1, <3>2 DEF Enter
      <4> QED BY <2>0, <2>1, <3>2, <4>1, GotoTypes DEF Enter, Lock, TypeOK, InMonitor, Busy
    <3> QED BY <3>1, <3>2
  <2>2. CASE Test(th)
    <3>1. th = Selector
      BY <2>2 DEF Test, TypeOK, Busy, Threads
    <3>2. CASE Goto(th, "lookup")
      BY <2>0, <2>2, <3>1, <3>2, GotoTypes DEF Test, TypeOK, InMonitor
    <3>3. CASE Goto(th, "start")
      BY <2>0, <2>2, <3>1, <3>3, GotoTypes DEF Test, TypeOK, InMonitor
    <3> QED BY <2>2, <3>2, <3>3 DEF Test
  <2>3. CASE StartPlaying(th)
    <3>1. act[th] \in Actors /\ task[th] \in Tasks
      BY <2>0, <2>3 DEF StartPlaying
    <3>2. threads' \in Seq(Entries)
      BY <2>3, <3>1, ExecuteTypes DEF StartPlaying
    <3>3. playingNow' \subseteq Actors
      BY <2>3, <3>1 DEF StartPlaying, TypeOK
    <3> QED BY <2>3, <3>1, <3>2, <3>3, UnlockTypes DEF StartPlaying, TypeOK, Entries
  <2>4. CASE Lookup(th)
    <3>1. CASE Goto(th, "make")
      BY <2>0, <2>4, <3>1, GotoTypes DEF Lookup, TypeOK, InMonitor, Busy
    <3>2. CASE Goto(th, AfterLookup(th))
      <4>1. CASE th = Selector
        BY <2>0, <2>4, <3>2, <4>1, GotoTypes DEF Lookup, AfterLookup, TypeOK, InMonitor
      <4>2. CASE th # Selector
        BY <2>0, <2>4, <3>2, <4>2, GotoTypes DEF Lookup, AfterLookup, TypeOK, InMonitor, Busy
      <4> QED BY <4>1, <4>2
    <3> QED BY <2>4, <3>1, <3>2 DEF Lookup
  <2>5. CASE Make(th)
    <3>1. acts' \in [Actors -> Seq(Tasks) \cup {None}]
      BY <2>5 DEF Make, TypeOK
    <3>2. CASE th = Selector
      BY <2>0, <2>5, <3>1, <3>2, GotoTypes DEF Make, AfterLookup, TypeOK, InMonitor
    <3>3. CASE th # Selector
      BY <2>0, <2>5, <3>1, <3>3, GotoTypes DEF Make, AfterLookup, TypeOK, InMonitor, Busy
    <3> QED BY <3>2, <3>3
  <2>6. CASE Pend(th)
    <3>1. act[th] \in Actors /\ task[th] \in Tasks /\ acts[act[th]] \in Seq(Tasks)
      BY <2>0, <2>6 DEF Pend, PendingServed, TypeOK
    <3>2. acts' \in [Actors -> Seq(Tasks) \cup {None}]
      BY <2>6, <3>1 DEF Pend, TypeOK
    <3> QED BY <2>6, <3>1, <3>2, UnlockTypes DEF Pend, TypeOK
  <2>7. CASE Complete(th)
    <3>1. act[th] \in Actors /\ task[th] \in Tasks /\ acts[act[th]] \in Seq(Tasks)
      BY <2>0, <2>7 DEF Complete, PendingServed, TypeOK
    <3>2. playingNow' \subseteq Actors
      BY <2>7 DEF Complete, Done, TypeOK
    <3>3. CASE acts[act[th]] = << >>
      BY <2>7, <3>1, <3>2, <3>3, UnlockTypes DEF Complete, TypeOK
    <3>4. CASE acts[act[th]] # << >>
      <4>1. Head(acts[act[th]]) \in Tasks /\ Tail(acts[act[th]]) \in Seq(Tasks)
        BY <3>1, <3>4
      <4>2. threads' \in Seq(Entries)
        BY <2>7, <3>1, <3>4, <4>1, ExecuteTypes DEF Complete
      <4>3. acts' \in [Actors -> Seq(Tasks) \cup {None}]
        BY <2>7, <3>4, <4>1 DEF Complete, TypeOK
      <4> QED BY <2>7, <3>1, <3>2, <4>2, <4>3, UnlockTypes DEF Complete, TypeOK, Entries
    <3> QED BY <3>3, <3>4
  <2>8. CASE th \in Workers /\ Take(th)
    <3>1. Head(threads) \in Entries /\ Tail(threads) \in Seq(Entries)
      <4>1. threads \in Seq(Entries) /\ threads # << >>
        BY <2>8 DEF Take, TypeOK, Entries
      <4> QED BY <4>1, HeadAndTail
    <3>2. /\ act' = [act EXCEPT ![th] = Head(threads).act]
          /\ task' = [task EXCEPT ![th] = Head(threads).task]
          /\ Head(threads).act \in Actors /\ Head(threads).task \in Tasks
      BY <2>8, <3>1 DEF Take, Entries
    <3>3. /\ act'[th] \in Actors /\ task'[th] \in Tasks
          /\ \A u \in Threads \ {th} : act'[u] = act[u] /\ task'[u] = task[u]
          /\ act' \in [Threads -> Actors \cup {None}]
          /\ task' \in [Threads -> Tasks \cup {None}]
      BY <3>2 DEF TypeOK
    <3>4. Goto(th, "run") /\ th # Selector
      BY <2>8 DEF Take
    <3>5. /\ pc' \in [Threads -> InMonitor \cup {"idle", "enter", "run", "ended"}]
          /\ \A w \in Workers : pc'[w] \in Busy \cup {"idle"}
          /\ pc'[Selector] \notin {"run", "next"}
          /\ \A u \in Threads : pc'[u] \notin {"idle", "ended"} =>
                act'[u] \in Actors /\ task'[u] \in Tasks
      BY <3>3, <3>4, GotoTypes DEF Busy
    <3> QED BY <2>8, <3>1, <3>3, <3>5 DEF Take, TypeOK, Entries
  <2>9. CASE th \in Workers /\ RunTask(th)
    BY <2>0, <2>9, GotoTypes DEF RunTask, TypeOK, Busy
  <2> QED BY <1>4, <2>1, <2>2, <2>3, <2>4, <2>5, <2>6, <2>7, <2>8, <2>9 DEF Step, InPool
<1> QED BY <1>1, <1>2, <1>3, <1>4, NextCases

----------------------------------------------------------------------------
(* The other conjuncts, one lemma per action.                              *)

Rest == MonitorHeld /\ OneInExecutor /\ PlayingExact /\ PendingServed /\ StopIsFinal
          /\ (stopped => threads = << >>)

LEMMA SubmitRest ==
    ASSUME Serialised, NEW a \in Actors, Submit(a)
    PROVE  Rest'
<1> USE PoolAssumption DEF Serialised
<1>1. /\ pc[Selector] = "idle" /\ pc' = [pc EXCEPT ![Selector] = "enter"]
      /\ act' = [act EXCEPT ![Selector] = a]
      /\ UNCHANGED <<acts, playingNow, threads, monitor, stopped>>
  BY DEF Submit, Goto
<1>2. \A w \in Workers : pc'[w] = pc[w] /\ act'[w] = act[w]
  BY <1>1 DEF TypeOK, Threads
<1>3. pc'[Selector] = "enter"
  BY <1>1 DEF TypeOK, Threads
<1>4. MonitorHeld'
  BY <1>1, <1>2, <1>3 DEF MonitorHeld, Threads, InMonitor
<1>5. OneInExecutor'
  BY <1>1, <1>2 DEF OneInExecutor
<1>6. PlayingExact' /\ PendingServed'
  BY <1>1, <1>2, <1>3 DEF PlayingExact, PendingServed, InExecutor, Queue, Threads
<1>7. StopIsFinal' /\ (stopped => threads = << >>)'
  BY <1>1, <1>3 DEF StopIsFinal
<1> QED BY <1>4, <1>5, <1>6, <1>7 DEF Rest

LEMMA ShutdownRest ==
    ASSUME Serialised, Shutdown
    PROVE  Rest'
<1> USE PoolAssumption DEF Serialised
<1>1. /\ pc[Selector] = "idle" /\ pc' = [pc EXCEPT ![Selector] = "ended"]
      /\ stopped' = TRUE /\ threads' = << >>
      /\ UNCHANGED <<acts, playingNow, monitor, act>>
  BY DEF Shutdown, Goto
<1>2. (\A w \in Workers : pc'[w] = pc[w]) /\ pc'[Selector] = "ended"
  BY <1>1 DEF TypeOK, Threads
<1>3. MonitorHeld'
  BY <1>1, <1>2 DEF MonitorHeld, Threads, InMonitor
<1>4. OneInExecutor'
  BY <1>1, <1>2 DEF OneInExecutor
<1>5. PlayingExact' /\ PendingServed'
  BY <1>1, <1>2 DEF PlayingExact, PendingServed, InExecutor, Queue, Threads
<1> QED BY <1>1, <1>2, <1>3, <1>4, <1>5 DEF Rest, StopIsFinal

\* The steps inside the monitor that do not touch the executor's queue.
LEMMA MonitorRest ==
    ASSUME Serialised, NEW th \in Threads, Enter(th) \/ Test(th) \/ Lookup(th) \/ Make(th)
    PROVE  Rest'
<1> USE PoolAssumption DEF Serialised
<1>0. /\ UNCHANGED <<playingNow, threads, act, stopped>>
      /\ pc[th] \in {"enter", "test", "lookup", "make"}
      /\ \E step : pc' = [pc EXCEPT ![th] = step]
      /\ act[th] \in Actors /\ pc'[th] \in InMonitor
  <2>1. \A u \in Threads : \A step :
           Goto(u, step) => pc' = [pc EXCEPT ![u] = step] /\ pc'[u] = step
    BY DEF Goto, TypeOK
  <2> QED BY <2>1 DEF Enter, Test, Lookup, Make, AfterLookup, InMonitor, TypeOK
<1>1. \A u \in Threads \ {th} : pc'[u] = pc[u]
  BY <1>0 DEF TypeOK
<1>2. MonitorHeld'
  <2>1. CASE Enter(th)
    <3>1. monitor[act[th]] = None /\ monitor' = [monitor EXCEPT ![act[th]] = th]
      BY <2>1 DEF Enter, Lock
    <3> QED BY <1>0, <1>1, <2>1, <3>1 DEF MonitorHeld, TypeOK, Enter, InMonitor, Threads
  <2>2. CASE ~Enter(th)
    <3>1. UNCHANGED monitor /\ pc[th] \in InMonitor
      BY <2>2 DEF Test, Lookup, Make, InMonitor
    <3> QED BY <1>0, <1>1, <3>1 DEF MonitorHeld
  <2> QED BY <2>1, <2>2
<1>3. \A w \in Workers : pc[w] = "idle" <=> pc'[w] = "idle"
  BY <1>0, <1>1 DEF InMonitor, Threads
<1>4. OneInExecutor'
  BY <1>0, <1>3 DEF OneInExecutor
<1>5. \A a \in Actors : InExecutor(a) <=> InExecutor(a)'
  BY <1>0, <1>3 DEF InExecutor
<1>6. PlayingExact'
  <2>1. /\ (pc[Selector] = "start" => act[Selector] \notin playingNow)'
        /\ (pc[Selector] \in {"lookup", "make", "pend"} => act[Selector] \in playingNow)'
    <3>1. CASE th # Selector
      BY <1>0, <1>1, <3>1 DEF PlayingExact, Threads
    <3>2. CASE th = Selector
      <4>1. \A step : Goto(th, step) => pc'[th] = step
        BY DEF Goto, TypeOK
      <4> QED BY <1>0, <3>2, <4>1 DEF PlayingExact, Enter, Test, Lookup, Make, AfterLookup
    <3> QED BY <3>1, <3>2
  <2> QED BY <1>0, <1>5, <2>1 DEF PlayingExact, TypeOK
<1>7. PendingServed'
  <2>1. \A a \in Actors : acts'[a] = acts[a] \/ acts'[a] = << >>
    BY DEF Enter, Test, Lookup, Make, TypeOK
  <2>2. \A a \in Actors : Queue(a)' # << >> => Queue(a) # << >>
    BY <2>1 DEF Queue
  <2>3. \A u \in Threads : (pc[u] \in {"next", "pend"} => acts[act[u]] # None)'
    <3>1. << >> # None
      <4>1. << >> \in Seq(Tasks)
        OBVIOUS
      <4> QED BY <4>1
    <3>2. CASE Make(th)
      BY <1>0, <1>1, <3>1, <3>2 DEF Make, TypeOK, PendingServed
    <3>3. CASE ~Make(th)
      <4>1. \A step : Goto(th, step) => pc'[th] = step
        BY DEF Goto, TypeOK
      <4> QED BY <1>0, <1>1, <3>3, <4>1 DEF Enter, Test, Lookup, PendingServed
    <3> QED BY <3>2, <3>3
  <2> QED BY <1>0, <2>2, <2>3 DEF PendingServed
<1>8. StopIsFinal' /\ (stopped => threads = << >>)'
  BY <1>0, <1>1 DEF StopIsFinal, InMonitor, Threads
<1> QED BY <1>2, <1>4, <1>6, <1>7, <1>8 DEF Rest

\* A thread leaves the monitor and is idle.
LEMMA UnlockRest ==
    ASSUME Serialised, NEW th \in Threads, pc[th] \in InMonitor, Unlock(th),
           UNCHANGED stopped
    PROVE  /\ pc'[th] = "idle" /\ act[th] \in Actors
           /\ \A u \in Threads \ {th} : pc'[u] = pc[u] /\ act'[u] = act[u]
           /\ MonitorHeld'
           /\ StopIsFinal'
<1> USE PoolAssumption DEF Serialised
<1>1. /\ pc' = [pc EXCEPT ![th] = "idle"] /\ act' = [act EXCEPT ![th] = None]
      /\ monitor' = [monitor EXCEPT ![act[th]] = None]
  BY DEF Unlock, Goto
<1>2. act[th] \in Actors /\ pc'[th] = "idle"
      /\ \A u \in Threads \ {th} : pc'[u] = pc[u] /\ act'[u] = act[u]
  BY <1>1 DEF TypeOK, InMonitor
<1>3. monitor[act[th]] = th
  BY <1>2 DEF MonitorHeld
<1>4. MonitorHeld'
  BY <1>1, <1>2, <1>3 DEF MonitorHeld, TypeOK, InMonitor, Threads
<1>5. StopIsFinal'
  BY <1>2 DEF StopIsFinal, InMonitor, Threads
<1> QED BY <1>2, <1>4, <1>5

\* submit and complete are never inside the monitor of one actor together.
LEMMA Exclusive ==
    ASSUME Serialised, NEW t \in Threads, NEW u \in Threads,
           pc[t] \in InMonitor, pc[u] \in InMonitor, act[t] = act[u]
    PROVE  t = u
<1>1. act[t] \in Actors /\ act[u] \in Actors
  BY DEF Serialised, TypeOK, InMonitor
<1> QED BY <1>1 DEF Serialised, MonitorHeld

LEMMA PendRest ==
    ASSUME Serialised, NEW th \in Threads, Pend(th)
    PROVE  Rest'
<1> USE PoolAssumption DEF Serialised
<1>1. /\ pc[th] = "pend" /\ Unlock(th)
      /\ acts' = [acts EXCEPT ![act[th]] = Append(@, task[th])]
      /\ UNCHANGED <<playingNow, threads, submitted, stopped>>
  BY DEF Pend
<1>2. th = Selector /\ act[th] \in Actors /\ task[th] \in Tasks
  BY <1>1 DEF TypeOK, Busy, Threads
<1>3. /\ pc'[th] = "idle"
      /\ \A u \in Threads \ {th} : pc'[u] = pc[u] /\ act'[u] = act[u]
      /\ MonitorHeld' /\ StopIsFinal'
  BY <1>1, UnlockRest DEF InMonitor
<1>4. \A w \in Workers : pc'[w] = pc[w] /\ act'[w] = act[w]
  BY <1>2, <1>3 DEF Threads
<1>5. OneInExecutor'
  BY <1>1, <1>4 DEF OneInExecutor
<1>6. PlayingExact'
  BY <1>1, <1>2, <1>3, <1>4 DEF PlayingExact, InExecutor
<1>7. PendingServed'
  <2>1. act[th] \in playingNow
    BY <1>1, <1>2 DEF PlayingExact
  <2>2. \A a \in Actors : a # act[th] => acts'[a] = acts[a]
    BY <1>1
  <2>3. \A a \in Actors : Queue(a)' # << >> => a \in playingNow'
    BY <1>1, <2>1, <2>2 DEF PendingServed, Queue
  <2>4. acts[act[th]] \in Seq(Tasks) /\ acts'[act[th]] = Append(acts[act[th]], task[th])
    BY <1>1, <1>2 DEF PendingServed, TypeOK
  <2>5. acts'[act[th]] \in Seq(Tasks)
    BY <1>2, <2>4
  <2>6. \A u \in Threads : (pc[u] \in {"next", "pend"} => acts[act[u]] # None)'
    BY <1>3, <2>2, <2>5 DEF PendingServed, TypeOK
  <2> QED BY <2>3, <2>6 DEF PendingServed
<1> QED BY <1>1, <1>3, <1>5, <1>6, <1>7 DEF Rest

LEMMA StartPlayingRest ==
    ASSUME Serialised, NEW th \in Threads, StartPlaying(th)
    PROVE  Rest'
<1> USE PoolAssumption DEF Serialised
<1>1. /\ pc[th] = "start" /\ Unlock(th)
      /\ playingNow' = playingNow \cup {act[th]}
      /\ UNCHANGED <<acts, submitted, stopped>>
  BY DEF StartPlaying
<1>2. th = Selector /\ act[th] \in Actors /\ task[th] \in Tasks
  BY <1>1 DEF TypeOK, Busy, Threads
<1>3. /\ pc'[th] = "idle"
      /\ \A u \in Threads \ {th} : pc'[u] = pc[u] /\ act'[u] = act[u]
      /\ MonitorHeld' /\ StopIsFinal'
  BY <1>1, UnlockRest DEF InMonitor
<1>4. \A w \in Workers : pc'[w] = pc[w] /\ act'[w] = act[w]
  BY <1>2, <1>3 DEF Threads
<1> DEFINE e == [act |-> act[th], task |-> task[th]]
<1>5. ~stopped /\ threads' = Append(threads, e)
  BY <1>1, <1>2 DEF StartPlaying, Execute, StopIsFinal
<1>6. e \in Entries /\ threads \in Seq(Entries)
  BY <1>2 DEF Entries, TypeOK
<1>7. ~InExecutor(act[th])
  BY <1>1, <1>2 DEF PlayingExact
<1>8. e.act = act[th]
  OBVIOUS
<1> HIDE DEF e
<1>9. \A k \in DOMAIN threads' :
         k = Len(threads) + 1 \/ (k \in DOMAIN threads /\ threads'[k] = threads[k])
  BY <1>5, <1>6, Appended
<1>10. threads'[Len(threads) + 1] = e /\ Len(threads) + 1 \in DOMAIN threads'
       /\ \A k \in DOMAIN threads : k \in DOMAIN threads' /\ threads'[k] = threads[k]
  BY <1>5, <1>6, Appended
<1>11. OneInExecutor'
  BY <1>4, <1>7, <1>8, <1>9, <1>10 DEF OneInExecutor, InExecutor
<1>12. PlayingExact'
  <2>1. \A a \in Actors : InExecutor(a)' <=> InExecutor(a) \/ a = act[th]
    BY <1>2, <1>4, <1>8, <1>9, <1>10 DEF InExecutor
  <2> QED BY <1>1, <1>2, <1>3, <1>5, <2>1 DEF PlayingExact, TypeOK
<1>13. PendingServed'
  <2>1. \A u \in Threads : (pc[u] \in {"next", "pend"} => acts[act[u]] # None)'
    BY <1>1, <1>3 DEF PendingServed
  <2> QED BY <1>1, <2>1 DEF PendingServed, Queue
<1> QED BY <1>1, <1>3, <1>5, <1>11, <1>12, <1>13 DEF Rest

LEMMA TakeRest ==
    ASSUME Serialised, NEW w \in Workers, Take(w)
    PROVE  Rest'
<1> USE PoolAssumption DEF Serialised
<1> DEFINE a == Head(threads).act
<1>1. /\ pc[w] = "idle" /\ pc' = [pc EXCEPT ![w] = "run"]
      /\ act' = [act EXCEPT ![w] = a]
      /\ threads # << >> /\ threads' = Tail(threads)
      /\ UNCHANGED <<acts, playingNow, monitor, stopped>>
  BY DEF Take, Goto
<1>2. threads \in Seq(Entries)
  BY DEF TypeOK, Entries
<1>3. /\ Head(threads) \in Entries /\ 1 \in DOMAIN threads /\ Head(threads) = threads[1]
      /\ \A k \in DOMAIN threads' : k + 1 \in DOMAIN threads /\ threads'[k] = threads[k + 1]
      /\ \A k \in DOMAIN threads :
            k = 1 \/ (k - 1 \in DOMAIN threads' /\ threads'[k - 1] = threads[k])
      /\ Tail(threads) \in Seq(Entries)
  BY <1>1, <1>2, HeadAndTail
<1>4. a \in Actors /\ a = threads[1].act
  BY <1>3 DEF Entries
<1>5. /\ pc'[w] = "run" /\ act'[w] = a
      /\ \A u \in Threads \ {w} : pc'[u] = pc[u] /\ act'[u] = act[u]
  BY <1>1 DEF TypeOK, Threads
<1> HIDE DEF a
<1>6. MonitorHeld'
  BY <1>1, <1>5 DEF MonitorHeld, InMonitor
<1>7. \A k \in DOMAIN threads' : threads'[k].act # a
  <2>1. \A k \in DOMAIN threads' : k \in Nat \ {0}
    BY <1>1, <1>3
  <2>2. \A k \in DOMAIN threads' : k + 1 # 1
    BY <2>1
  <2>3. \A j \in DOMAIN threads : threads[j].act = threads[1].act => j = 1
    BY <1>3 DEF OneInExecutor
  <2> QED BY <1>3, <1>4, <2>2, <2>3
<1>8. OneInExecutor'
  <2>1. \A j, k \in DOMAIN threads' : threads'[j].act = threads'[k].act => j = k
    <3>1. \A k \in DOMAIN threads' : k \in Nat
      BY <1>1, <1>3
    <3>2. \A j, k \in DOMAIN threads' : threads'[j].act = threads'[k].act => j + 1 = k + 1
      BY <1>3 DEF OneInExecutor
    <3> QED BY <3>1, <3>2
  <2>2. \A u, v \in Workers : pc'[u] # "idle" /\ pc'[v] # "idle" /\ act'[u] = act'[v] => u = v
    BY <1>3, <1>4, <1>5 DEF OneInExecutor, Threads
  <2>3. \A k \in DOMAIN threads', u \in Workers : pc'[u] # "idle" => threads'[k].act # act'[u]
    BY <1>3, <1>5, <1>7 DEF OneInExecutor, Threads
  <2> QED BY <2>1, <2>2, <2>3 DEF OneInExecutor
<1>9. \A b \in Actors : InExecutor(b)' <=> InExecutor(b)
  <2> SUFFICES ASSUME NEW b \in Actors PROVE InExecutor(b)' <=> InExecutor(b)
    OBVIOUS
  <2>1. CASE b = a
    BY <1>3, <1>4, <1>5, <2>1 DEF InExecutor
  <2>2. CASE b # a
    <3>1. (\E k \in DOMAIN threads : threads[k].act = b)
            <=> \E k \in DOMAIN threads' : threads'[k].act = b
      BY <1>3, <1>4, <2>2
    <3>2. (\E u \in Workers : pc[u] # "idle" /\ act[u] = b)
            <=> \E u \in Workers : pc'[u] # "idle" /\ act'[u] = b
      BY <1>1, <1>5, <2>2 DEF Threads
    <3> QED BY <3>1, <3>2 DEF InExecutor
  <2> QED BY <2>1, <2>2
<1>10. PlayingExact'
  BY <1>1, <1>5, <1>9 DEF PlayingExact, TypeOK, Threads
<1>11. PendingServed'
  <2>1. \A u \in Threads : (pc[u] \in {"next", "pend"} => acts[act[u]] # None)'
    BY <1>1, <1>5 DEF PendingServed
  <2> QED BY <1>1, <2>1 DEF PendingServed, Queue
<1>12. StopIsFinal' /\ (stopped => threads = << >>)'
  BY <1>1, <1>5 DEF StopIsFinal, Threads
<1> QED BY <1>6, <1>8, <1>10, <1>11, <1>12 DEF Rest

LEMMA RunTaskRest ==
    ASSUME Serialised, NEW w \in Workers, RunTask(w)
    PROVE  Rest'
<1> USE PoolAssumption DEF Serialised
<1>1. /\ pc[w] = "run" /\ pc' = [pc EXCEPT ![w] = "enter"]
      /\ UNCHANGED <<acts, playingNow, threads, monitor, act, stopped>>
  BY DEF RunTask, Goto
<1>2. pc'[w] = "enter" /\ \A u \in Threads \ {w} : pc'[u] = pc[u]
  BY <1>1 DEF TypeOK, Threads
<1>3. \A v \in Workers : pc[v] = "idle" <=> pc'[v] = "idle"
  BY <1>1, <1>2 DEF Threads
<1>4. MonitorHeld'
  BY <1>1, <1>2 DEF MonitorHeld, InMonitor
<1>5. OneInExecutor'
  BY <1>1, <1>3 DEF OneInExecutor
<1>6. \A a \in Actors : InExecutor(a) <=> InExecutor(a)'
  BY <1>1, <1>3 DEF InExecutor
<1>7. PlayingExact'
  BY <1>1, <1>2, <1>6 DEF PlayingExact, TypeOK, Threads
<1>8. PendingServed'
  BY <1>1, <1>2 DEF PendingServed, Queue
<1>9. StopIsFinal' /\ (stopped => threads = << >>)'
  BY <1>1, <1>2 DEF StopIsFinal, Threads
<1> QED BY <1>4, <1>5, <1>7, <1>8, <1>9 DEF Rest

LEMMA CompleteRest ==
    ASSUME Serialised, NEW th \in Threads, Complete(th)
    PROVE  Rest'
<1> USE PoolAssumption DEF Serialised
<1> DEFINE a == act[th]
<1>1. pc[th] = "next" /\ Unlock(th) /\ UNCHANGED <<submitted, stopped>>
  BY DEF Complete
<1>2. th \in Workers /\ th # Selector /\ a \in Actors /\ acts[a] \in Seq(Tasks)
  BY <1>1 DEF TypeOK, Threads, PendingServed
<1>3. /\ pc'[th] = "idle"
      /\ \A u \in Threads \ {th} : pc'[u] = pc[u] /\ act'[u] = act[u]
      /\ MonitorHeld' /\ StopIsFinal'
  BY <1>1, UnlockRest DEF InMonitor
<1>4. \A w \in Workers \ {th} : pc[w] # "idle" => act[w] # a
  BY <1>1, <1>2 DEF OneInExecutor
<1>5. \A k \in DOMAIN threads : threads[k].act # a
  BY <1>1, <1>2 DEF OneInExecutor
<1>6. pc[Selector] \in InMonitor => act[Selector] # a
  <2>1. Selector \in Threads
    BY DEF Threads
  <2> QED BY <1>1, <1>2, <2>1, Exclusive DEF InMonitor
<1>7. pc'[Selector] = pc[Selector] /\ act'[Selector] = act[Selector]
  BY <1>2, <1>3 DEF Threads
<1>8. \A u \in Threads \ {th} : pc[u] \in {"next", "pend"} => act[u] # a
  BY <1>1, Exclusive DEF InMonitor
<1>9. CASE acts[a] = << >>
  <2>1. playingNow' = playingNow \ {a} /\ UNCHANGED <<acts, threads>>
    BY <1>9 DEF Complete, Done
  <2>2. OneInExecutor'
    BY <1>2, <1>3, <2>1 DEF OneInExecutor, Threads
  <2>3. \A b \in Actors : InExecutor(b)' <=> InExecutor(b) /\ b # a
    <3>1. \A b \in Actors : (\E w \in Workers : pc'[w] # "idle" /\ act'[w] = b)
             <=> (\E w \in Workers : pc[w] # "idle" /\ act[w] = b) /\ b # a
      BY <1>2, <1>3, <1>4 DEF Threads
    <3>2. \A b \in Actors : (\E k \in DOMAIN threads : threads[k].act = b)
             => b # a
      BY <1>5
    <3> QED BY <2>1, <3>1, <3>2 DEF InExecutor
  <2>4. PlayingExact'
    BY <1>1, <1>6, <1>7, <2>1, <2>3 DEF PlayingExact, TypeOK, InMonitor
  <2>5. PendingServed'
    BY <1>3, <1>9, <2>1 DEF PendingServed, Queue
  <2> QED BY <1>1, <1>3, <2>1, <2>2, <2>4, <2>5 DEF Rest
<1>10. CASE acts[a] # << >>
  <2> DEFINE e == [act |-> a, task |-> Head(acts[a])]
  <2>1. /\ acts' = [acts EXCEPT ![a] = Tail(@)] /\ UNCHANGED playingNow
        /\ threads' = IF stopped THEN threads ELSE Append(threads, e)
    BY <1>10 DEF Complete, Execute
  <2>2. Head(acts[a]) \in Tasks /\ Tail(acts[a]) \in Seq(Tasks)
    BY <1>2, <1>10
  <2>3. e \in Entries /\ threads \in Seq(Entries) /\ e.act = a
    BY <1>2, <2>2 DEF Entries, TypeOK
  <2> HIDE DEF e
  <2>4. \A k \in DOMAIN threads' :
           \/ k \in DOMAIN threads /\ threads'[k] = threads[k]
           \/ k = Len(threads) + 1 /\ threads'[k].act = a /\ ~stopped
    BY <2>1, <2>3, Appended
  <2>5. /\ \A k \in DOMAIN threads : k \in DOMAIN threads' /\ threads'[k] = threads[k]
        /\ ~stopped => \E k \in DOMAIN threads' : threads'[k].act = a
    BY <2>1, <2>3, Appended
  <2>6. OneInExecutor'
    <3>1. \A j, k \in DOMAIN threads' : threads'[j].act = threads'[k].act => j = k
      BY <1>5, <2>4 DEF OneInExecutor
    <3>2. \A v, w \in Workers :
             pc'[v] # "idle" /\ pc'[w] # "idle" /\ act'[v] = act'[w] => v = w
      BY <1>2, <1>3 DEF OneInExecutor, Threads
    <3>3. \A k \in DOMAIN threads', w \in Workers :
             pc'[w] # "idle" => threads'[k].act # act'[w]
      BY <1>2, <1>3, <1>4, <2>4 DEF OneInExecutor, Threads
    <3> QED BY <3>1, <3>2, <3>3 DEF OneInExecutor
  <2>7. \A b \in Actors : b # a => (InExecutor(b)' <=> InExecutor(b))
    <3>1. \A b \in Actors : b # a =>
             ((\E w \in Workers : pc'[w] # "idle" /\ act'[w] = b)
                <=> (\E w \in Workers : pc[w] # "idle" /\ act[w] = b))
      BY <1>2, <1>3 DEF Threads
    <3>2. \A b \in Actors : b # a =>
             ((\E k \in DOMAIN threads' : threads'[k].act = b)
                <=> (\E k \in DOMAIN threads : threads[k].act = b))
      BY <2>4, <2>5
    <3> QED BY <3>1, <3>2 DEF InExecutor
  <2>8. a \in playingNow
    BY <1>1, <1>2 DEF PlayingExact, InExecutor
  <2>9. PlayingExact'
    <3>1. \A b \in Actors : b = a /\ ~stopped => InExecutor(b)'
      BY <2>5 DEF InExecutor
    <3> QED BY <1>1, <1>2, <1>7, <2>1, <2>7, <2>8, <3>1 DEF PlayingExact, TypeOK
  <2>10. PendingServed'
    <3>1. \A b \in Actors : Queue(b)' # << >> => b \in playingNow'
      BY <1>2, <2>1, <2>8 DEF PendingServed, Queue, TypeOK
    <3>2. \A u \in Threads : (pc[u] \in {"next", "pend"} => acts[act[u]] # None)'
      <4> SUFFICES ASSUME NEW u \in Threads, pc'[u] \in {"next", "pend"}
                   PROVE  acts'[act'[u]] # None
        OBVIOUS
      <4>1. u # th /\ pc[u] = pc'[u] /\ act'[u] = act[u]
        BY <1>3
      <4>2. act[u] # a /\ act[u] \in Actors
        BY <1>8, <4>1 DEF TypeOK
      <4> QED BY <2>1, <4>1, <4>2 DEF PendingServed, TypeOK
    <3> QED BY <3>1, <3>2 DEF PendingServed
  <2>11. (stopped => threads = << >>)'
    BY <1>1, <2>1
  <2> QED BY <1>3, <2>6, <2>9, <2>10, <2>11 DEF Rest
<1> QED BY <1>9, <1>10

----------------------------------------------------------------------------
LEMMA InitSerialised == Init => Serialised
<1> SUFFICES ASSUME Init PROVE Serialised
  OBVIOUS
<1> USE PoolAssumption DEF Init
<1>1. TypeOK
  <2>1. threads \in Seq(Entries)
    OBVIOUS
  <2>2. submitted \in [Actors -> 0 .. MaxTasks] /\ acts \in [Actors -> Seq(Tasks) \cup {None}]
    OBVIOUS
  <2> QED BY <2>1, <2>2 DEF TypeOK, Threads, Entries
<1>2. MonitorHeld
  BY DEF MonitorHeld, InMonitor, Threads
<1> QED BY <1>1, <1>2 DEF Serialised, OneInExecutor, PlayingExact, PendingServed,
        NoQueueReplaced, StopIsFinal, InExecutor, Queue, Threads

LEMMA NoQueueReplacedStep ==
    ASSUME Serialised, [Next]_vars
    PROVE  NoQueueReplaced'
<1> USE PoolAssumption DEF Serialised
<1> SUFFICES ASSUME NEW u \in Threads, pc'[u] = "make"
             PROVE  acts'[act'[u]] = None
  BY DEF NoQueueReplaced
<1>1. CASE UNCHANGED vars
  BY <1>1 DEF vars, NoQueueReplaced
<1>2. CASE Shutdown \/ \E a \in Actors : Submit(a)
  <2>1. UNCHANGED acts /\ pc'[u] = pc[u] /\ act'[u] = act[u]
    BY <1>2 DEF Shutdown, Submit, Goto, TypeOK, Threads
  <2> QED BY <2>1 DEF NoQueueReplaced
<1>3. ASSUME NEW th \in Threads, Step(th), u = th
      PROVE  acts'[act'[u]] = None
  <2>1. \A step : Goto(th, step) => pc'[th] = step
    BY DEF Goto, TypeOK
  <2>2. Lookup(th)
    BY <1>3, <2>1 DEF Step, InPool, Enter, Test, StartPlaying, Lookup, Make, Pend, Complete,
       Take, RunTask, Unlock, AfterLookup
  <2> QED BY <1>3, <2>1, <2>2 DEF Lookup, AfterLookup
<1>4. ASSUME NEW th \in Threads, Step(th), u # th
      PROVE  acts'[act'[u]] = None
  <2>1. pc'[u] = pc[u] /\ act'[u] = act[u]
    <3>1. \A step : Goto(th, step) => pc'[u] = pc[u]
      BY <1>4 DEF Goto, TypeOK
    <3>2. act' = act \/ \E b : act' = [act EXCEPT ![th] = b]
      BY <1>4 DEF Step, InPool, Enter, Test, StartPlaying, Lookup, Make, Pend, Complete,
         Take, RunTask, Unlock
    <3> QED BY <1>4, <3>1, <3>2 DEF Step, InPool, Enter, Test, StartPlaying, Lookup, Make,
            Pend, Complete, Take, RunTask, Unlock, TypeOK
  <2>2. pc[th] \in InMonitor => act[th] # act[u]
    BY <1>4, <2>1, Exclusive DEF InMonitor
  <2>3. act[u] \in Actors /\ acts[act[u]] = None
    BY <2>1 DEF NoQueueReplaced, TypeOK
  <2>4. acts'[act[u]] = acts[act[u]]
    <3>1. \/ UNCHANGED acts
          \/ pc[th] \in InMonitor /\ \E q : acts' = [acts EXCEPT ![act[th]] = q]
      BY <1>4 DEF Step, InPool, Enter, Test, StartPlaying, Lookup, Make, Pend, Complete,
         Take, RunTask, InMonitor
    <3> QED BY <2>2, <2>3, <3>1 DEF TypeOK
  <2> QED BY <2>1, <2>3, <2>4
<1> QED BY <1>1, <1>2, <1>3, <1>4, NextCases

LEMMA SerialisedStep == Serialised /\ [Next]_vars => Serialised'
<1> SUFFICES ASSUME Serialised, [Next]_vars PROVE Serialised'
  OBVIOUS
<1>1. TypeOK'
  BY TypeStep DEF Serialised
<1>2. Rest'
  <2>1. CASE UNCHANGED vars
    BY <2>1 DEF vars, Rest, Serialised, MonitorHeld, OneInExecutor, PlayingExact,
       PendingServed, StopIsFinal, InExecutor, Queue
  <2>2. ASSUME NEW th \in Threads, Step(th) PROVE Rest'
    BY <2>2, MonitorRest, PendRest, StartPlayingRest, CompleteRest, TakeRest, RunTaskRest
       DEF Step, InPool
  <2> QED BY <2>1, <2>2, NextCases, ShutdownRest, SubmitRest
<1> QED BY <1>1, <1>2, NoQueueReplacedStep DEF Rest, Serialised

\* The pool never has two tasks of one handler under way, and a task that pends
\* always has one in front of it that will send it on.
THEOREM PoolSerialises == Spec => []Serialised
BY InitSerialised, SerialisedStep, PTL DEF Spec

----------------------------------------------------------------------------
(* Refinement.                                                             *)

LEMMA TaskInNone ==
    ASSUME NEW q, NEW a, \A k \in DOMAIN q : q[k].act # a
    PROVE  TaskIn(q, a) = << >>
BY DEF TaskIn

LEMMA TaskInOne ==
    ASSUME NEW q, NEW a, NEW k \in DOMAIN q, q[k].act = a,
           \A j \in DOMAIN q : q[j].act = a => j = k
    PROVE  TaskIn(q, a) = << q[k].task >>
<1>1. (CHOOSE j \in DOMAIN q : q[j].act = a) = k
  OBVIOUS
<1> QED BY <1>1 DEF TaskIn

LEMMA Front ==
    ASSUME NEW S, NEW s \in Seq(S), NEW t \in S
    PROVE  /\ << t >> \o s \in Seq(S) /\ << t >> \o s # << >>
           /\ Head(<< t >> \o s) = t
           /\ Tail(<< t >> \o s) = s
           /\ << >> \o s = s
           /\ s # << >> => << Head(s) >> \o Tail(s) = s
<1>1. << t >> \in Seq(S) /\ << >> \in Seq(S) /\ Len(<< t >>) = 1
  OBVIOUS
<1>2. << t >> \o s \in Seq(S) /\ Len(<< t >> \o s) = 1 + Len(s)
      /\ \A i \in 1 .. 1 + Len(s) : (<< t >> \o s)[i] = IF i <= 1 THEN t ELSE s[i - 1]
  BY <1>1
<1>3. << t >> \o s # << >> /\ Head(<< t >> \o s) = t
  BY <1>2
<1>4. Tail(<< t >> \o s) = s
  <2>1. Tail(<< t >> \o s) \in Seq(S) /\ Len(Tail(<< t >> \o s)) = Len(s)
        /\ \A i \in 1 .. Len(s) : Tail(<< t >> \o s)[i] = s[i]
    BY <1>2, <1>3
  <2> QED BY <2>1, SeqEqual
<1>5. << >> \o s = s
  BY ConcatEmptySeq
<1>6. s # << >> => << Head(s) >> \o Tail(s) = s
  <2> SUFFICES ASSUME s # << >> PROVE << Head(s) >> \o Tail(s) = s
    OBVIOUS
  <2>1. Head(s) \in S /\ Tail(s) \in Seq(S) /\ Len(Tail(s)) = Len(s) - 1 /\ Head(s) = s[1]
        /\ \A i \in 1 .. Len(s) - 1 : Tail(s)[i] = s[i + 1]
    OBVIOUS
  <2>2. << Head(s) >> \o Tail(s) \in Seq(S) /\ Len(<< Head(s) >> \o Tail(s)) = Len(s)
        /\ \A i \in 1 .. Len(s) : (<< Head(s) >> \o Tail(s))[i] = s[i]
    BY <2>1
  <2> QED BY <2>2, SeqEqual
<1> QED BY <1>2, <1>3, <1>4, <1>5, <1>6

LEMMA Back ==
    ASSUME NEW S, NEW x \in Seq(S), NEW s \in Seq(S), NEW t \in S
    PROVE  x \o Append(s, t) = Append(x \o s, t)
<1>1. /\ x \o Append(s, t) \in Seq(S) /\ Append(x \o s, t) \in Seq(S)
      /\ Len(x \o Append(s, t)) = Len(Append(x \o s, t))
  OBVIOUS
<1>2. \A i \in 1 .. Len(Append(x \o s, t)) :
         (x \o Append(s, t))[i] = Append(x \o s, t)[i]
  OBVIOUS
<1> QED BY <1>1, <1>2, SeqEqual

\* One worker runs a task of a.
LEMMA RunningOne ==
    ASSUME NEW S, NEW w, S = {w}
    PROVE  (CHOOSE v \in S : TRUE) = w
OBVIOUS

LEMMA RunningIsFunction ==
    /\ Running = [a \in Actors |-> Running[a]]
    /\ Running' = [a \in Actors |-> Running'[a]]
BY DEF Running

LEMMA RunningKept ==
    ASSUME NEW a \in Actors, Runners(a)' = Runners(a),
           \A w \in Runners(a) : task'[w] = task[w]
    PROVE  Running'[a] = Running[a]
<1>1. CASE Runners(a) = {}
  BY <1>1 DEF Running
<1>2. CASE Runners(a) # {}
  <2> DEFINE v == CHOOSE w \in Runners(a) : TRUE
  <2>1. v \in Runners(a)
    BY <1>2
  <2>2. Running[a] = task[v] /\ Running'[a] = task'[CHOOSE w \in Runners(a) : TRUE]
    BY <1>2 DEF Running
  <2> QED BY <2>1, <2>2
<1> QED BY <1>1, <1>2

\* No worker starts or ends a task.
LEMMA SameRunning ==
    ASSUME \A w \in Workers : pc[w] = "run" \/ pc'[w] = "run" =>
              pc'[w] = pc[w] /\ act'[w] = act[w] /\ task'[w] = task[w]
    PROVE  Running' = Running
<1>1. \A a \in Actors : Runners(a)' = Runners(a)
  BY DEF Runners
<1>2. \A a \in Actors : \A w \in Runners(a) : task'[w] = task[w]
  BY DEF Runners
<1>3. \A a \in Actors : Running'[a] = Running[a]
  BY <1>1, <1>2, RunningKept
<1> QED BY <1>3 DEF Running

LEMMA QueueTypes ==
    ASSUME TypeOK, NEW a \in Actors
    PROVE  Queue(a) \in Seq(Tasks)
<1>1. << >> \in Seq(Tasks)
  OBVIOUS
<1> QED BY <1>1 DEF Queue, TypeOK

LEMMA RefineInit == Init => Serial!Init
<1> SUFFICES ASSUME Init PROVE Serial!Init
  OBVIOUS
<1>1. Running = [a \in Actors |-> None]
  <2>1. \A w \in Workers : pc[w] = "idle"
    BY DEF Init, Threads
  <2>2. \A a \in Actors : Runners(a) = {}
    BY <2>1 DEF Runners
  <2> QED BY <2>2 DEF Running
<1>2. \A a \in Actors : TaskIn(threads, a) = << >> /\ Queue(a) = << >>
  <2>1. \A k \in DOMAIN threads : FALSE
    BY DEF Init
  <2>2. \A a \in Actors : TaskIn(threads, a) = << >>
    BY <2>1, TaskInNone
  <2> QED BY <2>2 DEF Init, Queue
<1>3. << >> \o << >> = << >>
  OBVIOUS
<1>4. Waiting = [a \in Actors |-> << >>]
  BY <1>2, <1>3 DEF Waiting
<1> QED BY <1>1, <1>4 DEF Serial!Init, Init

\* A new entry of the executor's queue is none of another actor.
LEMMA OthersKept ==
    ASSUME Serialised, NEW e, NEW b \in Actors, e.act # b,
           \A k \in DOMAIN threads : k \in DOMAIN threads' /\ threads'[k] = threads[k],
           \A k \in DOMAIN threads' :
              k = Len(threads) + 1 \/ (k \in DOMAIN threads /\ threads'[k] = threads[k]),
           threads'[Len(threads) + 1] = e
    PROVE  TaskIn(threads', b) = TaskIn(threads, b)
<1>1. CASE \E k \in DOMAIN threads : threads[k].act = b
  <2>1. PICK k \in DOMAIN threads : threads[k].act = b
    BY <1>1
  <2>2. \A j \in DOMAIN threads : threads[j].act = b => j = k
    BY <2>1 DEF Serialised, OneInExecutor
  <2>3. \A j \in DOMAIN threads' : threads'[j].act = b => j = k
    BY <2>2
  <2>4. k \in DOMAIN threads' /\ threads'[k] = threads[k]
    OBVIOUS
  <2>5. TaskIn(threads, b) = << threads[k].task >>
    BY <2>1, <2>2, TaskInOne
  <2>6. TaskIn(threads', b) = << threads'[k].task >>
    BY <2>1, <2>3, <2>4, TaskInOne
  <2> QED BY <2>4, <2>5, <2>6
<1>2. CASE \A k \in DOMAIN threads : threads[k].act # b
  <2>1. \A k \in DOMAIN threads' : threads'[k].act # b
    BY <1>2
  <2>2. TaskIn(threads, b) = << >> /\ TaskIn(threads', b) = << >>
    BY <1>2, <2>1, TaskInNone
  <2> QED BY <2>2
<1> QED BY <1>1, <1>2

\* Handing a task over, to the executor or to the actor's queue, is Submit.
LEMMA RefineSubmit ==
    ASSUME Serialised, NEW th \in Threads, StartPlaying(th) \/ Pend(th)
    PROVE  \E a \in Actors, t \in Tasks : Serial!Submit(a, t)
<1> USE PoolAssumption DEF Serialised
<1>0. /\ Unlock(th) /\ UNCHANGED stopped /\ pc[th] \in {"start", "pend"}
      /\ act[th] \in Actors /\ task[th] \in Tasks /\ th = Selector
  BY DEF StartPlaying, Pend, TypeOK, Busy, Threads
<1>1. PICK a \in Actors, t \in Tasks :
         /\ a = act[th] /\ t = task[th] /\ th = Selector
         /\ Unlock(th) /\ UNCHANGED stopped /\ pc[th] \in {"start", "pend"}
  BY <1>0
<1>2. Running' = Running
  <2>1. pc' = [pc EXCEPT ![th] = "idle"] /\ act' = [act EXCEPT ![th] = None]
        /\ task' = [task EXCEPT ![th] = None]
    BY <1>1 DEF Unlock, Goto
  <2>2. \A w \in Workers : pc'[w] = pc[w] /\ act'[w] = act[w] /\ task'[w] = task[w]
    BY <1>1, <2>1
  <2> QED BY <2>2, SameRunning
<1>3. CASE StartPlaying(th)
  <2> DEFINE e == [act |-> a, task |-> t]
  <2>1. threads' = Append(threads, e) /\ UNCHANGED acts /\ a \notin playingNow
    BY <1>1, <1>3 DEF StartPlaying, Execute, StopIsFinal, PlayingExact
  <2>2. e \in Entries /\ threads \in Seq(Entries) /\ e.act = a /\ e.task = t
    BY <1>1 DEF Entries, TypeOK
  <2> HIDE DEF e
  <2>3. /\ \A k \in DOMAIN threads : k \in DOMAIN threads' /\ threads'[k] = threads[k]
        /\ \A k \in DOMAIN threads' :
              k = Len(threads) + 1 \/ (k \in DOMAIN threads /\ threads'[k] = threads[k])
        /\ Len(threads) + 1 \in DOMAIN threads' /\ threads'[Len(threads) + 1] = e
    BY <2>1, <2>2, Appended
  <2>4. ~InExecutor(a) /\ Queue(a) = << >>
    BY <1>1, <2>1 DEF PlayingExact, PendingServed
  <2>5. TaskIn(threads, a) = << >>
    BY <2>4, TaskInNone DEF InExecutor
  <2>6. TaskIn(threads', a) = << t >>
    <3>1. \A j \in DOMAIN threads' : threads'[j].act = a => j = Len(threads) + 1
      BY <2>3, <2>4 DEF InExecutor
    <3> QED BY <2>2, <2>3, <3>1, TaskInOne
  <2>7. \A b \in Actors : b # a => TaskIn(threads', b) = TaskIn(threads, b)
    BY <2>2, <2>3, OthersKept
  <2>8. \A b \in Actors : Queue(b)' = Queue(b)
    BY <2>1 DEF Queue
  <2>9. << t >> \o << >> = Append(<< >> \o << >>, t)
    OBVIOUS
  <2>10. Waiting' = [Waiting EXCEPT ![a] = Append(@, t)]
    BY <1>1, <2>4, <2>5, <2>6, <2>7, <2>8, <2>9 DEF Waiting
  <2> QED BY <1>1, <1>2, <2>10 DEF Serial!Submit
<1>4. CASE Pend(th)
  <2>1. acts' = [acts EXCEPT ![a] = Append(@, t)] /\ UNCHANGED threads
        /\ acts[a] # None
    BY <1>1, <1>4 DEF Pend, PendingServed
  <2>2. Queue(a) = acts[a] /\ Queue(a) \in Seq(Tasks) /\ Queue(a)' = Append(Queue(a), t)
    <3>1. Append(acts[a], t) # None
      <4>1. acts[a] \in Seq(Tasks)
        BY <1>1, <2>1 DEF TypeOK
      <4>2. Append(acts[a], t) \in Seq(Tasks)
        BY <1>1, <4>1
      <4> QED BY <4>2
    <3>2. acts'[a] = Append(acts[a], t)
      BY <1>1, <2>1 DEF TypeOK
    <3> QED BY <1>1, <2>1, <3>1, <3>2, QueueTypes DEF Queue
  <2>3. \A b \in Actors : b # a => Queue(b)' = Queue(b)
    BY <2>1 DEF Queue, TypeOK
  <2>4. TaskIn(threads, a) \in Seq(Tasks)
    <3>1. CASE \E k \in DOMAIN threads : threads[k].act = a
      <4>1. PICK k \in DOMAIN threads : threads[k].act = a
        BY <3>1
      <4>2. TaskIn(threads, a) = << threads[k].task >>
        BY <4>1, TaskInOne DEF OneInExecutor
      <4>3. threads[k] \in Entries
        <5>1. threads \in Seq(Entries)
          BY DEF TypeOK, Entries
        <5> QED BY <5>1, ElementOfSeq
      <4>4. threads[k].task \in Tasks
        BY <4>3 DEF Entries
      <4> QED BY <4>2, <4>4
    <3>2. CASE \A k \in DOMAIN threads : threads[k].act # a
      <4>1. TaskIn(threads, a) = << >>
        BY <3>2, TaskInNone
      <4> QED BY <4>1
    <3> QED BY <3>1, <3>2
  <2>5. TaskIn(threads, a) \o Append(Queue(a), t) = Append(TaskIn(threads, a) \o Queue(a), t)
    BY <1>1, <2>2, <2>4, Back
  <2>6. Waiting' = [Waiting EXCEPT ![a] = Append(@, t)]
    BY <1>1, <2>1, <2>2, <2>3, <2>5 DEF Waiting
  <2> QED BY <1>1, <1>2, <2>6 DEF Serial!Submit
<1> QED BY <1>3, <1>4

\* What an entry of the executor's queue means for its actor.
LEMMA EntryWaits ==
    ASSUME Serialised, NEW a \in Actors
    PROVE  /\ \A k \in DOMAIN threads : threads[k].act = a =>
                 TaskIn(threads, a) = << threads[k].task >> /\ threads[k].task \in Tasks
           /\ (\A k \in DOMAIN threads : threads[k].act # a) => TaskIn(threads, a) = << >>
           /\ Queue(a) \in Seq(Tasks)
<1>1. ASSUME NEW k \in DOMAIN threads, threads[k].act = a
      PROVE  TaskIn(threads, a) = << threads[k].task >> /\ threads[k].task \in Tasks
  <2>1. threads \in Seq(Entries)
    BY DEF Serialised, TypeOK, Entries
  <2>2. threads[k] \in Entries
    BY <2>1, ElementOfSeq
  <2>3. \A j \in DOMAIN threads : threads[j].act = a => j = k
    BY <1>1 DEF Serialised, OneInExecutor
  <2>4. TaskIn(threads, a) = << threads[k].task >>
    BY <1>1, <2>3, TaskInOne
  <2> QED BY <2>2, <2>4 DEF Entries
<1>2. (\A k \in DOMAIN threads : threads[k].act # a) => TaskIn(threads, a) = << >>
  BY TaskInNone
<1> QED BY <1>1, <1>2, QueueTypes DEF Serialised

LEMMA RefineTake ==
    ASSUME Serialised, NEW w \in Workers, Take(w)
    PROVE  \E a \in Actors : Serial!Start(a)
<1> USE PoolAssumption DEF Serialised
<1>1. threads \in Seq(Entries) /\ threads # << >>
  BY DEF Take, TypeOK, Entries
<1>2. /\ threads[1] \in Entries /\ 1 \in DOMAIN threads /\ Head(threads) = threads[1]
      /\ \A k \in DOMAIN Tail(threads) :
            k + 1 \in DOMAIN threads /\ Tail(threads)[k] = threads[k + 1]
      /\ \A k \in DOMAIN threads :
            k = 1 \/ (k - 1 \in DOMAIN Tail(threads) /\ Tail(threads)[k - 1] = threads[k])
      /\ Tail(threads) \in Seq(Entries)
  BY <1>1, HeadAndTail
<1>3. PICK a \in Actors, t \in Tasks : a = threads[1].act /\ t = threads[1].task
  BY <1>2 DEF Entries
<1>4. /\ pc' = [pc EXCEPT ![w] = "run"] /\ act' = [act EXCEPT ![w] = a]
      /\ task' = [task EXCEPT ![w] = t] /\ threads' = Tail(threads)
      /\ UNCHANGED <<acts, stopped>> /\ pc[w] = "idle"
  BY <1>2, <1>3 DEF Take, Goto
<1>5. /\ pc'[w] = "run" /\ act'[w] = a /\ task'[w] = t
      /\ \A v \in Workers \ {w} : pc'[v] = pc[v] /\ act'[v] = act[v] /\ task'[v] = task[v]
  BY <1>4 DEF TypeOK, Threads
<1>6. \A v \in Workers : ~(pc[v] = "run" /\ act[v] = a)
  BY <1>2, <1>3 DEF OneInExecutor
<1>7. ~stopped
  BY <1>1
<1>8. Running' = [Running EXCEPT ![a] = t] /\ Running[a] = None
  <2>1. Runners(a) = {} /\ Runners(a)' = {w}
    BY <1>5, <1>6 DEF Runners
  <2>2. Running[a] = None /\ Running'[a] = t
    <3>1. Running'[a] = task'[CHOOSE v \in Runners(a)' : TRUE]
      BY <2>1 DEF Running
    <3> QED BY <1>5, <2>1, <3>1, RunningOne DEF Running
  <2>3. \A b \in Actors : b # a => Runners(b)' = Runners(b)
                              /\ \A v \in Runners(b) : task'[v] = task[v]
    BY <1>4, <1>5 DEF Runners
  <2>4. \A b \in Actors : b # a => Running'[b] = Running[b]
    BY <2>3, RunningKept
  <2> QED BY <1>3, <2>2, <2>4, RunningIsFunction
<1>9. TaskIn(threads, a) = << t >>
  BY <1>2, <1>3, EntryWaits
<1>10. TaskIn(threads', a) = << >>
  <2>1. \A k \in DOMAIN threads' : k \in Nat \ {0}
    BY <1>2, <1>4
  <2>2. \A j \in DOMAIN threads : threads[j].act = a => j = 1
    BY <1>2, <1>3 DEF OneInExecutor
  <2>3. \A k \in DOMAIN threads' : threads'[k].act # a
    BY <1>2, <1>4, <2>1, <2>2
  <2> QED BY <2>3, TaskInNone
<1>11. \A b \in Actors : b # a => TaskIn(threads', b) = TaskIn(threads, b)
  <2> SUFFICES ASSUME NEW b \in Actors, b # a
               PROVE  TaskIn(threads', b) = TaskIn(threads, b)
    OBVIOUS
  <2>1. CASE \E k \in DOMAIN threads : threads[k].act = b
    <3>1. PICK k \in DOMAIN threads : threads[k].act = b
      BY <2>1
    <3>2. k - 1 \in DOMAIN threads' /\ threads'[k - 1] = threads[k]
      BY <1>2, <1>3, <1>4, <3>1
    <3>3. \A j \in DOMAIN threads' : threads'[j].act = b => j = k - 1
      <4>1. \A j \in DOMAIN threads' : threads'[j].act = b => j + 1 = k
        BY <1>2, <1>4, <3>1 DEF OneInExecutor
      <4>2. \A j \in DOMAIN threads' : j \in Nat
        BY <1>2, <1>4
      <4> QED BY <4>1, <4>2
    <3>4. TaskIn(threads', b) = << threads'[k - 1].task >>
      BY <3>1, <3>2, <3>3, TaskInOne
    <3> QED BY <3>1, <3>2, <3>4, EntryWaits
  <2>2. CASE \A k \in DOMAIN threads : threads[k].act # b
    <3>1. \A k \in DOMAIN threads' : threads'[k].act # b
      BY <1>2, <1>4, <2>2
    <3>2. TaskIn(threads', b) = << >>
      BY <3>1, TaskInNone
    <3> QED BY <2>2, <3>2, EntryWaits
  <2> QED BY <2>1, <2>2
<1>12. \A b \in Actors : Queue(b)' = Queue(b) /\ Queue(b) \in Seq(Tasks)
  BY <1>4, EntryWaits DEF Queue
<1>13. /\ << t >> \o Queue(a) # << >> /\ Head(<< t >> \o Queue(a)) = t
       /\ Tail(<< t >> \o Queue(a)) = Queue(a) /\ << >> \o Queue(a) = Queue(a)
  BY <1>3, <1>12, Front
<1>14. /\ Waiting[a] # << >> /\ Head(Waiting[a]) = t
       /\ Waiting' = [Waiting EXCEPT ![a] = Tail(@)]
  BY <1>3, <1>9, <1>10, <1>11, <1>12, <1>13 DEF Waiting
<1> QED BY <1>3, <1>4, <1>7, <1>8, <1>14 DEF Serial!Start

LEMMA RefineRunTask ==
    ASSUME Serialised, NEW w \in Workers, RunTask(w)
    PROVE  \E a \in Actors : Serial!Finish(a)
<1> USE PoolAssumption DEF Serialised
<1>1. /\ pc[w] = "run" /\ pc' = [pc EXCEPT ![w] = "enter"]
      /\ UNCHANGED <<acts, threads, act, task, stopped>>
  BY DEF RunTask, Goto
<1>2. PICK a \in Actors, t \in Tasks : a = act[w] /\ t = task[w]
  BY <1>1 DEF TypeOK, Threads
<1>3. pc'[w] = "enter" /\ \A v \in Workers \ {w} : pc'[v] = pc[v]
  BY <1>1 DEF TypeOK, Threads
<1>4. \A v \in Workers : pc[v] = "run" /\ act[v] = a => v = w
  BY <1>1, <1>2 DEF OneInExecutor
<1>5. Runners(a) = {w} /\ Runners(a)' = {}
  BY <1>1, <1>2, <1>3, <1>4 DEF Runners
<1>6. Running[a] = t /\ Running'[a] = None
  <2>1. Running[a] = task[CHOOSE v \in Runners(a) : TRUE]
    BY <1>5 DEF Running
  <2> QED BY <1>2, <1>5, <2>1, RunningOne DEF Running
<1>7. \A b \in Actors : b # a => Running'[b] = Running[b]
  <2>1. \A b \in Actors : b # a => Runners(b)' = Runners(b)
                              /\ \A v \in Runners(b) : task'[v] = task[v]
    BY <1>1, <1>2, <1>3 DEF Runners
  <2> QED BY <2>1, RunningKept
<1>8. Running' = [Running EXCEPT ![a] = None] /\ Running[a] # None
  BY <1>2, <1>6, <1>7, RunningIsFunction
<1>9. Waiting' = Waiting
  BY <1>1 DEF Waiting, Queue
<1> QED BY <1>1, <1>2, <1>8, <1>9 DEF Serial!Finish

\* Sending the next pending task on moves it within Waiting; after a shutdown
\* it is lost.
LEMMA RefineComplete ==
    ASSUME Serialised, NEW th \in Threads, Complete(th)
    PROVE  UNCHANGED <<Waiting, Running, stopped>> \/ \E a \in Actors : Serial!Lose(a)
<1> USE PoolAssumption DEF Serialised
<1>0. /\ pc[th] = "next" /\ Unlock(th) /\ UNCHANGED stopped
      /\ act[th] \in Actors /\ th \in Workers
  BY DEF Complete, TypeOK, Threads
<1>1. PICK a \in Actors : a = act[th]
  BY <1>0
<1>2. Running' = Running
  <2>1. pc' = [pc EXCEPT ![th] = "idle"] /\ act' = [act EXCEPT ![th] = None]
        /\ task' = [task EXCEPT ![th] = None]
    BY <1>0 DEF Unlock, Goto
  <2>2. \A w \in Workers : pc[w] = "run" \/ pc'[w] = "run" =>
           pc'[w] = pc[w] /\ act'[w] = act[w] /\ task'[w] = task[w]
    BY <1>0, <2>1 DEF TypeOK, Threads
  <2> QED BY <2>2, SameRunning
<1>3. acts[a] \in Seq(Tasks) /\ Queue(a) = acts[a]
  BY <1>0, <1>1 DEF PendingServed, TypeOK, Queue
<1>4. \A k \in DOMAIN threads : threads[k].act # a
  BY <1>0, <1>1 DEF OneInExecutor
<1>5. TaskIn(threads, a) = << >>
  BY <1>4, TaskInNone
<1>6. CASE acts[a] = << >>
  <2>1. UNCHANGED <<acts, threads>>
    BY <1>1, <1>6 DEF Complete
  <2>2. Waiting' = Waiting
    BY <2>1 DEF Waiting, Queue
  <2> QED BY <1>0, <1>2, <2>2
<1>7. CASE acts[a] # << >>
  <2> DEFINE h == Head(acts[a])
             e == [act |-> a, task |-> h]
  <2>1. /\ acts' = [acts EXCEPT ![a] = Tail(@)]
        /\ threads' = IF stopped THEN threads ELSE Append(threads, e)
    BY <1>1, <1>7 DEF Complete, Execute
  <2>2. h \in Tasks /\ Tail(acts[a]) \in Seq(Tasks)
    BY <1>3, <1>7
  <2>3. Queue(a)' = Tail(acts[a]) /\ \A b \in Actors : b # a => Queue(b)' = Queue(b)
    <3>1. Tail(acts[a]) # None
      BY <2>2
    <3> QED BY <2>1, <3>1 DEF Queue, TypeOK
  <2>4. /\ << >> \o acts[a] = acts[a] /\ << >> \o Tail(acts[a]) = Tail(acts[a])
        /\ << h >> \o Tail(acts[a]) = acts[a]
    <3>1. << >> \o acts[a] = acts[a] /\ << >> \o Tail(acts[a]) = Tail(acts[a])
      BY <1>3, <2>2, ConcatEmptySeq
    <3>2. << h >> \o Tail(acts[a]) = acts[a]
      BY <1>3, <1>7, <2>2, Front
    <3> QED BY <3>1, <3>2
  <2>5. CASE stopped
    <3>1. \A b \in Actors : TaskIn(threads', b) = TaskIn(threads, b)
      BY <2>1, <2>5
    <3>2. Waiting[a] = acts[a] /\ Waiting'[a] = Tail(Waiting[a])
          /\ \A b \in Actors : b # a => Waiting'[b] = Waiting[b]
      BY <1>3, <1>5, <2>3, <2>4, <3>1 DEF Waiting
    <3>3. Waiting' = Serial!Dropped({a})
      BY <3>2 DEF Serial!Dropped, Waiting
    <3> QED BY <1>0, <1>2, <1>7, <2>5, <3>2, <3>3 DEF Serial!Lose
  <2>6. CASE ~stopped
    <3>1. e \in Entries /\ threads \in Seq(Entries) /\ e.act = a /\ e.task = h
      BY <2>2 DEF Entries, TypeOK
    <3> HIDE DEF e
    <3>2. /\ \A k \in DOMAIN threads : k \in DOMAIN threads' /\ threads'[k] = threads[k]
          /\ \A k \in DOMAIN threads' :
                k = Len(threads) + 1 \/ (k \in DOMAIN threads /\ threads'[k] = threads[k])
          /\ Len(threads) + 1 \in DOMAIN threads' /\ threads'[Len(threads) + 1] = e
      BY <2>1, <2>6, <3>1, Appended
    <3>3. TaskIn(threads', a) = << h >>
      <4>1. \A j \in DOMAIN threads' : threads'[j].act = a => j = Len(threads) + 1
        BY <1>4, <3>2
      <4> QED BY <3>1, <3>2, <4>1, TaskInOne
    <3>4. \A b \in Actors : b # a => TaskIn(threads', b) = TaskIn(threads, b)
      BY <3>1, <3>2, OthersKept
    <3>5. \A b \in Actors : Waiting'[b] = Waiting[b]
      BY <1>3, <1>5, <2>3, <2>4, <3>3, <3>4 DEF Waiting
    <3> QED BY <1>0, <1>2, <3>5 DEF Waiting
  <2> QED BY <2>5, <2>6
<1> QED BY <1>6, <1>7

LEMMA RefineShutdown ==
    ASSUME Serialised, Shutdown
    PROVE  Serial!Shutdown
<1> USE PoolAssumption DEF Serialised
<1>1. /\ pc[Selector] = "idle" /\ pc' = [pc EXCEPT ![Selector] = "ended"]
      /\ stopped' = TRUE /\ threads' = << >> /\ UNCHANGED <<acts, act, task>>
  BY DEF Shutdown, Goto
<1>2. Running' = Running
  <2>1. \A w \in Workers : pc'[w] = pc[w]
    BY <1>1 DEF TypeOK
  <2> QED BY <1>1, <2>1, SameRunning
<1> DEFINE lost == {a \in Actors : \E k \in DOMAIN threads : threads[k].act = a}
<1>3. \A a \in Actors : Waiting'[a] = << >> \o Queue(a)
  <2>1. \A k \in DOMAIN threads' : FALSE
    BY <1>1
  <2>2. \A a \in Actors : TaskIn(threads', a) = << >>
    BY <2>1, TaskInNone
  <2>3. \A a \in Actors : Queue(a)' = Queue(a)
    BY <1>1 DEF Queue
  <2> QED BY <2>2, <2>3 DEF Waiting
<1>4. \A a \in lost : Waiting[a] # << >> /\ Waiting'[a] = Tail(Waiting[a])
  <2> SUFFICES ASSUME NEW a \in lost
               PROVE  Waiting[a] # << >> /\ Waiting'[a] = Tail(Waiting[a])
    OBVIOUS
  <2>1. PICK k \in DOMAIN threads : threads[k].act = a
    OBVIOUS
  <2> DEFINE t == threads[k].task
  <2>2. TaskIn(threads, a) = << t >> /\ t \in Tasks /\ Queue(a) \in Seq(Tasks)
    BY <2>1, EntryWaits
  <2> HIDE DEF t
  <2>3. << t >> \o Queue(a) # << >> /\ Tail(<< t >> \o Queue(a)) = Queue(a)
        /\ << >> \o Queue(a) = Queue(a)
    BY <2>2, Front
  <2>4. Waiting[a] = << t >> \o Queue(a)
    BY <2>2 DEF Waiting
  <2> QED BY <1>3, <2>3, <2>4
<1>5. \A a \in Actors \ lost : Waiting'[a] = Waiting[a]
  BY <1>3, EntryWaits DEF Waiting
<1> HIDE DEF lost
<1>6. Waiting' = [a \in Actors |-> Waiting'[a]]
  BY DEF Waiting
<1>7. Waiting' = Serial!Dropped(lost)
  BY <1>4, <1>5, <1>6 DEF Serial!Dropped
<1>8. lost \in SUBSET {a \in Actors : Waiting[a] # << >>}
  BY <1>4 DEF lost
<1>9. ~stopped
  BY <1>1 DEF StopIsFinal
<1> QED BY <1>1, <1>2, <1>7, <1>8, <1>9 DEF Serial!Shutdown

\* The steps that only a thread itself can see.
LEMMA RefineQuiet ==
    ASSUME Serialised,
           \/ \E a \in Actors : Submit(a)
           \/ \E th \in Threads : Enter(th) \/ Test(th) \/ Lookup(th) \/ Make(th)
    PROVE  UNCHANGED <<Waiting, Running, stopped>>
<1> USE PoolAssumption DEF Serialised
<1>1. ASSUME NEW a \in Actors, Submit(a) PROVE UNCHANGED <<Waiting, Running, stopped>>
  <2>1. UNCHANGED <<acts, threads, stopped>> /\ pc' = [pc EXCEPT ![Selector] = "enter"]
        /\ act' = [act EXCEPT ![Selector] = a]
        /\ task' = [task EXCEPT ![Selector] = submitted[a] + 1]
    BY <1>1 DEF Submit, Goto
  <2>2. \A w \in Workers : pc'[w] = pc[w] /\ act'[w] = act[w] /\ task'[w] = task[w]
    BY <2>1 DEF TypeOK, Threads
  <2>3. Waiting' = Waiting
    BY <2>1 DEF Waiting, Queue
  <2> QED BY <2>1, <2>2, <2>3, SameRunning
<1>2. ASSUME NEW th \in Threads, Enter(th) \/ Test(th) \/ Lookup(th) \/ Make(th)
      PROVE  UNCHANGED <<Waiting, Running, stopped>>
  <2>1. UNCHANGED <<threads, act, task, stopped>> /\ pc[th] # "run" /\ pc'[th] # "run"
        /\ \A u \in Threads \ {th} : pc'[u] = pc[u]
    <3>1. \A step : Goto(th, step) =>
             pc'[th] = step /\ \A u \in Threads \ {th} : pc'[u] = pc[u]
      BY DEF Goto, TypeOK
    <3> QED BY <1>2, <3>1 DEF Enter, Test, Lookup, Make, AfterLookup
  <2>2. Running' = Running
    BY <2>1, SameRunning DEF Threads
  <2>3. \A a \in Actors : Queue(a)' = Queue(a)
    <3>1. acts' = acts \/ (acts[act[th]] = None /\ acts' = [acts EXCEPT ![act[th]] = << >>])
      BY <1>2 DEF Enter, Test, Lookup, Make, NoQueueReplaced
    <3> QED BY <3>1 DEF Queue, TypeOK
  <2>4. Waiting' = Waiting
    BY <2>1, <2>3 DEF Waiting
  <2> QED BY <2>1, <2>2, <2>4
<1> QED BY <1>1, <1>2

LEMMA RefineStep == Serialised /\ [Next]_vars => [Serial!Next]_(Serial!vars)
<1> SUFFICES ASSUME Serialised, [Next]_vars
             PROVE  Serial!Next \/ UNCHANGED <<Waiting, Running, stopped>>
  BY DEF Serial!vars
<1>1. CASE UNCHANGED vars
  BY <1>1 DEF vars, Waiting, Running, Runners, Queue
<1>2. CASE Shutdown
  BY <1>2, RefineShutdown DEF Serial!Next
<1>3. CASE \E a \in Actors : Submit(a)
  BY <1>3, RefineQuiet
<1>4. ASSUME NEW th \in Threads, Step(th)
      PROVE  Serial!Next \/ UNCHANGED <<Waiting, Running, stopped>>
  <2>1. CASE Enter(th) \/ Test(th) \/ Lookup(th) \/ Make(th)
    BY <2>1, RefineQuiet
  <2>2. CASE StartPlaying(th) \/ Pend(th)
    BY <2>2, RefineSubmit DEF Serial!Next
  <2>3. CASE Complete(th)
    BY <2>3, RefineComplete DEF Serial!Next
  <2>4. CASE th \in Workers /\ Take(th)
    BY <2>4, RefineTake DEF Serial!Next
  <2>5. CASE th \in Workers /\ RunTask(th)
    BY <2>5, RefineRunTask DEF Serial!Next
  <2> QED BY <1>4, <2>1, <2>2, <2>3, <2>4, <2>5 DEF Step, InPool
<1> QED BY <1>1, <1>2, <1>3, <1>4, NextCases

\* The pool is a serial executor: tasks of one handler start one at a time, in
\* the order the selector submitted them, and only a shutdown loses one.
THEOREM PoolRefinesSerialExecutor == Spec => Serial!Spec
<1>1. Spec => []Serialised
  BY PoolSerialises
<1>2. Init => Serial!Init
  BY RefineInit
<1>3. Serialised /\ [Next]_vars => [Serial!Next]_(Serial!vars)
  BY RefineStep
<1> QED BY <1>1, <1>2, <1>3, PTL DEF Spec, Serial!Spec

=============================================================================
