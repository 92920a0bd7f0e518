--------------------------- MODULE SerialExecutor ---------------------------
(***************************************************************************)
(* What the reactor needs of its thread pool: tasks submitted for one      *)
(* actor (one connection's handler) run one at a time and in the order of  *)
(* submission, and none is lost as long as the pool has not been shut      *)
(* down.  Tasks of different actors run side by side.                      *)
(***************************************************************************)
EXTENDS Sequences, Naturals

CONSTANTS Actors, Tasks, None

VARIABLES
    waiting,    \* actor -> the tasks submitted for it and not yet started
    running,    \* actor -> the task that runs for it, or None
    stopped     \* has the pool been shut down?

vars == <<waiting, running, stopped>>

Init ==
    /\ waiting = [a \in Actors |-> << >>]
    /\ running = [a \in Actors |-> None]
    /\ stopped = FALSE

Submit(a, t) ==
    /\ waiting' = [waiting EXCEPT ![a] = Append(@, t)]
    /\ UNCHANGED <<running, stopped>>

Start(a) ==
    /\ ~stopped
    /\ running[a] = None
    /\ waiting[a] # << >>
    /\ running' = [running EXCEPT ![a] = Head(waiting[a])]
    /\ waiting' = [waiting EXCEPT ![a] = Tail(@)]
    /\ UNCHANGED stopped

Finish(a) ==
    /\ running[a] # None
    /\ running' = [running EXCEPT ![a] = None]
    /\ UNCHANGED <<waiting, stopped>>

\* The tasks that stood first in line when the pool was shut down, or come to
\* stand there later, are dropped.
Dropped(lost) == [a \in Actors |-> IF a \in lost THEN Tail(waiting[a]) ELSE waiting[a]]

Shutdown ==
    /\ ~stopped
    /\ stopped' = TRUE
    /\ \E lost \in SUBSET {a \in Actors : waiting[a] # << >>} : waiting' = Dropped(lost)
    /\ UNCHANGED running

Lose(a) ==
    /\ stopped
    /\ waiting[a] # << >>
    /\ waiting' = Dropped({a})
    /\ UNCHANGED <<running, stopped>>

Next ==
    \/ Shutdown
    \/ \E a \in Actors :
         (\E t \in Tasks : Submit(a, t)) \/ Start(a) \/ Finish(a) \/ Lose(a)

Spec == Init /\ [][Next]_vars

Fairness == \A a \in Actors : WF_vars(Start(a)) /\ WF_vars(Finish(a))
FairSpec == Spec /\ Fairness
=============================================================================
