------------------------------ MODULE EventLoop ------------------------------
(***************************************************************************)
(* The single-threaded event loop of the runtime                           *)
(* (runtime/tinyswift_runtime.c, section Async Runtime): a growing array   *)
(* of tasks, each a frame with a resume function, and a loop that resumes  *)
(* them in turn and removes the ones that complete.                        *)
(*                                                                         *)
(* resume_fn is foreign code.  A call of it may submit other tasks, block  *)
(* on one or start a timer, and then returns NULL (the task is suspended)  *)
(* or a result (it is complete).  left[t] is how often t will still        *)
(* suspend.  It does not run the event loop again: no task is resumed      *)
(* while it runs.                                                          *)
(***************************************************************************)
EXTENDS Integers, Sequences, FiniteSets

CONSTANTS Task,
          Null,       \* the tasks whose resume_fn is NULL
          FirstCap,   \* the first capacity of the array, 64 in the code
          MaxLeft     \* bound: how often a task suspends

ASSUME NullAssumption == Null \subseteq Task
ASSUME CapAssumption == FirstCap \in Nat \ {0}
ASSUME LeftAssumption == MaxLeft \in Nat

VARIABLES tasks,   \* event_loop_tasks[0 .. event_loop_task_count - 1]
          cap,     \* event_loop_task_capacity
          at,      \* where the thread is: "out" of the loop, at its "test",
                   \* or in the "call" of a task's resume_fn
          i,       \* the loop variable
          left,    \* how often each task will still suspend
          status,  \* what has become of each task
          turns    \* the tasks that had their turn in this pass (history)

vars == <<tasks, cap, at, i, left, status, turns>>

count == Len(tasks)

Queued == {tasks[j] : j \in 1..count}

TypeOK ==
  /\ tasks \in Seq(Task)
  /\ cap \in Nat
  /\ at \in {"out", "test", "call"}
  /\ i \in Nat
  /\ left \in [Task -> 0..MaxLeft]
  /\ status \in [Task -> {"new", "queued", "done", "dropped", "blocked",
                          "timed"}]
  /\ turns \subseteq Task

Init ==
  /\ tasks = << >>
  /\ cap = 0
  /\ at = "out"
  /\ i = 0
  /\ left \in [Task -> 0..MaxLeft]
  /\ status = [t \in Task |-> "new"]
  /\ turns = {}

-----------------------------------------------------------------------------
\* Program code runs outside the loop or in the resume function of a task.
Running == at \in {"out", "call"}

\* __tinyswift_async_submit.  ensure_task_capacity doubles a full array; when
\* realloc fails it returns with the array as it was, and the task is dropped.
Submit(t) ==
  /\ Running
  /\ status[t] = "new"
  /\ \/ /\ tasks' = Append(tasks, t)
        /\ cap' = IF count < cap THEN cap
                  ELSE IF cap = 0 THEN FirstCap ELSE 2 * cap
        /\ status' = [status EXCEPT ![t] = "queued"]
     \/ /\ count >= cap
        /\ status' = [status EXCEPT ![t] = "dropped"]
        /\ UNCHANGED <<tasks, cap>>
  /\ UNCHANGED <<at, i, left, turns>>

\* The call of a resume function outside the loop: its result is not looked
\* at, a task that suspends ends up as `suspended`.
ResumeOnce(t, suspended) ==
  /\ Running
  /\ status[t] = "new"
  /\ t \notin Null
  /\ IF left[t] = 0
     THEN status' = [status EXCEPT ![t] = "done"] /\ UNCHANGED left
     ELSE /\ status' = [status EXCEPT ![t] = suspended]
          /\ left' = [left EXCEPT ![t] = @ - 1]
  /\ UNCHANGED <<tasks, cap, at, i, turns>>

\* __tinyswift_block_on
BlockOn(t) == ResumeOnce(t, "blocked")

\* __tinyswift_timer_create: sleeps, then resumes.
Timer(t) == ResumeOnce(t, "timed")

-----------------------------------------------------------------------------
\* __tinyswift_run_event_loop is called with tasks to run.
Enter ==
  /\ at = "out"
  /\ count > 0
  /\ at' = "test"
  /\ i' = 0
  /\ turns' = {}
  /\ UNCHANGED <<tasks, cap, left, status>>

\* The for loop skips a task without a resume function.
Skip ==
  /\ at = "test"
  /\ i < count
  /\ tasks[i + 1] \in Null
  /\ i' = i + 1
  /\ turns' = turns \cup {tasks[i + 1]}
  /\ UNCHANGED <<tasks, cap, at, left, status>>

\* The for loop calls the resume function of the task at i.
Call ==
  /\ at = "test"
  /\ i < count
  /\ tasks[i + 1] \notin Null
  /\ at' = "call"
  /\ UNCHANGED <<tasks, cap, i, left, status, turns>>

\* The resume function returns NULL.
Suspend ==
  /\ at = "call"
  /\ left[tasks[i + 1]] > 0
  /\ left' = [left EXCEPT ![tasks[i + 1]] = @ - 1]
  /\ turns' = turns \cup {tasks[i + 1]}
  /\ i' = i + 1
  /\ at' = "test"
  /\ UNCHANGED <<tasks, cap, status>>

\* Mutant: the last task is dropped with the completed one.
WithoutAndLast(s, j) == SubSeq(s, 1, Len(s) - 1)

\* The array without its j-th task: the last task takes its slot.
Without(s, j) ==
  [n \in 1..(Len(s) - 1) |-> IF n = j THEN s[Len(s)] ELSE s[n]]

\* Mutant: the slot the last task was moved to is not looked at again.
AfterRemovalNext(n) == n + 1

\* i-- before the loop's ++i.
AfterRemoval(n) == n

\* The resume function returns a result: the task is removed, and its slot,
\* which holds another task now, is looked at again.
Complete ==
  /\ at = "call"
  /\ left[tasks[i + 1]] = 0
  /\ tasks' = Without(tasks, i + 1)
  /\ status' = [status EXCEPT ![tasks[i + 1]] = "done"]
  /\ turns' = turns \cup {tasks[i + 1]}
  /\ i' = AfterRemoval(i)
  /\ at' = "test"
  /\ UNCHANGED <<cap, left>>

\* Mutant: the loop runs again although no task is left.
LeaveNever == FALSE

Leave == count = 0

\* The for loop is at its end: the while loop ends or makes another pass.
EndPass ==
  /\ at = "test"
  /\ i >= count
  /\ at' = IF Leave THEN "out" ELSE "test"
  /\ i' = 0
  /\ turns' = {}
  /\ UNCHANGED <<tasks, cap, left, status>>

Loop == Enter \/ Skip \/ Call \/ Suspend \/ Complete \/ EndPass

Next ==
  \/ Loop
  \/ \E t \in Task : Submit(t) \/ BlockOn(t) \/ Timer(t)

Spec == Init /\ [][Next]_vars

\* The thread does not stop in the loop, every resume function returns, and a
\* program with tasks calls the loop.
FairSpec == Spec /\ WF_vars(Loop)

-----------------------------------------------------------------------------
\* A task is in the array exactly while it is queued, and in one slot:
\* completions that move the last task into a slot, and submissions in the
\* middle of a pass, neither lose a task nor leave a completed one.
QueuedOnce ==
  /\ Queued = {t \in Task : status[t] = "queued"}
  /\ \A j, k \in 1..count : tasks[j] = tasks[k] => j = k

\* Round-robin: in a pass the loop has given a turn to the tasks in the slots
\* before i and to no other that is still queued, so that no task has a second
\* turn before the others had one, wherever removals have moved it.
OneTurnPerPass ==
  at # "out" => \A j \in 1..count : (tasks[j] \in turns) <=> (j <= i)

\* While a resume function runs, the slot of its task stays where the loop
\* will look for it when the function returns, whatever the function submits.
CallKeepsSlot == [][at = "call" /\ at' = "call" => tasks'[i'+1] = tasks[i+1]]_vars

\* What makes the properties above inductive: while a resume function runs, or
\* the loop looks at a slot, i is where it must be; the tasks that had a turn
\* were submitted before.
Position ==
  /\ at = "test" => i <= count
  /\ at = "call" => i < count

TurnsAreSubmitted == \A t \in turns : status[t] \in {"queued", "done"}

IInv == TypeOK /\ QueuedOnce /\ OneTurnPerPass /\ Position /\ TurnsAreSubmitted

\* Every task that was queued, and has a resume function, is run to its end.
QueuedIsDone ==
  \A t \in Task \ Null : (status[t] = "queued") ~> (status[t] = "done")

\* The loop "runs all tasks until none remain", and returns.  It does so only
\* if every task it is given has a resume function: it tests for the others,
\* but never removes them.
LoopReturns ==
  (at = "test") ~> (at = "out" /\ count = 0) \/ Queued \cap Null # {}

\* Nobody waits for ever: each task that was queued and can run is done, and
\* the loop returns.
LoopEnds == QueuedIsDone /\ LoopReturns
==============================================================================
