--------------------------- MODULE EventLoopProofs ---------------------------
(***************************************************************************)
(* Proofs about EventLoop, for any set of tasks, any first capacity and    *)
(* any number of suspensions.                                              *)
(***************************************************************************)
EXTENDS EventLoop, TLAPS

\* Appending a task: the array holds what it held, and the task behind it.
LEMMA AppendSlots ==
  ASSUME NEW s \in Seq(Task), NEW t \in Task
  PROVE  /\ Append(s, t) \in Seq(Task)
         /\ Len(Append(s, t)) = Len(s) + 1
         /\ \A j \in 1..Len(s) : Append(s, t)[j] = s[j]
         /\ Append(s, t)[Len(s) + 1] = t
  OBVIOUS

\* Removing the j-th task: one slot fewer, the last task in the j-th slot and
\* the others where they were.
LEMMA WithoutSlots ==
  ASSUME NEW s \in Seq(Task), NEW j \in 1..Len(s)
  PROVE  /\ Without(s, j) \in Seq(Task)
         /\ Len(Without(s, j)) = Len(s) - 1
         /\ \A n \in 1..(Len(s) - 1) :
              Without(s, j)[n] = IF n = j THEN s[Len(s)] ELSE s[n]
<1>1. Len(s) - 1 \in Nat
  OBVIOUS
<1>2. \A n \in 1..(Len(s) - 1) : (IF n = j THEN s[Len(s)] ELSE s[n]) \in Task
  OBVIOUS
<1>3. Without(s, j) \in [1..(Len(s) - 1) -> Task]
  BY <1>2 DEF Without
<1> QED
  BY <1>1, <1>2, <1>3 DEF Without

\* The initial states satisfy the inductive invariant.
LEMMA InitHolds == Init => IInv
  BY LeftAssumption DEF Init, IInv, TypeOK, QueuedOnce, OneTurnPerPass,
     Position, TurnsAreSubmitted, Queued, count

\* A submission, whether realloc succeeds or not, keeps it.
LEMMA SubmitHolds ==
  ASSUME IInv, NEW t \in Task, Submit(t)
  PROVE  IInv'
<1> USE DEF count
<1>1. /\ tasks \in Seq(Task) /\ cap \in Nat /\ i \in Nat
      /\ at \in {"out", "call"} /\ status[t] = "new"
      /\ UNCHANGED <<at, i, left, turns>>
  BY DEF IInv, TypeOK, Submit, Running
<1>2. CASE /\ tasks' = Append(tasks, t)
           /\ cap' = IF count < cap THEN cap
                     ELSE IF cap = 0 THEN FirstCap ELSE 2 * cap
           /\ status' = [status EXCEPT ![t] = "queued"]
  <2> DEFINE n == Len(tasks)
  <2>1. /\ tasks' \in Seq(Task)
        /\ Len(tasks') = n + 1
        /\ \A j \in 1..n : tasks'[j] = tasks[j]
        /\ tasks'[n + 1] = t
        /\ n \in Nat
    BY <1>1, <1>2, AppendSlots
  <2>2. \A j \in 1..n : tasks[j] # t
    BY <1>1 DEF IInv, QueuedOnce, Queued
  <2>3. TypeOK'
    BY <1>1, <1>2, <2>1, CapAssumption DEF IInv, TypeOK
  <2>4. Queued' = Queued \cup {t}
    <3>1. 1..(n + 1) = 1..n \cup {n + 1}
      BY <2>1
    <3> QED
      BY <2>1, <3>1 DEF Queued
  <2>5. QueuedOnce'
    <3>1. Queued' = {u \in Task : status'[u] = "queued"}
      BY <2>4, <1>2 DEF IInv, TypeOK, QueuedOnce
    <3>2. ASSUME NEW j \in 1..(n + 1), NEW k \in 1..(n + 1),
                 tasks'[j] = tasks'[k]
          PROVE  j = k
      BY <2>1, <2>2, <3>2 DEF IInv, QueuedOnce
    <3> QED
      BY <2>1, <3>1, <3>2 DEF QueuedOnce
  <2>6. t \notin turns
    BY <1>1 DEF IInv, TurnsAreSubmitted
  <2>7. OneTurnPerPass'
    <3>1. SUFFICES ASSUME at # "out", NEW j \in 1..(n + 1)
                   PROVE  (tasks'[j] \in turns) <=> (j <= i)
      BY <1>1, <2>1 DEF OneTurnPerPass
    <3>2. i < n
      BY <1>1, <3>1 DEF IInv, Position
    <3> QED
      BY <1>1, <2>1, <2>6, <3>1, <3>2 DEF IInv, OneTurnPerPass
  <2>8. Position'
    BY <1>1, <2>1 DEF IInv, Position
  <2>9. TurnsAreSubmitted'
    BY <1>1, <1>2 DEF IInv, TypeOK, TurnsAreSubmitted
  <2> QED
    BY <2>3, <2>5, <2>7, <2>8, <2>9 DEF IInv
<1>3. CASE status' = [status EXCEPT ![t] = "dropped"] /\ UNCHANGED <<tasks, cap>>
  BY <1>1, <1>3 DEF IInv, TypeOK, QueuedOnce, Queued, OneTurnPerPass,
     Position, TurnsAreSubmitted
<1> QED
  BY <1>2, <1>3 DEF Submit

\* So does a resume function called by block_on or a timer.
LEMMA ResumeOnceHolds ==
  ASSUME IInv, NEW t \in Task, NEW s \in {"blocked", "timed"}, ResumeOnce(t, s)
  PROVE  IInv'
<1>1. /\ UNCHANGED <<tasks, cap, at, i, turns>>
      /\ status[t] = "new"
      /\ \E x \in {"done", s} : status' = [status EXCEPT ![t] = x]
      /\ left' \in [Task -> 0..MaxLeft]
  BY LeftAssumption DEF ResumeOnce, IInv, TypeOK
<1>2. \A u \in Task : (status'[u] = "queued") <=> (status[u] = "queued")
  BY <1>1 DEF IInv, TypeOK
<1>3. TypeOK'
  BY <1>1 DEF IInv, TypeOK
<1>4. QueuedOnce'
  BY <1>1, <1>2 DEF IInv, QueuedOnce, Queued, count
<1>5. OneTurnPerPass' /\ Position'
  BY <1>1 DEF IInv, OneTurnPerPass, Position, count
<1>6. TurnsAreSubmitted'
  BY <1>1 DEF IInv, TypeOK, TurnsAreSubmitted
<1> QED
  BY <1>3, <1>4, <1>5, <1>6 DEF IInv

\* So do the steps of the loop that leave the array alone: entering, skipping,
\* calling and the end of a pass.
LEMMA TestHolds ==
  ASSUME IInv, Enter \/ Skip \/ Call \/ EndPass
  PROVE  IInv'
<1>1. /\ UNCHANGED <<tasks, cap, left, status>>
      /\ tasks \in Seq(Task) /\ i \in Nat /\ Len(tasks) \in Nat
  BY DEF Enter, Skip, Call, EndPass, IInv, TypeOK
<1>2. QueuedOnce'
  BY <1>1 DEF IInv, QueuedOnce, Queued, count
<1>3. CASE Enter
  BY <1>1, <1>2, <1>3 DEF Enter, IInv, TypeOK, OneTurnPerPass, Position,
     TurnsAreSubmitted, count
<1>4. CASE Skip
  <2>1. tasks[i + 1] \in Task /\ tasks[i + 1] \in Queued
    BY <1>1, <1>4 DEF Skip, Queued, count
  <2>2. TypeOK' /\ Position'
    BY <1>1, <1>4, <2>1 DEF Skip, IInv, TypeOK, Position, count
  <2>3. OneTurnPerPass'
    BY <1>1, <1>4 DEF Skip, IInv, QueuedOnce, OneTurnPerPass, count
  <2>4. TurnsAreSubmitted'
    BY <1>1, <1>4, <2>1 DEF Skip, IInv, QueuedOnce, TurnsAreSubmitted
  <2> QED
    BY <1>2, <2>2, <2>3, <2>4 DEF IInv
<1>5. CASE Call
  BY <1>1, <1>2, <1>5 DEF Call, IInv, TypeOK, OneTurnPerPass, Position,
     TurnsAreSubmitted, count
<1>6. CASE EndPass
  <2>1. i' = 0 /\ turns' = {} /\ at' \in {"out", "test"}
    BY <1>6 DEF EndPass
  <2>2. TypeOK'
    BY <1>1, <2>1 DEF IInv, TypeOK
  <2>3. OneTurnPerPass' /\ Position' /\ TurnsAreSubmitted'
    BY <1>1, <2>1 DEF OneTurnPerPass, Position, TurnsAreSubmitted, count
  <2> QED
    BY <1>2, <2>2, <2>3 DEF IInv
<1> QED
  BY <1>3, <1>4, <1>5, <1>6

\* So does a task that suspends: its turn is over.
LEMMA SuspendHolds ==
  ASSUME IInv, Suspend
  PROVE  IInv'
<1>1. /\ UNCHANGED <<tasks, cap, status>>
      /\ tasks \in Seq(Task) /\ i \in Nat /\ Len(tasks) \in Nat
      /\ i < Len(tasks)
      /\ at' = "test" /\ i' = i + 1 /\ turns' = turns \cup {tasks[i + 1]}
  BY DEF Suspend, IInv, TypeOK, Position, count
<1>2. tasks[i + 1] \in Task /\ tasks[i + 1] \in Queued
  BY <1>1 DEF Queued, count
<1>3. TypeOK'
  <2>1. left' \in [Task -> 0..MaxLeft]
    <3>1. left[tasks[i + 1]] \in 0..MaxLeft /\ left[tasks[i + 1]] > 0
      BY <1>2 DEF Suspend, IInv, TypeOK
    <3>2. left[tasks[i + 1]] - 1 \in 0..MaxLeft
      BY <3>1, LeftAssumption
    <3> QED
      BY <3>2 DEF Suspend, IInv, TypeOK
  <2> QED
    BY <1>1, <1>2, <2>1 DEF IInv, TypeOK
<1>4. QueuedOnce'
  <2>1. Queued' = Queued
    BY <1>1 DEF Queued, count
  <2> QED
    BY <1>1, <2>1 DEF IInv, QueuedOnce, count
<1>5. Position' /\ OneTurnPerPass'
  BY <1>1 DEF Suspend, Position, IInv, QueuedOnce, OneTurnPerPass, count
<1>6. TurnsAreSubmitted'
  BY <1>1, <1>2 DEF IInv, QueuedOnce, TurnsAreSubmitted
<1> QED
  BY <1>3, <1>4, <1>5, <1>6 DEF IInv

\* So does a task that completes: the last task moves to its slot, which is the
\* next one the loop looks at, and has not had its turn.
LEMMA CompleteHolds ==
  ASSUME IInv, Complete
  PROVE  IInv'
<1> DEFINE n == Len(tasks)
           t == tasks[i + 1]
<1>1. /\ tasks \in Seq(Task) /\ i \in Nat /\ n \in Nat /\ i < n
      /\ tasks' = Without(tasks, i + 1)
      /\ status' = [status EXCEPT ![t] = "done"]
      /\ turns' = turns \cup {t}
      /\ i' = i /\ at' = "test"
      /\ i + 1 \in 1..n
      /\ UNCHANGED <<cap, left>>
  BY DEF Complete, AfterRemoval, IInv, TypeOK, Position, count
<1>2. t \in Task
  BY <1>1
<1>3. /\ tasks' \in Seq(Task)
      /\ Len(tasks') = n - 1
      /\ \A j \in 1..(n - 1) :
           tasks'[j] = IF j = i + 1 THEN tasks[n] ELSE tasks[j]
  BY <1>1, WithoutSlots
<1>4. \A j, k \in 1..n : tasks[j] = tasks[k] => j = k
  BY DEF IInv, QueuedOnce, count
<1>5. TypeOK'
  BY <1>1, <1>2, <1>3 DEF IInv, TypeOK
<1>6. Queued' = Queued \ {t}
  <2>1. Queued = {tasks[j] : j \in 1..n} /\ Queued' = {tasks'[j] : j \in 1..(n-1)}
    BY <1>3 DEF Queued, count
  <2>2. ASSUME NEW j \in 1..(n - 1) PROVE tasks'[j] \in Queued \ {t}
    BY <1>1, <1>3, <1>4, <2>1
  <2>3. ASSUME NEW j \in 1..n, tasks[j] # t
        PROVE  \E k \in 1..(n - 1) : tasks'[k] = tasks[j]
    <3>1. CASE j = n
      <4>1. i + 1 \in 1..(n - 1)
        BY <1>1, <2>3, <3>1
      <4> QED
        BY <1>3, <3>1, <4>1
    <3>2. CASE j # n
      <4>1. j \in 1..(n - 1) /\ j # i + 1
        BY <1>1, <2>3, <3>2
      <4> QED
        BY <1>3, <4>1
    <3> QED
      BY <3>1, <3>2
  <2> QED
    BY <2>1, <2>2, <2>3
<1>7. QueuedOnce'
  <2>1. Queued' = {u \in Task : status'[u] = "queued"}
    BY <1>1, <1>2, <1>6 DEF IInv, TypeOK, QueuedOnce
  <2>2. ASSUME NEW j \in 1..(n - 1), NEW k \in 1..(n - 1), tasks'[j] = tasks'[k]
        PROVE  j = k
    BY <1>1, <1>3, <1>4, <2>2
  <2> QED
    BY <1>3, <2>1, <2>2 DEF QueuedOnce, count
<1>8. OneTurnPerPass'
  <2>1. \A j \in 1..n : (tasks[j] \in turns) <=> (j <= i)
    BY DEF Complete, IInv, OneTurnPerPass, count
  <2>2. ASSUME NEW j \in 1..(n - 1)
        PROVE  (tasks'[j] \in turns \cup {t}) <=> (j <= i)
    <3>1. CASE j = i + 1
      BY <1>1, <1>3, <1>4, <2>1, <3>1
    <3>2. CASE j # i + 1
      BY <1>1, <1>3, <1>4, <2>1, <3>2
    <3> QED
      BY <3>1, <3>2
  <2> QED
    BY <1>1, <1>3, <2>2 DEF OneTurnPerPass, count
<1>9. Position'
  BY <1>1, <1>3 DEF Position, count
<1>10. TurnsAreSubmitted'
  BY <1>1, <1>2 DEF IInv, TypeOK, TurnsAreSubmitted
<1> QED
  BY <1>5, <1>7, <1>8, <1>9, <1>10 DEF IInv

\* Every step keeps the inductive invariant.
LEMMA StepHolds == IInv /\ [Next]_vars => IInv'
<1> SUFFICES ASSUME IInv, [Next]_vars PROVE IInv'
  OBVIOUS
<1>1. CASE UNCHANGED vars
  BY <1>1 DEF vars, IInv, TypeOK, QueuedOnce, Queued, OneTurnPerPass, Position,
     TurnsAreSubmitted, count
<1>2. CASE Loop
  BY <1>2, TestHolds, SuspendHolds, CompleteHolds DEF Loop
<1>3. ASSUME NEW t \in Task, Submit(t) PROVE IInv'
  BY <1>3, SubmitHolds
<1>4. ASSUME NEW t \in Task, BlockOn(t) \/ Timer(t) PROVE IInv'
  BY <1>4, ResumeOnceHolds DEF BlockOn, Timer
<1> QED
  BY <1>1, <1>2, <1>3, <1>4 DEF Next

\* The inductive invariant holds throughout.
LEMMA Invariant == Spec => []IInv
  BY InitHolds, StepHolds, PTL DEF Spec

\* The array, its counters and the tasks' states always have their types.
THEOREM TypeCorrect == Spec => []TypeOK
<1>1. IInv => TypeOK
  BY DEF IInv
<1> QED
  BY <1>1, Invariant, PTL

\* A task is in the array exactly while it is queued, and once, for any number
\* of tasks and any order of submissions, suspensions and completions.
THEOREM QueueCorrect == Spec => []QueuedOnce
<1>1. IInv => QueuedOnce
  BY DEF IInv
<1> QED
  BY <1>1, Invariant, PTL

\* In each pass every queued task has one turn.
THEOREM RoundRobinCorrect == Spec => []OneTurnPerPass
<1>1. IInv => OneTurnPerPass
  BY DEF IInv
<1> QED
  BY <1>1, Invariant, PTL

\* A submission during a call moves no task out of the slot the loop returns to.
THEOREM CallKeepsSlotCorrect == Spec => CallKeepsSlot
<1>1. ASSUME IInv, [Next]_vars, at = "call", at' = "call"
      PROVE  tasks'[i' + 1] = tasks[i + 1]
  <2>1. tasks \in Seq(Task) /\ i \in Nat /\ i + 1 \in 1..Len(tasks)
    BY <1>1 DEF IInv, TypeOK, Position, count
  <2>2. CASE UNCHANGED vars
    BY <2>2 DEF vars
  <2>3. CASE Loop
    BY <1>1, <2>3 DEF Loop, Enter, Skip, Call, Suspend, Complete, EndPass
  <2>4. ASSUME NEW t \in Task, Submit(t) PROVE tasks'[i' + 1] = tasks[i + 1]
    BY <2>1, <2>4, AppendSlots DEF Submit
  <2>5. ASSUME NEW t \in Task, BlockOn(t) \/ Timer(t)
        PROVE  tasks'[i' + 1] = tasks[i + 1]
    BY <2>5 DEF BlockOn, Timer, ResumeOnce
  <2> QED
    BY <1>1, <2>2, <2>3, <2>4, <2>5 DEF Next
<1> QED
  BY <1>1, Invariant, PTL DEF CallKeepsSlot, Spec
=============================================================================
