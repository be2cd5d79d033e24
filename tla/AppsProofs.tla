----------------------------- MODULE AppsProofs -----------------------------
(***************************************************************************)
(* Proofs about Tasks and Apps, for a table of any size, any number of     *)
(* apps and any set of stacks, events, timeouts and exit codes.  First the *)
(* task table by itself (Spec), then the image whose steps are steps       *)
(* of the table.                                                           *)
(***************************************************************************)
EXTENDS Apps, WellFoundedInduction, TLAPS

(* The least element the scans of task_create and task_next_runnable stop at. *)
LEMMA LeastElement ==
    ASSUME NEW S, S \subseteq Nat, S # {}
    PROVE  \E m \in S : \A k \in S : m <= k
PROOF
<1> DEFINE R == OpToRel(<, Nat)
<1>1. \E m \in S : \A k \in S : ~(<<k, m>> \in R)
    <2> HIDE DEF R
    <2> QED BY NatLessThanWellFounded, WFMin DEF R
<1>2. \A m, k \in S : ~(<<k, m>> \in R) => m <= k
    BY DEF OpToRel
<1> QED BY <1>1, <1>2

(* Adding an offset to a slot number, modulo the table size, gives a slot  *)
(* number, and a different one unless the offset is zero.                  *)
LEMMA SlotArithmetic ==
    ASSUME NEW c \in Ids, NEW o \in 1 .. NTasks - 1
    PROVE  /\ (c + o) % NTasks \in Ids
           /\ (c + o) % NTasks # c
           /\ c # 0 => (NTasks - c) \in 1 .. NTasks - 1 /\ (c + (NTasks - c)) % NTasks = 0
PROOF
    BY TaskAssumptions DEF Ids

(* task_next_runnable returns a runnable slot other than the caller's, and *)
(* finds one whenever some other slot the scan visits is runnable: for any *)
(* caller but the bootstrap task, a runnable bootstrap task is enough.     *)
LEMMA NextRunnableFinds ==
    ASSUME NEW st \in [Ids -> TaskState], NEW c \in Ids
    PROVE  /\ NextRunnable(st, c) # NoTask =>
                 /\ NextRunnable(st, c) \in Ids \ {c}
                 /\ st[NextRunnable(st, c)].tag = "Runnable"
           /\ c # 0 /\ st[0].tag = "Runnable" => NextRunnable(st, c) # NoTask
PROOF
<1> DEFINE ready == {o \in 1 .. NTasks - 1 : st[(c + o) % NTasks].tag = "Runnable"}
           least == CHOOSE o \in ready : \A p \in ready : o <= p
<1>1. CASE ready = {}
    <2>1. NextRunnable(st, c) = NoTask
        BY <1>1 DEF NextRunnable
    <2>2. c # 0 => st[0].tag # "Runnable"
        <3> SUFFICES ASSUME c # 0, st[0].tag = "Runnable" PROVE FALSE
            OBVIOUS
        <3>0. 1 \in 1 .. NTasks - 1
            BY TaskAssumptions
        <3>1. NTasks - c \in 1 .. NTasks - 1 /\ (c + (NTasks - c)) % NTasks = 0
            BY <3>0, SlotArithmetic
        <3>2. NTasks - c \in ready
            BY <3>1
        <3> QED BY <1>1, <3>2
    <2> QED BY <2>1, <2>2
<1>2. CASE ready # {}
    <2>1. least \in ready
        <3>1. ready \subseteq Nat
            BY TaskAssumptions
        <3>2. \E o \in ready : \A p \in ready : o <= p
            <4> HIDE DEF ready
            <4> QED BY <1>2, <3>1, LeastElement
        <3> HIDE DEF ready
        <3> QED BY <3>2
    <2>2. NextRunnable(st, c) = (c + least) % NTasks
        BY <1>2 DEF NextRunnable
    <2>3. (c + least) % NTasks \in Ids \ {c}
        <3> HIDE DEF least
        <3> QED BY <2>1, SlotArithmetic
    <2>4. st[(c + least) % NTasks].tag = "Runnable"
        <3> HIDE DEF least
        <3> QED BY <2>1
    <2> HIDE DEF least, ready
    <2> QED BY <2>2, <2>3, <2>4, TaskAssumptions DEF NoTask, Ids
<1> QED BY <1>1, <1>2

(* The first-empty-slot scan of task_create stops at an empty slot. *)
LEMMA FreeSlotFound ==
    ASSUME FreeSlots # {}
    PROVE  (CHOOSE i \in FreeSlots : \A j \in FreeSlots : i <= j) \in FreeSlots
PROOF
<1>1. FreeSlots \subseteq Nat
    BY TaskAssumptions DEF FreeSlots, Created
<1>2. \E i \in FreeSlots : \A j \in FreeSlots : i <= j
    BY <1>1, LeastElement
<1> QED BY <1>2

(* A task state is determined by its tag as far as the tag tells. *)
LEMMA StateByTag ==
    ASSUME NEW s \in TaskState
    PROVE  /\ s.tag = "Runnable" <=> s = Runnable
           /\ s.tag = "Unused" <=> s = Unused
           /\ s.tag \in {"Unused", "Runnable", "Waiting", "Dead"}
           /\ s.tag = "Waiting" => s.event \in Nat /\ s.deadline \in Nat
PROOF
    BY DEF TaskState, Runnable, Unused

(* Polling keeps the table well typed and touches nothing but waits. *)
LEMMA PollKeeps ==
    ASSUME TypeOK
    PROVE  LET st == PollDeadlines(state, tick)
           IN  /\ st \in [Ids -> TaskState]
               /\ \A i \in Ids : state[i].tag # "Waiting" => st[i] = state[i]
               /\ \A i \in Ids : state[i].tag = "Waiting" => st[i].tag \in {"Waiting", "Runnable"}
PROOF
    BY DEF TypeOK, PollDeadlines, TaskState, Runnable

-----------------------------------------------------------------------------
(* task_yield preserves the invariant wherever it is called from: by a     *)
(* runnable task from its own code, or by a task that just became waiting  *)
(* (from task_wait) or dead (from the trampoline).                         *)
LEMMA YieldPreserves ==
    ASSUME TaskInv, NEW ret, YieldTo(ret),
           \/ pc[current] = "run" /\ ret = "run"
           \/ pc[current] = "wait_call" /\ ret = "wait_ret"
           \/ pc[current] = "exit_call" /\ ret = "exit_ret"
    PROVE  TaskInv'
PROOF
<1> DEFINE polled == PollDeadlines(state, tick)
           next == NextRunnable(polled, current)
<1> USE TaskAssumptions
<1>1. TypeOK /\ current \in Ids /\ 0 \in Ids
    BY DEF TaskInv, TypeOK, Ids
<1>2. /\ polled \in [Ids -> TaskState]
      /\ \A i \in Ids : state[i].tag # "Waiting" => polled[i] = state[i]
      /\ \A i \in Ids : state[i].tag = "Waiting" => polled[i].tag \in {"Waiting", "Runnable"}
    BY <1>1, PollKeeps
<1>3. polled[0] = Runnable
    BY <1>1, <1>2 DEF TaskInv, OnlyRunnableRuns, Runnable
<1>4. /\ next # NoTask => next \in Ids \ {current} /\ polled[next].tag = "Runnable"
      /\ current # 0 => next # NoTask
    <2> HIDE DEF polled
    <2> QED BY <1>1, <1>2, <1>3, NextRunnableFinds DEF Runnable
<1>5. /\ state' = polled
      /\ pc' = [pc EXCEPT ![current] = ret]
      /\ current' = IF next = NoTask THEN current ELSE next
      /\ UNCHANGED <<stack, argument, live, tick>>
    BY DEF YieldTo
<1> HIDE DEF polled, next
<1>6. current = 0 => pc[current] = "run"
    BY <1>1 DEF TaskInv, OnlyRunnableRuns, PointMatchesState, Runnable, TypeOK, Points
<1>7. TypeOK'
    BY <1>1, <1>2, <1>4, <1>5 DEF TypeOK, Points
<1>8. PointMatchesState'
    <2> SUFFICES ASSUME NEW i \in Ids
                 PROVE  /\ polled[i].tag = "Unused" <=> pc'[i] = "none"
                        /\ polled[i].tag = "Dead" <=> pc'[i] \in {"exit_call", "exit_ret"}
                        /\ pc'[i] = "run" => polled[i].tag = "Runnable"
                        /\ pc'[i] \in {"wait_call", "exit_call"} => i = current'
        BY <1>5 DEF PointMatchesState
    <2>0. /\ state[i].tag = "Unused" <=> pc[i] = "none"
          /\ state[i].tag = "Dead" <=> pc[i] \in {"exit_call", "exit_ret"}
          /\ pc[i] = "run" => state[i].tag = "Runnable"
          /\ pc[i] \in {"wait_call", "exit_call"} => i = current
        BY DEF TaskInv, PointMatchesState
    <2>1. /\ polled[i].tag = "Unused" <=> state[i].tag = "Unused"
          /\ polled[i].tag = "Dead" <=> state[i].tag = "Dead"
          /\ state[i].tag = "Runnable" => polled[i].tag = "Runnable"
        BY <1>2
    <2>2. pc'[i] = IF i = current THEN ret ELSE pc[i]
        BY <1>1, <1>5 DEF TypeOK
    <2> QED BY <2>0, <2>1, <2>2
<1>9. NoDeadTaskResumed'
    <2>1. pc'[current'] # "exit_ret"
        <3>1. CASE next = NoTask
            BY <3>1, <1>1, <1>4, <1>5, <1>6 DEF TypeOK
        <3>2. CASE next # NoTask
            <4>1. polled[next].tag = "Runnable" /\ next \in Ids
                BY <3>2, <1>4
            <4>2. current' = next
                BY <3>2, <1>5
            <4>3. state'[current'].tag = "Runnable" /\ current' \in Ids
                BY <4>1, <4>2, <1>5
            <4> QED BY <4>3, <1>8 DEF PointMatchesState
        <3> QED BY <3>1, <3>2
    <2> QED BY <2>1 DEF NoDeadTaskResumed, Panicked
<1>10. OnlyRunnableRuns'
    <2>1. state'[current'].tag = "Runnable" /\ current' \in Ids
        <3>1. CASE next = NoTask
            <4>1. current = 0 /\ current' = 0
                BY <3>1, <1>4, <1>5
            <4> QED BY <4>1, <1>1, <1>3, <1>5 DEF Runnable
        <3>2. CASE next # NoTask
            BY <3>2, <1>4, <1>5
        <3> QED BY <3>1, <3>2
    <2>2. state'[current'] = Runnable
        BY <2>1, <1>2, <1>5, StateByTag
    <2>3. pc'[current'] \notin {"wait_call", "exit_call"}
        <3>1. current' # current => pc'[current'] = pc[current'] /\ pc[current'] \notin {"wait_call", "exit_call"}
            BY <1>1, <1>5, <2>1 DEF TypeOK, TaskInv, PointMatchesState
        <3>2. current' = current => pc'[current'] = ret
            BY <1>1, <1>5 DEF TypeOK
        <3> QED BY <3>1, <3>2
    <2> QED BY <1>3, <1>5, <2>2, <2>3 DEF OnlyRunnableRuns
<1>11. StackOwnership'
    <2>1. \A i \in Created : polled[i].tag = "Unused" <=> state[i].tag = "Unused"
        BY <1>2 DEF Created, Ids
    <2> QED BY <2>1, <1>5 DEF StackOwnership, TaskInv
<1> QED BY <1>7, <1>8, <1>9, <1>10, <1>11 DEF TaskInv

-----------------------------------------------------------------------------
(* The invariant holds at boot, after task_init. *)
LEMMA InitTaskInv == Init => TaskInv
PROOF
<1> SUFFICES ASSUME Init PROVE TaskInv
    OBVIOUS
<1> USE TaskAssumptions
<1>1. TypeOK
    BY DEF Init, TypeOK, Ids, TaskState, Runnable, Unused, Points
<1>2. OnlyRunnableRuns /\ PointMatchesState /\ NoDeadTaskResumed
    BY DEF Init, OnlyRunnableRuns, PointMatchesState, NoDeadTaskResumed, Panicked, Ids,
           Runnable, Unused
<1>3. StackOwnership
    BY DEF Init, StackOwnership, Created, Ids, Unused
<1> QED BY <1>1, <1>2, <1>3 DEF TaskInv

(* task_create, by the running task *)
LEMMA CreatePreserves ==
    ASSUME TaskInv, Running,
           NEW size \in StackSizes, NEW arg \in Arguments, NEW s \in Stacks,
           TaskCreate(size, arg, s)
    PROVE  TaskInv'
PROOF
<1> USE TaskAssumptions
<1> DEFINE id == CHOOSE i \in FreeSlots : \A j \in FreeSlots : i <= j
<1>1. id \in FreeSlots
    BY FreeSlotFound DEF TaskCreate
<1>2. /\ state' = [state EXCEPT ![id] = Runnable]
      /\ stack' = [stack EXCEPT ![id] = s]
      /\ argument' = [argument EXCEPT ![id] = arg]
      /\ pc' = [pc EXCEPT ![id] = "run"]
      /\ s \notin live
      /\ live' = live \cup {s}
      /\ UNCHANGED <<current, tick>>
    BY DEF TaskCreate
<1> HIDE DEF id
<1>3. id \in Created /\ id \in Ids /\ id # 0 /\ state[id].tag = "Unused"
    BY <1>1 DEF FreeSlots, Created, Ids
<1>4. id # current
    BY <1>3 DEF TaskInv, PointMatchesState, Running
<1>5. TypeOK'
    BY <1>2, <1>3 DEF TaskInv, TypeOK, Points, TaskState
<1>6. /\ \A i \in Ids \ {id} : state'[i] = state[i] /\ pc'[i] = pc[i] /\ stack'[i] = stack[i]
      /\ state'[id] = Runnable /\ pc'[id] = "run" /\ stack'[id] = s
    BY <1>2, <1>3 DEF TaskInv, TypeOK
<1>7. OnlyRunnableRuns' /\ NoDeadTaskResumed'
    BY <1>2, <1>3, <1>4, <1>6
    DEF TaskInv, TypeOK, OnlyRunnableRuns, NoDeadTaskResumed, Panicked, Ids
<1>8. PointMatchesState'
    BY <1>2, <1>3, <1>6 DEF TaskInv, PointMatchesState, Runnable
<1>9. StackOwnership'
    <2>1. \A i \in Created : state'[i].tag = "Unused" <=> stack'[i] = NoStack
        BY <1>3, <1>6 DEF TaskInv, StackOwnership, Created, Ids, Runnable
    <2>2. \A i \in Created \ {id} : stack[i] # s
        BY <1>2, <1>3 DEF TaskInv, StackOwnership
    <2>3. \A i, j \in Created : i # j /\ stack'[i] = stack'[j] => stack'[i] = NoStack
        BY <2>2, <1>3, <1>6 DEF TaskInv, StackOwnership, Created, Ids
    <2>4. stack[id] = NoStack
        BY <1>3 DEF TaskInv, StackOwnership
    <2>5. live' = {stack'[i] : i \in {j \in Created : stack'[j] # NoStack}}
        <3>1. live = {stack[i] : i \in {j \in Created : stack[j] # NoStack}}
            BY DEF TaskInv, StackOwnership
        <3>2. Created \subseteq Ids
            BY DEF Created, Ids
        <3> QED BY <3>1, <3>2, <2>4, <1>2, <1>3, <1>6
    <2> QED BY <2>1, <2>3, <2>5 DEF StackOwnership
<1> QED BY <1>5, <1>7, <1>8, <1>9 DEF TaskInv

(* task_reap, by the running task *)
LEMMA ReapPreserves ==
    ASSUME TaskInv, Running, NEW id \in Created, TaskReap(id)
    PROVE  TaskInv'
PROOF
<1> USE TaskAssumptions
<1>1. /\ state[id].tag = "Dead"
      /\ live' = live \ {stack[id]}
      /\ state' = [state EXCEPT ![id] = Unused]
      /\ stack' = [stack EXCEPT ![id] = NoStack]
      /\ argument' = [argument EXCEPT ![id] = NoArgument]
      /\ pc' = [pc EXCEPT ![id] = "none"]
      /\ UNCHANGED <<current, tick>>
    BY DEF TaskReap
<1>2. id \in Ids /\ id # 0 /\ Created \subseteq Ids
    BY DEF Created, Ids
<1>3. id # current
    BY <1>1, <1>2 DEF TaskInv, PointMatchesState, Running
<1>4. TypeOK'
    BY <1>1, <1>2 DEF TaskInv, TypeOK, Points, TaskState
<1>5. /\ \A i \in Ids \ {id} : state'[i] = state[i] /\ pc'[i] = pc[i] /\ stack'[i] = stack[i]
      /\ state'[id] = Unused /\ pc'[id] = "none" /\ stack'[id] = NoStack
    BY <1>1, <1>2 DEF TaskInv, TypeOK
<1>6. OnlyRunnableRuns' /\ NoDeadTaskResumed'
    BY <1>1, <1>2, <1>3, <1>5
    DEF TaskInv, TypeOK, OnlyRunnableRuns, NoDeadTaskResumed, Panicked, Ids
<1>7. PointMatchesState'
    BY <1>1, <1>2, <1>5 DEF TaskInv, PointMatchesState, Unused
<1>8. StackOwnership'
    <2>1. \A i \in Created : state'[i].tag = "Unused" <=> stack'[i] = NoStack
        BY <1>2, <1>5 DEF TaskInv, StackOwnership, Unused
    <2>2. stack[id] # NoStack
        BY <1>1 DEF TaskInv, StackOwnership
    <2>3. \A i, j \in Created : i # j /\ stack'[i] = stack'[j] => stack'[i] = NoStack
        BY <1>2, <1>5 DEF TaskInv, StackOwnership
    <2>4. \A i \in Created \ {id} : stack[i] # stack[id]
        BY <2>2 DEF TaskInv, StackOwnership
    <2>5. live' = {stack'[i] : i \in {j \in Created : stack'[j] # NoStack}}
        <3>1. live = {stack[i] : i \in {j \in Created : stack[j] # NoStack}}
            BY DEF TaskInv, StackOwnership
        <3> QED BY <3>1, <2>2, <2>4, <1>1, <1>2, <1>5
    <2> QED BY <2>1, <2>3, <2>5 DEF StackOwnership
<1> QED BY <1>4, <1>6, <1>7, <1>8 DEF TaskInv

(* The first half of task_wait: the running task marks itself waiting. *)
LEMMA WaitPreserves ==
    ASSUME TaskInv, NEW e \in Events, NEW t \in Timeouts, TaskWait(e, t)
    PROVE  TaskInv'
PROOF
<1> USE TaskAssumptions
<1> DEFINE w == Waiting(e, IF t > 0 THEN tick + t ELSE 0)
<1>1. /\ current # 0
      /\ pc[current] = "run"
      /\ state' = [state EXCEPT ![current] = w]
      /\ pc' = [pc EXCEPT ![current] = "wait_call"]
      /\ UNCHANGED <<stack, argument, current, live, tick>>
    BY DEF TaskWait, Running
<1>2. w \in TaskState /\ w.tag = "Waiting"
    BY DEF TaskState, Waiting, TaskWait, TaskInv, TypeOK
<1> HIDE DEF w
<1>3. TypeOK /\ current \in Ids /\ 0 \in Ids
    BY DEF TaskInv, TypeOK, Ids
<1>4. TypeOK'
    BY <1>1, <1>2, <1>3 DEF TypeOK, Points
<1>5. /\ \A i \in Ids \ {current} : state'[i] = state[i] /\ pc'[i] = pc[i]
      /\ state'[current].tag = "Waiting" /\ pc'[current] = "wait_call"
    BY <1>1, <1>2, <1>3 DEF TypeOK
<1>6. state[current].tag = "Runnable"
    BY <1>1, <1>3 DEF TaskInv, PointMatchesState
<1>7. OnlyRunnableRuns' /\ NoDeadTaskResumed'
    BY <1>1, <1>3, <1>5 DEF TaskInv, OnlyRunnableRuns, NoDeadTaskResumed, Panicked
<1>8. PointMatchesState'
    BY <1>1, <1>3, <1>5 DEF TaskInv, PointMatchesState
<1>9. StackOwnership'
    <2>1. \A i \in Created : state'[i].tag = "Unused" <=> state[i].tag = "Unused"
        BY <1>5, <1>6 DEF Created, Ids
    <2> QED BY <2>1, <1>1 DEF TaskInv, StackOwnership
<1> QED BY <1>4, <1>7, <1>8, <1>9 DEF TaskInv

(* task_wait returns to its caller. *)
LEMMA WaitReturnPreserves == TaskInv /\ WaitReturn => TaskInv'
PROOF
<1> SUFFICES ASSUME TaskInv, WaitReturn PROVE TaskInv'
    OBVIOUS
<1>1. /\ pc[current] = "wait_ret"
      /\ pc' = [pc EXCEPT ![current] = "run"]
      /\ UNCHANGED <<state, stack, argument, current, live, tick>>
    BY DEF WaitReturn
<1>2. TypeOK /\ current \in Ids /\ state[current] = Runnable
    BY <1>1 DEF TaskInv, TypeOK, OnlyRunnableRuns
<1>3. TypeOK'
    BY <1>1, <1>2 DEF TypeOK, Points
<1>4. \A i \in Ids : pc'[i] = IF i = current THEN "run" ELSE pc[i]
    BY <1>1, <1>2 DEF TypeOK
<1>5. OnlyRunnableRuns' /\ NoDeadTaskResumed'
    BY <1>1, <1>2, <1>4 DEF TaskInv, OnlyRunnableRuns, NoDeadTaskResumed, Panicked
<1>6. PointMatchesState'
    BY <1>1, <1>2, <1>4 DEF TaskInv, PointMatchesState, Runnable
<1>7. StackOwnership'
    BY <1>1 DEF TaskInv, StackOwnership
<1> QED BY <1>3, <1>5, <1>6, <1>7 DEF TaskInv

(* task_wake_event, by the running task *)
LEMMA WakePreserves ==
    ASSUME TaskInv, NEW e \in Events, WakeEvent(e)
    PROVE  TaskInv'
PROOF
<1> USE TaskAssumptions
<1>1. /\ state' = [i \in Ids |->
                    IF i \in Created /\ state[i].tag = "Waiting" /\ state[i].event = e
                    THEN Runnable ELSE state[i]]
      /\ UNCHANGED <<stack, argument, pc, current, live, tick>>
      /\ pc[current] = "run"
    BY DEF WakeEvent, Running
<1>2. TypeOK /\ current \in Ids /\ 0 \in Ids
    BY DEF TaskInv, TypeOK, Ids
<1>3. TypeOK'
    BY <1>1, <1>2 DEF TypeOK, TaskState
<1>4. \A i \in Ids : /\ state[i].tag # "Waiting" => state'[i] = state[i]
                     /\ state[i].tag = "Waiting" => state'[i].tag \in {"Waiting", "Runnable"}
    BY <1>1 DEF Runnable
<1>5. state[current].tag = "Runnable" /\ state[0].tag = "Runnable"
    BY <1>1, <1>2 DEF TaskInv, PointMatchesState, OnlyRunnableRuns, Runnable
<1>6. OnlyRunnableRuns' /\ NoDeadTaskResumed'
    BY <1>1, <1>2, <1>4, <1>5 DEF TaskInv, OnlyRunnableRuns, NoDeadTaskResumed, Panicked
<1>7. PointMatchesState'
    BY <1>1, <1>2, <1>4 DEF TaskInv, PointMatchesState
<1>8. StackOwnership'
    <2>1. \A i \in Created : state'[i].tag = "Unused" <=> state[i].tag = "Unused"
        BY <1>4 DEF Created, Ids
    <2> QED BY <2>1, <1>1 DEF TaskInv, StackOwnership
<1> QED BY <1>3, <1>6, <1>7, <1>8 DEF TaskInv

(* The entry function returns and the trampoline marks its task dead. *)
LEMMA ExitPreserves ==
    ASSUME TaskInv, NEW c \in Codes, TaskExit(c)
    PROVE  TaskInv'
PROOF
<1> USE TaskAssumptions
<1>1. /\ current # 0
      /\ pc[current] = "run"
      /\ state' = [state EXCEPT ![current] = Dead(c)]
      /\ pc' = [pc EXCEPT ![current] = "exit_call"]
      /\ UNCHANGED <<stack, argument, current, live, tick>>
    BY DEF TaskExit, Running
<1>2. Dead(c) \in TaskState /\ Dead(c).tag = "Dead"
    BY DEF TaskState, Dead
<1>3. TypeOK /\ current \in Ids /\ 0 \in Ids
    BY DEF TaskInv, TypeOK, Ids
<1>4. TypeOK'
    BY <1>1, <1>2, <1>3 DEF TypeOK, Points
<1>5. /\ \A i \in Ids \ {current} : state'[i] = state[i] /\ pc'[i] = pc[i]
      /\ state'[current].tag = "Dead" /\ pc'[current] = "exit_call"
    BY <1>1, <1>2, <1>3 DEF TypeOK
<1>6. state[current].tag = "Runnable"
    BY <1>1, <1>3 DEF TaskInv, PointMatchesState
<1>7. OnlyRunnableRuns' /\ NoDeadTaskResumed'
    BY <1>1, <1>3, <1>5 DEF TaskInv, OnlyRunnableRuns, NoDeadTaskResumed, Panicked
<1>8. PointMatchesState'
    BY <1>1, <1>3, <1>5 DEF TaskInv, PointMatchesState
<1>9. StackOwnership'
    <2>1. \A i \in Created : state'[i].tag = "Unused" <=> state[i].tag = "Unused"
        BY <1>5, <1>6 DEF Created, Ids
    <2> QED BY <2>1, <1>1 DEF TaskInv, StackOwnership
<1> QED BY <1>4, <1>7, <1>8, <1>9 DEF TaskInv

(* A timer interrupt changes the clock alone. *)
LEMMA TickPreserves == TaskInv /\ Tick => TaskInv'
PROOF
    BY DEF TaskInv, Tick, TypeOK, OnlyRunnableRuns, PointMatchesState, NoDeadTaskResumed,
           Panicked, StackOwnership, Running

-----------------------------------------------------------------------------
(* Every step of the task table preserves the invariant. *)
LEMMA NextPreserves == TaskInv /\ [Next]_vars => TaskInv'
PROOF
<1> SUFFICES ASSUME TaskInv, [Next]_vars PROVE TaskInv'
    OBVIOUS
<1>1. CASE TaskYield
    BY <1>1, YieldPreserves DEF TaskYield, Running
<1>2. CASE Create
    BY <1>2, CreatePreserves DEF Create
<1>3. CASE \E e \in Events, t \in Timeouts : TaskWait(e, t)
    BY <1>3, WaitPreserves
<1>4. CASE WaitYield
    BY <1>4, YieldPreserves DEF WaitYield
<1>5. CASE WaitReturn
    BY <1>5, WaitReturnPreserves
<1>6. CASE \E e \in Events : WakeEvent(e)
    BY <1>6, WakePreserves
<1>7. CASE Reap
    BY <1>7, ReapPreserves DEF Reap
<1>8. CASE \E c \in Codes : TaskExit(c)
    BY <1>8, ExitPreserves
<1>9. CASE ExitYield
    BY <1>9, YieldPreserves DEF ExitYield
<1>10. CASE Tick
    BY <1>10, TickPreserves
<1>11. CASE UNCHANGED vars
    BY <1>11 DEF vars, TaskInv, TypeOK, OnlyRunnableRuns, PointMatchesState,
                 NoDeadTaskResumed, Panicked, StackOwnership
<1> QED BY <1>1, <1>2, <1>3, <1>4, <1>5, <1>6, <1>7, <1>8, <1>9, <1>10, <1>11 DEF Next

(* The task table is safe at any size: it stays well typed, only runnable  *)
(* tasks run, a dead task is never resumed (the panic at the end of        *)
(* task_trampoline is unreachable), and slots and stacks stay matched.     *)
THEOREM TasksSafe == Spec => [](TypeOK /\ OnlyRunnableRuns /\ NoDeadTaskResumed /\ StackOwnership)
PROOF
<1>1. TaskInv => TypeOK /\ OnlyRunnableRuns /\ NoDeadTaskResumed /\ StackOwnership
    BY DEF TaskInv
<1> QED BY InitTaskInv, NextPreserves, <1>1, PTL DEF Spec

(* The invariant itself, for the modules that build on the task table. *)
THEOREM TaskInvariance == Spec => []TaskInv
PROOF
    BY InitTaskInv, NextPreserves, PTL DEF Spec

(* A wait ends only at its deadline or by its own event, in any table. *)
THEOREM WaitReasons == Spec => WaitEndsForItsReason
PROOF
<1> DEFINE Rightly == \A i \in Created :
          state[i].tag = "Waiting" /\ state'[i].tag # "Waiting" =>
            \/ state[i].deadline > 0 /\ tick >= state[i].deadline
            \/ state[i].event > 0 /\ \E e \in Events : e = state[i].event /\ WakeEvent(e)
<1>1. TaskInv /\ [Next]_vars => [Rightly]_vars
    <2> SUFFICES ASSUME TaskInv, Next, NEW i \in Created,
                        state[i].tag = "Waiting", state'[i].tag # "Waiting"
                 PROVE  \/ state[i].deadline > 0 /\ tick >= state[i].deadline
                        \/ state[i].event > 0 /\ \E e \in Events : e = state[i].event /\ WakeEvent(e)
        BY DEF Rightly
    <2>0. i \in Ids /\ TypeOK /\ current \in Ids
        BY TaskAssumptions DEF TaskInv, TypeOK, Created, Ids
    <2>1. ASSUME NEW ret, YieldTo(ret)
          PROVE  state[i].deadline > 0 /\ tick >= state[i].deadline
        BY <2>0, <2>1 DEF YieldTo, PollDeadlines
    <2>2. CASE Create
        <3>1. PICK size \in StackSizes, arg \in Arguments, s \in Stacks : TaskCreate(size, arg, s)
            BY <2>2 DEF Create
        <3> DEFINE id == CHOOSE j \in FreeSlots : \A k \in FreeSlots : j <= k
        <3>2. id \in FreeSlots
            BY <3>1, FreeSlotFound DEF TaskCreate
        <3>3. state' = [state EXCEPT ![id] = Runnable]
            BY <3>1 DEF TaskCreate
        <3> HIDE DEF id
        <3>4. id # i
            BY <3>2 DEF FreeSlots
        <3> QED BY <3>3, <3>4, <2>0 DEF TypeOK
    <2>3. CASE \E e \in Events, t \in Timeouts : TaskWait(e, t)
        BY <2>3, <2>0 DEF TaskWait, Running, TaskInv, PointMatchesState, TypeOK
    <2>4. CASE WaitReturn \/ Tick
        BY <2>4 DEF WaitReturn, Tick
    <2>5. CASE \E e \in Events : WakeEvent(e)
        <3>1. PICK e \in Events : WakeEvent(e)
            BY <2>5
        <3>2. state[i].event = e
            BY <3>1, <2>0 DEF WakeEvent
        <3>3. e > 0
            BY <3>1 DEF WakeEvent
        <3> QED BY <3>1, <3>2, <3>3
    <2>6. CASE Reap
        <3>1. PICK id \in Created : TaskReap(id)
            BY <2>6 DEF Reap
        <3> QED BY <3>1, <2>0 DEF TaskReap, TypeOK
    <2>7. CASE \E c \in Codes : TaskExit(c)
        BY <2>7, <2>0 DEF TaskExit, Running, TaskInv, PointMatchesState, TypeOK
    <2> QED BY <2>1, <2>2, <2>3, <2>4, <2>5, <2>6, <2>7
            DEF Next, TaskYield, WaitYield, ExitYield
<1>2. Spec => []TaskInv
    BY TaskInvariance
<1> QED BY <1>1, <1>2, PTL DEF Spec, WaitEndsForItsReason

-----------------------------------------------------------------------------
(* The app runtime implements the task table: its steps are steps of module *)
(* Tasks, so what is established above holds of the whole image.           *)

(* Starting an app's task is a creation or leaves the table alone. *)
LEMMA StartIsCreate ==
    ASSUME Running, NEW a \in Apps, NEW text, app_start_index(a, text)
    PROVE  Create \/ UNCHANGED vars
PROOF
<1>1. CASE \E s \in Stacks : TaskCreate(AppStackSize, a, s)
    BY <1>1, AppAssumptions DEF Create
<1>2. CASE UNCHANGED vars
    BY <1>2
<1> QED BY <1>1, <1>2 DEF app_start_index, StartTask

(* Each step of the image is a step of the task table or none. *)
LEMMA AppStepIsTaskStep == [AppNext]_allVars => [Next]_vars
PROOF
<1> SUFFICES ASSUME AppNext \/ UNCHANGED allVars PROVE Next \/ UNCHANGED vars
    OBVIOUS
<1> USE AppAssumptions, TaskAssumptions
<1>1. CASE BootHeartbeat
    BY <1>1 DEF BootHeartbeat, AtTask, Next, Create
<1>2. CASE BootShell
    BY <1>2, StartIsCreate DEF BootShell, AtTask, Next
<1>3. CASE Supervise \/ Beat \/ ShellIdle \/ WaitLoop \/ AppYield
    BY <1>3 DEF Supervise, Beat, ShellIdle, WaitLoop, AppYield, Next
<1>4. CASE \E a \in Apps, text \in Args \cup LongArgs : Command(a, text)
    BY <1>4, StartIsCreate DEF Command, RunsProgram, Next
<1>5. CASE WaitReap
    <2>1. shell.task \in Created
        BY <1>5 DEF WaitReap, TaskReap
    <2> QED BY <1>5, <2>1 DEF WaitReap, RunsProgram, Reap, Next
<1>6. CASE \E c \in Codes : AppReturn(c)
    BY <1>6 DEF AppReturn, Next
<1>7. CASE ExitYield /\ UNCHANGED appVars
    BY <1>7 DEF Next
<1>8. CASE Tick /\ UNCHANGED appVars
    BY <1>8 DEF Next
<1>9. CASE UNCHANGED allVars
    BY <1>9 DEF allVars
<1> QED BY <1>1, <1>2, <1>3, <1>4, <1>5, <1>6, <1>7, <1>8, <1>9 DEF AppNext

(* The image with its heartbeat, shell and apps implements the task table. *)
THEOREM AppsImplementTasks == AppSpec => ImplementsTasks
PROOF
<1>1. AppInit => Init
    BY DEF AppInit
<1> QED BY <1>1, AppStepIsTaskStep, PTL DEF AppSpec, Spec, ImplementsTasks

(* So, whatever apps are run, a dead task is never resumed and every stack *)
(* belongs to exactly one slot.                                            *)
THEOREM AppsTaskSafe == AppSpec => [](OnlyRunnableRuns /\ NoDeadTaskResumed /\ StackOwnership)
PROOF
    BY AppsImplementTasks, TasksSafe, PTL DEF ImplementsTasks

-----------------------------------------------------------------------------
(* app_state, the task table and the shell's frame agree.                  *)

(* A slot is empty when it has no argument. *)
SlotsNamed == \A t \in Created : state[t].tag = "Unused" <=> argument[t] = NoArgument

ShellNeverDies == \A t \in Created : argument[t] = Shell => state[t].tag # "Dead"

(* An app other than the shell is the one the shell waits for. *)
OneGuest ==
    \A t \in Created : argument[t] \in Apps \ {Shell} => shell.at = "wait" /\ shell.task = t

(* Its task is not reaped while the shell waits, and what it left there is *)
(* what its entry returned.                                                *)
ShellWaits ==
    shell.at = "wait" =>
        /\ shell.app \in Apps \ {Shell} /\ shell.task \in Created
        /\ argument[shell.task] = shell.app
        /\ state[shell.task].tag = "Dead" => state[shell.task].code = returned[shell.app]
        /\ app_is_running(Shell)

AppInv ==
    /\ TaskInv
    /\ AppTypeOK
    /\ SlotsNamed
    /\ ShellNeverDies
    /\ OneGuest
    /\ ShellWaits
    /\ RunningHasItsTask
    /\ ReportIsExitCode

LEMMA AppInitInv == AppInit => AppInv
PROOF
<1> SUFFICES ASSUME AppInit PROVE AppInv
    OBVIOUS
<1> USE AppAssumptions, TaskAssumptions DEF AppInit
<1>1. TaskInv
    BY InitTaskInv
<1>2. Shell \in Apps /\ 0 \in Ids /\ Created \subseteq Ids \ {0}
    BY DEF Ids, Created
<1>3. AppTypeOK
    BY <1>1, <1>2 DEF TaskInv, AppTypeOK, AppState, Registered, ShellFrame, Frame, NoResult
<1>4. \A t \in Created : state[t] = Unused /\ argument[t] = NoArgument
    BY <1>2 DEF Init
<1>5. SlotsNamed /\ ShellNeverDies /\ OneGuest
    BY <1>4 DEF SlotsNamed, ShellNeverDies, OneGuest, Unused
<1>6. ShellWaits /\ ReportIsExitCode
    BY DEF ShellWaits, ReportIsExitCode, Frame, NoResult
<1>7. RunningHasItsTask
    BY <1>4 DEF RunningHasItsTask, app_is_running, Registered
<1> QED BY <1>1, <1>3, <1>5, <1>6, <1>7 DEF AppInv

(* Steps that change no task but that a wait may end. *)
Rests == /\ argument' = argument
         /\ \A i \in Ids : \/ state'[i] = state[i]
                           \/ state[i].tag = "Waiting" /\ state'[i].tag = "Runnable"

LEMMA YieldRests ==
    ASSUME TypeOK, NEW ret, YieldTo(ret)
    PROVE  Rests
PROOF
    BY DEF YieldTo, PollDeadlines, Rests, Runnable, TypeOK

LEMMA RestsKeeps ==
    ASSUME AppInv, TaskInv', Rests, UNCHANGED appVars
    PROVE  AppInv'
PROOF
<1> USE DEF AppInv
<1>1. Created \subseteq Ids
    BY DEF Created, Ids
<1>2. AppTypeOK'
    BY DEF AppTypeOK, appVars, TaskInv
<1>3. \A i \in Ids : /\ argument'[i] = argument[i]
                     /\ (state'[i].tag = "Unused") = (state[i].tag = "Unused")
                     /\ (state'[i].tag = "Dead") = (state[i].tag = "Dead")
                     /\ state[i].tag = "Dead" => state'[i] = state[i]
                     /\ state[i].tag \in {"Runnable", "Waiting"} =>
                           state'[i].tag \in {"Runnable", "Waiting"}
    BY DEF Rests
<1>4. SlotsNamed' /\ ShellNeverDies' /\ OneGuest'
    BY <1>1, <1>3 DEF SlotsNamed, ShellNeverDies, OneGuest, appVars
<1>5. ShellWaits' /\ ReportIsExitCode'
    BY <1>1, <1>3 DEF ShellWaits, ReportIsExitCode, app_is_running, appVars
<1>6. RunningHasItsTask'
    <2>1. \A a \in Apps : app_is_running(a) => app_state[a].task \in Created
        BY DEF AppTypeOK, AppState, Registered, app_is_running
    <2> QED BY <1>1, <1>3, <2>1 DEF RunningHasItsTask, app_is_running, RunningOn, appVars
<1> QED BY <1>2, <1>4, <1>5, <1>6

(* task_create fills the first empty slot and touches no other. *)
LEMMA NewTask ==
    ASSUME TypeOK, NEW size, NEW arg, NEW s, TaskCreate(size, arg, s)
    PROVE  /\ NextSlot \in Created /\ state[NextSlot].tag = "Unused"
           /\ state'[NextSlot] = Runnable /\ argument'[NextSlot] = arg
           /\ \A t \in Created \ {NextSlot} :
                 state'[t] = state[t] /\ argument'[t] = argument[t]
PROOF
<1>1. NextSlot \in FreeSlots
    BY FreeSlotFound DEF TaskCreate, NextSlot
<1>2. /\ state' = [state EXCEPT ![NextSlot] = Runnable]
      /\ argument' = [argument EXCEPT ![NextSlot] = arg]
    BY DEF TaskCreate, NextSlot
<1>3. NextSlot \in Created /\ state[NextSlot].tag = "Unused" /\ Created \subseteq Ids
    BY <1>1 DEF FreeSlots, Created, Ids
<1> QED BY <1>2, <1>3 DEF TypeOK

LEMMA HeartbeatKeeps == ASSUME AppInv, TaskInv', BootHeartbeat PROVE AppInv'
PROOF
<1> USE AppAssumptions, TaskAssumptions
<1>1. PICK s \in Stacks : TaskCreate(MinStack, Heartbeat, s)
    BY DEF BootHeartbeat
<1>2. UNCHANGED <<app_state, app_args, shell, returned>> /\ boot' = "shell"
    BY DEF BootHeartbeat
<1>3. PICK n \in Created :
          /\ state[n].tag = "Unused" /\ state'[n] = Runnable
          /\ argument[n] = NoArgument /\ argument'[n] = Heartbeat
          /\ \A t \in Created \ {n} : state'[t] = state[t] /\ argument'[t] = argument[t]
    BY <1>1, NewTask DEF AppInv, TaskInv, SlotsNamed
<1>4. Heartbeat # NoArgument /\ Heartbeat \notin Apps /\ NoArgument \notin Apps
    OBVIOUS
<1>5. AppTypeOK'
    BY <1>2 DEF AppTypeOK, AppInv, TaskInv
<1>6. SlotsNamed' /\ ShellNeverDies' /\ OneGuest'
    BY <1>2, <1>3, <1>4 DEF AppInv, SlotsNamed, ShellNeverDies, OneGuest, Runnable
<1>7. ShellWaits' /\ ReportIsExitCode'
    BY <1>2, <1>3, <1>4 DEF AppInv, ShellWaits, ReportIsExitCode, Runnable, app_is_running
<1>8. RunningHasItsTask'
    <2>1. \A a \in Apps : app_is_running(a) => app_state[a].task \in Created
        BY DEF AppInv, AppTypeOK, AppState, Registered, app_is_running
    <2> QED BY <1>2, <1>3, <1>4, <2>1 DEF AppInv, RunningHasItsTask, app_is_running, RunningOn, Runnable
<1> QED BY <1>5, <1>6, <1>7, <1>8 DEF AppInv

LEMMA TaskMeansRunning ==
    ASSUME RunningHasItsTask, NEW t \in Created, argument[t] \in Apps, state[t].tag # "Dead"
    PROVE  app_is_running(argument[t])
PROOF
<1>1. app_state[argument[t]] = RunningOn(t)
    BY DEF RunningHasItsTask
<1>2. RunningOn(t).tag = "Running"
    BY DEF RunningOn
<1> QED BY <1>1, <1>2 DEF app_is_running

(* app_start_index for an app that does not run, once at most the shell    *)
(* and the heartbeat hold slots: the app has a task of its own, or failed. *)
LEMMA StartKeeps ==
    ASSUME AppInv, TaskInv', shell.at = "prompt", NEW a \in Apps, NEW text,
           a # Shell => app_is_running(Shell),
           app_start_index(a, text), returned' = returned,
           boot' \in {"heartbeat", "shell", "supervise"}, shell' \in ShellFrame,
           IF a # Shell /\ app_state'[a].tag = "Running"
           THEN shell'.at = "wait" /\ shell'.app = a /\ shell'.task = app_state'[a].task
           ELSE shell'.at = "prompt" /\ (shell' = shell \/ ~shell'.result.ok)
    PROVE  AppInv'
PROOF
<1> USE AppAssumptions, TaskAssumptions
<1>1. /\ text \in Args /\ ~app_is_running(a)
      /\ app_args' = [app_args EXCEPT ![a] = text]
    BY DEF app_start_index, StartTask, app_prepare_context
<1>2. NoArgument \notin Apps /\ Heartbeat \notin Apps
    OBVIOUS
<1>3. \A t \in Created : argument[t] # a \/ state[t].tag = "Dead"
    BY <1>1, TaskMeansRunning DEF AppInv
<1>4. \A t \in Created : argument[t] # a
    BY <1>3 DEF AppInv, OneGuest, ShellNeverDies
<1>5. \A t \in Created : argument[t] \notin Apps \ {Shell}
    BY DEF AppInv, OneGuest
<1>6. \A b \in Apps : app_is_running(b) => app_state[b].task \in Created
    BY DEF AppInv, AppTypeOK, AppState, Registered, app_is_running
<1>7. CASE UNCHANGED vars /\ app_state' = [app_state EXCEPT ![a] = Failed(-4)]
    <2>1. app_state'[a] = Failed(-4) /\ \A b \in Apps \ {a} : app_state'[b] = app_state[b]
        BY <1>7 DEF AppInv, AppTypeOK
    <2>2. shell'.at = "prompt" /\ (shell' = shell \/ ~shell'.result.ok)
        BY <2>1 DEF Failed
    <2>3. AppTypeOK'
        BY <1>1, <1>7 DEF AppInv, AppTypeOK, AppState, Failed, TaskInv
    <2>4. SlotsNamed' /\ ShellNeverDies' /\ OneGuest'
        BY <1>5, <1>7, <2>2 DEF AppInv, SlotsNamed, ShellNeverDies, OneGuest, vars
    <2>5. ShellWaits' /\ ReportIsExitCode'
        BY <2>2 DEF AppInv, ShellWaits, ReportIsExitCode
    <2>6. RunningHasItsTask'
        BY <1>4, <1>7, <2>1 DEF AppInv, RunningHasItsTask, app_is_running, vars, Failed, RunningOn
    <2> QED BY <2>3, <2>4, <2>5, <2>6 DEF AppInv
<1>8. CASE /\ \E s \in Stacks : TaskCreate(AppStackSize, a, s)
           /\ app_state' = [app_state EXCEPT ![a] = RunningOn(NextSlot)]
    <2>1. PICK n \in Created :
              /\ n = NextSlot /\ state[n].tag = "Unused" /\ state'[n] = Runnable
              /\ argument[n] = NoArgument /\ argument'[n] = a
              /\ \A t \in Created \ {n} : state'[t] = state[t] /\ argument'[t] = argument[t]
        BY <1>8, NewTask DEF AppInv, TaskInv, SlotsNamed
    <2>2. app_state'[a] = RunningOn(n) /\ \A b \in Apps \ {a} : app_state'[b] = app_state[b]
        BY <1>8, <2>1 DEF AppInv, AppTypeOK
    <2>3. IF a # Shell THEN shell'.at = "wait" /\ shell'.app = a /\ shell'.task = n
          ELSE shell'.at = "prompt" /\ (shell' = shell \/ ~shell'.result.ok)
        BY <2>2 DEF RunningOn
    <2>4. AppTypeOK'
        BY <1>1, <1>8, <2>1 DEF AppInv, AppTypeOK, AppState, RunningOn, TaskInv
    <2>5. SlotsNamed' /\ ShellNeverDies'
        BY <1>2, <2>1 DEF AppInv, SlotsNamed, ShellNeverDies, Runnable
    <2>6. OneGuest'
        BY <1>5, <2>1, <2>3 DEF OneGuest
    <2>7. ShellWaits' /\ ReportIsExitCode'
        BY <2>1, <2>2, <2>3 DEF AppInv, ShellWaits, ReportIsExitCode, Runnable, app_is_running
    <2>8. RunningHasItsTask'
        BY <1>2, <1>4, <1>6, <2>1, <2>2
           DEF AppInv, RunningHasItsTask, app_is_running, RunningOn, Runnable
    <2> QED BY <2>4, <2>5, <2>6, <2>7, <2>8 DEF AppInv
<1> QED BY <1>7, <1>8 DEF app_start_index, StartTask

(* The shell itself runs: it cannot be started a second time. *)
LEMMA CommandKeeps ==
    ASSUME AppInv, TaskInv', NEW a \in Apps, NEW text, Command(a, text)
    PROVE  AppInv'
PROOF
<1> USE AppAssumptions, TaskAssumptions
<1>1. /\ RunsProgram(Shell) /\ shell.at = "prompt" /\ app_start_index(a, text)
      /\ UNCHANGED <<boot, returned>>
      /\ shell' = IF app_state'[a].tag = "Running"
                  THEN Frame("wait", a, app_state'[a].task, shell.result)
                  ELSE Frame("prompt", a, shell.task, NoResult)
    BY DEF Command
<1>2. app_is_running(Shell) /\ a # Shell
    <2>1. current \in Created /\ argument[current] = Shell
        BY <1>1 DEF RunsProgram, AppInv, TaskInv, TypeOK, Ids, Created
    <2>2. app_is_running(Shell)
        BY <2>1, TaskMeansRunning DEF AppInv, ShellNeverDies
    <2> QED BY <1>1, <2>2 DEF app_start_index
<1>3. app_state'[a].tag = "Running" => app_state'[a].task \in Created
    <2>1. NextSlot \in Created \/ app_state'[a] = Failed(-4)
        BY <1>1, NewTask DEF app_start_index, StartTask, AppInv, TaskInv, AppTypeOK
    <2> QED BY <1>1, <2>1
            DEF app_start_index, StartTask, AppInv, AppTypeOK, RunningOn, Failed
<1>4. shell' \in ShellFrame
    BY <1>1, <1>3 DEF AppInv, AppTypeOK, ShellFrame, Frame, NoResult, Ids, Created
<1>5. IF app_state'[a].tag = "Running"
      THEN shell'.at = "wait" /\ shell'.app = a /\ shell'.task = app_state'[a].task
      ELSE shell'.at = "prompt" /\ ~shell'.result.ok
    BY <1>1 DEF Frame, NoResult
<1>6. boot' \in {"heartbeat", "shell", "supervise"}
    BY <1>1 DEF AppInv, AppTypeOK
<1> QED BY <1>1, <1>2, <1>4, <1>5, <1>6, StartKeeps

LEMMA BootShellKeeps == ASSUME AppInv, TaskInv', BootShell PROVE AppInv'
PROOF
<1>1. /\ app_start_index(Shell, NoArgs) /\ UNCHANGED <<shell, returned>>
      /\ boot' = "supervise"
    BY DEF BootShell
<1>2. shell.at = "prompt"
    BY <1>1 DEF app_start_index, AppInv, ShellWaits, AppTypeOK, ShellFrame
<1>3. shell' \in ShellFrame
    BY <1>1 DEF AppInv, AppTypeOK
<1> QED BY <1>1, <1>2, <1>3, AppAssumptions, StartKeeps

(* The task the shell waits for returned: app_task_entry writes app_state. *)
LEMMA ReturnKeeps == ASSUME AppInv, TaskInv', NEW c \in Codes, AppReturn(c) PROVE AppInv'
PROOF
<1> USE AppAssumptions, TaskAssumptions
<1>1. PICK t \in Created : t = current
    BY DEF AppReturn, RunsApp, AppInv, TaskInv, TypeOK, Ids, Created
<1>2. PICK a \in Apps \ {Shell} : a = argument[t]
    BY <1>1 DEF AppReturn, RunsApp
<1>3. shell.at = "wait" /\ shell.task = t /\ shell.app = a /\ app_is_running(Shell)
    BY <1>2 DEF AppInv, OneGuest, ShellWaits
<1>4. \A u \in Created : argument[u] = a => u = t
    BY <1>2, <1>3 DEF AppInv, OneGuest
<1>5. /\ state'[t] = Dead(c) /\ argument' = argument
      /\ \A u \in Created \ {t} : state'[u] = state[u]
    BY <1>1 DEF AppReturn, TaskExit, AppInv, TaskInv, TypeOK, Created, Ids
<1>6. PICK new : app_state' = [app_state EXCEPT ![a] = new] /\ new \in {Exited(c), Failed(c)}
    BY <1>1, <1>2 DEF AppReturn
<1>7. /\ app_state'[a] = new /\ new.tag # "Running"
      /\ \A b \in Apps \ {a} : app_state'[b] = app_state[b]
    BY <1>6 DEF AppInv, AppTypeOK, Exited, Failed
<1>8. returned' = [returned EXCEPT ![a] = c] /\ returned'[a] = c /\ shell' = shell
    BY <1>1, <1>2 DEF AppReturn, AppInv, AppTypeOK
<1>9. AppTypeOK'
    <2>1. new \in AppState
        BY <1>6 DEF AppState, Exited, Failed
    <2>2. UNCHANGED <<app_args, boot>> /\ c \in Int
        BY DEF AppReturn
    <2> QED BY <1>6, <1>8, <2>1, <2>2 DEF AppInv, AppTypeOK, TaskInv
<1>10. SlotsNamed' /\ ShellNeverDies' /\ OneGuest'
    <2>1. state[t].tag # "Unused" /\ argument[t] # NoArgument
        BY <1>2 DEF AppInv, SlotsNamed
    <2> QED BY <1>2, <1>3, <1>5, <1>8, <2>1
            DEF AppInv, SlotsNamed, ShellNeverDies, OneGuest, Dead
<1>11. ShellWaits' /\ ReportIsExitCode'
    BY <1>2, <1>3, <1>5, <1>7, <1>8 DEF ShellWaits, ReportIsExitCode, Dead, app_is_running
<1>12. RunningHasItsTask'
    <2>1. \A b \in Apps : app_is_running(b) => app_state[b].task \in Created
        BY DEF AppInv, AppTypeOK, AppState, Registered, app_is_running
    <2>2. \A b \in Apps : app_is_running(b)' =>
              LET u == app_state'[b].task
              IN  argument'[u] = b /\ state'[u].tag \in {"Runnable", "Waiting"}
        BY <1>2, <1>5, <1>7, <2>1 DEF AppInv, RunningHasItsTask, app_is_running
    <2>3. \A u \in Created : argument'[u] \in Apps /\ state'[u].tag # "Dead" =>
              app_state'[argument'[u]] = RunningOn(u)
        BY <1>4, <1>5, <1>7 DEF AppInv, RunningHasItsTask, Dead
    <2> QED BY <2>2, <2>3 DEF RunningHasItsTask
<1> QED BY <1>9, <1>10, <1>11, <1>12 DEF AppInv

(* app_wait_index reads the exit code, then frees the slot. *)
LEMMA WaitReapKeeps == ASSUME AppInv, TaskInv', WaitReap PROVE AppInv'
PROOF
<1> USE AppAssumptions, TaskAssumptions
<1>1. PICK t \in Created : t = shell.task /\ state[t].tag = "Dead"
    BY DEF WaitReap, AppInv, ShellWaits
<1>2. /\ state' = [state EXCEPT ![t] = Unused] /\ argument' = [argument EXCEPT ![t] = NoArgument]
      /\ UNCHANGED <<app_state, app_args, boot, returned>>
      /\ shell.at = "wait" /\ shell' = Frame("prompt", shell.app, t, Result(state[t].code))
    BY <1>1 DEF WaitReap, TaskReap
<1>3. /\ state'[t] = Unused /\ argument'[t] = NoArgument
      /\ \A u \in Created \ {t} : state'[u] = state[u] /\ argument'[u] = argument[u]
    BY <1>2 DEF AppInv, TaskInv, TypeOK, Created, Ids
<1>4. state[t].code = returned[shell.app] /\ shell.app \in Apps
    BY <1>1, <1>2 DEF AppInv, ShellWaits
<1>5. AppTypeOK'
    <2>1. shell' \in ShellFrame
        <3>1. returned[shell.app] \in Int
            BY <1>4 DEF AppInv, AppTypeOK
        <3> QED BY <1>2, <1>4, <3>1 DEF ShellFrame, Frame, Result, Ids, Created
    <2> QED BY <1>2, <2>1 DEF AppInv, AppTypeOK, TaskInv
<1>6. NoArgument \notin Apps
    OBVIOUS
<1>7. \A u \in Created \ {t} : argument[u] \notin Apps \ {Shell}
    BY <1>1 DEF AppInv, OneGuest
<1>8. SlotsNamed' /\ ShellNeverDies' /\ OneGuest'
    BY <1>3, <1>6, <1>7 DEF AppInv, SlotsNamed, ShellNeverDies, OneGuest, Unused
<1>9. ShellWaits' /\ ReportIsExitCode'
    BY <1>2, <1>4 DEF ShellWaits, ReportIsExitCode, Frame, Result
<1>10. RunningHasItsTask'
    <2>1. \A b \in Apps : app_is_running(b) => app_state[b].task \in Created \ {t}
        <3>1. \A b \in Apps : app_is_running(b) => app_state[b].task \in Created
            BY DEF AppInv, AppTypeOK, AppState, Registered, app_is_running
        <3> QED BY <1>1, <3>1 DEF AppInv, RunningHasItsTask
    <2> QED BY <1>2, <1>3, <1>6, <2>1 DEF AppInv, RunningHasItsTask, app_is_running
<1> QED BY <1>5, <1>8, <1>9, <1>10 DEF AppInv

LEMMA AppStepKeeps == AppInv /\ [AppNext]_allVars => AppInv'
PROOF
<1> SUFFICES ASSUME AppInv, AppNext \/ UNCHANGED allVars PROVE AppInv'
    OBVIOUS
<1>1. TaskInv'
    BY AppStepIsTaskStep, NextPreserves DEF AppInv
<1>2. TypeOK
    BY DEF AppInv, TaskInv
<1>3. CASE BootHeartbeat
    BY <1>1, <1>3, HeartbeatKeeps
<1>4. CASE BootShell
    BY <1>1, <1>4, BootShellKeeps
<1>5. CASE Supervise \/ Beat \/ ShellIdle \/ WaitLoop \/ AppYield
    <2>1. YieldTo("run") /\ UNCHANGED appVars
        BY <1>5 DEF Supervise, Beat, ShellIdle, WaitLoop, AppYield, TaskYield
    <2> QED BY <1>1, <1>2, <2>1, YieldRests, RestsKeeps
<1>6. ASSUME NEW a \in Apps, NEW text \in Args \cup LongArgs, Command(a, text) PROVE AppInv'
    BY <1>1, <1>6, CommandKeeps
<1>7. CASE WaitReap
    BY <1>1, <1>7, WaitReapKeeps
<1>8. ASSUME NEW c \in Codes, AppReturn(c) PROVE AppInv'
    BY <1>1, <1>8, ReturnKeeps
<1>9. CASE ExitYield /\ UNCHANGED appVars
    BY <1>1, <1>2, <1>9, YieldRests, RestsKeeps DEF ExitYield
<1>10. CASE (Tick /\ UNCHANGED appVars) \/ UNCHANGED allVars
    <2>1. Rests /\ UNCHANGED appVars
        BY <1>10 DEF Tick, Rests, allVars, vars
    <2> QED BY <1>1, <2>1, RestsKeeps
<1> QED BY <1>3, <1>4, <1>5, <1>6, <1>7, <1>8, <1>9, <1>10 DEF AppNext

LEMMA AppsInvariance == AppSpec => []AppInv
BY AppInitInv, AppStepKeeps, PTL DEF AppSpec

(* The app slots, the shell's position and the mapping of apps to tasks stay  *)
(* within what app.pp can store, for any number of apps and slots.            *)
THEOREM AppsTyped == AppSpec => []AppTypeOK
<1>1. AppInv => AppTypeOK
    BY DEF AppInv
<1> QED BY <1>1, AppsInvariance, PTL

(* An app marked running owns a task of its own that carries its argument,    *)
(* however often apps are started, ended and reaped.                          *)
THEOREM RunningAppOwnsTask == AppSpec => []RunningHasItsTask
<1>1. AppInv => RunningHasItsTask
    BY DEF AppInv
<1> QED BY <1>1, AppsInvariance, PTL

(* Back at the prompt nothing of a command is left: every created task is the *)
(* shell's own or the heartbeat's.                                            *)
THEOREM PromptIsClean == AppSpec => []PromptHoldsNoTask
<1>1. AppInv => PromptHoldsNoTask
    <2> SUFFICES ASSUME AppInv, shell.at = "prompt", NEW t \in Created, state[t].tag # "Unused"
                 PROVE  argument[t] \in {Shell, Heartbeat}
        BY DEF PromptHoldsNoTask
    <2>1. argument[t] \in Apps \cup {Heartbeat}
        BY AppAssumptions DEF AppInv, SlotsNamed, TaskInv, TypeOK, Created, Ids
    <2>2. argument[t] \notin Apps \ {Shell}
        BY DEF AppInv, OneGuest
    <2> QED BY <2>1, <2>2
<1> QED BY <1>1, AppsInvariance, PTL

(* app_cmd_run prints the exit code of the very invocation it started.        *)
THEOREM ReportsAreTrue == AppSpec => []ReportIsExitCode
<1>1. AppInv => ReportIsExitCode
    BY DEF AppInv
<1> QED BY <1>1, AppsInvariance, PTL

(* app_context's arguments are not rewritten under a running app.          *)
THEOREM ArgumentsKept == AppSpec => ArgsOutliveApp
PROOF
<1> DEFINE Kept == \A a \in Apps : app_is_running(a) /\ app_state'[a].tag = "Running"
                                       => app_args'[a] = app_args[a]
<1>1. AppInv /\ [AppNext]_allVars => [Kept]_allVars
    <2> SUFFICES ASSUME AppInv, AppNext \/ UNCHANGED allVars,
                        NEW a \in Apps, app_is_running(a)
                 PROVE  app_args'[a] = app_args[a]
        BY DEF Kept
    <2>1. ASSUME NEW b \in Apps, NEW text, app_start_index(b, text)
          PROVE  app_args'[a] = app_args[a]
        <3>1. a # b /\ app_args' = [app_args EXCEPT ![b] = text]
            BY <2>1 DEF app_start_index, StartTask, app_prepare_context
        <3> QED BY <3>1 DEF AppInv, AppTypeOK
    <2>2. CASE BootShell
        BY <2>1, <2>2, AppAssumptions DEF BootShell
    <2>3. CASE \E b \in Apps, text \in Args \cup LongArgs : Command(b, text)
        BY <2>1, <2>3 DEF Command
    <2>4. CASE UNCHANGED app_args
        BY <2>4
    <2> QED BY <2>2, <2>3, <2>4 DEF AppNext, BootHeartbeat, Supervise, Beat, ShellIdle,
               WaitLoop, WaitReap, AppYield, AppReturn, appVars, allVars
<1> QED BY <1>1, AppsInvariance, PTL DEF AppSpec, ArgsOutliveApp, Kept
=============================================================================
