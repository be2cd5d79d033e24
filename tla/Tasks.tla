------------------------------- MODULE Tasks -------------------------------
(***************************************************************************)
(* The cooperative task table of ppos (ppos/kernel_task.pp).               *)
(*                                                                         *)
(* Task 0 is the bootstrap task on the boot stack; every other slot of the *)
(* table is filled by task_create, owns a stack taken from the kernel      *)
(* heap, and is emptied by task_reap once its entry function returned.     *)
(* Exactly one task runs at a time (`current`); control changes hands only *)
(* inside task_yield.  The timer interrupt is the one thing that happens   *)
(* between any two steps of the running task.                              *)
(*                                                                         *)
(* What a task does between two calls of this module is not modelled: the  *)
(* running task may call any operation with any argument.  `pc` says where *)
(* each task's saved context stands (the continuation that saved_rsp       *)
(* points at); kmalloc and kfree are the Heap module's operations, seen    *)
(* here as taking a stack from, and giving it back to, the set `live`.     *)
(***************************************************************************)
EXTENDS Integers, FiniteSets

CONSTANTS
    NTasks,       \* slots of task_table (8 in the code)
    Stacks,       \* the blocks the heap can hand out as stacks
    NoStack,      \* stack_base = 0
    MinStack,     \* smallest stack task_create accepts (4096)
    StackSizes,   \* the stack sizes callers ask for
    Arguments,    \* the u64 handed to an entry function
    NoArgument,   \* the argument of an empty slot
    Events,       \* event numbers passed to task_wait and task_wake_event
    Timeouts,     \* timeout_ticks passed to task_wait
    Codes,        \* what entry functions return
    MaxTick       \* bound on tick_count, for model checking

ASSUME TaskAssumptions ==
    /\ NTasks \in Nat /\ NTasks >= 2
    /\ NoStack \notin Stacks
    /\ NoArgument \notin Arguments
    /\ StackSizes \subseteq Nat
    /\ MinStack \in Nat
    /\ Events \subseteq Int
    /\ Timeouts \subseteq Int
    /\ MaxTick \in Nat

VARIABLES
    state,      \* task_table[i].state
    stack,      \* task_table[i].stack_base
    argument,   \* task_table[i].argument
    pc,         \* where task i stands
    current,    \* task_current
    live,       \* stacks allocated and not freed
    tick        \* tick_count

vars == <<state, stack, argument, pc, current, live, tick>>

Ids     == 0 .. NTasks - 1
Created == 1 .. NTasks - 1          \* every loop over tasks skips the bootstrap task
NoTask  == -1

(* enum TaskState *)
Unused        == [tag |-> "Unused"]
Runnable      == [tag |-> "Runnable"]
Waiting(e, d) == [tag |-> "Waiting", event |-> e, deadline |-> d]
Dead(c)       == [tag |-> "Dead", code |-> c]

TaskState ==
    {Unused, Runnable} \cup
    [tag : {"Waiting"}, event : Nat, deadline : Nat] \cup
    [tag : {"Dead"}, code : Codes]

(* "none": empty slot.  "run": in the task's own code, or inside a plain   *)
(* task_yield.  "wait_call"/"wait_ret": inside task_wait, before/after its *)
(* task_yield.  "exit_call"/"exit_ret": in task_trampoline after the state *)
(* became Dead, before/after its task_yield.                               *)
Points == {"none", "run", "wait_call", "wait_ret", "exit_call", "exit_ret"}

TypeOK ==
    /\ state \in [Ids -> TaskState]
    /\ stack \in [Ids -> Stacks \cup {NoStack}]
    /\ argument \in [Ids -> Arguments \cup {NoArgument}]
    /\ pc \in [Ids -> Points]
    /\ current \in Ids
    /\ live \in SUBSET Stacks
    /\ tick \in Nat

-----------------------------------------------------------------------------
(* task_init: the whole table is cleared and the caller becomes task 0.    *)
Init ==
    /\ state = [i \in Ids |-> IF i = 0 THEN Runnable ELSE Unused]
    /\ stack = [i \in Ids |-> NoStack]
    /\ argument = [i \in Ids |-> NoArgument]
    /\ pc = [i \in Ids |-> IF i = 0 THEN "run" ELSE "none"]
    /\ current = 0
    /\ live = {}
    /\ tick = 0

Running == pc[current] = "run"

(* The trampoline's task_yield came back: kernel_panic("dead task          *)
(* resumed") halts the machine with interrupts off.                        *)
Panicked == pc[current] = "exit_ret"

-----------------------------------------------------------------------------
PollDeadlines_NeverPolls(st, now) == st

(* task_poll_deadlines: waits whose deadline has come become runnable. *)
PollDeadlines(st, now) ==
    [i \in Ids |->
        IF /\ i \in Created
           /\ st[i].tag = "Waiting"
           /\ st[i].deadline > 0
           /\ now >= st[i].deadline
        THEN Runnable ELSE st[i]]

NextRunnable_FromZero(st, from) ==
    LET ready == {i \in Ids \ {from} : st[i].tag = "Runnable"}
    IN  IF ready = {} THEN NoTask
        ELSE CHOOSE i \in ready : \A j \in ready : i <= j

NextRunnable_OneShort(st, from) ==
    LET ready == {o \in 1 .. NTasks - 2 : st[(from + o) % NTasks].tag = "Runnable"}
    IN  IF ready = {} THEN NoTask
        ELSE (from + (CHOOSE o \in ready : \A p \in ready : o <= p)) % NTasks

(* task_next_runnable: the first runnable slot after `from`, cyclically,   *)
(* never `from` itself.                                                    *)
NextRunnable(st, from) ==
    LET ready == {o \in 1 .. NTasks - 1 : st[(from + o) % NTasks].tag = "Runnable"}
    IN  IF ready = {} THEN NoTask
        ELSE (from + (CHOOSE o \in ready : \A p \in ready : o <= p)) % NTasks

(* task_yield, called at a point whose return point is `ret`: poll the     *)
(* deadlines, then switch to the next runnable task; with none, return to  *)
(* the caller at once.                                                     *)
YieldTo(ret) ==
    LET polled == PollDeadlines(state, tick)
        next   == NextRunnable(polled, current)
    IN  /\ state' = polled
        /\ pc' = [pc EXCEPT ![current] = ret]
        /\ current' = IF next = NoTask THEN current ELSE next
        /\ UNCHANGED <<stack, argument, live, tick>>

-----------------------------------------------------------------------------
(* Operations the running task may call. *)

TaskYield == Running /\ YieldTo("run")

(* task_create: first empty slot, stack from kmalloc.  The refusals (stack *)
(* too small, table full, heap exhausted) return -1 and change nothing.    *)
FreeSlots == {i \in Created : state[i].tag = "Unused"}

TaskCreate_LeakyGuard(size, arg, s) ==
    /\ size >= MinStack
    /\ s \notin live
    /\ LET free == {i \in Created : state[i].tag \in {"Unused", "Dead"}}
       IN  /\ free # {}
           /\ LET id == CHOOSE i \in free : \A j \in free : i <= j
              IN  /\ state' = [state EXCEPT ![id] = Runnable]
                  /\ stack' = [stack EXCEPT ![id] = s]
                  /\ argument' = [argument EXCEPT ![id] = arg]
                  /\ pc' = [pc EXCEPT ![id] = "run"]
    /\ live' = live \cup {s}
    /\ UNCHANGED <<current, tick>>

TaskCreate(size, arg, s) ==
    /\ size >= MinStack
    /\ FreeSlots # {}
    /\ s \notin live
    /\ LET id == CHOOSE i \in FreeSlots : \A j \in FreeSlots : i <= j
       IN  /\ state' = [state EXCEPT ![id] = Runnable]
           /\ stack' = [stack EXCEPT ![id] = s]
           /\ argument' = [argument EXCEPT ![id] = arg]
           /\ pc' = [pc EXCEPT ![id] = "run"]
    /\ live' = live \cup {s}
    /\ UNCHANGED <<current, tick>>

Create == Running /\ \E size \in StackSizes, arg \in Arguments, s \in Stacks :
                         TaskCreate(size, arg, s)

(* task_wait up to its task_yield.  event = 0 means timer only, timeout =  *)
(* 0 means event only; task 0 and meaningless arguments are refused.       *)
TaskWait(event, timeout) ==
    /\ Running
    /\ current # 0
    /\ event >= 0 /\ timeout >= 0 /\ ~(event = 0 /\ timeout = 0)
    /\ tick + timeout <= MaxTick            \* model bound
    /\ state' = [state EXCEPT ![current] =
                    Waiting(event, IF timeout > 0 THEN tick + timeout ELSE 0)]
    /\ pc' = [pc EXCEPT ![current] = "wait_call"]
    /\ UNCHANGED <<stack, argument, current, live, tick>>

(* the task_yield inside task_wait; a tick may fall before it *)
WaitYield == pc[current] = "wait_call" /\ YieldTo("wait_ret")

(* task_wait returns task_state_runnable(current) to the task's code *)
WaitReturn ==
    /\ pc[current] = "wait_ret"
    /\ pc' = [pc EXCEPT ![current] = "run"]
    /\ UNCHANGED <<state, stack, argument, current, live, tick>>

(* task_wake_event: all tasks waiting for `event` become runnable. *)
WakeEvent_ZeroToo(event) ==
    /\ Running
    /\ event >= 0
    /\ state' = [i \in Ids |->
                    IF i \in Created /\ state[i].tag = "Waiting" /\ state[i].event = event
                    THEN Runnable ELSE state[i]]
    /\ UNCHANGED <<stack, argument, pc, current, live, tick>>

WakeEvent(event) ==
    /\ Running
    /\ event > 0
    /\ state' = [i \in Ids |->
                    IF i \in Created /\ state[i].tag = "Waiting" /\ state[i].event = event
                    THEN Runnable ELSE state[i]]
    /\ UNCHANGED <<stack, argument, pc, current, live, tick>>

(* task_reap: give back the stack of a dead task and empty its slot.  When *)
(* kfree refuses the block nothing changes.                                *)
TaskReap(id) ==
    /\ id \in Created /\ state[id].tag = "Dead"
    /\ stack[id] # NoStack => stack[id] \in live
    /\ live' = live \ {stack[id]}
    /\ state' = [state EXCEPT ![id] = Unused]
    /\ stack' = [stack EXCEPT ![id] = NoStack]
    /\ argument' = [argument EXCEPT ![id] = NoArgument]
    /\ pc' = [pc EXCEPT ![id] = "none"]
    /\ UNCHANGED <<current, tick>>

Reap == Running /\ \E id \in Created : TaskReap(id)

(* The entry function returned: task_trampoline marks the task dead.  The  *)
(* bootstrap task does not run under the trampoline.                       *)
TaskExit(code) ==
    /\ Running
    /\ current # 0
    /\ state' = [state EXCEPT ![current] = Dead(code)]
    /\ pc' = [pc EXCEPT ![current] = "exit_call"]
    /\ UNCHANGED <<stack, argument, current, live, tick>>

(* the trampoline's task_yield, which must never come back *)
ExitYield == pc[current] = "exit_call" /\ YieldTo("exit_ret")

(* timer_handler, between any two steps unless interrupts are off *)
Tick ==
    /\ ~Panicked
    /\ tick < MaxTick                       \* model bound
    /\ tick' = tick + 1
    /\ UNCHANGED <<state, stack, argument, pc, current, live>>

-----------------------------------------------------------------------------
Next ==
    \/ TaskYield
    \/ Create
    \/ \E e \in Events, t \in Timeouts : TaskWait(e, t)
    \/ WaitYield
    \/ WaitReturn
    \/ \E e \in Events : WakeEvent(e)
    \/ Reap
    \/ \E c \in Codes : TaskExit(c)
    \/ ExitYield
    \/ Tick

Spec == Init /\ [][Next]_vars

(* A running task reaches its next task_yield, task_wait or return, and    *)
(* the steps inside those calls are taken: the cooperative contract every  *)
(* loop of heartbeat, shell, app_wait_index and kmain keeps.  The PIT      *)
(* interrupts for ever.  Nothing is assumed of creations, wake-ups, reaps. *)
Fairness ==
    /\ WF_vars(TaskYield)
    /\ WF_vars(WaitYield)
    /\ WF_vars(WaitReturn)
    /\ WF_vars(ExitYield)
    /\ WF_vars(Tick)

FairSpec == Spec /\ Fairness

-----------------------------------------------------------------------------
(* Properties *)

(* Whoever task_yield switches to, or comes back to, is runnable: a        *)
(* sleeping task is never resumed early, so task_wait never returns false  *)
(* after having slept, and no code runs in an empty or dead slot.  It      *)
(* rests on the bootstrap task being runnable always: task_yield called by *)
(* a sleeping or dead task then finds somebody to switch to.               *)
OnlyRunnableRuns ==
    /\ state[0] = Runnable
    /\ pc[current] \in {"run", "wait_ret"} => state[current] = Runnable
    /\ pc[current] = "wait_call" => state[current].tag = "Waiting"
    /\ pc[current] = "exit_call" => state[current].tag = "Dead"

(* task_trampoline's last line, kernel_panic("dead task resumed"), is never *)
(* reached: a dead task's task_yield does not return, whatever the other   *)
(* tasks wait for.                                                         *)
NoDeadTaskResumed == ~Panicked

(* Stacks and slots stay matched through creation, exit and reaping: every *)
(* filled slot owns a stack of its own that has not been freed (so the     *)
(* task that runs, dead or not, stands on a live stack), an empty slot     *)
(* owns none, and no allocated stack is without an owner.                  *)
StackOwnership ==
    /\ \A i \in Created : state[i].tag = "Unused" <=> stack[i] = NoStack
    /\ \A i, j \in Created : i # j /\ stack[i] = stack[j] => stack[i] = NoStack
    /\ live = {stack[i] : i \in {j \in Created : stack[j] # NoStack}}

(* A wait ends for the reason it was started with: its deadline has come,  *)
(* or the running task signals its event.  In particular a timer-only wait *)
(* (event 0) is not cut short by any event, and an event-only wait         *)
(* (timeout 0) is not ended by time.                                       *)
WaitEndsForItsReason ==
    [][\A i \in Created :
          state[i].tag = "Waiting" /\ state'[i].tag # "Waiting" =>
            \/ state[i].deadline > 0 /\ tick >= state[i].deadline
            \/ state[i].event > 0 /\ \E e \in Events : e = state[i].event /\ WakeEvent(e)]_vars

(* What a slot's state says about its saved context, and that only the     *)
(* running task is between setting its state and calling task_yield.       *)
PointMatchesState ==
    \A i \in Ids :
        /\ state[i].tag = "Unused" <=> pc[i] = "none"
        /\ state[i].tag = "Dead" <=> pc[i] \in {"exit_call", "exit_ret"}
        /\ pc[i] = "run" => state[i].tag = "Runnable"
        /\ pc[i] \in {"wait_call", "exit_call"} => i = current

(* The inductive invariant behind the safety properties above. *)
TaskInv ==
    /\ TypeOK
    /\ OnlyRunnableRuns
    /\ PointMatchesState
    /\ NoDeadTaskResumed
    /\ StackOwnership

(* No starvation: the round robin reaches every runnable task. *)
RunnableIsScheduled ==
    \A i \in Created : (state[i] = Runnable) ~> (current = i)

(* A wait with a deadline ends: task_wait returns to its caller. *)
TimedWaitReturns ==
    \A i \in Created :
        (state[i].tag = "Waiting" /\ state[i].deadline > 0) ~> (current = i /\ Running)
=============================================================================
