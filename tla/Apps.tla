-------------------------------- MODULE Apps --------------------------------
(***************************************************************************)
(* The Native App runtime of ppos (ppos/app.pp) on top of the task table,  *)
(* driven by the tasks the image really holds: the bootstrap task of kmain *)
(* (ppos/kernel.pp), the heartbeat coroutine, the shell app, and the apps  *)
(* the shell runs with app_cmd_run (ppos/kernel_shell.pp).                 *)
(*                                                                         *)
(* A task's entry function and argument are one value here: the heartbeat, *)
(* or the app whose descriptor index app_task_entry receives.  Every step  *)
(* of this module is made of the operations of module Tasks.               *)
(***************************************************************************)
EXTENDS Tasks

CONSTANTS
    Apps,         \* registered descriptors, the shell included
    Shell,        \* the shell's descriptor
    Heartbeat,    \* the heartbeat coroutine
    Args,         \* argument strings that fit the 256-byte slot
    LongArgs,     \* argument strings that do not
    NoArgs,       \* the empty argument string
    AppStackSize  \* descriptor stack_size of every app

ASSUME AppAssumptions ==
    /\ Shell \in Apps
    /\ Heartbeat \notin Apps
    /\ Arguments = Apps \cup {Heartbeat}
    /\ NoArgs \in Args
    /\ Args \cap LongArgs = {}
    /\ MinStack \in StackSizes
    /\ AppStackSize \in StackSizes /\ AppStackSize >= MinStack
    /\ 0 \in Codes /\ Codes \subseteq Int

VARIABLES
    app_state,   \* app_state[a]
    app_args,    \* contents of a's slot of app_args, seen through app_context
    boot,        \* where kmain stands: "heartbeat", "shell", "supervise"
    shell,       \* the shell's frame, see ShellFrame
    returned     \* history: what the last finished invocation of a returned

appVars == <<app_state, app_args, boot, shell, returned>>
allVars == <<vars, appVars>>

(* enum AppState *)
Registered  == [tag |-> "Registered"]
RunningOn(t) == [tag |-> "Running", task |-> t]
Exited(c)   == [tag |-> "Exited", code |-> c]
Failed(c)   == [tag |-> "Failed", code |-> c]

AppState ==
    {Registered} \cup [tag : {"Running"}, task : Created]
                 \cup [tag : {"Exited", "Failed"}, code : Int]

(* struct AppWaitResult *)
NoResult     == [ok |-> FALSE, code |-> 0]
Result(code) == [ok |-> TRUE, code |-> code]

(* "prompt": reading the keyboard; "wait": in the loop of app_wait_index,  *)
(* with the local task_id; result: what the last app_cmd_run printed.      *)
ShellFrame ==
    [at : {"prompt", "wait"}, app : Apps, task : Ids,
     result : [ok : BOOLEAN, code : Int]]

Frame(at, a, t, res) == [at |-> at, app |-> a, task |-> t, result |-> res]

AppTypeOK ==
    /\ TypeOK
    /\ app_state \in [Apps -> AppState]
    /\ app_args \in [Apps -> Args]
    /\ boot \in {"heartbeat", "shell", "supervise"}
    /\ shell \in ShellFrame
    /\ returned \in [Apps -> Int]

AppInit ==
    /\ Init
    /\ app_state = [a \in Apps |-> Registered]
    /\ app_args = [a \in Apps |-> NoArgs]
    /\ boot = "heartbeat"
    /\ shell = Frame("prompt", Shell, 0, NoResult)
    /\ returned = [a \in Apps |-> 0]

-----------------------------------------------------------------------------
(* app_is_running, app_task_id *)
app_is_running(a) == app_state[a].tag = "Running"

NextSlot == CHOOSE i \in FreeSlots : \A j \in FreeSlots : i <= j

app_prepare_context(a, text) == app_args' = [app_args EXCEPT ![a] = text]

(* app_start_index once its arguments were accepted: copy the arguments,   *)
(* create the task; without one the app has Failed(-4).  Whether kmalloc   *)
(* finds a block for this stack depends on sizes Tasks does not keep: it   *)
(* may fail at any time.                                                   *)
StartTask(a, text) ==
    /\ app_prepare_context(a, text)
    /\ \/ /\ \E s \in Stacks : TaskCreate(AppStackSize, a, s)
          /\ app_state' = [app_state EXCEPT ![a] = RunningOn(NextSlot)]
       \/ /\ app_state' = [app_state EXCEPT ![a] = Failed(-4)]
          /\ UNCHANGED vars

app_start_index_NoSizeCheck(a, text) == ~app_is_running(a) /\ StartTask(a, text)
app_start_index_Anytime(a, text) == text \in Args /\ StartTask(a, text)

(* app_start_index past its refusals -3 (arguments) and -2 (running): both *)
(* return before anything is written.                                      *)
app_start_index(a, text) ==
    /\ text \in Args
    /\ ~app_is_running(a)
    /\ StartTask(a, text)

-----------------------------------------------------------------------------
(* kmain, on task 0: heartbeat, then the shell app, then the supervisor    *)
(* loop.  Either start failing is a kernel_panic, the end of the image: a  *)
(* behaviour of this module is one in which the heap held both stacks.     *)
AtTask(t) == current = t /\ Running

BootHeartbeat ==
    /\ AtTask(0) /\ boot = "heartbeat"
    /\ \E s \in Stacks : TaskCreate(MinStack, Heartbeat, s)
    /\ boot' = "shell"
    /\ UNCHANGED <<app_state, app_args, shell, returned>>

BootShell ==
    /\ AtTask(0) /\ boot = "shell"
    /\ app_start_index(Shell, NoArgs)
    /\ app_state'[Shell].tag = "Running"
    /\ boot' = "supervise"
    /\ UNCHANGED <<shell, returned>>

Supervise ==
    /\ AtTask(0) /\ boot = "supervise"
    /\ TaskYield
    /\ UNCHANGED appVars

RunsProgram(p) == current # 0 /\ Running /\ argument[current] = p

(* heartbeat: count and yield, for ever *)
Beat == RunsProgram(Heartbeat) /\ TaskYield /\ UNCHANGED appVars

-----------------------------------------------------------------------------
(* The shell task. *)
ShellIdle ==
    /\ RunsProgram(Shell) /\ shell.at = "prompt"
    /\ TaskYield
    /\ UNCHANGED appVars

(* app_cmd_run: start the app and wait for it.  The refusals and a failed  *)
(* start print a message and return to the prompt; a started app's task id *)
(* is picked up by app_wait_index before anyone else can run.              *)
Command(a, text) ==
    /\ RunsProgram(Shell) /\ shell.at = "prompt"
    /\ app_start_index(a, text)
    /\ shell' = IF app_state'[a].tag = "Running"
                THEN Frame("wait", a, app_state'[a].task, shell.result)
                ELSE Frame("prompt", a, shell.task, NoResult)
    /\ UNCHANGED <<boot, returned>>

(* app_wait_index: hlt and yield until the task is dead ... *)
WaitLoop ==
    /\ RunsProgram(Shell) /\ shell.at = "wait"
    /\ state[shell.task].tag # "Dead"
    /\ TaskYield
    /\ UNCHANGED appVars

(* ... then read its exit code and reap it.  Nothing yields between the test *)
(* that ended the loop and the reap, and the stack of a dead task is a block *)
(* kfree accepts, so task_reap succeeds: the answer to its failure           *)
(* (app.pp:184-187) is out of reach.                                         *)
WaitReap_AnyState ==
    /\ RunsProgram(Shell) /\ shell.at = "wait"
    /\ state' = [state EXCEPT ![shell.task] = Unused]
    /\ stack' = [stack EXCEPT ![shell.task] = NoStack]
    /\ argument' = [argument EXCEPT ![shell.task] = NoArgument]
    /\ pc' = [pc EXCEPT ![shell.task] = "none"]
    /\ live' = live \ {stack[shell.task]}
    /\ shell' = Frame("prompt", shell.app, shell.task, shell.result)
    /\ UNCHANGED <<current, tick, app_state, app_args, boot, returned>>

WaitReap_OnlySuccess ==
    /\ RunsProgram(Shell) /\ shell.at = "wait"
    /\ app_state[shell.app].tag = "Exited"
    /\ TaskReap(shell.task)
    /\ shell' = Frame("prompt", shell.app, shell.task, Result(state[shell.task].code))
    /\ UNCHANGED <<app_state, app_args, boot, returned>>

WaitReap_NoReap ==
    /\ RunsProgram(Shell) /\ shell.at = "wait"
    /\ state[shell.task].tag = "Dead"
    /\ shell' = Frame("prompt", shell.app, shell.task, Result(state[shell.task].code))
    /\ UNCHANGED <<vars, app_state, app_args, boot, returned>>

WaitReap_CodeAfterReap ==
    /\ RunsProgram(Shell) /\ shell.at = "wait"
    /\ state[shell.task].tag = "Dead"
    /\ TaskReap(shell.task)
    /\ shell' = Frame("prompt", shell.app, shell.task, Result(-1))
    /\ UNCHANGED <<app_state, app_args, boot, returned>>

WaitReap ==
    /\ RunsProgram(Shell) /\ shell.at = "wait"
    /\ state[shell.task].tag = "Dead"
    /\ TaskReap(shell.task)
    /\ shell' = Frame("prompt", shell.app, shell.task, Result(state[shell.task].code))
    /\ UNCHANGED <<app_state, app_args, boot, returned>>

-----------------------------------------------------------------------------
(* An app the shell started.  Its entry may yield and finally returns; the *)
(* shell's own entry loops for ever.                                       *)
RunsApp == current # 0 /\ Running /\ argument[current] \in Apps \ {Shell}

AppYield == RunsApp /\ TaskYield /\ UNCHANGED appVars

(* app_task_entry after the entry returned, and the trampoline: nothing      *)
(* yields between them, so no task sees the app ended and its task not.      *)
AppReturn_StaysRunning(code) ==
    /\ RunsApp
    /\ TaskExit(code)
    /\ UNCHANGED <<app_state, app_args, boot, shell>>
    /\ returned' = [returned EXCEPT ![argument[current]] = code]

AppReturn(code) ==
    /\ RunsApp
    /\ TaskExit(code)
    /\ app_state' = [app_state EXCEPT ![argument[current]] =
                        IF code = 0 THEN Exited(code) ELSE Failed(code)]
    /\ returned' = [returned EXCEPT ![argument[current]] = code]
    /\ UNCHANGED <<app_args, boot, shell>>

AppNext ==
    \/ BootHeartbeat \/ BootShell \/ Supervise \/ Beat
    \/ ShellIdle
    \/ \E a \in Apps, text \in Args \cup LongArgs : Command(a, text)
    \/ WaitLoop \/ WaitReap
    \/ AppYield
    \/ \E c \in Codes : AppReturn(c)
    \/ ExitYield /\ UNCHANGED appVars
    \/ Tick /\ UNCHANGED appVars

AppSpec == AppInit /\ [][AppNext]_allVars

(* Every task keeps running; an app's entry function returns in the end    *)
(* however often it yields.                                                *)
AppFairness ==
    /\ WF_allVars(BootHeartbeat) /\ WF_allVars(BootShell)
    /\ WF_allVars(Supervise) /\ WF_allVars(Beat) /\ WF_allVars(ShellIdle)
    /\ WF_allVars(WaitLoop) /\ WF_allVars(WaitReap)
    /\ WF_allVars(AppYield) /\ SF_allVars(\E c \in Codes : AppReturn(c))
    /\ WF_allVars(ExitYield /\ UNCHANGED appVars)

FairAppSpec == AppSpec /\ AppFairness

-----------------------------------------------------------------------------
(* Properties *)

(* The image drives the task table only through its operations: every      *)
(* behaviour of the app runtime is a behaviour of module Tasks.            *)
ImplementsTasks == Spec

(* app_state and the task table agree: a running app has a task of its own *)
(* that executes it and has not died, and no app has two tasks at work.    *)
RunningHasItsTask ==
    /\ \A a \in Apps : app_is_running(a) =>
          LET t == app_state[a].task
          IN  argument[t] = a /\ state[t].tag \in {"Runnable", "Waiting"}
    /\ \A t \in Created : argument[t] \in Apps /\ state[t].tag # "Dead" =>
          app_state[argument[t]] = RunningOn(t)

(* However many apps have been run, back at the prompt only the heartbeat  *)
(* and the shell hold a slot and a stack: nothing a command takes is kept. *)
PromptHoldsNoTask ==
    RunsProgram(Shell) /\ shell.at = "prompt" =>
        \A t \in Created : state[t].tag # "Unused" => argument[t] \in {Shell, Heartbeat}

(* What app_cmd_run prints is what the entry of that invocation returned,  *)
(* read from the slot before it is reaped.                                 *)
ReportIsExitCode ==
    shell.at = "prompt" /\ shell.result.ok => shell.result.code = returned[shell.app]

(* AppContext.args stays valid for the whole life of an invocation: the    *)
(* slot is not rewritten while its app runs.                               *)
ArgsOutliveApp ==
    [][\A a \in Apps : app_is_running(a) /\ app_state'[a].tag = "Running"
          => app_args'[a] = app_args[a]]_allVars

(* A command comes back to the prompt. *)
CommandReturns == (shell.at = "wait") ~> (shell.at = "prompt")
=============================================================================
