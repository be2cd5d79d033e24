------------------------------- MODULE Console -------------------------------
(* The kernel log and console of ppos (src/ppos/kernel_console.pp) on its one *)
(* CPU, between the code that runs in tasks ("fg") and the timer interrupt    *)
(* ("irq", kernel_irq.pp), which prints a dot every DotEvery ticks with the   *)
(* same console_putc.  A call is a sequence of steps, each an instruction     *)
(* boundary at which an interrupt or an exception can arrive.  The lock is    *)
(* taken with interrupts off; a panic writes to the serial port around it.    *)
EXTENDS Integers, Sequences

CONSTANTS RingSize,    \* kernel_log_ring: 8192 bytes
          DotEvery,    \* timer ticks per dot: 10
          Sizes,       \* sizes of the messages written
          Capacities,  \* capacities of the buffers kernel_log_read fills
          PanicLen,    \* bytes of a panic report
          MaxBytes     \* bound: the log stops growing here

ASSUME ConsoleAssumption ==
    /\ RingSize \in Nat \ {0} /\ DotEvery \in Nat \ {0} /\ PanicLen \in Nat \ {0}
    /\ Sizes \subseteq Nat \ {0} /\ Capacities \subseteq Nat /\ MaxBytes \in Nat

VARIABLES
    kernel_log_ring, kernel_log_next,   \* the ring; bytes appended since boot
    spin_lock_val, panic_console_active,
    intr,            \* the CPU's interrupt flag (RFLAGS.IF)
    irq,             \* the timer handler is on the CPU
    tick_dot,
    pc, job, flags,  \* per context: next step, call in progress, saved flag
    cursor,          \* the reader's KernelLogCursor
    dest,            \* what the last kernel_log_read stored
    log,             \* history: every byte appended
    port             \* history: every byte sent to the serial port

ringVars == <<kernel_log_ring, kernel_log_next, log>>
readVars == <<cursor, dest>>
lockVars == <<spin_lock_val, panic_console_active>>
cpuVars  == <<intr, irq, tick_dot>>
vars == <<ringVars, readVars, lockVars, cpuVars, pc, job, flags, port>>

Contexts == {"fg", "irq"}
Running(c) == c = IF irq THEN "irq" ELSE "fg"
Goto(c, l) == pc' = [pc EXCEPT ![c] = l]
Job(op, n) == [op |-> op, n |-> n, i |-> 1]
Byte(c) == [who |-> c, n |-> job[c].n, i |-> job[c].i]

Blank == [who |-> "none", n |-> 0, i |-> 0]   \* a slot not yet written

Init == /\ kernel_log_ring = [s \in 0..RingSize - 1 |-> Blank]
        /\ kernel_log_next = 0 /\ log = << >> /\ port = << >>
        /\ spin_lock_val = 0 /\ panic_console_active = 0
        /\ intr = TRUE /\ irq = FALSE /\ tick_dot = 0
        /\ pc = [c \in Contexts |-> "idle"]
        /\ job = [c \in Contexts |-> Job("write", 1)]
        /\ flags = [c \in Contexts |-> TRUE]
        /\ cursor = [next |-> 0, lost |-> 0] /\ dest = << >>

(***************************** calls from tasks ******************************)
(* Bytes the calls in progress still append. *)
Coming(c) == IF job[c].op # "write" THEN 0
             ELSE IF pc[c] \in {"cli", "lock", "recheck", "append"} THEN job[c].n - job[c].i + 1
             ELSE IF pc[c] = "out" THEN job[c].n - job[c].i ELSE 0
Room(n) == Len(log) + Coming("fg") + n <= MaxBytes
Called == Running("fg") /\ pc["fg"] = "idle"

console_write_bytes(n) ==
    /\ Called /\ panic_console_active = 0 /\ Room(n)
    /\ job' = [job EXCEPT !["fg"] = Job("write", n)]
    /\ Goto("fg", "cli")
    /\ UNCHANGED <<ringVars, readVars, lockVars, cpuVars, flags, port>>

kernel_log_read(capacity) ==
    /\ Called
    /\ job' = [job EXCEPT !["fg"] = Job("read", capacity)]
    /\ Goto("fg", "cli")
    /\ UNCHANGED <<ringVars, readVars, lockVars, cpuVars, flags, port>>

kernel_log_cursor_tail ==
    /\ Called /\ cursor' = [next |-> kernel_log_next, lost |-> 0]
    /\ UNCHANGED <<ringVars, dest, lockVars, cpuVars, pc, job, flags, port>>

(* kernel_log_oldest reads kernel_log_next twice and takes no lock: the first *)
(* read is kept in the job, the second may see bytes an interrupt appended.   *)
kernel_log_cursor_oldest ==
    /\ Called
    /\ job' = [job EXCEPT !["fg"] = Job("open", kernel_log_next)]
    /\ Goto("fg", "open")
    /\ UNCHANGED <<ringVars, readVars, lockVars, cpuVars, flags, port>>

OpenOldest ==
    /\ Running("fg") /\ pc["fg"] = "open"
    /\ cursor' = [next |-> IF job["fg"].n > RingSize THEN kernel_log_next - RingSize ELSE 0,
                  lost |-> 0]
    /\ Goto("fg", "idle")
    /\ UNCHANGED <<ringVars, dest, lockVars, cpuVars, job, flags, port>>

(*************************** the critical section ****************************)
irq_save_disable_NoCli(c) ==   \* mutant: only saves the flags
    /\ Running(c) /\ pc[c] = "cli"
    /\ flags' = [flags EXCEPT ![c] = intr]
    /\ Goto(c, "lock")
    /\ UNCHANGED <<ringVars, readVars, lockVars, cpuVars, job, port>>

irq_save_disable(c) ==
    /\ Running(c) /\ pc[c] = "cli"
    /\ flags' = [flags EXCEPT ![c] = intr] /\ intr' = FALSE
    /\ Goto(c, "lock")
    /\ UNCHANGED <<ringVars, readVars, lockVars, irq, tick_dot, job, port>>

spin_lock(c) ==
    /\ Running(c) /\ pc[c] = "lock" /\ spin_lock_val = 0
    /\ spin_lock_val' = 1
    /\ Goto(c, IF job[c].op = "read" THEN "copy" ELSE "recheck")
    /\ UNCHANGED <<ringVars, readVars, panic_console_active, cpuVars, job, flags, port>>

Recheck(c) ==
    /\ Running(c) /\ pc[c] = "recheck"
    /\ Goto(c, IF panic_console_active = 0 THEN "append" ELSE "unlock")
    /\ UNCHANGED <<ringVars, readVars, lockVars, cpuVars, job, flags, port>>

kernel_log_append_byte_FullStops(c) ==   \* mutant: a full ring takes no byte
    /\ Running(c) /\ pc[c] = "append"
    /\ IF kernel_log_next < RingSize
       THEN /\ kernel_log_ring' = [kernel_log_ring EXCEPT ![kernel_log_next] = Byte(c)]
            /\ kernel_log_next' = kernel_log_next + 1
            /\ log' = Append(log, Byte(c))
       ELSE UNCHANGED ringVars
    /\ Goto(c, "out")
    /\ UNCHANGED <<readVars, lockVars, cpuVars, job, flags, port>>

kernel_log_append_byte(c) ==
    /\ Running(c) /\ pc[c] = "append"
    /\ kernel_log_ring' = [kernel_log_ring EXCEPT ![kernel_log_next % RingSize] = Byte(c)]
    /\ kernel_log_next' = kernel_log_next + 1
    /\ log' = Append(log, Byte(c))
    /\ Goto(c, "out")
    /\ UNCHANGED <<readVars, lockVars, cpuVars, job, flags, port>>

physical_console_putc_PerByte(c) ==   \* mutant: a message is a loop of console_putc
    /\ Running(c) /\ pc[c] = "out"
    /\ port' = Append(port, Byte(c))
    /\ job' = [job EXCEPT ![c].i = @ + 1]
    /\ IF job[c].i < job[c].n
       THEN intr' = flags[c] /\ spin_lock_val' = 0 /\ Goto(c, "cli")
       ELSE UNCHANGED <<intr, spin_lock_val>> /\ Goto(c, "unlock")
    /\ UNCHANGED <<ringVars, readVars, panic_console_active, irq, tick_dot, flags>>

physical_console_putc(c) ==
    /\ Running(c) /\ pc[c] = "out"
    /\ port' = Append(port, Byte(c))
    /\ job' = [job EXCEPT ![c].i = @ + 1]
    /\ Goto(c, IF job[c].i < job[c].n THEN "append" ELSE "unlock")
    /\ UNCHANGED <<ringVars, readVars, lockVars, cpuVars, flags>>

Least(a, b) == IF a < b THEN a ELSE b
kernel_log_oldest == IF kernel_log_next > RingSize THEN kernel_log_next - RingSize ELSE 0

CopyOut_FromCursor ==   \* mutant: counts the loss, reads from the old place
    /\ Running("fg") /\ pc["fg"] = "copy"
    /\ LET lost  == IF cursor.next < kernel_log_oldest THEN kernel_log_oldest - cursor.next ELSE 0
           count == Least(kernel_log_next - cursor.next, job["fg"].n)
       IN /\ dest' = [i \in 1..count |-> kernel_log_ring[(cursor.next + i - 1) % RingSize]]
          /\ cursor' = [next |-> cursor.next + count, lost |-> cursor.lost + lost]
    /\ Goto("fg", "unlock")
    /\ UNCHANGED <<ringVars, lockVars, cpuVars, job, flags, port>>

CopyOut ==
    /\ Running("fg") /\ pc["fg"] = "copy"
    /\ LET late  == cursor.next < kernel_log_oldest
           from  == Least(IF late THEN kernel_log_oldest ELSE cursor.next, kernel_log_next)
           count == Least(kernel_log_next - from, job["fg"].n)
       IN /\ dest' = [i \in 1..count |-> kernel_log_ring[(from + i - 1) % RingSize]]
          /\ cursor' = [next |-> from + count,
                        lost |-> cursor.lost + IF late THEN kernel_log_oldest - cursor.next ELSE 0]
    /\ Goto("fg", "unlock")
    /\ UNCHANGED <<ringVars, lockVars, cpuVars, job, flags, port>>

spin_unlock(c) ==
    /\ Running(c) /\ pc[c] = "unlock"
    /\ spin_lock_val' = 0
    /\ Goto(c, "restore")
    /\ UNCHANGED <<ringVars, readVars, panic_console_active, cpuVars, job, flags, port>>

irq_restore_Sti(c) ==   \* mutant: enables interrupts whatever was saved
    /\ Running(c) /\ pc[c] = "restore"
    /\ intr' = TRUE
    /\ Goto(c, IF c = "fg" THEN "idle" ELSE "reset")
    /\ UNCHANGED <<ringVars, readVars, lockVars, irq, tick_dot, job, flags, port>>

irq_restore(c) ==
    /\ Running(c) /\ pc[c] = "restore"
    /\ intr' = flags[c]
    /\ Goto(c, IF c = "fg" THEN "idle" ELSE "reset")
    /\ UNCHANGED <<ringVars, readVars, lockVars, irq, tick_dot, job, flags, port>>

(*************************** the timer interrupt *****************************)
(* An interrupt gate: the CPU clears IF on entry and iretq sets it again.     *)
timer_handler ==
    /\ intr /\ ~irq /\ Room(1)
    /\ irq' = TRUE /\ intr' = FALSE
    /\ tick_dot' = tick_dot + 1
    /\ job' = [job EXCEPT !["irq"] = Job("write", 1)]
    /\ Goto("irq", IF tick_dot + 1 < DotEvery THEN "iret"
                   ELSE IF panic_console_active = 0 THEN "cli" ELSE "reset")
    /\ UNCHANGED <<ringVars, readVars, lockVars, flags, port>>

TimerReturn ==
    /\ Running("irq") /\ pc["irq"] \in {"reset", "iret"}
    /\ tick_dot' = IF pc["irq"] = "reset" THEN 0 ELSE tick_dot
    /\ irq' = FALSE /\ intr' = TRUE
    /\ Goto("irq", "idle")
    /\ UNCHANGED <<ringVars, readVars, lockVars, job, flags, port>>

(********************************** panic ************************************)
(* kernel_panic from a task, or an exception, which also clears IF.  An       *)
(* exception strikes task code or an access to the caller's buffer, so        *)
(* possibly with the lock held.                                               *)
kernel_panic == /\ Called /\ Goto("fg", "begin")
                /\ UNCHANGED <<ringVars, readVars, lockVars, cpuVars, job, flags, port>>

exception_handler ==
    /\ Running("fg") /\ pc["fg"] \in {"idle", "append", "copy"}
    /\ intr' = FALSE /\ Goto("fg", "begin")
    /\ UNCHANGED <<ringVars, readVars, lockVars, irq, tick_dot, job, flags, port>>

panic_console_begin ==
    /\ Running("fg") /\ pc["fg"] = "begin"
    /\ intr' = FALSE /\ panic_console_active' = 1
    /\ job' = [job EXCEPT !["fg"] = Job("panic", PanicLen)]
    /\ Goto("fg", "text")
    /\ UNCHANGED <<ringVars, readVars, spin_lock_val, irq, tick_dot, flags, port>>

panic_console_write_Locked ==   \* mutant: the report waits for the lock
    /\ Running("fg") /\ pc["fg"] = "text" /\ spin_lock_val = 0
    /\ port' = Append(port, [Byte("fg") EXCEPT !.who = "panic"])
    /\ job' = [job EXCEPT !["fg"].i = @ + 1]
    /\ Goto("fg", IF job["fg"].i < PanicLen THEN "text" ELSE "halted")
    /\ UNCHANGED <<ringVars, readVars, lockVars, cpuVars, flags>>

panic_console_write ==
    /\ Running("fg") /\ pc["fg"] = "text"
    /\ port' = Append(port, [Byte("fg") EXCEPT !.who = "panic"])
    /\ job' = [job EXCEPT !["fg"].i = @ + 1]
    /\ Goto("fg", IF job["fg"].i < PanicLen THEN "text" ELSE "halted")
    /\ UNCHANGED <<ringVars, readVars, lockVars, cpuVars, flags>>

Section(c) == \/ irq_save_disable(c) \/ spin_lock(c) \/ Recheck(c)
              \/ kernel_log_append_byte(c) \/ physical_console_putc(c)
              \/ spin_unlock(c) \/ irq_restore(c)
FgCall == \/ \E n \in Sizes : console_write_bytes(n)
          \/ \E n \in Capacities : kernel_log_read(n)
          \/ kernel_log_cursor_tail \/ kernel_log_cursor_oldest
          \/ kernel_panic \/ exception_handler
FgStep  == Section("fg") \/ OpenOldest \/ CopyOut \/ panic_console_begin \/ panic_console_write
IrqStep == Section("irq") \/ TimerReturn
Next == FgCall \/ FgStep \/ timer_handler \/ IrqStep

(* An instruction of the interrupted code runs again and again between ticks  *)
(* 10 ms apart, so it is not starved by them: strong fairness for "fg".       *)
Fairness == SF_vars(FgStep) /\ WF_vars(IrqStep)
Spec == Init /\ [][Next]_vars /\ Fairness

(******************************** properties *********************************)
Steps == {"idle", "open", "cli", "lock", "recheck", "append", "out", "copy", "unlock",
          "restore", "reset", "iret", "begin", "text", "halted"}
Inside == {"recheck", "append", "out", "copy", "unlock"}
LogBytes == [who : Contexts, n : Nat, i : Nat]

RingTypes ==
    /\ kernel_log_ring \in [0..RingSize - 1 -> LogBytes \cup {Blank}]
    /\ log \in Seq(LogBytes) /\ kernel_log_next = Len(log)
    /\ cursor \in [next : Nat, lost : Nat]
CallTypes ==
    /\ pc \in [Contexts -> Steps] /\ flags \in [Contexts -> BOOLEAN]
    /\ job \in [Contexts -> [op : {"write", "read", "open", "panic"}, n : Nat, i : Nat]]
CpuTypes ==
    /\ spin_lock_val \in {0, 1} /\ panic_console_active \in {0, 1}
    /\ intr \in BOOLEAN /\ irq \in BOOLEAN /\ tick_dot \in 0..DotEvery
LockTypes ==
    /\ irq => ~intr
    /\ spin_lock_val = 1 => ~intr
    /\ \A c \in Contexts : pc[c] \in Inside => spin_lock_val = 1

(* The variables have their types, interrupts are off inside a handler and    *)
(* wherever the lock is held, and the lock is held by everybody inside a      *)
(* critical section.                                                          *)
ConsoleTypeOK == RingTypes /\ CallTypes /\ CpuTypes /\ LockTypes

(* console_write_bytes holds the lock for the whole message: the bytes of a   *)
(* message are adjacent in the log and in order, no dot of the timer and no   *)
(* other message is inside it.                                                *)
MessagesContiguous ==
    \A p \in 1..Len(log) - 1 :
        IF log[p].i < log[p].n THEN log[p + 1] = [log[p] EXCEPT !.i = @ + 1]
                               ELSE log[p + 1].i = 1

(* The serial port shows what the log holds, in the same order, at most the   *)
(* byte being emitted behind it; after that only the panic report.            *)
MirrorsLog ==
    \E k \in {Len(log) - 1, Len(log)} :
        /\ k < Len(log) => \E c \in Contexts : pc[c] = "out"
        /\ k <= Len(port) /\ \A i \in 1..k : port[i] = log[i]
        /\ \A i \in k + 1..Len(port) : port[i].who = "panic"

(* A read returns the bytes of the log just before the cursor it leaves,      *)
(* although the ring was overwritten meanwhile and the cursor was taken       *)
(* without the lock: bytes it skips are counted in cursor.lost, it skips only *)
(* what is overwritten, and it stops early only at the log's end.             *)
ReadExact ==
    [][pc["fg"] = "copy" /\ pc'["fg"] = "unlock" =>
         LET k == Len(dest')
             skipped == cursor'.lost - cursor.lost
         IN /\ dest' = SubSeq(log, cursor'.next - k + 1, cursor'.next)
            /\ cursor'.next - cursor.next = k + skipped
            /\ skipped > 0 => cursor'.next - k = Len(log) - RingSize
            /\ k < job["fg"].n => cursor'.next = Len(log)]_vars

(* No call spins on the lock for ever: the timer handler never finds the lock *)
(* taken, so every call returns, unless the machine panics first.             *)
CallsReturn == pc["fg"] \notin {"idle", "halted"} ~> pc["fg"] \in {"idle", "halted"}

(* A panic, even one raised while the faulting code holds the console lock,   *)
(* is reported in full and nothing is printed after or inside the report.     *)
PanicTextLast ==
    /\ Len(port) >= PanicLen
    /\ \A i \in 1..PanicLen :
          LET b == port[Len(port) - PanicLen + i] IN b.who = "panic" /\ b.i = i
PanicReported == pc["fg"] = "begin" ~> (pc["fg"] = "halted" /\ PanicTextLast)
=============================================================================
