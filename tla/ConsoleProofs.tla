---------------------------- MODULE ConsoleProofs ----------------------------
(* For every ring, message and report size: the lock discipline of the        *)
(* console and the contiguity of its messages.  The lock is free whenever     *)
(* interrupts are on, so the timer handler never meets a half-written         *)
(* message; while the lock is held, the position of its holder says which     *)
(* byte the log ends with.                                                    *)
EXTENDS Console, Modulo

Masked == Inside \cup {"lock", "restore"}
Panicking == {"begin", "text", "halted"}
IrqSteps == {"idle", "cli", "lock", "recheck", "append", "out", "unlock", "restore",
             "reset", "iret"}

(* Who may hold the lock and where interrupts are off.                        *)
Discipline ==
    /\ pc["fg"] \notin {"reset", "iret"}
    /\ pc["irq"] \in IrqSteps
    /\ irq <=> pc["irq"] # "idle"
    /\ pc["fg"] \in Masked => ~irq /\ ~intr
    /\ pc["irq"] \in Masked => ~flags["irq"]
    /\ \A c \in Contexts : pc[c] \in {"lock", "restore"} => spin_lock_val = 0
    /\ irq /\ spin_lock_val = 1 => pc["irq"] \in Inside
    /\ ~irq /\ spin_lock_val = 1 => pc["fg"] \in Inside \cup Panicking

(* The calls in progress have the sizes their steps rely on.                  *)
Calls ==
    /\ job["irq"].op = "write"
    /\ pc["fg"] = "open" => job["fg"].n <= kernel_log_next
    /\ pc["irq"] \in {"idle", "iret"} => tick_dot < DotEvery
    /\ \A c \in Contexts :
          /\ pc[c] \in {"cli", "lock"} => job[c].op \in {"read", "write"}
          /\ pc[c] \in {"cli", "lock"} /\ job[c].op = "write" => job[c].i = 1 /\ job[c].n >= 1
          /\ pc[c] = "recheck" => job[c].i = 1 /\ job[c].n >= 1
          /\ pc[c] \in {"append", "out"} => job[c].i >= 1 /\ job[c].i <= job[c].n

(* The byte the log ends with.                                                *)
Settled == Len(log) = 0 \/ log[Len(log)].i = log[Len(log)].n
Ending ==
    /\ spin_lock_val = 0 => Settled
    /\ \A c \in Contexts :
          /\ pc[c] \in {"recheck", "copy", "unlock"} => Settled
          /\ pc[c] = "append" => IF job[c].i = 1 THEN Settled
                                 ELSE /\ Len(log) > 0
                                      /\ log[Len(log)] = [Byte(c) EXCEPT !.i = @ - 1]
          /\ pc[c] = "out" => Len(log) > 0 /\ log[Len(log)] = Byte(c)

ConsoleInv == ConsoleTypeOK /\ Discipline /\ Calls /\ Ending /\ MessagesContiguous

USE DEF Contexts, Running, Goto, Job, ringVars, readVars, lockVars, cpuVars

(* Nothing is logged before the machine starts.                               *)
LEMMA ConsoleInit == ASSUME ConsoleAssumption, Init PROVE ConsoleInv
  <1> USE DEF Init
  <1>1. ConsoleTypeOK
    <2>1. RingTypes
      BY DEF ConsoleTypeOK, RingTypes, CallTypes, LogBytes, Blank, Steps, Byte, Calls, ConsoleAssumption
    <2>2. CallTypes
      BY DEF ConsoleTypeOK, RingTypes, CallTypes, CpuTypes, Steps, ConsoleAssumption
    <2>3. CpuTypes
      <3>1. spin_lock_val = 0 /\ panic_console_active = 0 /\ intr = TRUE /\ irq = FALSE /\ tick_dot = 0
        OBVIOUS
      <3> HIDE DEF Init
      <3>2. 0 \in 0..DotEvery
        BY DEF ConsoleAssumption
      <3> QED
        BY <3>1, <3>2 DEF CpuTypes
    <2>4. LockTypes
      BY DEF ConsoleTypeOK, CallTypes, CpuTypes, LockTypes, Steps, Inside, Discipline, Calls, Masked, Panicking, IrqSteps
    <2> QED
      BY <2>1, <2>2, <2>3, <2>4 DEF ConsoleTypeOK
  <1>2. Discipline
    BY DEF ConsoleTypeOK, RingTypes, CallTypes, CpuTypes, LockTypes, Steps, Inside, LogBytes, Blank, Discipline, Calls, Masked, Panicking, IrqSteps
  <1>3. Calls
    BY DEF ConsoleTypeOK, RingTypes, CallTypes, CpuTypes, LockTypes, Steps, Inside, LogBytes, Blank, Discipline, Calls, Masked, Panicking, IrqSteps, ConsoleAssumption
  <1>4. Ending
    BY DEF ConsoleTypeOK, RingTypes, CallTypes, CpuTypes, LockTypes, Steps, Inside, LogBytes, Blank, Discipline, Calls, Ending, Settled, Byte, Masked, Panicking, IrqSteps
  <1>5. MessagesContiguous
    BY DEF ConsoleTypeOK, RingTypes, CallTypes, CpuTypes, LockTypes, Steps, Inside, LogBytes, Blank, MessagesContiguous
  <1> QED
    BY <1>1, <1>2, <1>3, <1>4, <1>5 DEF ConsoleInv

(* A message starts with its first byte.                                      *)
LEMMA WriteStep ==
    ASSUME ConsoleAssumption, ConsoleInv, NEW n \in Sizes, console_write_bytes(n) PROVE ConsoleInv'
  <1> USE DEF ConsoleInv
  <1>1. ConsoleTypeOK'
    <2>1. RingTypes'
      BY DEF console_write_bytes, Called, ConsoleTypeOK, RingTypes, CallTypes, LogBytes, Steps, Byte, Calls, ConsoleAssumption
    <2>2. CallTypes'
      BY DEF console_write_bytes, Called, ConsoleTypeOK, RingTypes, CallTypes, CpuTypes, Steps, ConsoleAssumption
    <2>3. CpuTypes'
      BY DEF console_write_bytes, Called, ConsoleTypeOK, CallTypes, CpuTypes, LockTypes, Calls, Discipline, ConsoleAssumption
    <2>4. LockTypes'
      BY DEF console_write_bytes, Called, ConsoleTypeOK, CallTypes, CpuTypes, LockTypes, Steps, Inside, Discipline, Calls, Masked, Panicking, IrqSteps
    <2> QED
      BY <2>1, <2>2, <2>3, <2>4 DEF ConsoleTypeOK
  <1>2. Discipline'
    BY DEF console_write_bytes, Called, ConsoleTypeOK, RingTypes, CallTypes, CpuTypes, LockTypes, Steps, Inside, LogBytes, Discipline, Calls, Masked, Panicking, IrqSteps
  <1>3. Calls'
    BY DEF console_write_bytes, Called, ConsoleTypeOK, RingTypes, CallTypes, CpuTypes, LockTypes, Steps, Inside, LogBytes, Discipline, Calls, Masked, Panicking, IrqSteps, ConsoleAssumption
  <1>4. Ending'
    BY DEF console_write_bytes, Called, ConsoleTypeOK, RingTypes, CallTypes, CpuTypes, LockTypes, Steps, Inside, LogBytes, Discipline, Calls, Ending, Settled, Byte, Masked, Panicking, IrqSteps
  <1>5. MessagesContiguous'
    BY DEF console_write_bytes, Called, ConsoleTypeOK, RingTypes, CallTypes, CpuTypes, LockTypes, Steps, Inside, LogBytes, MessagesContiguous
  <1> QED
    BY <1>1, <1>2, <1>3, <1>4, <1>5 DEF ConsoleInv

(* A read starts.                                                             *)
LEMMA ReadStep ==
    ASSUME ConsoleAssumption, ConsoleInv, NEW n \in Capacities, kernel_log_read(n) PROVE ConsoleInv'
  <1> USE DEF ConsoleInv
  <1>1. ConsoleTypeOK'
    <2>1. RingTypes'
      BY DEF kernel_log_read, Called, ConsoleTypeOK, RingTypes, CallTypes, LogBytes, Steps, Byte, Calls, ConsoleAssumption
    <2>2. CallTypes'
      BY DEF kernel_log_read, Called, ConsoleTypeOK, RingTypes, CallTypes, CpuTypes, Steps, ConsoleAssumption
    <2>3. CpuTypes'
      BY DEF kernel_log_read, Called, ConsoleTypeOK, CallTypes, CpuTypes, LockTypes, Calls, Discipline, ConsoleAssumption
    <2>4. LockTypes'
      BY DEF kernel_log_read, Called, ConsoleTypeOK, CallTypes, CpuTypes, LockTypes, Steps, Inside, Discipline, Calls, Masked, Panicking, IrqSteps
    <2> QED
      BY <2>1, <2>2, <2>3, <2>4 DEF ConsoleTypeOK
  <1>2. Discipline'
    BY DEF kernel_log_read, Called, ConsoleTypeOK, RingTypes, CallTypes, CpuTypes, LockTypes, Steps, Inside, LogBytes, Discipline, Calls, Masked, Panicking, IrqSteps
  <1>3. Calls'
    BY DEF kernel_log_read, Called, ConsoleTypeOK, RingTypes, CallTypes, CpuTypes, LockTypes, Steps, Inside, LogBytes, Discipline, Calls, Masked, Panicking, IrqSteps, ConsoleAssumption
  <1>4. Ending'
    BY DEF kernel_log_read, Called, ConsoleTypeOK, RingTypes, CallTypes, CpuTypes, LockTypes, Steps, Inside, LogBytes, Discipline, Calls, Ending, Settled, Byte, Masked, Panicking, IrqSteps
  <1>5. MessagesContiguous'
    BY DEF kernel_log_read, Called, ConsoleTypeOK, RingTypes, CallTypes, CpuTypes, LockTypes, Steps, Inside, LogBytes, MessagesContiguous
  <1> QED
    BY <1>1, <1>2, <1>3, <1>4, <1>5 DEF ConsoleInv

(* A cursor at the tail is a position of the log.                             *)
LEMMA TailStep ==
    ASSUME ConsoleAssumption, ConsoleInv, kernel_log_cursor_tail PROVE ConsoleInv'
  <1> USE DEF ConsoleInv
  <1>1. ConsoleTypeOK'
    <2>1. RingTypes'
      BY DEF kernel_log_cursor_tail, Called, ConsoleTypeOK, RingTypes, CallTypes, LogBytes, Steps, Byte, Calls, ConsoleAssumption
    <2>2. CallTypes'
      BY DEF kernel_log_cursor_tail, Called, ConsoleTypeOK, RingTypes, CallTypes, CpuTypes, Steps, ConsoleAssumption
    <2>3. CpuTypes'
      BY DEF kernel_log_cursor_tail, Called, ConsoleTypeOK, CallTypes, CpuTypes, LockTypes, Calls, Discipline, ConsoleAssumption
    <2>4. LockTypes'
      BY DEF kernel_log_cursor_tail, Called, ConsoleTypeOK, CallTypes, CpuTypes, LockTypes, Steps, Inside, Discipline, Calls, Masked, Panicking, IrqSteps
    <2> QED
      BY <2>1, <2>2, <2>3, <2>4 DEF ConsoleTypeOK
  <1>2. Discipline'
    BY DEF kernel_log_cursor_tail, Called, ConsoleTypeOK, RingTypes, CallTypes, CpuTypes, LockTypes, Steps, Inside, LogBytes, Discipline, Calls, Masked, Panicking, IrqSteps
  <1>3. Calls'
    BY DEF kernel_log_cursor_tail, Called, ConsoleTypeOK, RingTypes, CallTypes, CpuTypes, LockTypes, Steps, Inside, LogBytes, Discipline, Calls, Masked, Panicking, IrqSteps, ConsoleAssumption
  <1>4. Ending'
    BY DEF kernel_log_cursor_tail, Called, ConsoleTypeOK, RingTypes, CallTypes, CpuTypes, LockTypes, Steps, Inside, LogBytes, Discipline, Calls, Ending, Settled, Byte, Masked, Panicking, IrqSteps
  <1>5. MessagesContiguous'
    BY DEF kernel_log_cursor_tail, Called, ConsoleTypeOK, RingTypes, CallTypes, CpuTypes, LockTypes, Steps, Inside, LogBytes, MessagesContiguous
  <1> QED
    BY <1>1, <1>2, <1>3, <1>4, <1>5 DEF ConsoleInv

(* The first of the two unlocked reads of kernel_log_next.                    *)
LEMMA OldestStep ==
    ASSUME ConsoleAssumption, ConsoleInv, kernel_log_cursor_oldest PROVE ConsoleInv'
  <1> USE DEF ConsoleInv
  <1>1. ConsoleTypeOK'
    <2>1. RingTypes'
      BY DEF kernel_log_cursor_oldest, Called, ConsoleTypeOK, RingTypes, CallTypes, LogBytes, Steps, Byte, Calls, ConsoleAssumption
    <2>2. CallTypes'
      BY DEF kernel_log_cursor_oldest, Called, ConsoleTypeOK, RingTypes, CallTypes, CpuTypes, Steps, ConsoleAssumption
    <2>3. CpuTypes'
      BY DEF kernel_log_cursor_oldest, Called, ConsoleTypeOK, CallTypes, CpuTypes, LockTypes, Calls, Discipline, ConsoleAssumption
    <2>4. LockTypes'
      BY DEF kernel_log_cursor_oldest, Called, ConsoleTypeOK, CallTypes, CpuTypes, LockTypes, Steps, Inside, Discipline, Calls, Masked, Panicking, IrqSteps
    <2> QED
      BY <2>1, <2>2, <2>3, <2>4 DEF ConsoleTypeOK
  <1>2. Discipline'
    BY DEF kernel_log_cursor_oldest, Called, ConsoleTypeOK, RingTypes, CallTypes, CpuTypes, LockTypes, Steps, Inside, LogBytes, Discipline, Calls, Masked, Panicking, IrqSteps
  <1>3. Calls'
    BY DEF kernel_log_cursor_oldest, Called, ConsoleTypeOK, RingTypes, CallTypes, CpuTypes, LockTypes, Steps, Inside, LogBytes, Discipline, Calls, Masked, Panicking, IrqSteps, ConsoleAssumption
  <1>4. Ending'
    BY DEF kernel_log_cursor_oldest, Called, ConsoleTypeOK, RingTypes, CallTypes, CpuTypes, LockTypes, Steps, Inside, LogBytes, Discipline, Calls, Ending, Settled, Byte, Masked, Panicking, IrqSteps
  <1>5. MessagesContiguous'
    BY DEF kernel_log_cursor_oldest, Called, ConsoleTypeOK, RingTypes, CallTypes, CpuTypes, LockTypes, Steps, Inside, LogBytes, MessagesContiguous
  <1> QED
    BY <1>1, <1>2, <1>3, <1>4, <1>5 DEF ConsoleInv

(* The second read is not smaller than the first, so the cursor is not negative. *)
LEMMA OpenStep ==
    ASSUME ConsoleAssumption, ConsoleInv, OpenOldest PROVE ConsoleInv'
  <1> USE DEF ConsoleInv
  <1>1. ConsoleTypeOK'
    <2>1. RingTypes'
      <3>1. kernel_log_next \in Nat /\ RingSize \in Nat /\ job["fg"].n \in Nat
        BY DEF ConsoleTypeOK, RingTypes, CallTypes, ConsoleAssumption
      <3>2. job["fg"].n > RingSize => kernel_log_next - RingSize \in Nat
        BY <3>1 DEF OpenOldest, Calls
      <3>3. cursor' \in [next : Nat, lost : Nat]
        BY <3>2 DEF OpenOldest
      <3> QED
        BY <3>3 DEF OpenOldest, ConsoleTypeOK, RingTypes
    <2>2. CallTypes'
      BY DEF OpenOldest, ConsoleTypeOK, RingTypes, CallTypes, CpuTypes, Steps, ConsoleAssumption
    <2>3. CpuTypes'
      BY DEF OpenOldest, ConsoleTypeOK, CallTypes, CpuTypes, LockTypes, Calls, Discipline, ConsoleAssumption
    <2>4. LockTypes'
      BY DEF OpenOldest, ConsoleTypeOK, CallTypes, CpuTypes, LockTypes, Steps, Inside, Discipline, Calls, Masked, Panicking, IrqSteps
    <2> QED
      BY <2>1, <2>2, <2>3, <2>4 DEF ConsoleTypeOK
  <1>2. Discipline'
    BY DEF OpenOldest, ConsoleTypeOK, RingTypes, CallTypes, CpuTypes, LockTypes, Steps, Inside, LogBytes, Discipline, Calls, Masked, Panicking, IrqSteps
  <1>3. Calls'
    BY DEF OpenOldest, ConsoleTypeOK, RingTypes, CallTypes, CpuTypes, LockTypes, Steps, Inside, LogBytes, Discipline, Calls, Masked, Panicking, IrqSteps, ConsoleAssumption
  <1>4. Ending'
    BY DEF OpenOldest, ConsoleTypeOK, RingTypes, CallTypes, CpuTypes, LockTypes, Steps, Inside, LogBytes, Discipline, Calls, Ending, Settled, Byte, Masked, Panicking, IrqSteps
  <1>5. MessagesContiguous'
    BY DEF OpenOldest, ConsoleTypeOK, RingTypes, CallTypes, CpuTypes, LockTypes, Steps, Inside, LogBytes, MessagesContiguous
  <1> QED
    BY <1>1, <1>2, <1>3, <1>4, <1>5 DEF ConsoleInv

(* Interrupts go off and the flag that was is kept.                           *)
LEMMA SaveStep ==
    ASSUME ConsoleAssumption, ConsoleInv, NEW c \in Contexts, irq_save_disable(c) PROVE ConsoleInv'
  <1> USE DEF ConsoleInv
  <1>1. ConsoleTypeOK'
    <2>1. RingTypes'
      BY DEF irq_save_disable, ConsoleTypeOK, RingTypes, CallTypes, LogBytes, Steps, Byte, Calls, ConsoleAssumption
    <2>2. CallTypes'
      BY DEF irq_save_disable, ConsoleTypeOK, RingTypes, CallTypes, CpuTypes, Steps, ConsoleAssumption
    <2>3. CpuTypes'
      BY DEF irq_save_disable, ConsoleTypeOK, CallTypes, CpuTypes, LockTypes, Calls, Discipline, ConsoleAssumption
    <2>4. LockTypes'
      BY DEF irq_save_disable, ConsoleTypeOK, CallTypes, CpuTypes, LockTypes, Steps, Inside, Discipline, Calls, Masked, Panicking, IrqSteps
    <2> QED
      BY <2>1, <2>2, <2>3, <2>4 DEF ConsoleTypeOK
  <1>2. Discipline'
    <2>1. CASE c = "fg"
      BY <2>1 DEF irq_save_disable, ConsoleTypeOK, CallTypes, CpuTypes, LockTypes, Steps, Inside,
                  Discipline, Masked, Panicking, IrqSteps
    <2>2. CASE c = "irq"
      <3>1. irq /\ ~intr /\ spin_lock_val = 0
        BY <2>2 DEF irq_save_disable, ConsoleTypeOK, CpuTypes, LockTypes, Discipline, Inside
      <3>2. ~flags'["irq"]
        BY <2>2, <3>1 DEF irq_save_disable, ConsoleTypeOK, CallTypes
      <3> QED
        BY <2>2, <3>1, <3>2 DEF irq_save_disable, ConsoleTypeOK, CallTypes, CpuTypes, Steps,
                  Inside, Discipline, Masked, Panicking, IrqSteps
    <2> QED
      BY <2>1, <2>2
  <1>3. Calls'
    BY DEF irq_save_disable, ConsoleTypeOK, RingTypes, CallTypes, CpuTypes, LockTypes, Steps, Inside, LogBytes, Discipline, Calls, Masked, Panicking, IrqSteps, ConsoleAssumption
  <1>4. Ending'
    BY DEF irq_save_disable, ConsoleTypeOK, RingTypes, CallTypes, CpuTypes, LockTypes, Steps, Inside, LogBytes, Discipline, Calls, Ending, Settled, Byte, Masked, Panicking, IrqSteps
  <1>5. MessagesContiguous'
    BY DEF irq_save_disable, ConsoleTypeOK, RingTypes, CallTypes, CpuTypes, LockTypes, Steps, Inside, LogBytes, MessagesContiguous
  <1> QED
    BY <1>1, <1>2, <1>3, <1>4, <1>5 DEF ConsoleInv

(* The lock is taken with the log settled.                                    *)
LEMMA LockStep ==
    ASSUME ConsoleAssumption, ConsoleInv, NEW c \in Contexts, spin_lock(c) PROVE ConsoleInv'
  <1> USE DEF ConsoleInv
  <1>1. ConsoleTypeOK'
    <2>1. RingTypes'
      BY DEF spin_lock, ConsoleTypeOK, RingTypes, CallTypes, LogBytes, Steps, Byte, Calls, ConsoleAssumption
    <2>2. CallTypes'
      BY DEF spin_lock, ConsoleTypeOK, RingTypes, CallTypes, CpuTypes, Steps, ConsoleAssumption
    <2>3. CpuTypes'
      BY DEF spin_lock, ConsoleTypeOK, CallTypes, CpuTypes, LockTypes, Calls, Discipline, ConsoleAssumption
    <2>4. LockTypes'
      BY DEF spin_lock, ConsoleTypeOK, CallTypes, CpuTypes, LockTypes, Steps, Inside, Discipline, Calls, Masked, Panicking, IrqSteps
    <2> QED
      BY <2>1, <2>2, <2>3, <2>4 DEF ConsoleTypeOK
  <1>2. Discipline'
    BY DEF spin_lock, ConsoleTypeOK, RingTypes, CallTypes, CpuTypes, LockTypes, Steps, Inside, LogBytes, Discipline, Calls, Masked, Panicking, IrqSteps
  <1>3. Calls'
    BY DEF spin_lock, ConsoleTypeOK, RingTypes, CallTypes, CpuTypes, LockTypes, Steps, Inside, LogBytes, Discipline, Calls, Masked, Panicking, IrqSteps, ConsoleAssumption
  <1>4. Ending'
    BY DEF spin_lock, ConsoleTypeOK, RingTypes, CallTypes, CpuTypes, LockTypes, Steps, Inside, LogBytes, Discipline, Calls, Ending, Settled, Byte, Masked, Panicking, IrqSteps
  <1>5. MessagesContiguous'
    BY DEF spin_lock, ConsoleTypeOK, RingTypes, CallTypes, CpuTypes, LockTypes, Steps, Inside, LogBytes, MessagesContiguous
  <1> QED
    BY <1>1, <1>2, <1>3, <1>4, <1>5 DEF ConsoleInv

(* The second test of the panic flag.                                         *)
LEMMA RecheckStep ==
    ASSUME ConsoleAssumption, ConsoleInv, NEW c \in Contexts, Recheck(c) PROVE ConsoleInv'
  <1> USE DEF ConsoleInv
  <1>1. ConsoleTypeOK'
    <2>1. RingTypes'
      BY DEF Recheck, ConsoleTypeOK, RingTypes, CallTypes, LogBytes, Steps, Byte, Calls, ConsoleAssumption
    <2>2. CallTypes'
      BY DEF Recheck, ConsoleTypeOK, RingTypes, CallTypes, CpuTypes, Steps, ConsoleAssumption
    <2>3. CpuTypes'
      BY DEF Recheck, ConsoleTypeOK, CallTypes, CpuTypes, LockTypes, Calls, Discipline, ConsoleAssumption
    <2>4. LockTypes'
      BY DEF Recheck, ConsoleTypeOK, CallTypes, CpuTypes, LockTypes, Steps, Inside, Discipline, Calls, Masked, Panicking, IrqSteps
    <2> QED
      BY <2>1, <2>2, <2>3, <2>4 DEF ConsoleTypeOK
  <1>2. Discipline'
    BY DEF Recheck, ConsoleTypeOK, RingTypes, CallTypes, CpuTypes, LockTypes, Steps, Inside, LogBytes, Discipline, Calls, Masked, Panicking, IrqSteps
  <1>3. Calls'
    BY DEF Recheck, ConsoleTypeOK, RingTypes, CallTypes, CpuTypes, LockTypes, Steps, Inside, LogBytes, Discipline, Calls, Masked, Panicking, IrqSteps, ConsoleAssumption
  <1>4. Ending'
    BY DEF Recheck, ConsoleTypeOK, RingTypes, CallTypes, CpuTypes, LockTypes, Steps, Inside, LogBytes, Discipline, Calls, Ending, Settled, Byte, Masked, Panicking, IrqSteps
  <1>5. MessagesContiguous'
    BY DEF Recheck, ConsoleTypeOK, RingTypes, CallTypes, CpuTypes, LockTypes, Steps, Inside, LogBytes, MessagesContiguous
  <1> QED
    BY <1>1, <1>2, <1>3, <1>4, <1>5 DEF ConsoleInv

(* The last byte out settles the log.                                         *)
LEMMA PutStep ==
    ASSUME ConsoleAssumption, ConsoleInv, NEW c \in Contexts, physical_console_putc(c) PROVE ConsoleInv'
  <1> USE DEF ConsoleInv
  <1>1. ConsoleTypeOK'
    <2>1. RingTypes'
      BY DEF physical_console_putc, ConsoleTypeOK, RingTypes, CallTypes, LogBytes, Steps, Byte, Calls, ConsoleAssumption
    <2>2. CallTypes'
      <3>1. job[c] \in [op : {"write", "read", "open", "panic"}, n : Nat, i : Nat]
        BY DEF ConsoleTypeOK, CallTypes
      <3>2. job[c].i + 1 \in Nat
        BY <3>1
      <3>3. pc' \in [Contexts -> Steps]
        BY DEF physical_console_putc, ConsoleTypeOK, CallTypes, Steps
      <3>4. job' \in [Contexts -> [op : {"write", "read", "open", "panic"}, n : Nat, i : Nat]]
        BY <3>1, <3>2 DEF physical_console_putc, ConsoleTypeOK, CallTypes
      <3> QED
        BY <3>3, <3>4 DEF physical_console_putc, ConsoleTypeOK, CallTypes
    <2>3. CpuTypes'
      BY DEF physical_console_putc, ConsoleTypeOK, CallTypes, CpuTypes, LockTypes, Calls, Discipline, ConsoleAssumption
    <2>4. LockTypes'
      BY DEF physical_console_putc, ConsoleTypeOK, CallTypes, CpuTypes, LockTypes, Steps, Inside, Discipline, Calls, Masked, Panicking, IrqSteps
    <2> QED
      BY <2>1, <2>2, <2>3, <2>4 DEF ConsoleTypeOK
  <1>2. Discipline'
    BY DEF physical_console_putc, ConsoleTypeOK, RingTypes, CallTypes, CpuTypes, LockTypes, Steps, Inside, LogBytes, Discipline, Calls, Masked, Panicking, IrqSteps
  <1>3. Calls'
    <2>1. \A d \in Contexts : d # c => job'[d] = job[d] /\ pc'[d] = pc[d]
      BY DEF physical_console_putc, ConsoleTypeOK, CallTypes
    <2>2. /\ job'[c].n = job[c].n /\ job'[c].op = job[c].op /\ job'[c].i = job[c].i + 1
          /\ job[c].n \in Nat /\ job[c].i \in Nat
      BY DEF physical_console_putc, ConsoleTypeOK, CallTypes
    <2>3. pc'[c] = IF job[c].i < job[c].n THEN "append" ELSE "unlock"
      BY DEF physical_console_putc, ConsoleTypeOK, CallTypes
    <2>4. pc[c] = "out" /\ UNCHANGED <<kernel_log_next, tick_dot>>
      BY DEF physical_console_putc
    <2> QED
      BY <2>1, <2>2, <2>3, <2>4 DEF Calls
  <1>4. Ending'
    <2>1. \A d \in Contexts : d # c => job'[d] = job[d] /\ pc'[d] = pc[d]
      BY DEF physical_console_putc, ConsoleTypeOK, CallTypes
    <2>2. /\ Byte(c)' = [Byte(c) EXCEPT !.i = job[c].i + 1]
          /\ job'[c].i = job[c].i + 1
          /\ job[c].n \in Nat /\ job[c].i \in Nat
      BY DEF physical_console_putc, ConsoleTypeOK, CallTypes, Byte
    <2>3. pc'[c] = IF job[c].i < job[c].n THEN "append" ELSE "unlock"
      BY DEF physical_console_putc, ConsoleTypeOK, CallTypes
    <2>4. /\ pc[c] = "out" /\ UNCHANGED <<log, spin_lock_val>>
          /\ Len(log) > 0 /\ log[Len(log)] = Byte(c)
          /\ 1 <= job[c].i /\ job[c].i <= job[c].n /\ spin_lock_val = 1
      BY DEF physical_console_putc, Ending, Calls, ConsoleTypeOK, LockTypes, Inside
    <2>5. pc'[c] = "append" => job'[c].i # 1 /\ log'[Len(log')] = [Byte(c)' EXCEPT !.i = @ - 1]
      BY <2>2, <2>4 DEF Byte
    <2>6. pc'[c] = "unlock" => Settled'
      BY <2>2, <2>3, <2>4 DEF Settled, Byte
    <2>7. \A d \in Contexts : d # c => Byte(d)' = Byte(d)
      BY <2>1 DEF Byte
    <2>8. Settled' <=> Settled
      BY <2>4 DEF Settled
    <2>9. ASSUME NEW d \in Contexts
          PROVE /\ pc'[d] \in {"recheck", "copy", "unlock"} => Settled'
                /\ pc'[d] = "append" => IF job'[d].i = 1 THEN Settled'
                                        ELSE /\ Len(log') > 0
                                             /\ log'[Len(log')] = [Byte(d)' EXCEPT !.i = @ - 1]
                /\ pc'[d] = "out" => Len(log') > 0 /\ log'[Len(log')] = Byte(d)'
      <3>1. CASE d = c
        BY <3>1, <2>3, <2>4, <2>5, <2>6
      <3>2. CASE d # c
        BY <3>2, <2>1, <2>4, <2>7, <2>8 DEF Ending
      <3> QED
        BY <3>1, <3>2
    <2> QED
      BY <2>4, <2>9 DEF Ending
  <1>5. MessagesContiguous'
    BY DEF physical_console_putc, ConsoleTypeOK, RingTypes, CallTypes, CpuTypes, LockTypes, Steps, Inside, LogBytes, MessagesContiguous
  <1> QED
    BY <1>1, <1>2, <1>3, <1>4, <1>5 DEF ConsoleInv

(* A read changes neither log nor lock.                                       *)
LEMMA CopyStep ==
    ASSUME ConsoleAssumption, ConsoleInv, CopyOut PROVE ConsoleInv'
  <1> USE DEF ConsoleInv
  <1>1. ConsoleTypeOK'
    <2>1. RingTypes'
      <3> DEFINE late  == cursor.next < kernel_log_oldest
                 from  == Least(IF late THEN kernel_log_oldest ELSE cursor.next, kernel_log_next)
                 count == Least(kernel_log_next - from, job["fg"].n)
      <3>1. /\ kernel_log_next \in Nat /\ RingSize \in Nat /\ job["fg"].n \in Nat
            /\ cursor.next \in Nat /\ cursor.lost \in Nat
        BY DEF ConsoleTypeOK, RingTypes, CallTypes, ConsoleAssumption
      <3>2. kernel_log_oldest \in Nat
        BY <3>1 DEF kernel_log_oldest
      <3>3. from \in Nat /\ from <= kernel_log_next
        BY <3>1, <3>2 DEF Least
      <3>4. count \in Nat
        BY <3>1, <3>3 DEF Least
      <3>5. cursor.lost + (IF late THEN kernel_log_oldest - cursor.next ELSE 0) \in Nat
        BY <3>1, <3>2
      <3>6. cursor' = [next |-> from + count,
                       lost |-> cursor.lost + IF late THEN kernel_log_oldest - cursor.next ELSE 0]
        BY DEF CopyOut
      <3> HIDE DEF from, count, late
      <3>7. cursor' \in [next : Nat, lost : Nat]
        BY <3>3, <3>4, <3>5, <3>6
      <3> QED
        BY <3>7 DEF CopyOut, ConsoleTypeOK, RingTypes
    <2>2. CallTypes'
      BY DEF CopyOut, Least, kernel_log_oldest, ConsoleTypeOK, RingTypes, CallTypes, CpuTypes, Steps, ConsoleAssumption
    <2>3. CpuTypes'
      BY DEF CopyOut, Least, kernel_log_oldest, ConsoleTypeOK, CallTypes, CpuTypes, LockTypes, Calls, Discipline, ConsoleAssumption
    <2>4. LockTypes'
      BY DEF CopyOut, Least, kernel_log_oldest, ConsoleTypeOK, CallTypes, CpuTypes, LockTypes, Steps, Inside, Discipline, Calls, Masked, Panicking, IrqSteps
    <2> QED
      BY <2>1, <2>2, <2>3, <2>4 DEF ConsoleTypeOK
  <1>2. Discipline'
    BY DEF CopyOut, Least, kernel_log_oldest, ConsoleTypeOK, RingTypes, CallTypes, CpuTypes, LockTypes, Steps, Inside, LogBytes, Discipline, Calls, Masked, Panicking, IrqSteps
  <1>3. Calls'
    BY DEF CopyOut, Least, kernel_log_oldest, ConsoleTypeOK, RingTypes, CallTypes, CpuTypes, LockTypes, Steps, Inside, LogBytes, Discipline, Calls, Masked, Panicking, IrqSteps, ConsoleAssumption
  <1>4. Ending'
    BY DEF CopyOut, Least, kernel_log_oldest, ConsoleTypeOK, RingTypes, CallTypes, CpuTypes, LockTypes, Steps, Inside, LogBytes, Discipline, Calls, Ending, Settled, Byte, Masked, Panicking, IrqSteps
  <1>5. MessagesContiguous'
    BY DEF CopyOut, Least, kernel_log_oldest, ConsoleTypeOK, RingTypes, CallTypes, CpuTypes, LockTypes, Steps, Inside, LogBytes, MessagesContiguous
  <1> QED
    BY <1>1, <1>2, <1>3, <1>4, <1>5 DEF ConsoleInv

(* The lock is given back with the log settled.                               *)
LEMMA UnlockStep ==
    ASSUME ConsoleAssumption, ConsoleInv, NEW c \in Contexts, spin_unlock(c) PROVE ConsoleInv'
  <1> USE DEF ConsoleInv
  <1>1. ConsoleTypeOK'
    <2>1. RingTypes'
      BY DEF spin_unlock, ConsoleTypeOK, RingTypes, CallTypes, LogBytes, Steps, Byte, Calls, ConsoleAssumption
    <2>2. CallTypes'
      BY DEF spin_unlock, ConsoleTypeOK, RingTypes, CallTypes, CpuTypes, Steps, ConsoleAssumption
    <2>3. CpuTypes'
      BY DEF spin_unlock, ConsoleTypeOK, CallTypes, CpuTypes, LockTypes, Calls, Discipline, ConsoleAssumption
    <2>4. LockTypes'
      BY DEF spin_unlock, ConsoleTypeOK, CallTypes, CpuTypes, LockTypes, Steps, Inside, Discipline, Calls, Masked, Panicking, IrqSteps
    <2> QED
      BY <2>1, <2>2, <2>3, <2>4 DEF ConsoleTypeOK
  <1>2. Discipline'
    BY DEF spin_unlock, ConsoleTypeOK, RingTypes, CallTypes, CpuTypes, LockTypes, Steps, Inside, LogBytes, Discipline, Calls, Masked, Panicking, IrqSteps
  <1>3. Calls'
    BY DEF spin_unlock, ConsoleTypeOK, RingTypes, CallTypes, CpuTypes, LockTypes, Steps, Inside, LogBytes, Discipline, Calls, Masked, Panicking, IrqSteps, ConsoleAssumption
  <1>4. Ending'
    BY DEF spin_unlock, ConsoleTypeOK, RingTypes, CallTypes, CpuTypes, LockTypes, Steps, Inside, LogBytes, Discipline, Calls, Ending, Settled, Byte, Masked, Panicking, IrqSteps
  <1>5. MessagesContiguous'
    BY DEF spin_unlock, ConsoleTypeOK, RingTypes, CallTypes, CpuTypes, LockTypes, Steps, Inside, LogBytes, MessagesContiguous
  <1> QED
    BY <1>1, <1>2, <1>3, <1>4, <1>5 DEF ConsoleInv

(* The handler restores interrupts off, a task what it had.                   *)
LEMMA RestoreStep ==
    ASSUME ConsoleAssumption, ConsoleInv, NEW c \in Contexts, irq_restore(c) PROVE ConsoleInv'
  <1> USE DEF ConsoleInv
  <1>1. ConsoleTypeOK'
    <2>1. RingTypes'
      BY DEF irq_restore, ConsoleTypeOK, RingTypes, CallTypes, LogBytes, Steps, Byte, Calls, ConsoleAssumption
    <2>2. CallTypes'
      BY DEF irq_restore, ConsoleTypeOK, RingTypes, CallTypes, CpuTypes, Steps, ConsoleAssumption
    <2>3. CpuTypes'
      BY DEF irq_restore, ConsoleTypeOK, CallTypes, CpuTypes, LockTypes, Calls, Discipline, ConsoleAssumption
    <2>4. LockTypes'
      BY DEF irq_restore, ConsoleTypeOK, CallTypes, CpuTypes, LockTypes, Steps, Inside, Discipline, Calls, Masked, Panicking, IrqSteps
    <2> QED
      BY <2>1, <2>2, <2>3, <2>4 DEF ConsoleTypeOK
  <1>2. Discipline'
    BY DEF irq_restore, ConsoleTypeOK, RingTypes, CallTypes, CpuTypes, LockTypes, Steps, Inside, LogBytes, Discipline, Calls, Masked, Panicking, IrqSteps
  <1>3. Calls'
    BY DEF irq_restore, ConsoleTypeOK, RingTypes, CallTypes, CpuTypes, LockTypes, Steps, Inside, LogBytes, Discipline, Calls, Masked, Panicking, IrqSteps, ConsoleAssumption
  <1>4. Ending'
    BY DEF irq_restore, ConsoleTypeOK, RingTypes, CallTypes, CpuTypes, LockTypes, Steps, Inside, LogBytes, Discipline, Calls, Ending, Settled, Byte, Masked, Panicking, IrqSteps
  <1>5. MessagesContiguous'
    BY DEF irq_restore, ConsoleTypeOK, RingTypes, CallTypes, CpuTypes, LockTypes, Steps, Inside, LogBytes, MessagesContiguous
  <1> QED
    BY <1>1, <1>2, <1>3, <1>4, <1>5 DEF ConsoleInv

(* The handler starts only with the lock free.                                *)
LEMMA TimerStep ==
    ASSUME ConsoleAssumption, ConsoleInv, timer_handler PROVE ConsoleInv'
  <1> USE DEF ConsoleInv
  <1>1. ConsoleTypeOK'
    <2>1. RingTypes'
      BY DEF timer_handler, Room, ConsoleTypeOK, RingTypes, CallTypes, LogBytes, Steps, Byte, Calls, ConsoleAssumption
    <2>2. CallTypes'
      BY DEF timer_handler, Room, ConsoleTypeOK, RingTypes, CallTypes, CpuTypes, Steps, ConsoleAssumption
    <2>3. CpuTypes'
      <3>1. tick_dot \in 0..DotEvery /\ DotEvery \in Nat \ {0}
        BY DEF ConsoleTypeOK, CpuTypes, ConsoleAssumption
      <3>2. tick_dot' \in 0..DotEvery
        BY <3>1 DEF timer_handler, Discipline, Calls
      <3> QED
        BY <3>2 DEF timer_handler, ConsoleTypeOK, CpuTypes
    <2>4. LockTypes'
      BY DEF timer_handler, Room, ConsoleTypeOK, CallTypes, CpuTypes, LockTypes, Steps, Inside, Discipline, Calls, Masked, Panicking, IrqSteps
    <2> QED
      BY <2>1, <2>2, <2>3, <2>4 DEF ConsoleTypeOK
  <1>2. Discipline'
    BY DEF timer_handler, Room, ConsoleTypeOK, RingTypes, CallTypes, CpuTypes, LockTypes, Steps, Inside, LogBytes, Discipline, Calls, Masked, Panicking, IrqSteps
  <1>3. Calls'
    BY DEF timer_handler, Room, ConsoleTypeOK, RingTypes, CallTypes, CpuTypes, LockTypes, Steps, Inside, LogBytes, Discipline, Calls, Masked, Panicking, IrqSteps, ConsoleAssumption
  <1>4. Ending'
    BY DEF timer_handler, Room, ConsoleTypeOK, RingTypes, CallTypes, CpuTypes, LockTypes, Steps, Inside, LogBytes, Discipline, Calls, Ending, Settled, Byte, Masked, Panicking, IrqSteps
  <1>5. MessagesContiguous'
    BY DEF timer_handler, Room, ConsoleTypeOK, RingTypes, CallTypes, CpuTypes, LockTypes, Steps, Inside, LogBytes, MessagesContiguous
  <1> QED
    BY <1>1, <1>2, <1>3, <1>4, <1>5 DEF ConsoleInv

(* iretq turns interrupts on with the lock free.                              *)
LEMMA ReturnStep ==
    ASSUME ConsoleAssumption, ConsoleInv, TimerReturn PROVE ConsoleInv'
  <1> USE DEF ConsoleInv
  <1>1. ConsoleTypeOK'
    <2>1. RingTypes'
      BY DEF TimerReturn, ConsoleTypeOK, RingTypes, CallTypes, LogBytes, Steps, Byte, Calls, ConsoleAssumption
    <2>2. CallTypes'
      BY DEF TimerReturn, ConsoleTypeOK, RingTypes, CallTypes, CpuTypes, Steps, ConsoleAssumption
    <2>3. CpuTypes'
      <3>1. tick_dot \in 0..DotEvery /\ DotEvery \in Nat \ {0}
        BY DEF ConsoleTypeOK, CpuTypes, ConsoleAssumption
      <3>2. tick_dot' \in 0..DotEvery
        BY <3>1 DEF TimerReturn, Discipline, Calls
      <3> QED
        BY <3>2 DEF TimerReturn, ConsoleTypeOK, CpuTypes
    <2>4. LockTypes'
      BY DEF TimerReturn, ConsoleTypeOK, CallTypes, CpuTypes, LockTypes, Steps, Inside, Discipline, Calls, Masked, Panicking, IrqSteps
    <2> QED
      BY <2>1, <2>2, <2>3, <2>4 DEF ConsoleTypeOK
  <1>2. Discipline'
    BY DEF TimerReturn, ConsoleTypeOK, RingTypes, CallTypes, CpuTypes, LockTypes, Steps, Inside, LogBytes, Discipline, Calls, Masked, Panicking, IrqSteps
  <1>3. Calls'
    BY DEF TimerReturn, ConsoleTypeOK, RingTypes, CallTypes, CpuTypes, LockTypes, Steps, Inside, LogBytes, Discipline, Calls, Masked, Panicking, IrqSteps, ConsoleAssumption
  <1>4. Ending'
    BY DEF TimerReturn, ConsoleTypeOK, RingTypes, CallTypes, CpuTypes, LockTypes, Steps, Inside, LogBytes, Discipline, Calls, Ending, Settled, Byte, Masked, Panicking, IrqSteps
  <1>5. MessagesContiguous'
    BY DEF TimerReturn, ConsoleTypeOK, RingTypes, CallTypes, CpuTypes, LockTypes, Steps, Inside, LogBytes, MessagesContiguous
  <1> QED
    BY <1>1, <1>2, <1>3, <1>4, <1>5 DEF ConsoleInv

(* A fault inside leaves the lock held and interrupts off.                    *)
LEMMA PanicStep ==
    ASSUME ConsoleAssumption, ConsoleInv, kernel_panic \/ exception_handler PROVE ConsoleInv'
  <1> USE DEF ConsoleInv
  <1>1. ConsoleTypeOK'
    <2>1. RingTypes'
      BY DEF kernel_panic, exception_handler, Called, ConsoleTypeOK, RingTypes, CallTypes, LogBytes, Steps, Byte, Calls, ConsoleAssumption
    <2>2. CallTypes'
      BY DEF kernel_panic, exception_handler, Called, ConsoleTypeOK, RingTypes, CallTypes, CpuTypes, Steps, ConsoleAssumption
    <2>3. CpuTypes'
      BY DEF kernel_panic, exception_handler, Called, ConsoleTypeOK, CallTypes, CpuTypes, LockTypes, Calls, Discipline, ConsoleAssumption
    <2>4. LockTypes'
      BY DEF kernel_panic, exception_handler, Called, ConsoleTypeOK, CallTypes, CpuTypes, LockTypes, Steps, Inside, Discipline, Calls, Masked, Panicking, IrqSteps
    <2> QED
      BY <2>1, <2>2, <2>3, <2>4 DEF ConsoleTypeOK
  <1>2. Discipline'
    BY DEF kernel_panic, exception_handler, Called, ConsoleTypeOK, RingTypes, CallTypes, CpuTypes, LockTypes, Steps, Inside, LogBytes, Discipline, Calls, Masked, Panicking, IrqSteps
  <1>3. Calls'
    BY DEF kernel_panic, exception_handler, Called, ConsoleTypeOK, RingTypes, CallTypes, CpuTypes, LockTypes, Steps, Inside, LogBytes, Discipline, Calls, Masked, Panicking, IrqSteps, ConsoleAssumption
  <1>4. Ending'
    BY DEF kernel_panic, exception_handler, Called, ConsoleTypeOK, RingTypes, CallTypes, CpuTypes, LockTypes, Steps, Inside, LogBytes, Discipline, Calls, Ending, Settled, Byte, Masked, Panicking, IrqSteps
  <1>5. MessagesContiguous'
    BY DEF kernel_panic, exception_handler, Called, ConsoleTypeOK, RingTypes, CallTypes, CpuTypes, LockTypes, Steps, Inside, LogBytes, MessagesContiguous
  <1> QED
    BY <1>1, <1>2, <1>3, <1>4, <1>5 DEF ConsoleInv

(* The report starts.                                                         *)
LEMMA BeginStep ==
    ASSUME ConsoleAssumption, ConsoleInv, panic_console_begin PROVE ConsoleInv'
  <1> USE DEF ConsoleInv
  <1>1. ConsoleTypeOK'
    <2>1. RingTypes'
      BY DEF panic_console_begin, ConsoleTypeOK, RingTypes, CallTypes, LogBytes, Steps, Byte, Calls, ConsoleAssumption
    <2>2. CallTypes'
      BY DEF panic_console_begin, ConsoleTypeOK, RingTypes, CallTypes, CpuTypes, Steps, ConsoleAssumption
    <2>3. CpuTypes'
      BY DEF panic_console_begin, ConsoleTypeOK, CallTypes, CpuTypes, LockTypes, Calls, Discipline, ConsoleAssumption
    <2>4. LockTypes'
      BY DEF panic_console_begin, ConsoleTypeOK, CallTypes, CpuTypes, LockTypes, Steps, Inside, Discipline, Calls, Masked, Panicking, IrqSteps
    <2> QED
      BY <2>1, <2>2, <2>3, <2>4 DEF ConsoleTypeOK
  <1>2. Discipline'
    BY DEF panic_console_begin, ConsoleTypeOK, RingTypes, CallTypes, CpuTypes, LockTypes, Steps, Inside, LogBytes, Discipline, Calls, Masked, Panicking, IrqSteps
  <1>3. Calls'
    BY DEF panic_console_begin, ConsoleTypeOK, RingTypes, CallTypes, CpuTypes, LockTypes, Steps, Inside, LogBytes, Discipline, Calls, Masked, Panicking, IrqSteps, ConsoleAssumption
  <1>4. Ending'
    BY DEF panic_console_begin, ConsoleTypeOK, RingTypes, CallTypes, CpuTypes, LockTypes, Steps, Inside, LogBytes, Discipline, Calls, Ending, Settled, Byte, Masked, Panicking, IrqSteps
  <1>5. MessagesContiguous'
    BY DEF panic_console_begin, ConsoleTypeOK, RingTypes, CallTypes, CpuTypes, LockTypes, Steps, Inside, LogBytes, MessagesContiguous
  <1> QED
    BY <1>1, <1>2, <1>3, <1>4, <1>5 DEF ConsoleInv

(* The report goes to the port only.                                          *)
LEMMA ReportStep ==
    ASSUME ConsoleAssumption, ConsoleInv, panic_console_write PROVE ConsoleInv'
  <1> USE DEF ConsoleInv
  <1>1. ConsoleTypeOK'
    <2>1. RingTypes'
      BY DEF panic_console_write, ConsoleTypeOK, RingTypes, CallTypes, LogBytes, Steps, Byte, Calls, ConsoleAssumption
    <2>2. CallTypes'
      <3>1. job["fg"] \in [op : {"write", "read", "open", "panic"}, n : Nat, i : Nat]
        BY DEF ConsoleTypeOK, CallTypes
      <3>2. job["fg"].i + 1 \in Nat
        BY <3>1
      <3> QED
        BY <3>1, <3>2 DEF panic_console_write, ConsoleTypeOK, CallTypes, Steps
    <2>3. CpuTypes'
      BY DEF panic_console_write, ConsoleTypeOK, CallTypes, CpuTypes, LockTypes, Calls, Discipline, ConsoleAssumption
    <2>4. LockTypes'
      BY DEF panic_console_write, ConsoleTypeOK, CallTypes, CpuTypes, LockTypes, Steps, Inside, Discipline, Calls, Masked, Panicking, IrqSteps
    <2> QED
      BY <2>1, <2>2, <2>3, <2>4 DEF ConsoleTypeOK
  <1>2. Discipline'
    BY DEF panic_console_write, ConsoleTypeOK, RingTypes, CallTypes, CpuTypes, LockTypes, Steps, Inside, LogBytes, Discipline, Calls, Masked, Panicking, IrqSteps
  <1>3. Calls'
    BY DEF panic_console_write, ConsoleTypeOK, RingTypes, CallTypes, CpuTypes, LockTypes, Steps, Inside, LogBytes, Discipline, Calls, Masked, Panicking, IrqSteps, ConsoleAssumption
  <1>4. Ending'
    BY DEF panic_console_write, ConsoleTypeOK, RingTypes, CallTypes, CpuTypes, LockTypes, Steps, Inside, LogBytes, Discipline, Calls, Ending, Settled, Byte, Masked, Panicking, IrqSteps
  <1>5. MessagesContiguous'
    BY DEF panic_console_write, ConsoleTypeOK, RingTypes, CallTypes, CpuTypes, LockTypes, Steps, Inside, LogBytes, MessagesContiguous
  <1> QED
    BY <1>1, <1>2, <1>3, <1>4, <1>5 DEF ConsoleInv

(* A byte is appended after the byte it follows: the first byte of a message  *)
(* to a settled log, the others to the one before them.                       *)
LEMMA AppendStep ==
    ASSUME ConsoleAssumption, ConsoleInv, NEW c \in Contexts, kernel_log_append_byte(c)
    PROVE ConsoleInv'
  <1> USE DEF ConsoleInv
  <1>0. /\ pc[c] = "append" /\ pc' = [pc EXCEPT ![c] = "out"] /\ log' = Append(log, Byte(c))
        /\ UNCHANGED <<readVars, lockVars, cpuVars, job, flags, port>>
        /\ Byte(c) \in LogBytes /\ log \in Seq(LogBytes) /\ pc \in [Contexts -> Steps]
    BY DEF kernel_log_append_byte, ConsoleTypeOK, RingTypes, CallTypes, Byte, LogBytes
  <1>a. /\ Len(log') = Len(log) + 1 /\ log'[Len(log) + 1] = Byte(c)
        /\ \A p \in 1..Len(log) : log'[p] = log[p]
        /\ Len(log) \in Nat
    BY <1>0
  <1>b. spin_lock_val = 1 /\ \A d \in Contexts : d # c => pc[d] \notin Inside
    BY <1>0 DEF kernel_log_append_byte, ConsoleTypeOK, LockTypes, Discipline, Inside, Masked
  <1>1. ConsoleTypeOK'
    <2>1. RingTypes'
      BY <1>0, <1>a DEF kernel_log_append_byte, ConsoleTypeOK, RingTypes
    <2>2. CallTypes'
      BY <1>0 DEF ConsoleTypeOK, CallTypes, Steps
    <2>3. CpuTypes'
      BY <1>0 DEF ConsoleTypeOK, CpuTypes
    <2>4. LockTypes'
      BY <1>0 DEF ConsoleTypeOK, LockTypes, Inside
    <2> QED
      BY <2>1, <2>2, <2>3, <2>4 DEF ConsoleTypeOK
  <1>2. Discipline'
    BY <1>0, <1>b DEF ConsoleTypeOK, LockTypes, Discipline, Masked, Inside, IrqSteps, Panicking
  <1>3. Calls'
    <2>1. kernel_log_next \in Nat /\ kernel_log_next' = kernel_log_next + 1 /\ job["fg"].n \in Nat
      BY <1>0, <1>a DEF ConsoleTypeOK, RingTypes, CallTypes, kernel_log_append_byte
    <2> QED
      BY <1>0, <2>1 DEF Calls, Steps
  <1>4. Ending'
    <2>1. \A d \in Contexts : Byte(d)' = Byte(d)
      BY <1>0 DEF Byte
    <2> QED
      BY <1>0, <1>a, <1>b, <2>1 DEF Ending, Inside
  <1>5. MessagesContiguous'
    <2>1. ASSUME Len(log) > 0
          PROVE IF log[Len(log)].i < log[Len(log)].n
                THEN Byte(c) = [log[Len(log)] EXCEPT !.i = @ + 1] ELSE Byte(c).i = 1
      <3>1. log[Len(log)] \in LogBytes /\ job[c].i \in Nat /\ job[c].n \in Nat
        BY <1>0, <2>1 DEF ConsoleTypeOK, CallTypes
      <3>2. job[c].i >= 1 /\ job[c].i <= job[c].n
        BY <1>0 DEF Calls
      <3>3. CASE job[c].i = 1
        BY <1>0, <2>1, <3>1, <3>3 DEF Ending, Settled, Byte, LogBytes
      <3>4. CASE job[c].i # 1
        <4>1. log[Len(log)] = [Byte(c) EXCEPT !.i = @ - 1]
          BY <1>0, <3>4 DEF Ending
        <4>2. log[Len(log)].i = job[c].i - 1 /\ log[Len(log)].n = job[c].n
          BY <4>1, <3>1 DEF Byte
        <4>3. Byte(c) = [log[Len(log)] EXCEPT !.i = @ + 1]
          <5>1. /\ Byte(c) = [who |-> c, n |-> job[c].n, i |-> job[c].i]
                /\ log[Len(log)] = [who |-> c, n |-> job[c].n, i |-> job[c].i - 1]
            BY <4>1 DEF Byte
          <5>2. (job[c].i - 1) + 1 = job[c].i
            BY <3>1
          <5> QED
            BY <5>1, <5>2
        <4> QED
          BY <4>2, <4>3, <3>1, <3>2
      <3> QED
        BY <3>3, <3>4
    <2>2. ASSUME NEW p \in 1..Len(log') - 1
          PROVE IF log'[p].i < log'[p].n THEN log'[p + 1] = [log'[p] EXCEPT !.i = @ + 1]
                                         ELSE log'[p + 1].i = 1
      <3>1. CASE p = Len(log)
        BY <1>a, <2>1, <3>1
      <3>2. CASE p < Len(log)
        BY <1>a, <3>2 DEF MessagesContiguous
      <3> QED
        BY <1>a, <3>1, <3>2
    <2> QED
      BY <2>2 DEF MessagesContiguous
  <1> QED
    BY <1>1, <1>2, <1>3, <1>4, <1>5

(* Every step preserves the invariant.                                        *)
LEMMA ConsoleStep ==
    ASSUME ConsoleAssumption, ConsoleInv, [Next]_vars PROVE ConsoleInv'
  <1>1. CASE UNCHANGED vars
    BY <1>1 DEF vars, ConsoleInv, ConsoleTypeOK, RingTypes, CallTypes, CpuTypes, LockTypes,
                Discipline, Calls, Ending, Settled, Byte, MessagesContiguous
  <1>2. ASSUME NEW c \in Contexts, Section(c) PROVE ConsoleInv'
    BY <1>2, SaveStep, LockStep, RecheckStep, AppendStep, PutStep, UnlockStep, RestoreStep
       DEF Section
  <1>3. CASE FgCall
    BY <1>3, WriteStep, ReadStep, TailStep, OldestStep, PanicStep DEF FgCall
  <1>4. CASE FgStep
    BY <1>2, <1>4, OpenStep, CopyStep, BeginStep, ReportStep DEF FgStep
  <1>5. CASE timer_handler
    BY <1>5, TimerStep
  <1>6. CASE IrqStep
    BY <1>2, <1>6, ReturnStep DEF IrqStep
  <1> QED
    BY <1>1, <1>3, <1>4, <1>5, <1>6 DEF Next

LEMMA ConsoleInvariance == Spec => []ConsoleInv
  <1>1. Init => ConsoleInv
    BY ConsoleInit, ConsoleAssumption
  <1>2. ConsoleInv /\ [Next]_vars => ConsoleInv'
    BY ConsoleStep, ConsoleAssumption
  <1> QED
    BY <1>1, <1>2, PTL DEF Spec

(* Whatever the sizes, the ring and the moments the timer strikes: the ring,  *)
(* the positions of both contexts, the lock and the interrupt flag keep to    *)
(* the values kernel_console.pp gives them.                                   *)
THEOREM ConsoleTyped == Spec => []ConsoleTypeOK
  <1>1. ConsoleInv => ConsoleTypeOK
    BY DEF ConsoleInv
  <1> QED
    BY <1>1, ConsoleInvariance, PTL

(* No message in the log is torn by the handler's or by a panic's, whatever   *)
(* the sizes and the moments the timer strikes.                               *)
THEOREM ConsoleSafe == Spec => []MessagesContiguous
  <1>1. ConsoleInv => MessagesContiguous
    BY DEF ConsoleInv
  <1> QED
    BY <1>1, ConsoleInvariance, PTL

-----------------------------------------------------------------------------
(* What a reader gets.  The slot of byte p of the log is (p - 1) % RingSize;  *)
(* a byte younger than the ring is still in its slot.                         *)
RingHolds ==
    \A p \in 1..Len(log) :
        p > Len(log) - RingSize => kernel_log_ring[(p - 1) % RingSize] = log[p]

CursorInLog == cursor.next <= Len(log)

ReadInv == RingHolds /\ CursorInLog

LEMMA ReadInit == ASSUME ConsoleAssumption, Init PROVE ReadInv
  BY DEF Init, ReadInv, RingHolds, CursorInLog

(* A byte appended takes the slot of the one that becomes a ring old.         *)
LEMMA AppendHolds ==
    ASSUME ConsoleAssumption, ConsoleInv, ReadInv, NEW c \in Contexts, kernel_log_append_byte(c)
    PROVE  ReadInv'
  <1> USE ConsoleAssumption DEF ConsoleAssumption
  <1>1. RingTypes /\ CallTypes
    BY DEF ConsoleInv, ConsoleTypeOK
  <1>2. PICK n \in Nat : n = Len(log) /\ kernel_log_next = n
    BY <1>1 DEF RingTypes
  <1>3. Byte(c) \in LogBytes
    BY <1>1 DEF Byte, LogBytes, CallTypes
  <1>4. PICK b \in LogBytes : b = Byte(c)
    BY <1>3
  <1>5. n % RingSize \in 0..RingSize - 1
    BY RestRange
  <1>6. PICK s \in 0..RingSize - 1 : s = n % RingSize
    BY <1>5
  <1>7. /\ kernel_log_ring' = [kernel_log_ring EXCEPT ![s] = b]
        /\ log' = Append(log, b) /\ UNCHANGED cursor
    BY <1>2, <1>4, <1>6 DEF kernel_log_append_byte
  <1>8. /\ Len(log') = n + 1 /\ log'[n + 1] = b
        /\ \A p \in 1..n : log'[p] = log[p]
    BY <1>1, <1>2, <1>7 DEF RingTypes
  <1>9. CursorInLog'
    BY <1>1, <1>2, <1>7, <1>8 DEF ReadInv, CursorInLog, RingTypes
  <1>10. ASSUME NEW p \in 1..n + 1, p > n + 1 - RingSize
         PROVE  kernel_log_ring'[(p - 1) % RingSize] = log'[p]
    <2>1. PICK m \in Nat : m = p - 1
      OBVIOUS
    <2>2. m % RingSize \in 0..RingSize - 1
      BY RestRange
    <2>3. CASE p = n + 1
      BY <1>1, <1>6, <1>7, <1>8, <2>1, <2>3 DEF RingTypes
    <2>4. CASE p # n + 1
      <3>1. p \in 1..n /\ m <= n /\ m < n /\ n - m < RingSize
        BY <1>10, <2>1, <2>4
      <3>2. n % RingSize # m % RingSize
        <4> SUFFICES ASSUME n % RingSize = m % RingSize PROVE FALSE
          OBVIOUS
        <4>1. n - m >= RingSize
          BY <3>1, SameRemainder
        <4> QED
          BY <3>1, <4>1
      <3>3. kernel_log_ring'[m % RingSize] = kernel_log_ring[m % RingSize]
        BY <1>1, <1>6, <1>7, <2>2, <3>2 DEF RingTypes
      <3>4. p > Len(log) - RingSize /\ p \in 1..Len(log)
        BY <1>2, <1>10, <3>1
      <3>5. kernel_log_ring[(p - 1) % RingSize] = log[p]
        BY <3>4 DEF ReadInv, RingHolds
      <3> QED
        BY <1>8, <2>1, <3>1, <3>3, <3>5
    <2> QED
      BY <2>3, <2>4
  <1>11. RingHolds'
    BY <1>8, <1>10 DEF RingHolds
  <1> QED
    BY <1>9, <1>11 DEF ReadInv

(* The bytes copied are those of the log from where the reader stands, or     *)
(* from the oldest byte the ring still holds.                                 *)
ReadIsExact ==
    LET k == Len(dest')
        skipped == cursor'.lost - cursor.lost
    IN /\ dest' = SubSeq(log, cursor'.next - k + 1, cursor'.next)
       /\ cursor'.next - cursor.next = k + skipped
       /\ skipped > 0 => cursor'.next - k = Len(log) - RingSize
       /\ k < job["fg"].n => cursor'.next = Len(log)

LEMMA CopyReads ==
    ASSUME ConsoleAssumption, ConsoleInv, ReadInv, CopyOut
    PROVE  ReadIsExact /\ cursor'.next <= Len(log)
  <1> USE ConsoleAssumption DEF ConsoleAssumption
  <1>1. RingTypes /\ CallTypes
    BY DEF ConsoleInv, ConsoleTypeOK
  <1>2. PICK L \in Nat : L = Len(log) /\ kernel_log_next = L
    BY <1>1 DEF RingTypes
  <1>3. PICK at \in Nat, before \in Nat, cap \in Nat :
            at = cursor.next /\ before = cursor.lost /\ cap = job["fg"].n
    BY <1>1 DEF RingTypes, CallTypes
  <1>a. kernel_log_oldest \in Nat
    BY <1>2 DEF kernel_log_oldest
  <1>4. PICK oldest \in Nat :
            /\ oldest = kernel_log_oldest
            /\ oldest = IF L > RingSize THEN L - RingSize ELSE 0
    BY <1>2, <1>a DEF kernel_log_oldest
  <1>5. at <= L
    BY <1>2, <1>3 DEF ReadInv, CursorInLog
  <1>6. PICK from \in Nat :
            from = Least(IF at < oldest THEN oldest ELSE at, L)
    BY DEF Least
  <1>7. /\ from <= L /\ from > L - RingSize - 1
        /\ from = IF at < oldest THEN oldest ELSE at
    BY <1>4, <1>5, <1>6 DEF Least
  <1>b. L - from \in Nat
    BY <1>7
  <1>c. Least(L - from, cap) \in Nat
    BY <1>b DEF Least
  <1>8. PICK count \in Nat : count = Least(L - from, cap)
    BY <1>c
  <1>9. /\ dest' = [i \in 1..count |-> kernel_log_ring[(from + i - 1) % RingSize]]
        /\ cursor' = [next |-> from + count,
                      lost |-> before + IF at < oldest THEN oldest - at ELSE 0]
    BY <1>2, <1>3, <1>4, <1>6, <1>8 DEF CopyOut
  <1>10. from + count <= L /\ (count < cap => from + count = L)
    BY <1>7, <1>8 DEF Least
  <1>11. ASSUME NEW i \in 1..count
         PROVE  kernel_log_ring[(from + i - 1) % RingSize] = log[from + i]
    <2>1. PICK p \in 1..Len(log) : p = from + i
      BY <1>2, <1>10
    <2>2. p > Len(log) - RingSize
      BY <1>2, <1>7, <2>1
    <2>3. kernel_log_ring[(p - 1) % RingSize] = log[p]
      BY <2>2 DEF ReadInv, RingHolds
    <2> QED
      BY <2>1, <2>3
  <1>12. Len(dest') = count
    BY <1>9
  <1>13. dest' = SubSeq(log, from + 1, from + count)
    <2>1. dest' = [i \in 1..count |-> log[from + i]]
      BY <1>9, <1>11
    <2>2. SubSeq(log, from + 1, from + count) = [i \in 1..count |-> log[from + i]]
      <3>1. log \in Seq(LogBytes) /\ from + 1 \in Nat /\ from + count \in Nat
        BY <1>1 DEF RingTypes
      <3>2. SubSeq(log, from + 1, from + count) =
                [i \in 1..1 + (from + count) - (from + 1) |-> log[i + (from + 1) - 1]]
        BY <3>1
      <3>3. 1 + (from + count) - (from + 1) = count
        OBVIOUS
      <3>4. \A i \in 1..count : i + (from + 1) - 1 = from + i
        OBVIOUS
      <3> QED
        BY <3>2, <3>3, <3>4
    <2> QED
      BY <2>1, <2>2
  <1>14. cursor'.next = from + count /\ cursor'.next - count = from
    BY <1>9
  <1>15. cursor'.lost - cursor.lost = IF at < oldest THEN oldest - at ELSE 0
    BY <1>3, <1>9
  <1>16. cursor'.next - cursor.next = count + (cursor'.lost - cursor.lost)
    BY <1>3, <1>7, <1>14, <1>15
  <1>17. cursor'.lost - cursor.lost > 0 => cursor'.next - count = Len(log) - RingSize
    BY <1>2, <1>4, <1>7, <1>14, <1>15
  <1>18. cursor'.next - count + 1 = from + 1
    BY <1>14
  <1> QED
    BY <1>2, <1>3, <1>10, <1>12, <1>13, <1>14, <1>16, <1>17, <1>18 DEF ReadIsExact

LEMMA ReaderStep ==
    ASSUME ConsoleAssumption, ConsoleInv, ReadInv, [Next]_vars PROVE ReadInv'
  <1> USE ConsoleAssumption DEF ConsoleAssumption
  <1>1. RingTypes /\ Calls
    BY DEF ConsoleInv, ConsoleTypeOK
  <1>2. UNCHANGED <<ringVars, cursor>> => ReadInv'
    BY DEF ReadInv, RingHolds, CursorInLog
  <1>3. ASSUME NEW c \in Contexts, Section(c) PROVE ReadInv'
    <2>1. CASE kernel_log_append_byte(c)
      BY <2>1, AppendHolds
    <2>2. CASE ~kernel_log_append_byte(c)
      BY <1>2, <1>3, <2>2 DEF Section, irq_save_disable, spin_lock, Recheck,
         physical_console_putc, spin_unlock, irq_restore
    <2> QED
      BY <2>1, <2>2
  <1>4. CASE CopyOut
    <2>1. cursor'.next <= Len(log) /\ UNCHANGED ringVars
      BY <1>4, CopyReads DEF CopyOut
    <2> QED
      BY <2>1 DEF ReadInv, RingHolds, CursorInLog
  <1>5. CASE kernel_log_cursor_tail
    BY <1>1, <1>5 DEF kernel_log_cursor_tail, ReadInv, RingHolds, CursorInLog, RingTypes
  <1>6. CASE OpenOldest
    <2>1. cursor'.next <= kernel_log_next /\ UNCHANGED ringVars
      BY <1>1, <1>6 DEF OpenOldest, RingTypes, Calls
    <2> QED
      BY <1>1, <2>1 DEF ReadInv, RingHolds, CursorInLog, RingTypes
  <1>7. CASE FgCall
    BY <1>2, <1>5, <1>7 DEF FgCall, console_write_bytes, kernel_log_read,
       kernel_log_cursor_oldest, kernel_panic, exception_handler
  <1>8. CASE FgStep
    BY <1>2, <1>3, <1>4, <1>6, <1>8 DEF FgStep, panic_console_begin, panic_console_write
  <1>9. CASE timer_handler \/ IrqStep
    BY <1>2, <1>3, <1>9 DEF timer_handler, IrqStep, TimerReturn
  <1>10. CASE UNCHANGED vars
    BY <1>2, <1>10 DEF vars
  <1> QED
    BY <1>7, <1>8, <1>9, <1>10 DEF Next

(* A step that ends a copy is the copy.                                       *)
LEMMA OnlyCopyEnds ==
    ASSUME ConsoleInv, [Next]_vars, pc["fg"] = "copy", pc'["fg"] = "unlock"
    PROVE  CopyOut
  <1>1. pc \in [Contexts -> Steps] /\ pc'["fg"] # pc["fg"]
    BY DEF ConsoleInv, ConsoleTypeOK, CallTypes
  <1>2. ~Section("fg") /\ ~OpenOldest /\ ~panic_console_begin /\ ~panic_console_write
    BY DEF Section, irq_save_disable, spin_lock, Recheck, kernel_log_append_byte,
       physical_console_putc, spin_unlock, irq_restore, OpenOldest, panic_console_begin,
       panic_console_write
  <1>3. ~(timer_handler \/ IrqStep)
    BY <1>1 DEF timer_handler, IrqStep, TimerReturn, Section, irq_save_disable, spin_lock,
       Recheck, kernel_log_append_byte, physical_console_putc, spin_unlock, irq_restore
  <1>4. ~FgCall
    BY <1>1 DEF FgCall, Called, console_write_bytes, kernel_log_read,
       kernel_log_cursor_tail, kernel_log_cursor_oldest, kernel_panic, exception_handler
  <1> QED
    BY <1>1, <1>2, <1>3, <1>4 DEF Next, FgStep, vars

(* Every read returns the log, exactly: for any ring, any buffers and any     *)
(* number of bytes that pass between two reads.                               *)
THEOREM LogReadExact == Spec => ReadExact
  <1>1. Init => ConsoleInv /\ ReadInv
    BY ConsoleInit, ReadInit, ConsoleAssumption
  <1>2. (ConsoleInv /\ ReadInv) /\ [Next]_vars => (ConsoleInv /\ ReadInv)'
    BY ConsoleStep, ReaderStep, ConsoleAssumption
  <1> DEFINE Exact == pc["fg"] = "copy" /\ pc'["fg"] = "unlock" => ReadIsExact
  <1>3. ConsoleInv /\ ReadInv /\ [Next]_vars => [Exact]_vars
    BY OnlyCopyEnds, CopyReads, ConsoleAssumption
  <1>4. Exact <=> (pc["fg"] = "copy" /\ pc'["fg"] = "unlock" =>
         LET k == Len(dest')
             skipped == cursor'.lost - cursor.lost
         IN /\ dest' = SubSeq(log, cursor'.next - k + 1, cursor'.next)
            /\ cursor'.next - cursor.next = k + skipped
            /\ skipped > 0 => cursor'.next - k = Len(log) - RingSize
            /\ k < job["fg"].n => cursor'.next = Len(log))
    BY DEF ReadIsExact
  <1> QED
    BY <1>1, <1>2, <1>3, <1>4, PTL DEF Spec, ReadExact

-----------------------------------------------------------------------------
(* What the port shows: the log, but for the byte being put out, and then the *)
(* report, whose writer is alone with interrupts off.                         *)
Reporting == pc["fg"] \in {"text", "halted"}
Emitting == \E c \in Contexts : pc[c] = "out"
Copied == IF Emitting THEN Len(log) - 1 ELSE Len(log)

PortBytes == [who : Contexts \cup {"panic"}, n : Nat, i : Nat]

MirrorInv ==
    /\ port \in Seq(PortBytes)
    /\ Emitting => Len(log) > 0
    /\ Reporting => ~irq /\ ~intr
    /\ Copied <= Len(port) /\ (~Reporting => Copied = Len(port))
    /\ \A i \in 1..Copied : port[i] = log[i]
    /\ \A i \in Copied + 1..Len(port) : port[i].who = "panic"

LEMMA MirrorInit == ASSUME Init PROVE MirrorInv
  <1>1. port = << >> /\ log = << >> /\ ~Emitting /\ ~Reporting
    BY DEF Init, Emitting, Reporting
  <1>2. Len(port) = 0 /\ Copied = 0 /\ port \in Seq(PortBytes)
    BY <1>1 DEF Copied
  <1> QED
    BY <1>1, <1>2 DEF MirrorInv

(* Only one context is between lock and unlock, and none during a report.     *)
LEMMA OneInside ==
    ASSUME ConsoleInv, MirrorInv, NEW c \in Contexts, Running(c), pc[c] \in Inside
    PROVE  ~Reporting /\ \A d \in Contexts : pc[d] = "out" => d = c
  BY DEF ConsoleInv, Discipline, MirrorInv, Reporting, Masked, Inside

(* A step that puts out and logs nothing.                                     *)
LEMMA NothingShown ==
    ASSUME MirrorInv, UNCHANGED <<port, log>>, Emitting' <=> Emitting,
           Reporting => Reporting', Reporting' => ~irq' /\ ~intr'
    PROVE  MirrorInv'
  <1>1. Copied' = Copied
    BY DEF Copied
  <1> QED
    BY <1>1 DEF MirrorInv

(* The byte logged is the one about to be put out.                            *)
LEMMA LogFirst ==
    ASSUME ConsoleInv, MirrorInv, NEW c \in Contexts, kernel_log_append_byte(c)
    PROVE  MirrorInv'
  <1>1. Running(c) /\ pc[c] = "append" /\ pc \in [Contexts -> Steps]
    BY DEF kernel_log_append_byte, ConsoleInv, ConsoleTypeOK, CallTypes
  <1>2. ~Reporting /\ ~Emitting
    BY <1>1, OneInside DEF Inside, Emitting
  <1>3. pc' = [pc EXCEPT ![c] = "out"] /\ port' = port
    BY DEF kernel_log_append_byte
  <1>4. Emitting' /\ ~Reporting'
    BY <1>1, <1>2, <1>3 DEF Emitting, Reporting
  <1>5. log \in Seq(LogBytes) /\ Byte(c) \in LogBytes
    BY DEF ConsoleInv, ConsoleTypeOK, RingTypes, CallTypes, Byte, LogBytes
  <1>6. PICK b \in LogBytes : b = Byte(c)
    BY <1>5
  <1>7. log' = Append(log, b)
    BY <1>6 DEF kernel_log_append_byte
  <1>8. PICK n \in Nat : n = Len(log)
    BY <1>5
  <1>9. Len(log') = n + 1 /\ \A i \in 1..n : log'[i] = log[i]
    BY <1>5, <1>7, <1>8
  <1>10. Copied = n /\ Copied' = n
    BY <1>2, <1>4, <1>8, <1>9 DEF Copied
  <1>11. Len(port) = n /\ port \in Seq(PortBytes) /\ \A i \in 1..n : port[i] = log[i]
    BY <1>2, <1>10 DEF MirrorInv
  <1> QED
    BY <1>3, <1>4, <1>9, <1>10, <1>11 DEF MirrorInv

(* The byte put out is the last one logged.                                   *)
LEMMA PortFollows ==
    ASSUME ConsoleInv, MirrorInv, NEW c \in Contexts, physical_console_putc(c)
    PROVE  MirrorInv'
  <1>1. Running(c) /\ pc[c] = "out" /\ pc \in [Contexts -> Steps]
    BY DEF physical_console_putc, ConsoleInv, ConsoleTypeOK, CallTypes
  <1>2. ~Reporting /\ Emitting /\ \A d \in Contexts : pc[d] = "out" => d = c
    BY <1>1, OneInside DEF Inside, Emitting
  <1>3. PICK l \in {"append", "unlock"} : pc' = [pc EXCEPT ![c] = l]
    BY DEF physical_console_putc
  <1>4. ~Emitting' /\ ~Reporting'
    BY <1>1, <1>2, <1>3 DEF Emitting, Reporting
  <1>5. log \in Seq(LogBytes) /\ Byte(c) \in PortBytes /\ log' = log
    BY DEF ConsoleInv, ConsoleTypeOK, RingTypes, CallTypes, Byte, PortBytes,
       physical_console_putc
  <1>6. PICK b \in PortBytes : b = Byte(c)
    BY <1>5
  <1>7. port' = Append(port, b)
    BY <1>6 DEF physical_console_putc
  <1>8. PICK n \in Nat : n + 1 = Len(log) /\ log[n + 1] = b
    <2>1. Len(log) \in Nat /\ Len(log) > 0 /\ log[Len(log)] = Byte(c)
      BY <1>1, <1>5 DEF ConsoleInv, Ending
    <2>2. Len(log) - 1 \in Nat /\ (Len(log) - 1) + 1 = Len(log)
      BY <2>1
    <2> QED
      BY <1>6, <2>1, <2>2
  <1>9. Copied = n /\ Copied' = n + 1
    BY <1>2, <1>4, <1>5, <1>8 DEF Copied
  <1>10. Len(port) = n /\ port \in Seq(PortBytes) /\ \A i \in 1..n : port[i] = log[i]
    BY <1>2, <1>9 DEF MirrorInv
  <1>11. /\ port' \in Seq(PortBytes) /\ Len(port') = n + 1 /\ port'[n + 1] = b
         /\ \A i \in 1..n : port'[i] = port[i]
    BY <1>7, <1>10
  <1>12. \A i \in 1..n + 1 : port'[i] = log'[i]
    BY <1>5, <1>8, <1>10, <1>11
  <1> QED
    BY <1>4, <1>9, <1>11, <1>12 DEF MirrorInv

(* The report goes behind everything else.                                    *)
LEMMA ReportLast ==
    ASSUME ConsoleInv, MirrorInv, panic_console_write
    PROVE  MirrorInv'
  <1>1. pc["fg"] = "text" /\ pc \in [Contexts -> Steps] /\ Reporting
    BY DEF panic_console_write, ConsoleInv, ConsoleTypeOK, CallTypes, Reporting
  <1>2. PICK l \in {"text", "halted"} : pc' = [pc EXCEPT !["fg"] = l]
    BY DEF panic_console_write
  <1>3. Reporting' /\ (Emitting' <=> Emitting)
    BY <1>1, <1>2 DEF Emitting, Reporting
  <1>4. UNCHANGED <<log, irq, intr>>
    BY DEF panic_console_write
  <1>5. [Byte("fg") EXCEPT !.who = "panic"] \in PortBytes
    BY DEF ConsoleInv, ConsoleTypeOK, CallTypes, Byte, PortBytes
  <1>6. PICK b \in PortBytes : b = [Byte("fg") EXCEPT !.who = "panic"]
    BY <1>5
  <1>7. b.who = "panic" /\ port' = Append(port, b)
    BY <1>6 DEF panic_console_write, Byte
  <1>8. PICK n \in Nat : n = Len(port) /\ port \in Seq(PortBytes)
    BY DEF MirrorInv
  <1>9. /\ port' \in Seq(PortBytes) /\ Len(port') = n + 1 /\ port'[n + 1].who = "panic"
        /\ \A i \in 1..n : port'[i] = port[i]
    BY <1>7, <1>8
  <1>10. Len(log) \in Nat
    BY DEF ConsoleInv, ConsoleTypeOK, RingTypes
  <1>a. Copied \in Nat
    BY <1>10 DEF Copied, MirrorInv
  <1>b. Copied' = Copied
    BY <1>3, <1>4 DEF Copied
  <1>c. Copied <= n
    BY <1>8 DEF MirrorInv
  <1>11. PICK k \in Nat : k = Copied /\ k = Copied' /\ k <= n
    BY <1>a, <1>b, <1>c
  <1>12. /\ \A i \in 1..k : port[i] = log[i]
         /\ \A i \in k + 1..n : port[i].who = "panic"
    BY <1>8, <1>11 DEF MirrorInv
  <1>13. \A i \in 1..k : port'[i] = log'[i]
    BY <1>4, <1>9, <1>11, <1>12
  <1>14. \A i \in k + 1..n + 1 : port'[i].who = "panic"
    <2> SUFFICES ASSUME NEW i \in k + 1..n + 1 PROVE port'[i].who = "panic"
      OBVIOUS
    <2>1. CASE i = n + 1
      BY <1>9, <2>1
    <2>2. CASE i # n + 1
      <3>a. i \in Int /\ k + 1 <= i /\ i <= n + 1
        OBVIOUS
      <3>b. 1 <= i /\ i <= n
        BY <2>2, <3>a
      <3>1. i \in 1..n /\ i \in k + 1..n
        BY <3>a, <3>b
      <3>2. port'[i] = port[i] /\ port[i].who = "panic"
        BY <1>9, <1>12, <3>1
      <3> QED
        BY <3>2
    <2> QED
      BY <2>1, <2>2
  <1>15. Emitting' => Len(log') > 0
    BY <1>3, <1>4 DEF MirrorInv
  <1>16. Reporting' => ~irq' /\ ~intr'
    BY <1>1, <1>4 DEF MirrorInv
  <1>17. Copied' <= Len(port')
    BY <1>9, <1>11
  <1>18. /\ \A i \in 1..Copied' : port'[i] = log'[i]
         /\ \A i \in Copied' + 1..Len(port') : port'[i].who = "panic"
    BY <1>9, <1>11, <1>13, <1>14
  <1> QED
    BY <1>3, <1>9, <1>15, <1>16, <1>17, <1>18 DEF MirrorInv

LEMMA MirrorStep ==
    ASSUME ConsoleInv, MirrorInv, [Next]_vars PROVE MirrorInv'
  <1>1. /\ pc \in [Contexts -> Steps] /\ (Reporting => ~irq /\ ~intr)
        /\ (irq <=> pc["irq"] # "idle")
    BY DEF ConsoleInv, ConsoleTypeOK, CallTypes, MirrorInv, Discipline
  <1>2. ASSUME NEW c \in Contexts, Section(c) PROVE MirrorInv'
    <2>1. CASE kernel_log_append_byte(c) \/ physical_console_putc(c)
      BY <2>1, LogFirst, PortFollows
    <2>2. CASE ~(kernel_log_append_byte(c) \/ physical_console_putc(c))
      <3>1. /\ Running(c) /\ pc[c] \in {"cli", "lock", "recheck", "unlock", "restore"}
            /\ UNCHANGED <<port, log>>
            /\ \E l \in Steps \ {"out", "text", "halted"} : pc' = [pc EXCEPT ![c] = l]
        BY <1>2, <2>2 DEF Section, irq_save_disable, spin_lock, Recheck, spin_unlock,
           irq_restore, Steps
      <3>2. (Emitting' <=> Emitting) /\ ~Reporting /\ ~Reporting'
        BY <1>1, <3>1 DEF Emitting, Reporting
      <3> QED
        BY <3>1, <3>2, NothingShown
    <2> QED
      BY <2>1, <2>2
  <1>3. CASE FgCall \/ OpenOldest \/ CopyOut
    <2>1. /\ pc["fg"] \in {"idle", "append", "copy", "open"} /\ UNCHANGED <<port, log>>
          /\ pc' = pc \/ \E l \in Steps \ {"out", "text", "halted"} : pc' = [pc EXCEPT !["fg"] = l]
      BY <1>3 DEF FgCall, Called, console_write_bytes, kernel_log_read, kernel_log_cursor_tail,
         kernel_log_cursor_oldest, kernel_panic, exception_handler, OpenOldest, CopyOut, Steps
    <2>2. (Emitting' <=> Emitting) /\ ~Reporting /\ ~Reporting'
      BY <1>1, <2>1 DEF Emitting, Reporting
    <2> QED
      BY <2>1, <2>2, NothingShown
  <1>4. CASE panic_console_begin
    <2>1. /\ ~irq /\ pc["fg"] = "begin" /\ UNCHANGED <<port, log, irq>> /\ ~intr'
          /\ pc' = [pc EXCEPT !["fg"] = "text"]
      BY <1>4 DEF panic_console_begin
    <2>2. (Emitting' <=> Emitting) /\ Reporting'
      BY <1>1, <2>1 DEF Emitting, Reporting
    <2> QED
      BY <2>1, <2>2, NothingShown
  <1>5. CASE panic_console_write
    BY <1>5, ReportLast
  <1>6. CASE timer_handler \/ TimerReturn
    <2>1. /\ pc["irq"] \in {"idle", "reset", "iret"} /\ UNCHANGED <<port, log>>
          /\ \E l \in Steps \ {"out"} : pc' = [pc EXCEPT !["irq"] = l]
          /\ intr \/ irq
      BY <1>1, <1>6 DEF timer_handler, TimerReturn, Steps
    <2>2. (Emitting' <=> Emitting) /\ ~Reporting /\ ~Reporting'
      BY <1>1, <2>1 DEF Emitting, Reporting
    <2> QED
      BY <2>1, <2>2, NothingShown
  <1>7. CASE UNCHANGED vars
    BY <1>7, NothingShown DEF vars, Emitting, Reporting, MirrorInv
  <1> QED
    BY <1>2, <1>3, <1>4, <1>5, <1>6, <1>7 DEF Next, FgStep, IrqStep

(* The port never shows a byte the log lacks, out of order, or inside or      *)
(* after a panic's report.                                                    *)
THEOREM LogMirrored == Spec => []MirrorsLog
  <1>1. ConsoleInv /\ MirrorInv => MirrorsLog
    <2> SUFFICES ASSUME ConsoleInv, MirrorInv PROVE MirrorsLog
      OBVIOUS
    <2>1. Len(log) \in Nat
      BY DEF ConsoleInv, ConsoleTypeOK, RingTypes
    <2>2. Copied \in {Len(log) - 1, Len(log)} /\ (Copied < Len(log) => Emitting)
      BY <2>1 DEF Copied
    <2>3. /\ Copied <= Len(port) /\ \A i \in 1..Copied : port[i] = log[i]
          /\ \A i \in Copied + 1..Len(port) : port[i].who = "panic"
      BY DEF MirrorInv
    <2> QED
      BY <2>2, <2>3 DEF MirrorsLog, Emitting
  <1>2. Init => ConsoleInv /\ MirrorInv
    BY ConsoleInit, MirrorInit, ConsoleAssumption
  <1>3. (ConsoleInv /\ MirrorInv) /\ [Next]_vars => (ConsoleInv /\ MirrorInv)'
    BY ConsoleStep, MirrorStep, ConsoleAssumption
  <1> QED
    BY <1>1, <1>2, <1>3, PTL DEF Spec
=============================================================================
