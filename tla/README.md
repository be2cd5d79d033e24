# TLA+ models of ppos and ppdb

pp-labs is a language (pplc), a small operating system kernel written in it
(ppos) and a database written in it (ppdb).  This directory holds
specifications of the parts of ppos and ppdb whose correctness depends on the
order of steps: scheduling, waiting, interrupts, allocation, the TCP client on a
lossy network, and the relation between what a database stores and what it
derives.  TLC checks them on small
instances (`*.cfg`), TLAPS proves the theorems of the `*Proofs` modules for all
values of the constants.

## 1. Inventory

### ppos (src/ppos)

One CPU, no memory protection, no preemption: tasks are coroutines that switch
in `task_yield`; the timer (PIT, 10 ms) and the keyboard interrupt them between
any two instructions.

| component | state | operations | talks to | must be right |
|---|---|---|---|---|
| task table, `kernel_task.pp` | `task_table[8]`, `task_current`, saved contexts, stacks | create, yield, wait, wake_event, exit, reap; timer tick | heap (stacks), timer (deadlines) | only runnable tasks run; a dead task is never resumed; stacks belong to one live slot; waits end for their own reason; nobody starves |
| apps, `app.pp`, `kernel.pp` | `app_state`, `app_args`, contexts, one static record per app | start, run, wait/reap, entry returns; boot and supervision by kmain | tasks, shell | app state agrees with its task; exit codes are the right app's; nothing leaks; commands return |
| heap, `kernel_memory.pp` | block headers in memory, free list, bump pointer | kmalloc, kfree | tasks, net, libos | blocks tile the heap, kfree accepts exactly what is held, payloads are not touched |
| console, `kernel_console.pp` | log ring, spin lock, VGA, panic flag | write, log cursor, panic | every component, timer handler | messages not torn, readers account for lost bytes, no self-deadlock, panics reported |
| interrupts, `kernel_irq.pp` | keyboard ring, tick counters | timer, keyboard, exceptions, input_read | tasks, console, shell | keys in order |
| shell, `kernel_shell.pp` | line buffer and length, fixed argument buffers | edit a line, run a command, run a script | apps, fs, libos, network | what runs is what was typed |
| RAM fs, `fs.pp` | names, offset and size of each file, one bump area | create, write, append, read, remove | shell, libos, ppdb | a file's bytes are its own |
| TCP client, `boot/uip_glue.c`, `boot/uip/uip.c`, `uip_arp.c` (adapted uIP 1.0) | `uip_conns`, one receive ring, one buffer to send and one set of flags for all connections, ARP table | connect, send, receive, poll (one frame, then once a second the timer of every connection, every ten the ARP timer) | network card, shell, TLS | bytes arrive once and in order, or the loss is reported; nothing is waited for without end; a command gets its own answer |
| network card, DNS, HTTP, `net.pp` | e1000 rings, request buffers | send and receive frames, resolve, fetch | TCP client | frames whole, bounded waits |
| C library, `boot/libc.c` | - | memcpy, memmove, memset, memcmp, strlen | the C code | copies exact also when they overlap |
| TLS, `tls.pp`, `boot/tls_glue.c` | one static session | begin, handshake, io, end | BearSSL (vendored), network | one session at a time, errors leave it usable |
| libos, `libos.pp` | bounded writers, file handles | bounded writes, file calls | apps, fs | never past the capacity, failure is sticky |
| json, mcp, agent | request buffers, tool loop | parse, call a tool, answer | TLS, db service | one answer per call, bounded |
| wasm, `wasm.pp` | operand and control stacks, memory | interpret a module | shell | stays inside its stacks and memory |
| db service, `db_service.pp` | statement buffers | run SQL for an app, format the reply | ppdb, fs | the reply tells what happened |
| browser | none beyond a request | fetch, lay out | network | - |

### ppdb (src/ppdb)

| component | state | operations | must be right |
|---|---|---|---|
| relational store, `db_core.pp`, `db_sql_exec.pp`, `host_native.pp` | 128 slotted pages, free list, catalogue, row addresses, indexes | CREATE, DROP, INSERT, UPDATE, DELETE, CREATE INDEX, SELECT | no page lost or shared, addresses current, indexes exact, plans agree, SQL's meaning |
| key-value, documents | sorted array of 64, array of 16 | get, put, del | sorted, found, full is refused |
| transactions, `db_tx.pp` | before-image of everything | BEGIN, COMMIT, ROLLBACK | rollback restores all three stores and what is derived |
| persistence, `db_persist.pp`, `host_file_*.pp` | an image file | save, validate, load | what is loaded is what was saved; bad images are refused |
| parser, CLI | statement fields, line | parse, dispatch | - |

### pplc and stdlib

The compiler (lexer, parser, sema, mono, codegen: 6.5k lines of Rust) is a
sequence of pure passes; the standard library has growing vectors, a string
map with open addressing, buffers and a bump allocator.

### What is hard

Interleaving with interrupts (console, keyboard), cooperative scheduling with
exits and reaps (tasks, apps), resource limits (slots, rings, pages, row
numbers), derived data that has to follow (row addresses, indexes, renumbered
tables), undo and reload, 32-bit arithmetic, a network that loses data.
`PROJECT.json` lists these as hazards at their lines.

## 2. Modules

```
Tasks <-- Apps <-- AppsProofs (Apps ==> Tasks)   Allocator <== Heap <-- HeapProofs
Console <-- ConsoleProofs --> Modulo             Relations <== Db <-- Session
Input <-- InputProofs --> Modulo                 Session, Db <-- DbProofs <-- SessionProofs
Fs                                               Database <== Session
RxRing <-- UipGlue <-- Tcp ==> Stream            UipMath   Libc
       Arp <--'         |                        (pure, compared in MCTcp)
                    TcpProofs --> Modulo
```

`<==` and `==>` are refinements checked by TLC (all but those of Db and Session also
proved), `X <-- Y`: Y extends X.  Each `MCx` gives
x the definitions its configuration needs.

* **Tasks** - one action per operation of `kernel_task.pp`.  `pc` says where a
  task's saved context stands: inside `task_wait` before or after its yield, in
  the trampoline after its exit, or in its own code.  The running task may call
  any operation with any argument; `Tick` is the timer.  `kmalloc` and `kfree`
  of stacks appear as the set `live`.
* **Apps** - the image that really boots: kmain creates the heartbeat and the
  shell, then supervises; the shell runs apps through `app_cmd_run`.  Every
  action is made of Tasks' operations, so `ImplementsTasks` is Tasks' own
  specification.
* **Allocator / Heap** - Allocator: a set of disjoint blocks with contents.
  Heap: headers, list and payload as words of memory at addresses, first fit,
  splitting, bump allocation, validation, poison and merges.
* **Console** - `console_write_bytes`, `kernel_log_read`, the timer handler and
  panics as instruction-sized steps of two contexts on one CPU.  `log` and
  `port` are histories of bytes appended and sent.
* **Input** - the keyboard ring between the handler and `input_read`, and the
  shell's line editor over its C-string buffer.  `screen` is what the user sees.
* **Fs** - the slots and the pool of `fs.pp`; a command of the shell, or a save
  of ppdb, with the calls it makes is one action.
* **Relations / Db** - Relations: tables as sequences of rows.  Db: slotted
  pages, chains, free list, row addresses, heap-sorted indexes, scans that
  delete while compacting.  One statement is one action, as one statement runs
  at a time.
* **Database / Session** - Database: tables, pairs and documents with undo and
  a file, as one state.  Session: Db's statements, the sorted key-value array,
  documents, BEGIN/COMMIT/ROLLBACK by before-image, save/load by image,
  restarts.  The image of an older version has rows without identities.

* **RxRing, Arp, UipMath, Libc** - data structures and arithmetic as operators:
  the receive ring with its two-piece memcpy; the ARP table with its search for
  a victim and an age counted in a wrapping byte; 32-bit additions on four
  bytes, the Internet checksum and the shortcut for ping answers; the copies of
  `libc.c` byte by byte.  The ring is proved to be a queue (`PutAppends`,
  `TakeRemoves`); MCTcp compares the others, by ASSUMEs, with what they are to
  compute, over every ARP table of 3 entries, every number of four digits of base
  9 and every memory of 5 cells.
* **UipGlue** - the client: a slot of `uip_conns` is a state with its numbers,
  timer and retransmission count.  `uip_glue_poll` is cut at its own seams: one
  frame (`RecvSegment`, `RecvArp...`), then one timer step per slot (`Tick`).
  `uip_appcall` (AppCall) is part of the step of uip that calls it.  Errors of
  the card are a step of their own (`CardFails`).  `asked`, `fed` and `fedNow`
  are histories.
* **Tcp** - UipGlue with a command that connects, sends, reads and may give up
  at any time (`http_get_host`), a server that answers once it
  has read `AnswerAfter` bytes, may send any unacknowledged part of its answer at
  any time and may die, a gateway that may ask for or answer
  ARP, and a network: a frame may be lost (it is never put under way), seen
  again or overtaken.
* **Stream** - what a connection is to promise: two sequences of bytes of which
  each end is given a prefix, once and in order, and nothing after its end.

A definition `X_Something` that precedes `X` is a mutated `X` (a plausible bug);
it is used by no specification.  Replacing `X` by it must make TLC refute the
property that `PROJECT.json` names: this shows that the property can fail.

## 3. Runs

| run | states | shows | bounds |
|---|---|---|---|
| tasks | 46k | scheduling, waiting, exit and reaping (`TaskInv` includes TypeOK, OnlyRunnableRuns and StackOwnership); the round robin starves nobody; timed waits return | 4 slots: bootstrap and three others make every wrap-around and a full table; 3 stacks so that a slot can be refused; ticks 0..2 with timeouts up to 2, so deadlines fall before, at and after the bound |
| apps | 59k | apps and tasks agree, exit codes, argument lifetime, no leak, commands return, refinement of Tasks | heartbeat, shell and 2 apps on 5 slots, 3 stacks; the shell runs one app at a time, so more apps add only names |
| heap | 27k | tiling, exactness of kfree, payloads, refinement of Allocator | 14 granules: up to four smallest blocks, so a block has free neighbours on both sides; sizes include -1, 0, one that leaves a rest too small to split |
| console | 300k | messages whole, mirror, reads exact, no self-deadlock, panic reported | ring of 3 and 5 bytes logged, so the ring wraps and readers are overtaken; messages of 1 and 2 bytes; a dot every 2 ticks |
| input | 72k | every key loaded is younger than the last, line equals screen | ring of 3 and 7 keys: the ring overflows twice |
| input_edit | violated | the command that runs is not the line shown after a backspace | 5 keys |
| fs | violated | overwriting a file changes the one after it | 3 slots, a pool of 12 bytes, texts shorter, as long and longer than the old |
| db | 32k | pages, rows, indexes, plans, refinement of Relations | 2 tables, 3 names, 4 pages of two (or one) rows, 3 row identities, 2 indexes: every limit is reached |
| db_wide | violated | comparison by wrapping subtraction depends on the plan | extreme INTs of an 8-bit range |
| session | 199k | rollback and load restore everything and rebuild what is derived | one table, one page of two rows, 2 keys, one document, one index; at most `MaxFacts` = 3 rows, pairs, documents and indexes at once, so any three of them together |
| tcp | 518k | types; the ring is a queue; both ends count alike; losses and ends are reported; refinement of Stream; nothing outstanding is waited for without end while a command polls | one connection in one slot, 2 frames under way (so one overtakes or repeats another), a ring of two, segments of one or two bytes and an answer of three: two bytes are in the ring in order, a copy of two goes in two pieces around its end, a segment of two overflows a ring with room for one; a request of two bytes sent one by one (so an old acknowledgement meets an outstanding byte), which the server reads before it answers (`AnswerAfter`), one retransmission; one retransmission; an ARP entry may expire at any ARP timer |
| tcp_shared | violated | a command gets the answer to an earlier one | two slots, two connections, 1 frame under way |

Deadlock is checked except where the system stops: in Console a panic halts
for good and `MaxBytes` ends logging, in Input the number of keys is bounded.
In Tcp the loop over the slots reads no frame, so the gateway, the server and the
network act only between two polls (`Outside`): what they do during a loop
could as well be done after it.

### Fairness

* Tasks: weak fairness of the yields, of the steps inside `task_wait` and
  `task_exit`, and of the timer.  This is the cooperative contract: the loops of
  heartbeat, shell, `app_wait_index` and kmain all yield in every round
  (`kernel_shell.pp:564-577, 642-670`, `app.pp:160-182`, `kernel.pp:134-137`).
  Creations, wake-ups and reaps are assumed of nobody.
* Apps: the same for each task's own step, and strong fairness of an app's
  return: an entry function may yield any number of times but returns in the end.
* Console: weak fairness of the handler's steps, strong fairness of the task
  code's: it is disabled while a handler runs, and ticks are 10 ms apart.
* Tcp: weak fairness of the timer step while a command is at work.  Every wait
  of a command is a loop around `uip_glue_poll` (`net.pp:620-689`), which looks
  at the clock in each round.  The loops are bounded (3000 rounds, or 20 without
  news) and nobody else polls: the shell's loop (`kernel_shell.pp:646-669`) does
  not.  So a command may end at any time (`AppEnd`), and what is outstanding then
  stays so; `OutstandingSettles` says that it settles unless the command ends
  first.  Nothing is assumed of the network, the gateway or the server.

### Disagreements found

1. **Backspace** (`kernel_shell.pp:656`, run input_edit): the erased byte stays
   in the buffer, which is matched as a C string: the command that runs is not
   the one on the screen.
2. **Rewriting a file** (`fs.pp:94`, run fs): the text's NUL, or its longer tail,
   lands in the file created next: `write key <key>` damages `demo.sh`.
3. **Comparison by subtraction** (`db_sql_exec.pp:99`, run db_wide): creating an
   index changes the rows a SELECT returns for INTs more than 2^31 apart.
4. **Shared receive state** (`uip_glue.c:129`, run tcp_shared): connecting
   resets the ring so that nothing of an earlier round contaminates this one
   (comment at 133), but the earlier connection stays live and goes on filling
   the ring and setting the flags.

Smaller divergences between code and documentation, read while modelling and
modelled as the code has them:

* `uip_glue.c:12` leaves retransmission to uIP, but uIP asks the application for
  lost data (`UIP_REXMIT`) and `uip_appcall` gives none: only SYN and FIN are
  ever sent again.  A lost request ends in TIMEDOUT (`Again`, `TimerGiveUp`);
  the same holds of data replaced by an ARP request (`uip_arp.c:341-343` says
  higher layers send it again).
* `uip_arp.c:150` subtracts bytes as ints: an entry made in the last 120 values
  of `arptime` is never dropped (`ArpAgeing` in MCTcp), where `uipopt.h:351-358`
  says entries live at most 20 minutes.
* When the data of a FIN segment overflows the ring, the abort that
  `uip_appcall` asks for is overwritten (`uip.c:1571`); the loss is still reported.
* `uip_glue.c:244` says the timers run every 0.5 s, the code has 1 s.
* An image with repeated row identities is accepted, where the tutorial
  (`ppdb/book/02-row-identity.md:37`) asks to refuse it; ppdb writes no such image.

## 4. Proofs

All theorems are checked by tlapm with SMT, Zenon and LS4; their assumptions are
the named ASSUMEs of the modules, which TLC evaluates in the runs.

* **AppsProofs** (966 obligations), the task table first.  `TaskInvariance`:
  `TaskInv` is inductive for a table of any size (at least two slots).  It adds
  to the plain invariants that the bootstrap task is always runnable and that
  `pc` agrees with the task's state; the first is why a task that yields while
  Waiting or Dead always finds somebody else, so `dead task resumed` is out of
  reach.  `TasksSafe`: type correctness, only runnable tasks run, no dead task
  resumed, one stack per live slot.  `WaitReasons`: the action property that a
  wait ends at its deadline or by its event, for every event and timeout.
  `AppsImplementTasks`: each action of Apps is a step of Tasks or leaves the
  table unchanged, so `AppsTaskSafe` carries TasksSafe over.
  `AppsTyped`, `RunningAppOwnsTask`, `PromptIsClean` and `ReportsAreTrue` prove
  `AppTypeOK`, `RunningHasItsTask`, `PromptHoldsNoTask` and `ReportIsExitCode`
  for any number of slots, apps and arguments, and `ArgumentsKept` the action
  property `ArgsOutliveApp`.  Their invariant `AppInv`
  adds that a slot has an argument exactly when it is in use, that the shell
  does not exit, and that an app other than the shell runs only while the
  shell's frame waits for it (`OneGuest`, `ShellWaits`): this is what keeps the
  slot of an app that ended from being reaped by anybody but its waiter, and so
  the code reported from being another task's.
* **HeapProofs** (3587), for a heap of any size and any sizes asked for.  The
  inductive invariant `HeapInv` says there is a set F of free blocks such that
  the blocks held and F are headers that cut the memory from start to top with
  no gap and no overlap, each header that says Used being held (`Cut`); that
  each free block's link leads to the next of F (`Linked`); that no free block
  ends where another starts (`Apart`); and that payloads hold what their owners
  wrote and the poison where it belongs.  The free list is a set here because
  the code's walk is a recursive function: `ChainEnds` shows, on the least
  element not reached, that the walk from the head meets all of F in order.
  kfree is one lemma per merge, on a memory as parameter (`kfree` inserts, then
  merges up, then down), kmalloc one per way to a block.  From it
  `HeapTyped`, `HeapIsCut` (`HeapCutExactly`), `OnlyLiveFreed`
  (`FreeAcceptsExactlyLive`: what the checks of kfree let through is exactly a
  block held, although stale headers stay in memory, and the overlap test, which
  the code does after it has poisoned the block, refuses none), `PayloadStays`
  (`PayloadKept`) and `HeapImplementsAllocator` (the refinement of Allocator).
* **ConsoleProofs** (1078).  `ConsoleTyped` (`ConsoleTypeOK`) and `ConsoleSafe`
  (`MessagesContiguous`), for rings and messages of any size.  The inductive
  invariant `ConsoleInv` adds three parts: `Discipline` (whoever is between lock
  and unlock has interrupts off and is alone there; the lock is free where it is
  about to be taken), `Calls` (the sizes of calls in progress), and `Ending` (the
  last byte in the log is the last of a message unless the lock is held, and
  then the holder's place in its message tells which byte it is).  Contiguity
  needs `Ending`, and `Ending` needs `Discipline`.
  `LogReadExact`: `ReadExact` in every behaviour; its invariant says which byte
  each slot of the ring holds (`RingHolds`) and that no cursor is ahead of the
  log, and the copy of one byte extends the run of log bytes read so far.
  `LogMirrored`: `MirrorsLog`; its invariant says how far behind the port may be
  (`Copied`: one byte while somebody is emitting) and that the writer of a
  report is alone with interrupts off.
* **InputProofs** (493).  `InputSafe` and `KeysOrdered`: `LineIsShown` and
  `KeysInOrder` for a keyboard ring of any size.  `InputInv` says which key each
  slot holds (`SlotIsLatest`: the last one whose number has that remainder) and
  that the two indexes are the remainders of the keys pressed and read
  (`Positions`); a key loaded has the remainder of the next one and is younger
  than a ring, so it is the next or a whole number of rings later; in either case
  it is not one that was loaded before.
* **Modulo** (132): the facts about `%` that the proofs of rings and slots need and the
  provers lack, on variables only.
* **TcpProofs** (4957), the cells of a ring of any size first.  `PutAppends`: a
  copy in two pieces appends exactly its bytes, in any position of head and
  tail; `TakeRemoves`: taking removes the oldest.  The arithmetic is done once,
  on `Cell(a, i)`, the i-th cell after a, so that no other step sees `%`.
  `RingStaysQueue`: `RingIsQueue` in every behaviour, for any
  number of connections, any ring, network and server.  The inductive invariant
  `QueueInv` adds that the ring is well formed (full only where head meets tail)
  and that segments for ppos carry sequences of bytes; each step of the poll
  leaves the ring alone or puts in what fits (`AppCallFeeds`).
  `ConnectionsAreStreams`: Tcp implements Stream, for every value of the
  constants, a network that loses, repeats and reorders and a server that may die; `EndsStayInStep`: `EndsAgree`.  Both need the invariant
  `StreamInv`: `SlotOK` (a slot's numbers count the bytes of its streams, and it
  counts nothing as acknowledged that the server has not), `SrvOK` (the server's
  count the same bytes; what one end took is a prefix of what the other gave) and
  `FrameOK` (each segment under way, however old, carries the piece of its
  stream that its number names, and acknowledges no more than its sender took).
  The last is why a segment that comes late or twice does no harm: streams only
  grow, so it stays right (`FrameStays`).  Each step is then a turn of one slot
  (`SlotTurnsKeeps`), of one server (`ServerTurnsKeeps`), the opening of a
  connection, or nothing to Stream.  `TcpTyped` (`TcpTypeOK`) follows from the
  same invariant and the types of the connection table and the glue
  (`TypesInv`).
  `LossesReported`: the action property `LossReported`, from those two
  invariants: whatever segment uip takes data from, on the data path or with a
  FIN, is stored whole or sets both flags (`TakenStored`), and no step of the
  poll, the command or the outside ends an open connection silently or takes a
  flag back (`StepHeard`).

* **DbProofs** (5632).  `DbTyped`, `PagesAreConserved` and `RowsAreLocated`
  (`DbTypeOK`, `PagesConserved`, `RowsLocated`), for any number of pages, tables,
  rows and any sizes of pages and records.  The inductive invariant `StoreInv`
  has four parts: `Catalogue`; `TablesHold` (the pages tagged t are the chain of
  table t, its first and last page being those of the catalogue); `Pool` (the
  other pages ever handed out are once each on the free list, and blank);
  `RowsGood` (`Tidied`: the slots of a page lead to its records in order and fit
  into its bytes; `Located`: each slot's identity leads back to it, and each
  address to a slot).  That slots and records stay in order is what makes
  compaction sound: it moves a record only to a place whose own record has moved
  before (`MovePages`, `PackStep`).  A loop of the code is a function over its
  rounds; `LoopStays` carries an invariant along it, and the operators defined by
  CHOOSE are shown to meet their equations before they are used.  DELETE is the
  long case: the scan stands on a slot or before one while pages are compacted
  under it (`ScanOf`, `Deleting`).
* **SessionProofs** (5891), the indexes first.  `HeapSortIs`: the heap sort returns a
  permutation of its entries in increasing order, for any entries; `SiftIs` is its
  main step (below one entry that is out of order a heap becomes a heap, and the
  entries from the count on stay).  `IndexesAreExact` (`IndexesExact`): the invariant
  `IndexesGood` says it of the set of rows on the pages tagged with the index's
  table, so a statement that leaves those pages alone leaves the index exact
  (`RowsSame`), whatever number the table has afterwards, and one that writes to
  them rebuilds it.  `RowsFit` counts: an index has room for every row the pages of a
  table can hold, so the cut in `db_index_rebuild` is never taken.

  Next what SELECT reads.  `PlansAlwaysAgree` (`PlansAgree`): of the entries of an
  exact index, `LowerBoundIs` says that the binary search ends at the first whose key
  is not below the key sought (each round halves a range that brackets it),
  `VisitedIs` that the entries from the start to the first one that stops the scan,
  less those skipped, are those whose key compares as the operator says, and `ScanIs`
  that the scan lists their rows once each; `PlanFollows` counts them against the
  rows that a scan of the table keeps.  The theorem assumes `NoOverflow`: the
  difference of any two INT values of the tables and statements fits in an INT.
  `db_match` compares by subtracting, so the claim is false without it, which
  is what the run db_wide shows.

  Then the session.  `StoresAreKept` (`StoresOK`): `KvFindIs` shows that the binary
  search ends at the place of any key in any sorted store, so a put or a deletion
  there keeps the order.  `DerivedIsRebuilt` (`DerivedRebuilt`): `FactsGood` is
  what a before-image or a file must be for its rollback or load to be right, and
  holds no address and no index entry.  BEGIN and save make good facts of a live
  state in order (`FactsAre`, `ImageIs`), and `Restore` makes such a state of good
  facts (`RestoreGood`): `db_rebuild_rowids` visits every slot of every page once
  (`PlacesAre`) and leaves each row an identity of its own and an address that
  leads to it (`NumberingIs`), after which each index is built as above.  The
  inductive invariant `SessionInv` is that the live state is in order and the
  before-image and the file are good facts.  Both theorems assume it of the images
  there may be at the start (`GoodImages`): `db_validate_image` looks at no page, so
  an image whose pages are broken, or which has an identity twice or, without
  identities, more rows than there are to give, is accepted and not covered.  No
  image at all, any that `Save` wrote (`ImageIs`) and the old one of MCSession (by
  inspection) meet the assumption.

Model-checked only: liveness (`RunnableIsScheduled`, `TimedWaitReturns`,
`CommandReturns`, `CallsReturn`, `PanicReported`, `OutstandingSettles`); of Db
`ImplementsRelations`; of Session `ImplementsDatabase`.
What a recursive *function* computes can be proved where the argument is by the
least number at which a set of numbers starts (`WFMin` has no operator
parameter); HeapProofs does so for the free list, DbProofs and SessionProofs for chains and
loops.  The two binary searches are folds over a number of rounds (`Iterate`), and
proved to find what they look for.

## 5. Abstractions

* Text is left out: SQL statements, keys, names and literals are members of
  small sets; so are the contents of documents.
* A record of a table has one size, so its offset in a page is kept as its place
  counted from the page's end.
* A freed page, or one above `next_page`, is shown blank although its bytes
  remain: nothing reads it before `db_page_init`.
* Save and load are whole steps.  `db_save` writes the file in three calls and a
  process killed between them leaves a mixed image; the repository says it does
  not promise otherwise (`tutorial/.../ppdb/book/07-persistence.md:59`).
* In Tcp hardware and IP addresses, checksums, window and MSS options are left
  out (the server respects both); sequence numbers count from each side's SYN
  and do not wrap, their wrapping addition being compared in UipMath.
  `conn_timedout` is set only together with `conn_closed`, and read as an
  alternative to it.  Urgent data (`uip.c:1580-1597`) is left out: no server of
  the model sends any.  A frame the card did not take is a frame the network
  lost; that `glue_last_error` is set then, and for a frame too short or an error
  of the card (`uip_glue.c:261-286`), is `CardFails`, which may happen at any poll.
* Failure paths that no state reaches are guards that always hold: a reap that
  fails after its app ended (`app.pp:184-187`), and kfree's overlap test after
  the poison (`kernel_memory.pp:251-254`; `OnlyLiveFreed` proves it refuses none).
* INSERT counts the columns it names but does not ask whether one is named twice
  (`db_sql_exec.pp:468-503`).  An INT left out that way is stored as 0, which is
  one of the model's values; a TEXT is read from address 0, which is not modelled.
* The assembly of context switches, the VGA scroll and number formatting are not
  modelled.

## 6. Not modelled

* **BearSSL**: two thirds of the C lines of the repository (14,400 of 20,900) are its
  headers; the library itself is not in the tree.  There is nothing to model
  but names, so the C code that can be covered is uIP, the glue and libc.
* **uIP that ppos never reaches**: IPv6, reassembly, statistics and `uip-neighbor.c`
  are compiled out or unused; SYN_RCVD, FIN_WAIT, CLOSING and TIME_WAIT need a
  listener or `uip_close`, and the glue calls neither.  SYN_SENT's answer to a
  segment that is no SYN-ACK (`uip.c:1540-1545`) needs a peer that breaks TCP.
* **DNS over UDP** and the e1000 rings of `net.pp`; the buffers of TLS.
* Text: the SQL parser, JSON, HTML, the compiler's front end.

## 7. Plan

Done: Tasks, Apps, Heap, Console, Input, Db, Session, Tcp with its parts, a
first Fs, and the proofs above.  Next, in order:

1. **Fs**, completed - an abstract file system (a function from names to
   contents) and the uses of `fs.pp` under which it is implemented.
2. **DbService** over Db - the reply of every statement against what happened.
3. **Net** - the descriptor rings with the card as an external process.
4. **Tls, Agent, Mcp** - the session guard and the tool loop with failures at
   every call.
5. **Stdlib** - vector growth and the string map against sequences and functions.
6. **Mono** - the compiler's monomorphisation work list: every instance once,
   termination on bounded types.
7. **Scripts** - the shell's fixed buffers and nested `run`.
8. **Wasm** - control stack and bounds.

Theorems to add: the two refinements of ppdb, `ImplementsRelations` and
`ImplementsDatabase`.
