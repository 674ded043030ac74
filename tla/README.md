# c-data-structure in TLA+

The repository is a collection of small, independent programs by one author:
data structures in C, thread-safe queues in C++, and the parts of a command
protocol for a robot hand (framing, retries, duplicate filter, preemption).
Each source file is a program of its own with a `main()` that tests it. This
directory models every part that keeps state, checks the models with TLC, and
proves the central results with TLAPS.

## Inventory

| Part (source) | State | Operations | What is hard | What makes it correct | Module |
|---|---|---|---|---|---|
| Bounded blocking queue (`seventh_stage/day12/blocking_queue.cpp`) | deque, `stopped_`, mutex, two condition variables | `push`, `pop`, `stop` from any number of threads | lost wakeups, waking the wrong thread, stop racing a sleeper | FIFO, nobody asleep while there is work, `stop` releases all | `BlockingQueue` |
| Asynchronous logger (`cpp/day22_async_logger.cpp`; `cpp/day22_bounded_log_queue.cpp` is the same queue without the program) | queue, `closed_`, mutex, condition variable, counters, file | `try_push`, `pop`, `close`; producers, consumer, `main` | shutdown order, notification after unlock, file errors | all accepted messages written once, exact counts, termination | `AsyncLogger` |
| Sum program (`seventh_stage/day05/blocking_queue.cpp`) | unbounded queue, `stopped_`, two mutexes, the sum | producer, consumers, `stop` | draining after stop, the shared sum | exact sum, termination | `SumQueue` |
| Priority transmit queue (`seventh_stage/day09/priority_tx_queue.cpp`) | deque of frames, `stopped_` | `push`, `wait_and_pop`, `stop` | eviction, priority, stop discards, one notification made late | order, only STOP evicts, no lost wakeup, nothing stuck | `PriorityTxQueue` |
| Ring queues (`data-structure/day20_ring_queue.c`; `day01_circular_buffer` is the same ring) | array, head, tail, count | init, push, pop, peek | wraparound | a bounded FIFO | `RingQueue` |
| UART ring (`seventh_stage/day10/uart_ring_buffer.c`) | array, head, tail, overflow counter | init, push, pop | full and empty differ by one free slot | a FIFO; drops are counted | `UartRing` |
| Sensor ring (`leetcode/day07_sensor_ring_buffer.c`) | array, write index, count | init, push, get | oldest index by unsigned subtraction | a window on the newest samples | `SensorRing` |
| Array queue, stack and circular queue (`data-structure/queue_array.c`, `stack_array.c`, `circular_queue.c`) | array, one or two indices | enqueue/push, dequeue/pop, peek | the false full of the queue | FIFO, LIFO; the circular queue should be a FIFO and is not | `ArrayContainers` |
| Retry policy (`seventh_stage/day07/retry_policy.cpp`) | state, awaited number, last send time, retries used | `start`, `on_ack`, `on_timeout` | late ACKs, clock wrap, the last retry | bounded retries, one decision | `RetryPolicy` |
| Request state machine (`seventh_stage/day11/retry_state_machine.c`) | state, times, retry count | init, poll, two ACK handlers | two timeouts, reuse of the structure | the same | `RequestMachine` |
| Duplicate filter (`seventh_stage/day6/seq_dedup.c`) | last number, valid | init, test-and-remember | retransmission after a lost ACK, restart | no command acts twice | `Executor` |
| Preemption (`seventh_stage/day05/command_preemption.c`) | current state | `try_start_action` | an order of commands and completions | only STOP interrupts | `Executor` |
| Command protocol (the three above together) | both ends, the link | send, lose, retransmit, answer, restart | loss, delay, restart | success means done, at most once | `CommandLink` |
| ACK tracker (`seventh_stage/day6/ack_tracker.cpp`) | awaited number, waiting, mutex | `start`, `on_ack`, `is_waiting` | two ACKs and a new wait race | a wait is ended once, by its ACK | `AckTracker` |
| ACK table, pending commands (`seventh_stage/day12/ack_table.cpp`, `cpp/day21_pending_commands.cpp`) | vectors of records | insert/add, update, find, erase/remove | duplicates, records that move on erasure | a map | `AckTable`, `PendingCommands` |
| Frame parser (`seventh_stage/day07/frame_stream_parser.c`) | state, length, index, checksum, payload | one byte | recovery inside a broken frame | accepts exactly frames | `FrameStreamParser` |
| TCP decoder (`seventh_stage/day10/tcp_frame_decoder.cpp`) | buffer | `feed`, `reset` | chunks cut anywhere, bad length after good frames | the frames of the stream | `LengthFrameDecoder` |
| Line framer (`leetcode/day09_stream_framer.c`) | buffer, length, discarding | one byte | over-long lines, short output areas | one verdict a line | `StreamFramer` |
| Frame checks (`command_frame_parser.c`, `day28_frame_validate.c`, `crc16_modbus.c`) | none | one call | overflow of a number, CRC | accept what was sealed, nothing else | `FrameChecks` |
| Task health monitor (`leetcode/day08_task_health_monitor.c`) | last-alive ticks | `collect_expired_mask` | tick wrap | exactly the silent tasks | `TaskHealth` |
| Lists, tree (`data-structure/linked*.c`, `binarytree.c`, `leetcode/day04`) | heap, pointers | insert, delete, reverse, free, merge, four traversals | order of pointer assignments, a failing `malloc` | contents, no leak, no dangling pointer | `LinkedList`, `DoublyLinkedList`, `ListMerge`, `BinaryTree` |
| RAII file (`cpp/day21_raii_file.cpp`) | owned `FILE *` | construct, move, write, destroy | chains of moves | one owner a file | `LogFile` |
| Binary searches (four functions in three files) | interval, result | one call | off-by-one at both ends | first/last/any occurrence | `BinarySearch` |
| Array and list algorithms (`leetcode/day02`, `day03`, `day06`, `day07`, `cpp/day22_merge_sorted`, `day23_merge_intervals`, `data-structure/day1_*`) | locals | one call | in-place update, boundaries | a reference definition | `Algorithms` |
| Command table and bit registers (`seventh_stage/day03/command_dispatch.c`, `day04/bit_register.c`) | a table, a register | one call | range tests | the right handler, the right bit and no other | `Algorithms` |

The programs do not call each other. They interact where the notes under
`seventh_stage/notes` put them together: a controller with a retry policy sends
numbered commands to an executor that filters duplicates and applies the
preemption rules. `CommandLink` is that composition; its link, its actuator and
its cache of statuses have no code in the repository and are external.

### Not modelled

* `seventh_stage/day04/atomic_counter.cpp`: each access is one atomic operation
  and `main` joins before it reads, so there is nothing to interleave.
* `c-basic` and `linux/day23_build_debug`: straight-line demonstrations and an
  exercise for make and gdb, without state that outlives a call.
* The drivers in every `main()`, except those that are the program
  (`AsyncLogger`, `SumQueue`), and what the programs print.
* Of the command protocol, the link, the actuator and the executor's cache of
  statuses: the notes describe them and the repository has no code for them.
  `CommandLink` models them as external, which is why the component is *partly*
  modelled.

## How the modules are built

State has the source's names (a trailing underscore is the source's). Variables
that the code does not have are marked *history* in their declaration and never
occur in a guard; values that come from outside the code (a clock, the link,
malloc, the C library's files) are chosen nondeterministically.

* **Threads** (`BlockingQueue`, `AsyncLogger`, `SumQueue`, `PriorityTxQueue`,
  `AckTracker`). `pc` says where each thread is. Locking a mutex, testing a
  predicate, going to sleep, and a notification made after the unlock are
  separate actions. The code between two of these points runs with the mutex
  held and is one action with the unlock. `CondVar` is `std::condition_variable`:
  a set of sleepers, `notify_one` removes any one of them, and
  `SpuriousWakeup` may remove one at any time.
* **Abstract specifications.** `QueueSpec` (a bounded queue that is open or
  closed, calls that begin and end), `FifoSpec`, `WindowSpec`, `TableSpec`
  (a bounded map) and `RetrySpec` (bounded transmissions and one decision). Each
  is implemented, by a refinement mapping, by two different programs, except
  `WindowSpec`.
* **Composition.** `CommandLink` instantiates `RetryPolicy` (the controller)
  and `Executor` (duplicate filter and preemption) and adds the link between
  them; every step of it is a step of one of the two, or of the link.
* **Suites.** `MCRetry`, `MCSequential` and `MCStructures` put independent
  machines behind one variable `chosen`: a behaviour is a behaviour of one of
  them, the others stay in one initial state. Their properties are conjunctions
  of the components' properties. `MCSequential` holds the programs that take one
  piece of input after another: the three framers, the frame checks and the
  binary searches. `MCStructures` holds the data structures: rings, array queue
  and stack, the notes of outstanding requests, and what lives on the heap.
* **Loops.** The decoder's `feed`, the searches, the frame checks (one payload
  byte, digit or bit a step), the pointer loops of the lists and the traversal
  by level are modelled one iteration a step, so that what holds inside the
  loop can be stated and proved.
* **The heap** is a function from the allocated addresses to nodes; `malloc`
  picks any free address or fails, `free` removes the address. A history
  variable (`contents`, `merged`, `waiting`) holds the nodes a structure should
  consist of, in order; the invariants compare the pointers with it.
* **Arithmetic.** Indices wrap as in the code; clocks, tick counters, the
  overflow counter and the parsed number are taken modulo a constant that
  stands for 2^32. The CRC has its real 16 bits, a register `Width` bits.
* **Pure functions** (`Algorithms`) are folds or recursive functions and are
  compared with a definition of another shape: balanced texts are generated by a grammar, merged
  intervals are compared by the points they cover, the stream that the decoder
  took apart with the encodings (`Wire`, external) of the frames it delivered, a
  number with its unbounded value. `Bytes` holds C's exclusive or.

## Runs

| Run | Instance | What it shows |
|---|---|---|
| `blocking_queue` | 2 producers x 2 elements, 2 consumers, 1 stopper, capacity 1 | `Fifo`, `NoLostWakeup` (while consumers sleep every queued element has an awake consumer, and for producers every free place), `StopWakesAll`, refinement of `QueueSpec`, and with fair threads `StopReleasesAll` and `AllServed` |
| `async_logger` | 2 producers x 2 messages, capacity 2 (with one, no message could overtake another) | `NothingLost`, `ReportIsExact` (the assertions of `main`), `NoLostWakeup` (while the consumer sleeps on messages or on a closed queue, a notification is still to come), refinement of `QueueSpec`, `Terminates` |
| `sum_queue` | 4 values, 2 consumers | `SumIsExact` (the assertion of `main`), `NoValueAbandoned`, `Terminates` |
| `priority_queue` | 2 pushers x 2 frames, 2 poppers, 1 stopper, capacity 2 | `QueueOrder`, `OnlyUrgencyEvicts`, `NoLostWakeup`, and with fair threads `NothingIsStuck` |
| `retry` | timeouts of 2 to 4, clock modulo 7 (ticks modulo 5), 2 retries | `NeverEarly`, `NeverLate`, `DecidedOnce`, `StatesFit` |
| `command_link` | 2 commands (GRAB, STOP), 2 retries, 3 messages each way, 1 restart, order kept | `SuccessMeansDone`, `AtMostOnce`, `RefusalIsFinal`, `OnlyStopInterrupts` |
| `sequential` | bytes of 2 bits, payloads of 0 to 2, streams of 10; numbers of 4 bits; bursts of up to 16 bits in frames of up to 4 bytes; arrays of up to 5 | `BuffersFit`, `FramesAreWhole`, `NothingIsMissed`, `JudgesAreRight` (the frame checks), `SearchesAreRight` |
| `structures` | arrays of 4, counter modulo 2; tracker with 2 senders, 2 receivers, 1 watcher; tables of 3 records, 4 numbers; lists of up to 5 nodes with 2 values, two lists of 3 to merge, trees of 9 places, 3 file objects | `RingsAreFifos` (with the count of dropped bytes), `OrderIsKept`, `IndicesFit`, `OneAckWins`, `VectorsAreTables`, and at every step of the pointer loops `NothingIsLost` and `ContentsAreRight` |
| `algorithms` | all lists of 4 nodes with or without a cycle, arrays of 3, texts of 5, trees of 7 places, registers of 4 bits | `OutputIsRight` |
| `command_link_reordered` | as `command_link`, order not kept, no restart | finds `AtMostOnce` violated by a message that arrives between two copies of a command, see Findings |
| `array_containers` | circular queue of 3 | finds `ImplementsFifo` violated, see Findings |
| `linked_list_unchecked` | 3 nodes, `createNode` without the test of `malloc` | finds `NoNullWrite` violated, see Findings |

Why the bounds are enough to be of interest: two threads of each role are the
least with which a notification can go to the wrong one, and a capacity of one
(or two, for an eviction or an overtaking to show) makes full and empty meet; the
clocks wrap within one wait, the rings within one behaviour; the streams hold a
broken frame and the one after it; heads, tails, lengths and delimiters also
occur as data. What the bounds leave out is proved below for every value of the
constants, for the threaded programs, the timed machines, the protocol, the
data structures, the three framers, the frame checks and the searches.

Constants that only bound a run: `Items`, `Messages`, `Frames`, `Last`,
`MaxSeq`, `MaxInFlight`, `MaxRestarts`, `MaxProgress`, `MaxLost`, `MaxSilence`,
`MaxStream`, `MaxChunk`, `MaxLine`, `MaxDigits`, `MaxData`, `MaxSize`, `MaxLength`,
`MaxNode`, `MaxNodes`, `MaxPlace`, `MaxText`, `MaxItems`, `Width`. Of these
`MaxProgress` is in the guard of an action of the code (`AckInProgress`), which has
no such limit: a request that keeps reporting progress is never failed, and
`DecidedInTime` counts one wait for each report. `PollEvery` is an assumption: the caller of a
retry policy polls at least that often. `CHECK_DEADLOCK` is on everywhere:
finished programs have an explicit final step.

Every property has a mutant beside the definition it mutates (a comment that
begins with "Mutant:"): a plausible bug that makes that property fail.

### Fairness

Only the four threaded programs with liveness properties use it. Each thread
that can take a step of its own keeps taking steps (weak fairness: the
operating system schedules it). In `BlockingQueue`, `AsyncLogger` and
`SumQueue` a thread that asks for a mutex which is free again and again obtains
it in the end (strong fairness on the locking actions: what a fair mutex gives,
and `std::mutex` in practice); `PriorityTxQueue` does without. Nothing forces
`stop()` to be called or a spurious wakeup to occur. Termination of the logger
and of the sum program follows from their own calls of `close` and `stop`. The
bound on the wait of a retry policy (`DecidedInTime`) is a safety property: the
caller's polling period is in it.

## Proofs

`BlockingQueueProofs`, for any finite disjoint sets of threads, any capacity
and any number of pushes:

* `TypeCorrect`, from the inductive invariant `IInv == TypeOK /\ Locking`.
  `TypeOK` is not inductive alone: that a sleeper is on the right condition
  variable, and that a thread between its test and its sleep still holds the
  mutex under which it found the predicate false, is what `Locking` adds.
* `FifoHolds`, `NothingAcceptedAfterStopHolds`, `StopWakesAllHolds`.
* `NoLostWakeupHolds`: each action either does not raise the number of elements
  (places), or wakes a sleeper, or leaves no sleeper; the lemmas count awake
  threads with the finite-set theorems.
* `RefinesQueueSpec`: every step is a step of `QueueSpec` or a stutter.

`AsyncLoggerProofs`, for any finite set of producers, any capacity and any
number of messages: `TypeCorrect`, `NothingLostHolds`, `ReportIsExactHolds`,
`NoLostWakeupHolds` and `RefinesQueueSpec`. Here the strengthening is
`Shutdown`: how far each producer and the consumer are in each phase of
`main()`, so that the order join, close, join is what makes the report exact. For
`NoLostWakeup` one more part is needed: that a consumer on its way to sleep holds
the mutex under which it found the queue empty and open, so no message and no
close can come in between. `Counted` ties each counter to the calls that
are over, and `Suffix` says that what was written is a part of what was
submitted, which the refinement mapping needs.

`SumQueueProofs`, for any finite set of consumers and any last value:
`TypeCorrect`, `NoValueAbandonedHolds`, `SumIsExactHolds`. `Accounting` says that
the queue holds the values that follow the popped ones, and that the sum
together with what is popped and not yet added is 1 + .. + the last popped
value. What is not yet added is summed over the consumers by a function that
lists the partial totals (`Totals`), and one consumer's change moves the total by
the same amount, so no induction over a fold is needed. A consumer between
reading and storing the sum holds the second mutex (`Locking`); without that the
invariant breaks.

`PriorityTxQueueProofs`, for any threads, capacity and number of frames:
`TypeCorrect`, `QueueOrderHolds`, `OnlyUrgencyEvictsHolds`,
`NoLostWakeupHolds`. `History` says that accepted frames are told apart by their
numbers and that none is used again; with it "earlier in the queue" and
"accepted earlier" stay the same order through evictions in the middle of the
deque. The evicted frame is the least index with the lowest priority, by the
well-foundedness of the numbers. The wakeup theorem counts awake poppers
against queued frames.

`RetryProofs`, for any timeouts, number of retries, polling period and width of
the clock, treats the three timed machines:

* the retry policy: `TypeCorrect`, `NeverTooSoonHolds`, `DecidedInTimeHolds`,
  `RefinesRetrySpec`. The invariant `Waits` says that the clock shows the real
  age of the last transmission modulo its width and that the age stays below a
  revolution because the request is polled; `Elapsed` then gives that the
  unsigned subtraction of the code is that age;
* the request machine: `RequestIsRight` (the same facts with two timeouts). The
  invariant adds `TimeoutFitsState`: the deadline in force is the one of the
  state, also when the structure is used again;
* the health monitor: `HealthIsRight`. The age of a task modulo the width is
  what the code computes; it is the age itself while it is shorter than a
  revolution, the limit that the findings name.

`StatesFitHolds`, `NeverEarlyHolds`, `NeverLateHolds` and `DecidedOnceHolds` put
them together. The assumption is that a timeout and a polling period together
are shorter than a revolution (`TimeAssumption`, `ClockAssumption`).

`CommandLinkProofs`, for any number of commands, retries, restarts and messages
in flight: `SuccessMeansDoneHolds` on any link; `AtMostOnceHolds`,
`RefusalIsFinalHolds` and `OnlyStopInterruptsHolds` on a link that keeps the
order. The heart is `InOrder`: the numbers on their way to the executor rise
from the one it remembers to the one the controller waits for, so a number that
is not the remembered one is a new one (`FreshIsNewer`). Without the order that
is false, which is the second finding. `RefusalIsFinal` follows because what was
refused or interrupted since the restart is not newer than the remembered number
and is not the command at work (`Actuator`), while what is begun is newer. It is
stated with two histories,
`refused` and `interrupted`, which a restart clears: the cached status of a
command is reset when the command begins and could not tell.

`StructuresProofs`, first the arrays and vectors, for every capacity, counter width and set of values, numbers
and threads: the two rings implement `FifoSpec` (`UartRefinesFifo`,
`QueueRefinesFifo`, with `CountTellsTailHolds` and `OverflowCountsDropsHolds`),
the sensor ring implements `WindowSpec` (`SensorIsWindow`), array queue and stack
keep their order (`ArrayKeepsOrder`), the ACK table and the pending commands
implement `TableSpec` (`AckRefinesTable`, `PendingRefinesTable`), and one ACK, with
the number that was started, ends each wait of the tracker for any number of
threads (`TrackerIsRight`). The
rings rest on a few lemmas about (i + 1) modulo n; the two vectors share one
argument, that a sequence without repeated keys tabulates a function
(`Tabulates`, `TableInsert`, `TableErase`); the tracker's invariant says that the
numbers of the calls that won the present wait are none, or the one awaited. `IndicesFitHolds`, `RingsAreFifosHolds`,
`OrderIsKeptHolds`, `OneAckWinsHolds` and `VectorsAreTablesHolds` state the run's
properties.

Then the heap, for every set of addresses, values, tree, objects and files. None
of the invariants below follows from a path that is computed from the heap: that
would be a recursion over data. The history of the structure says which node is
at which place, and each step is checked against it.

* `ListIsRight`: `NoLeak` and `HoldsContents` of the singly linked list. `NoLeak`
  speaks of the pointers alone: none that is held or stored leads to freed memory,
  and every set of nodes that has those held and with each node its successor is
  the whole heap. Neither is inductive: they do not say which node a loop that
  searches is at.
  The invariant adds where each loop stands: `ListTail` (the insertion at the
  tail is at a node of the list and holds a new one), `ListDelete` (the deletion
  has passed only nodes with other values, and `prev` is one place behind),
  `ListReverse` (the nodes before `curr` point back, the others forward:
  `HalfTurned`) and `ListFree` (what is not yet freed is a tail of the list).
  Lemmas about sequences of nodes (`IsPrepended`, `IsAppended`, `IsRemoved`,
  `IsTurned`) say where each node is afterwards, so the node the loop found is
  the one `Without` removes. A list half turned is at no time a list from `head`;
  that is why `HalfTurned` speaks of all its nodes by their place. Reachability
  follows by the least place that such a set would miss (`Reached`): upward from
  the node a chain begins at (`ChainReached`) and, on the turned side, downward
  from `prev` (`TurnedReached`).
* `DoublyIsRight`: the same with both directions. A deletion writes up to two
  neighbours, each of which may be missing.
* `MergeIsRight`: `MergeLeft` says that the linked nodes are the first ones of
  each list, that the rest of each list is still linked as it was, and that
  each linked node comes before each one left; so the end of the loop, which
  links a whole rest at once, keeps the order (`MergeEnded`).
* `TreeIsRight`: `TreeOrder` says that the printed nodes and then the waiting ones
  ascend, and that none waits that comes after a child still to be offered
  (`TreeBound`); `TreeComplete` that what was offered is printed or waits, unless
  `malloc` has failed. That the whole tree is printed at the end follows for the
  least node that would not be: its parent was printed, so it was offered.
* `FileIsRight`: `OneOwnerPerFile` with the types is inductive.

`NothingIsLostHolds` and `ContentsAreRightHolds` state the run's properties.

`SequentialProofs`, for every size of the buffers and every input:

* `ParserIsRight`: the byte parser accepts only frames with their checksum, and
  misses none that begins with a head it was free to take. `Current` says that
  its variables describe the last bytes read; the recursive checksum enters by
  a witness of its partial results, and `ChecksumIsSum` shows by least numbers that
  there is only one. `Tracking` says that a frame that began with a free head
  is the one the parser is in;
* `DecoderIsRight`: the stream is the encodings of the delivered frames followed
  by the buffer, and a buffer that is not being worked on holds no complete
  frame (`Drained`);
* `FramerIsRight`, `FramerAnswers`: what the framer holds is the line so far, as
  long as it fits; each delimiter gets its answer;
* `ChecksAreRight`: what each judge of a complete frame accepts and refuses. The
  sum is followed by a witness of its partial results (`SumInv`); the parsed
  number is the unbounded one as long as no digit was refused (`NumberInv`).
  For the CRC two registers are compared, the one computed over what arrived
  and the one over what was sent: the register is linear (`ShiftIsLinear`), so
  their difference and the damage still to come (`Error`) move together, stay
  within sixteen bits in a row (`Narrow`) and never become empty unless nothing
  was flipped (`CrcInv`);
* `ResultIsRightHolds`, from an invariant that says what the loop of a search has
  ruled out on either side of the interval and where a noted hit lies;
  `ReadsInsideHolds`, and `AlwaysShrinksHolds`, which says that the loop ends.

`BuffersFitHolds`, `FramesAreWholeHolds`, `NothingIsMissedHolds`,
`JudgesAreRightHolds` and `SearchesAreRightHolds` state the run's properties.

The theorems about a suite all begin with a lemma `SuiteIsEach`: a behaviour of
the suite is, for each component, a behaviour of that component which may
stand still. So the component's theorem, proved from its own `Init` and `Next`,
carries over.

The assumptions are those named in the modules (`ThreadsAssumption`,
`BoundsAssumption`, `LastAssumption`, `TimeAssumption`, `RetriesAssumption`,
`ClockAssumption`, `ActionsAssumption`, `CapacityAssumption`,
`CounterAssumption`, `QueueCapacityAssumption`, `ContainerAssumption`,
`HeapAssumption`, `BytesAssumption`, `StreamsAssumption`, `ChecksAssumption`,
`SearchAssumption`); TLC evaluates them in the runs. They say that sizes are
positive, that threads of different roles are different, that NULL is no
address, that a head byte is no valid length (0xAA and 16 in the code) and that
text is not a delimiter.

### Only model-checked

* Liveness (`StopReleasesAll`, `AllServed`, both `Terminates`, `NothingIsStuck`):
  it needs fairness and ENABLED, which the prover does not handle.
* `OutputIsRight`: each function of `Algorithms` is a fold or a recursion over
  its argument, compared with another one. What such a definition computes for
  every input needs an induction over the input; the library's induction theorems
  take an operator as a parameter, which the installed provers cannot
  instantiate. The bit registers moreover use the module of bit operations,
  which the prover does not read; this is why `Algorithms` has a run of its own.

All other invariants, step properties and refinements of the passing runs are
proved.

## Findings

* `array_containers`: `dequeue` of `data-structure/circular_queue.c` never
  advances `front`; the loop in `main` that drains the queue does not end.
* `command_link_reordered`: the notes say that a retransmission with the same
  number is answered as a duplicate, from a cache of recent records. The filter
  remembers one number: a message with another number that arrives between two
  copies of a command makes the second copy new, and the command is begun twice.
  TLC reports one of two counterexamples of the same length: the late first
  command comes between the two copies of the second, or the second command
  overtakes the retransmission of the first. With the
  order kept, as on one serial line, `AtMostOnceHolds` proves that it cannot
  happen.
* `linked_list_unchecked`: `createNode` of `data-structure/linked_list.c` writes
  through the result of `malloc`; its comment says that the allocation is
  checked. `ChecksMalloc` selects between it and the sibling files, which have
  the test; the run `structures` checks the lists with it.
* After a silence of a whole revolution of the tick counter the health monitor
  reports a dead task as alive; `SilentIsReported` states the limit.
* `queue_array.c` refuses a push while the places in front of `front` are free,
  as its own closing comment says; `KeepsOrder` states exactly when.

## What could be added

1. `CommandLink` with the byte parser or the decoder below it and the ACK table
   above it, refining a specification of a remote call.
2. Liveness of `CommandLink` under fair polling; its safety counterpart for the
   controller is `DecidedInTimeHolds`.
3. The loops of `Algorithms` one iteration a step, as the frame checks are, where
   a witness of the partial results would then carry a proof (`has_cycle`,
   `is_palindrome`, the two compactions).
