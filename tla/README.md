# A TLA+ model of RAST's message passing core

RAST runs *message processors* on a pool of threads. A message processor is
pinged again and again and receives messages from others through lock-free
queues, one per edge of a graph that is fixed at compile time. A *sharder* says
which thread serves which message processor, and moves them between threads at
run time according to measured load. Around this core stand an allocator,
timers, a ranked map, a store for the most frequent exceptions, and an argument
parser. This directory models the parts that keep state over time, checks them
with TLC, and proves with TLAPS what the runs check of it for all sizes: nearly
all of its safety.

## Inventory

| Component (source) | State | Operations | Hard behaviour | What makes it correct | Here |
|---|---|---|---|---|---|
| Sharder (`src/sharder.h:14-154`) | two configurations, the atomic pair (`is_first_main`, `noupdate_counter`), a mutex per shard, per-thread flags and timers | `StartConfiguration`, `GetShards`, `SwitchConfiguration`, `ThreadAction`, `NoUpdatePromise`, `Reshard` | threads that follow different configurations, promises counted over a flip, exceptions in the middle of an iteration | one thread per shard; resharding alone with the measurements; no deadlock | `Sharder`, `ShardOwnership`, `SharderProofs` |
| Lock-free queue (`src/queue.h`) | `head`, `tail`, nodes with three counters | `Push`, `PopWithHeadDataCallback`, `Pop`, destruction | every interleaving of atomic accesses, node reuse, helping, counter wrap, throwing callbacks | FIFO, nothing lost, no use after free, no leak, nobody waits | `LockFreeQueue`, `AtomicQueue`, `LockFreeQueueProofs` |
| Message passing controller (`src/sharder.h:165-346`) | timers per processor and edge, condition variables per thread and edge, activity flags | `PreProcess`, `ProcessShard`, `OnSwitch`, `GetInitialSharding`, `GetResharding`, `SetSenderCVS` | the greedy distribution at its boundaries; stale condition variables | a partition within the average load; senders wake the receiver's thread | `Resharding`, `MessagePassingController`, `MessagePool`, `ReshardingProofs` |
| Message passing tree (`src/message_passing_tree.h`) | indices of processors and edges, queues, condition variable pointers | `Send`, `NotifyAboutMessage`, `SetConditionVariable`, construction | a sender and a receiver on different threads, missed notifications, throwing receivers | each message is received once, in order of its edge | `MessagePassingTree`, `MessagePool`, `ReshardingProofs` |
| Pool (`src/sharder.h:351-367`) | the controller and the sharder | `Run` | all of the above together | messages are handled although processors move between threads | `MessagePool`, `MessagePoolProofs` |
| Timers (`src/timers.*`) | counters that extrapolate from rare clock readings | `GetPassedTime`, `Start`/`Finish`, `CheckTime`, `Reset` | integer division, clock steps | times add up to the clock's, waiting ends | `Timers`, `TimersProofs` |
| Allocator (`src/allocator.*`) | blocks with front and back control words, a free list per level | `Allocate`, `Deallocate`, splitting, joining | long sequences of calls, sizes at the limits | consumers' memory is disjoint and aligned, blocks tile an arena, free neighbours are joined | `Allocator`, `Heap`, `AllocatorProofs` |
| Ranked map (`src/ranked_map.h`) | a hash map and an ordered set of the same pairs | `Update`, `Erase`, `GetLowest` | two containers that must agree after every operation | the ordered pairs are those of the map | `RankedMap` |
| Exception top (`src/exception_top_proto_storage.*`) | two ranked maps per thread, a file | `WithCatchingException`, `Dump`, `Restore`, `Trim`, `RemoveOld` | crash and restart, a temporary file shared by threads | a file is one whole top, the saved top is bounded and young, the loops over it end | `ExceptionTop`, `ExceptionTopProofs` |
| Argument parser (`src/argparser.*`, `src/auto_registrar.h`) | registered flags and their values | `Register`, `SetArgV`, `GetValue` | flag and value tokens in any order | a value goes to its flag | not modelled |
| Packed values (`src/packed.h`) | a byte array | `Get`, `Set` | fields side by side | `Get` after `Set` | not modelled |
| Exceptions with backtrace | none | formatting of stack traces | | | not modelled |
| RAFT core, state machine, hex token | described in `report/description.tex`, no code | | | | not modelled |

How they interact: a message processor's `Ping` or `Receive` runs inside
`ProcessShard` on the thread the sharder has given the shard to, and sends by
`Push` on an edge's queue and `notify_one` on the condition variable of the
receiver's thread. The receiver's thread pops the queue in its own
`ProcessShard`. Measurements go into timers while `can_be_updated`; when all
threads have promised not to update them, thread 0 calls `GetResharding`, which
also recomputes the condition variables; `OnSwitch` hands these to the edges.

## Modules

| Module | What it is |
|---|---|
| `Sharder` | the sharder's threads, step by step |
| `ShardOwnership` | the abstract promise of the sharder |
| `SharderProofs` | the theorems about `Sharder` |
| `LockFreeQueue` | the queue at the granularity of atomic accesses |
| `AtomicQueue` | the abstract FIFO queue |
| `LockFreeQueueProofs` | the theorems about `LockFreeQueue` |
| `MessagePassingTree` | the indices of message processors and edges |
| `MessagePassingController` | the initial distribution and `SetSenderCVS`, used by the next two |
| `Resharding` | `GetResharding`, one step per chosen message processor |
| `ReshardingProofs` | the theorems about `MessagePassingTree` and `Resharding`, on which those about the pool rest |
| `MessagePool` | the pool: threads, queues, condition variables, resharding |
| `MessagePoolProofs` | the theorems about `MessagePool` |
| `Timers` | the four classes of timers, one step per call |
| `TimersProofs` | the theorems about `Timers` |
| `Allocator` | one thread's allocator, one step per call |
| `AllocatorProofs` | the theorems about `Allocator` |
| `Heap` | the abstract promise of an allocator to its consumers |
| `RankedMap` | the operators of the ranked map |
| `ExceptionTop` | the exception store of several threads, with crashes |
| `ExceptionTopProofs` | the theorems about `RankedMap` and `ExceptionTop` |
| `WellOrder` | lemmas of general use: least numbers and sets, greatest elements, sums |
| `MCSharder`, `MCQueue`, `MCResharding`, `MCMessagePool`, `MCTimers`, `MCAllocator`, `MCExceptionTop` | instances for TLC |

Definitions marked "Mutant" are deliberate mistakes next to the definition they
replace. They are not part of any specification; they show that a property
notices the mistake.

### Sharder

One action is one access to memory that other threads use, with the local
work around it. `pc[t]` is a point of `ThreadAction` (lines 113-131) or of a
method it calls. `StartConfiguration`, `LockShard`, `ShardsLocked`,
`SetCanBeUpdated`, `OnSwitch` are lines 99-111; `GetShards`, `UnlockShard`,
`ShardsUnlocked`, `FlipLocal` lines 72-97; `ProcessShard`, `CheckTime` lines
117-123; `NoUpdatePromise`, `PromiseCounted`, `ClearCanBeUpdated` lines 59-70;
`Reshard`, `AssignConf`, `PublishConf` lines 47-57. A shard's work is not a step
but an interval: it runs while its shard is in `todo[t]` and `pc[t] = "process"`,
so an invariant about these states is about everything that may run at the same
time. The same holds for `OnSwitch` and `GetResharding`.

`can_be_updated` and `is_first_local` are written as `Vector<bool>` writes them:
read the word that holds the element, then write the word back. `Word` says
which threads' flags share a word. With `OneWord` this is the layout the program
has; with `WordPerThread` it is the one `report/description.tex:1075-1076` asks
for (thread-local variables). The run `SharderThree` is about the second, and so about
executions in which no thread's assignment undoes another's; `SharderPacked` shows
what one that does leads to. The theorems are about any layout, and say up to when
they hold (see below).

The controller is any that returns one of `Confs`, a set of distributions in
which a shard has at most one thread. That `GetResharding` of the message
passing controller returns such a distribution is `EveryProcessorOnce` of
`Resharding`. A thread visits its shards in any order, of which the program's is
one. Printing and exceptions inside the `noexcept` methods are left out.

### Lock-free queue

`node[n]` is a node, `live` the allocated ones; a freed node can be allocated
again at once, so an old copy of a pointer meets new contents. `my[t]` holds the
local variables of `Push` or `PopWithHeadDataCallback`. A
`CountedNodePtrCopyGuard` is the step `GuardTail`, `GuardHead` or `GuardNext`
and its destructor a later `DropTail`, `DropHead` or the "drop_next" case of
`UpdateCounts`. A loop around a compare-and-swap that only retries is one
atomic update; the one in `Pop` that goes back to the start is not: it is
`my[t].again`. `internal_count` is kept modulo `CountRange`, as the
program keeps it in 30 bits.

`Destructor` is the thread that destroys the queue after all others have ended.
The callback is running while `pc[t] = "in_callback"`, and may throw on the
values in `ThrowingValues`.

`AtomicQueue` is implemented with `queue` as `Contents`: the values on the way
from `head` along `next`. A value enters with the compare-and-swap on `data`
(`CasData`) and leaves with the one on `head` (`CasHead`).

### Resharding

`StartThread`, `FillThread`, `CloseThread` are one round of the loop over
threads (lines 286-320): the heavy case, the greedy loop, and the end of a round
with the rest for the last thread. The two assertions are the states
"no_processor_left" and "nothing_chosen". The set of pairs ordered by duration
and index is `available` with the order `Before`; `Suitable` is the part before
`upper_bound`, whose pair has index 0. The graph is `MessagePassingTree`: from
the list of `Edge` types it derives the indices as the chain of `Piper` classes
does, whose last edge is added first.

### Message pool

`MessagePool` composes what other modules show. The sharder appears as
`ShardOwnership`, whose actions `LockShard`, `UnlockShard`, `ShardsUnlocked` and
`PublishConf` take by INSTANCE, together with its promises not to update
(`promised`) and the configuration that is not in use (`other`); `Sharder`
implements this in detail. A queue is the FIFO queue of `AtomicQueue`, and
`GetResharding` returns one of `Confs`, partitions as `EveryProcessorOnce` of
`Resharding` says. New here is the controller: `PreProcess` with `WakeUp` and
`TimeOut` (lines 177-183), `Ping` to `ShardProcessed` (185-206), `OnSwitch`
(239-249), and from the tree `Send` with `NotifyOne` and `NotifyAboutMessage` with
`ReceiveReturns`.

`Ping` and `Receive` are intervals, `pc[t] = "running"`, in which a message
processor sends as often as it likes on its outgoing edges and returns or throws;
`at[t]` says which one it is and what it was given. `Send` is two steps, since the
receiver's thread may go to sleep between `Push` and `notify_one`. `notify_one`
finds a thread waiting or does nothing. `wait_for` is called with a lock that does
nothing, so a notification between the test of `is_active` and the wait is missed;
the wait then ends by `TimeOut`. `is_active` is a `Vector<bool>`, and `SetActive`
lets an assignment bring back any older value of the other threads' flags.
`OnSwitch` and `GetResharding` are intervals too, so that `PointersNotRaced` is
about what may overlap them. Measurements do not appear: that they are kept apart
from `GetResharding` is `ReshardingAlone` of `Sharder`.

### Timers

An object of a class is a record of its members and a call of a method is one
step, before which the system clock has moved by one of `Ticks`. `GetPassedTime`
reads the clock if `wind_up_counter` reaches 0 (`WindUp`) and returns
`approx_time_step`, at least `min_measured_time`. Division truncates towards zero.
`called_at`, `hasty`, `polls` and `reset_at` are history and influence nothing.
`GetAverageDuration`, which changes nothing, is left out. A sum of durations can
become negative, as `Start` and `Finish` extrapolate independently, and is divided by
an unsigned counter, so an average can be huge: nothing but the `std::max` around it
bounds it, and no property is stated of it.

### Allocator

The allocator is thread-local and its calls do not overlap, so a call of
`Allocate` or `Deallocate` is one step, built from operators on a heap
`[layers, fc, bc, damaged]` that stand for the methods of the class. `fc` holds
the front control words in use by address, `bc` the back control words. When two
blocks are joined the control words between them become data and leave these
domains, so a link that still names such an address is visible as what it is: a
link to nothing. `SetLink` says what happens to a write through one. If the
address now lies in the data of a free block it does no harm; otherwise it
changes a consumer's data or another control word, `damaged` becomes true, and
the model stops, because the program's memory is arbitrary from there on.
`BlocksTile` and its companions thus hold *up to* the first such write, which
`AllocatorDamage` shows to be possible.

`RequestsAssumption` leaves out requests above the largest power of two in an
arena (the code dereferences a null pointer for them) and alignments above 128
(the shift does not fit its signed char).

`Heap` is implemented with `given`, which the program does not keep: it is what
consumers hold.

### Exception top

`RankedMap` is the hash map `key_value` and the ordered set `value_key`; the
operators are the methods without their handling of failing allocations. In
`ExceptionTop` each thread runs `WithCatchingException`: `CatchException` counts
an exception, `RemoveOld` and `Trim` take one entry per step, and `Dump` is
`OpenTemporary`, a `SerializeToOstream` for each block of the message that reaches
the file, and `Rename`, because `Crash` and the other threads may come between any
two. A crash empties every thread's memory; `file` is on disk and stays. `SetPath`
reads a thread's file back. Whether `dump_timer` has run out is left open, and the
clock of a new process may show any time, earlier ones included. Between two
readings of one clock time passes, since the timers measure at least
`min_measured_time`. Times are counted from the earliest there is.

All threads write through one file, `temp_directory_path() / "data"`, and their
dumps may overlap. `out[t]` follows a thread's open file: when another thread
renames it, `out[t]` becomes that thread's path, and what is written later ends up
there. A file holds a message, the first blocks of one (`Part`), or blocks of
several (`Mixed`). A thread that finds its own blocks in the file, and nothing else,
goes on with its message; one that finds another's blocks, or the file truncated,
may also leave a mixture. What protobuf takes such pieces for, `Restore` reads as any
message of `Garbled`, or as none: overlapping dumps may thus leave a count without a
time, which never ages, since `RemoveOld` goes by times, and stays until `Trim` drops
it. A thread that finds no file to rename throws in a `noexcept` method, which ends
the process (`Terminate`).

## Runs

| Run | Bounds | Shows |
|---|---|---|
| `SharderThree` | 3 threads that exchange 3 shards, every shard may throw | type, exclusion, resharding alone, slots, mutex ownership, the promise counter, refinement of `ShardOwnership`, every switch ends, resharding resumes after exceptions |
| `SharderPacked` | 2 threads, 2 shards, packed flags | fails: two threads on one shard |
| `QueueTwoPushers` | 2 pushers with 1 value each, 1 popper with 1 call whose callback may throw | exact reference counts, each value handled once and in order, in place while its callback runs, nobody waits |
| `QueueTwoPoppers` | 1 pusher with 2 values, 2 poppers with 2 calls, at most 6 copies of a pointer | no use after free, no leak, nothing lost, a FIFO queue |
| `QueueLost` | 2 pushers with 1 value each, 1 popper | fails: a pushed value is lost |
| `ReshardThree` | 3 threads, 4 processors in a diamond, averages 1 to 3 | a partition, bounded load, the right thread is woken |
| `ReshardAsserts` | 3 threads, 3 processors in a ring, averages 1 to 5 | fails: an assertion of `GetResharding` |
| `AllocatorOne` | one arena of 304 bytes, requests of 0 and 32 bytes (aligned to 16), 8 and 64 (aligned to 8) | tiling, disjoint and aligned memory, free neighbours joined, lists offer what fits, refinement of `Heap` |
| `AllocatorDamage` | the same | fails: the allocator writes into a consumer's data |
| `ExceptionTwo` | 2 threads, 3 texts, a top of 2, 3 exceptions, times up to 3, entries kept for 2 | the containers of a map agree, ageing keeps the newest, saved tops are trimmed, the loops end; as long as dumps do not overlap, the two maps have the same keys and a file is one whole top |
| `PoolPipeline` | 2 threads, 3 processors in a pipeline, 2 distributions, 2 messages in all, everything may throw | messages handled once and in order, senders wake the right thread, pointers are not raced, every message is handled |
| `TimersOne` | 7 calls, ticks of -3, 0, 1, 2 and 7, a period of 4 and at most 5 steps between readings | extrapolated times add up, are not far ahead, waiting ends |

Why the bounds are enough to be interesting.

*Sharder.* The two slots alternate, and nothing bounds the number of
reshardings, so every relation of old, current and new distribution occurs. On
the way from `UnevenConf` to `EvenConf` each of threads 0 and 1 wants a shard of
the other, and 2 wants one of 0's; three threads are the least that can wait for
one another in a cycle. `UnevenConf` leaves thread 2 without a shard. A sharder
may be given such a distribution by its controller; the message passing
controller never returns one, and `ReshardAsserts` is about what it does
instead. `noupdate_counter` never exceeds the number of threads
(`PromisesCounted`), so it needs no bound.

*Queue.* With two values and the node the queue starts with, nodes are freed and
reused while both ends are at work. The pool is as large as the number of nodes
that can be live, so an allocation never waits. `MaxCopies` bounds the copies of
one pointer. With one popper it is larger than the operations can reach. Two
poppers can defeat each other's compare-and-swap for ever, because a new copy
changes `external_count`; the bound stops them there, which is why
`QueueTwoPoppers` does not check deadlock. It is large enough for
four polls that find nothing, followed by the destructor's. `CountRange` is
larger than the number of threads, as in the program, and small enough to wrap.
Node symmetry is used only where no liveness is checked.

*Resharding.* All combinations of averages up to the bound are initial states; 1
is the least average the timers return (`min_measured_time`). `LoadBounded` and
`ReceiverIsWoken` say something about every state, `EveryProcessorOnce` about
those in which `GetResharding` returns.

*Allocator.* The requests need two different layers' lists, with and without a
shift, and the arena holds several of the smallest blocks, so a block can have
neighbours that are both free, both taken, or one of each, and lists reach a
length of more than one, where `Attach` loses them. Every sequence of calls is explored: the
states of one arena are finite. A request that finds no block once the arena is
there fails with `bad_alloc`, as with an exhausted system.

*Exception top.* Three texts are one more than the top holds, so `Trim` has work;
three exceptions and times up to 3 with `KeepTime` 2 make an entry old while
another is young, also one that a restart has brought back. The number of
crashes is not bounded, nor is that of overlapping dumps, or of the blocks of a
message. `Garbled` has a count without a time, a time without a count, and a message
with more exceptions than the top holds and a time ahead of the clock.

*Pool.* The three message processors start on threads {0, 2} and {1}; one
distribution gives all of them to the other thread, the other joins the sender
and the receiver of one edge on one thread. Resharding never ends, so every
message can meet a move at any point between its `Push` and its removal. Two
messages in all (`MaxMessages`) are two on one edge, whose order can be wrong, or
one on each, which pass through the filter together. More would only make longer
queues: a thread looks at their heads.

*Timers.* `MaxCalls` is enough for two readings of the clock with extrapolation in
between, and the ticks include a clock that stands, is set back, and passes more
than a period. The constants are small so that both limits of
`new_wind_up_counter` occur: the real ones are 1000 and 10000. Ten calls with a
period of 4 and ticks of 1, 2 and 9 give the same results.

## Fairness

`FairSpec` of `Sharder` has weak fairness of each thread's steps and of its
timer: threads are preempted but keep running, a blocked `lock` is not enabled,
and time passes. Nothing is assumed about who gets a mutex first, and a shard
that may throw may throw for ever: `EveryThreadSwitches` holds even then. The
premise of `ReshardingResumes`, that exceptions stop at some point, is part of
the property and not of the specification; see below. `NobodyWaits` assumes no fairness but that of
the one thread it is about. `FairSpec` of `ExceptionTop` has weak fairness of
each thread's steps; a crash may come at any time but need not. `FairSpec` of
`MessagePool` has weak fairness of each thread's steps, of which `TimeOut` is one:
`wait_for` returns when its time has passed. Nothing forces a timer, a promise or
a resharding to happen. `EveryMessageHandled` has the premise that message
processors stop throwing at some point: one that throws on a message for ever
keeps it, and all that come after it on the thread, from being handled.

## Proofs

Which theorem states which property of the runs:

| Module | Property (theorem) |
|---|---|
| `SharderProofs` | `TypeOK` (`TypeCorrect`), `ShardExclusion` (`Exclusion`), `ReshardingAlone` (`ReshardingIsSafe`), `OverwrittenSlotUnused` (`OverwritingIsSafe`), `UnlockedByOwner` (`UnlockingIsOwned`), `PromisesCounted` (`PromisesAreCounted`), `ImplementsOwnership` (`Refinement`) |
| `TimersProofs` | `TimesAddUp` (`TimesAddUpAlways`), `WaitingEnds` (`WaitingAlwaysEnds`), `NeverFarAhead` (`NeverFarAheadAlways`) |
| `ExceptionTopProofs` | `TypeOK` (`TypeCorrect`), `KeysAgree` (`KeysAgreeAlways`), `YoungestStays` (`YoungestAlwaysStays`), `SavedIsTrimmed` (`SavedAlwaysTrimmed`), `FileIsWholeTop` (`FilesAreWholeTops`) |
| `MessagePoolProofs` | `HandledInOrder` (`AlwaysHandledInOrder`), `SenderWakesServer` (`SenderAlwaysWakesServer`), `PointersNotRaced` (`PointersNeverRaced`) |
| `ReshardingProofs` | `EveryProcessorOnce` (`EveryProcessorAlwaysOnce`), `LoadBounded` (`LoadAlwaysBounded`), `ReceiverIsWoken` (`ReceiverAlwaysWoken`) |
| `AllocatorProofs` | `BlocksTile` (`BlocksAlwaysTile`), `ConsumersApart` (`ConsumersAlwaysApart`), `Coalesced` (`AlwaysCoalesced`), `HeadsServe` (`HeadsAlwaysServe`), `ImplementsHeap` (`AllocatorImplementsHeap`) |
| `LockFreeQueueProofs` | `ReferenceCounts` (`ReferenceCountsAlways`), `NoUseAfterFree` (`NoUseAfterFreeAlways`), `AllReclaimed` (`AllReclaimedAlways`), `CallbackValueStable` (`CallbackValueAlwaysStable`), `HandledOnce` (`HandledAlwaysOnce`), `NothingLost` (`NothingIsLost`), `ImplementsQueue` (`QueueImplementsAtomic`), `TypeOK` (`TypeCorrect`) |

### The sharder

`SharderProofs` proves, for any number of threads, any shards, distributions
and throwing shards, from the three assumptions of `Sharder` (a positive number
of threads, distributions that give a shard to one thread at most, a word for
each thread's flags):

* `TypeCorrect`: `TypeOK`;
* under `NoFlagLost`: `Exclusion` (`ShardExclusion`), `ReshardingIsSafe`
  (`ReshardingAlone`), `OverwritingIsSafe` (`OverwrittenSlotUnused`),
  `UnlockingIsOwned` (`UnlockedByOwner`), `PromisesAreCounted` (`PromisesCounted`)
  and `Refinement` (`ImplementsOwnership`);
* `FlagsAreKept`: `NoFlagLost`, if threads whose flags share a word are never both
  between reading and writing it.

The flags may share words in any way, as those of the program's `Vector<bool>` do.
There an assignment also writes back the neighbours' flags as they were when the word
was read. `NoFlagLost` says that this changes none of them: a thread's flags change in
its own steps only. It is a condition on executions and not on the program, which
meets it as long as assignments do not coincide, and does not ensure that they never
do. Since the conclusions are about each state, they hold in every execution up to
the first assignment that undoes another thread's; `SharderPacked` shows that they
fail after it. With one thread, or with a word for each thread, there is no such
assignment. The same condition is behind what the pool takes from `ShardOwnership`.

The inductive invariant `IInv` has these parts. `FlagsInv` says what a thread's
flags mean at each point: for instance that a thread on the old configuration
that may still update is just about to clear the flag. `PromisesCounted` ties
the counter to the set of threads that have promised; since it can reach the
number of threads only when all are in that set, `ReshardInv` follows: while
thread 0 computes or publishes, every promise stands and nobody else can change
the pair, so the compare-and-swap succeeds. `HoldsInv` says which mutexes a
thread holds at each point; a shard in use is a shard held, hence exclusion. It
rests on `ReshardInv`, because only then the slot a thread follows, and will
unlock by, is never the one that is overwritten. The refinement maps the plan to
the configuration `is_first_main` names, and the threads behind it to those
whose `is_first_local` differs.

### The timers

`TimersProofs` proves, for any periods, any bound of the calls to extrapolate over
and any ticks, forwards and backwards, from `TimersAssumption` (the constants are
natural numbers, the clock starts above zero, the bound is positive):

* `TimesAddUpAlways`: `TimesAddUp`;
* `WaitingAlwaysEnds`: `WaitingEnds`;
* `NeverFarAheadAlways`: `NeverFarAhead`.

`TimesAddUp` speaks of the classes made of a timer, and follows from what one call
of a timer does (`GetPassedTimeTells`): what it has told grows by what it returns,
whether it reads the clock or not, and it returns at least the minimum. That needs
the counters to be positive (`NewWindUpCounterBounds`), since the step is a quotient
by them. By `ResetTells` the first reading returns exactly the time of the clock,
so that a `WaitingTimer` starts without a balance. The
inductive invariant `TimersInv` adds to `TimesAddUp` the types, the ranges of the
counters, and that the time elapsed is not less than the number of polls, from
which `WaitingEnds` follows.

`NeverFarAhead` is not inductive: a timer that reads the clock may extrapolate until
the next reading, so that reading must be looked at with all the results it leads
to. `NotAhead` counts them in: what a timer has told, and will have told at its next
reading if the step stays, is not above the last reading by more than the period.
The step can be the minimum although there is time to make up, when a timer is called
as fast as the clock ticks; then the calls since the last reading are counted
instead, each of which the clock has followed. A reading keeps this
(`StepFits`), because the calls until the next one are at most the period divided by
the time the last ones took (`ExtrapolationBounded`), or else one.

### The exception top

`ExceptionTopProofs` proves, for any threads, texts, times and bounds, from
`BoundsAssumption` (the bounds are natural numbers, the top has room for an
exception) and `GarbledAssumption` (what `Restore` reads from pieces is some message,
or none): `TypeCorrect`
(`TypeOK`), `KeysAgreeAlways`, `YoungestAlwaysStays`, `SavedAlwaysTrimmed` and the
action property `FilesAreWholeTops` (`FileIsWholeTop`).

The lemmas about `Update` and `Erase` say that the ordered pairs remain those of the
map. In the inductive invariant, `MapsInv` says so of every thread's two maps, and
that both have the same keys as long as no dumps have overlapped; an overlap can
leave a file in which they differ, and `Restore` brings it back. `FileInv` is the
same for the files, which are then whole messages. `OutInv` says where an open file is, and that without overlap
one thread at most uses the temporary one, so that what it renames is its own top.
`TrimInv` says what the loops have achieved at each point, in particular that the
exception just caught, with the present time, is among those that `RemoveOld` looks
at, so the lowest is never that of an empty set.

### The message passing tree and the pool

`IndicesAreRight` of `ReshardingProofs` says, for every list of edge types, from `EdgeTypesAssumption`
(there is an edge), that the indices the constructors assign are the places of
different processor types and that each edge leads from its sender's index to its
receiver's. `Tree` is a recursive function of the number of edges taken in, as the
chain of `Piper` classes is, and the proof is an induction over it.

`MessagePoolProofs` proves `AlwaysHandledInOrder`, `SenderAlwaysWakesServer` and
`PointersNeverRaced` for any tree, any number of threads up to that of processors
(`ThreadsAssumption`), any distributions in which each processor has one thread
(`PoolAssumption`), any number of messages and whatever throws. The inductive
invariant: `HoldInv`, a thread holds the mutexes of the configuration it follows,
but for those it has still to lock or has unlocked, so no two threads read one
processor's messages; `PromiseInv`, thread 0 reshards only when all have promised,
and a thread that has promised neither switches nor is behind; `PointersInv`, the
pointers handed out are those of the current distribution, and a processor's edges
have those of the configuration its thread follows; `QueueInv`, an edge's messages,
handled and waiting, are the numbers from one on.

### Resharding

`ReshardingProofs` proves `EveryProcessorAlwaysOnce`, `LoadAlwaysBounded` and
`ReceiverAlwaysWoken` for any tree, number of threads and averages
(`DurationAssumption`: they are positive). `PlaceInv` says that each processor is
available, taken by the current thread or on one thread before it. `LoadInv` says
that `accumulated_duration` is the load of the current thread's processors, a sum
that grows by one duration when a processor is taken (`SumWithout` of `WellOrder`).
`Heaviest` and `MostConnected` are defined by `CHOOSE`: that there are such
processors rests on `GreatestElement`, a finite set with a total order has a
greatest element. `ResultIsDistribution` says that the result is one of the
`Distributions`, which is what `PoolAssumption` asks of those the pool goes on with.

### The queue

`LockFreeQueueProofs` proves `TypeCorrect`, `ReferenceCountsAlways`,
`NoUseAfterFreeAlways` and `AllReclaimedAlways` for any pushers, poppers, scripts,
numbers of calls, throwing values and nodes, whatever the bounds on copies, from `QueueAssumption`: there are
finitely many threads, fewer than the range of a counter, each either pushes or pops,
and nobody pushes null. Nodes may be reused at once, so the theorems are also about
copies of pointers to a node that has been deleted and allocated again.

The counters are exact only if each node has the sources it is thought to have,
which depends on where all threads are. The invariant `IInv` therefore says how the
linked nodes lie: they are a chain, which no variable holds, so it says that there are
positions of nodes (`pos`) such that

* `ChainInv`: a node's next one has the next position, `head` is not behind `tail`, the
  chain ends at `tail` or one node behind it, in which case a pusher is about to move
  `tail`; nodes before `head` are closed, those after have their value before a next
  one;
* `ThreadInv`: a thread's guards are on linked nodes, a pusher's not after `tail`, a
  popper's not after `head`, whose next one it then holds; one pusher at a time
  reports the copies of a node that `tail` handed out, and one popper those of `head`;
* `SourcesInv`: `external_counters` is the number of the three sources (`head`, `tail`
  and the next pointer of the node before) that have still to report, and a node
  without any has a count that is not zero.

`AccountInv` is `ReferenceCounts` as a sum over threads that a step changes in one
place: the balance of a node is a multiple of `CountRange`. A node is deleted when a
thread finds no source and a count of zero. Then nobody else owes the node anything
(`OnlyOwes`), so its count is the number of guards on it (`CountIsHolders`), and the thread
that counts it to zero holds the last one (`LastHolder`); one that reports while it
still has a guard never deletes it (`HolderKeeps`). This is where the number of threads
must be less than the range of the counter. A new position is needed only when a node
is linked (`LinksStep`). `ClosingInv` is about the destructor, which runs alone, and
finds one node with the two sources `head` and `tail`.

`TypeCorrect` needs one fact more, as the guards bound only the copies of `head` and
`tail` by `MaxCopies`. A popper copies the next link of a node once for each copy of the
node, so what was copied of the link, together with the poppers that have the node and
may still copy it, is not more than was copied of the node (`CopiesInv`). The copies of
the node are counted in `head` while it is there, and then by the popper that moved `head`
on, until it closes the link.

`CallbackValueAlwaysStable` and `HandledAlwaysOnce` have the hypothesis that there is at
most one popper, as the properties are about a single consumer. Nobody else then moves
`head`, so what the popper copied stays the head up to its compare-and-swap, and
`handled` is `popped`, followed by the value of the first node while the popper is just
before the compare-and-swap (`ConsumerInv`).

`NothingIsLost` and the refinement `QueueImplementsAtomic` have the hypothesis that there
is one pusher. With two they are false: that is the finding of the run `QueueLost`, in
which a delayed pusher stores its value into a node that was popped. One pusher always
finds the node at `tail` without a value, and is itself the one to link a node and to
move `tail` (`PusherInv`). The nodes from `head` to `tail` are then a sequence `r`
(`Row`), and the invariant `OnePusherInv` says that the values popped, followed by those
in the nodes of `r`, are the first ones of the pusher's script, up to the last one it has
put into a node (`OrderInv`, `CallsInv`). Each step keeps `r`, appends the node that
`tail` moves to, or takes the first one off as `head` moves; nothing else touches the
values and links from `head` on (`PushInOrder`, `PopInOrder`), as no source of such a
node has reported before `head` has (`CountedKept`). The destructor finds `r` of length
one when all calls have ended, so everything was popped (`EmptyInOrder`, `EmptiedInv`).
For the refinement, `Contents`, which follows the links with a recursive function, is
shown to be the values in `r` (`ContentsOfRow`); its hypothesis that the values of the
script are different (`Different`) lets `AtomicQueue` tell one value from another, as in
the constants of the model, and is about no behaviour of the code.

### The allocator

`AllocatorProofs` proves, for any number, size and place of arenas, any number of
layers and any requests: `BlocksAlwaysTile`, `ConsumersAlwaysApart`,
`AlwaysCoalesced`, `HeadsAlwaysServe`, and the refinement `AllocatorImplementsHeap`.
The assumptions are `ArenasAssumption` (operator new returns apart memory, aligned to
16 bytes) and `RequestsAssumption` (a request is for none or some objects of a
size, needs no higher layer than an arena fills, and its alignment is a power of two
up to 128).

The invariant is about heaps `[layers, fc, bc, damaged]`, so that it can be followed
through the operators a call is made of. `Tiling` says that blocks do not overlap,
lie in arenas, and that the control words point to the fronts of their blocks;
`Joined`, that no two free blocks are neighbours; `Heads` and `HeadsAreFree`, that
what a layer starts with is a free block filed there; `Gifts`, that the blocks that
are not free and what consumers hold are the same. The lists behind the heads
are lost (`local_next` of a block is always `NULL`, as `Attach` clears it and
`Detach` only copies it) and so need no invariant. An out-of-date link changes
links and nothing else (`Relinked`): the theorems hold up to and including the
first such write, after which the model stops. Splitting (`SplitTiles`), joining
(`JoinTiles`) and adding an arena (`ArenaTiles`) keep the tiling. During
`Deallocate` two neighbours may be free (`Together`): only the block that came back
and the one before it can start such a pair, `JoinPrevious` leaves at most the
pair that starts with the joined block, and `JoinFollowing` none. A request is
served by the head of its layer because one logarithm is rounded up and the other
down (`LayersServe`), for which powers of two are the recursive function
`PowerOfTwo`.

### How induction is done

The theorems of the library that take an operator as an argument cannot be used
here. Where a proof needs induction, it takes the least number, or a finite set
with the fewest elements, that lacks the property (`LeastNatural`, `LeastFiniteSet` of
`WellOrder`) and derives a contradiction. In this way `IndicesAreRight`,
`PowersExist` and `SumFunctionIsSum` say what recursive functions compute, and
`SumChanges`, `SumOfDifference`, `SumOfOnes` how sums change and compare. A function
that is defined recursively over the natural numbers, by applying another one again and
again, exists by `IterationExists`.

### Only model-checked

Liveness and `ENABLED` are outside the prover's reach: `EveryThreadSwitches`,
`ReshardingResumes`, `NobodyWaits`, `HandlingEnds` and `EveryMessageHandled` are
checked by TLC on the instances of the runs, no more. Every invariant and every
action property of a passing run, and the three refinements, are stated by a theorem.
Those about the sharder, but for its types, have the hypothesis `NoFlagLost`, which
the layout of `SharderThree` ensures.
Four theorems about the queue have a hypothesis beyond `QueueAssumption`, which the
run that checks the property meets: one popper for `CallbackValueAlwaysStable` and
`HandledAlwaysOnce`, one pusher for `NothingIsLost` and `QueueImplementsAtomic`, the
latter with values that differ. `QueueLost` shows what two pushers can do.

## Plan

All components that change shared state are modelled, and what the runs check of
their safety is proved. What could still be added, most useful first:

* The message pool is composed of the sharder's promise (`ShardOwnership`) and of FIFO
  queues (`AtomicQueue`); that each is implemented is proved of `Sharder` and, for one
  pusher, of `LockFreeQueue`. With two pushers on one edge a value can be lost
  (`QueueLost`); an edge has one sender, so the pool does not meet this.
* A theorem that says which values a queue with two pushers may lose: those that a
  slow pusher stores in a node that was filled, passed and popped meanwhile.
* The hazards without a property: atomics weaker than sequential consistency, a
  request above the largest power of two in an arena, a shift of 128 or more, memory
  freed by a thread that has not allocated it, poppers that make each other retry,
  and averages that a negative sum of durations makes huge.
* The argument parser and the packed values, which are sequential and have tests.
