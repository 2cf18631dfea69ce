# A TLA+ model of AGIOS

AGIOS is a C library that schedules the I/O requests of an application.  User
threads add requests, one internal thread (the AGIOS thread) runs a scheduling
algorithm over them and gives them back through callbacks, and users release
each request when they have served it.  This directory holds a model of that
code: specifications for TLC, and theorems checked by TLAPS.  `PROJECT.json`
maps every definition to the lines it models and lists runs, mutants, findings,
hazards and theorems.

    tlc -config Serve.cfg MCAgios        # any run of PROJECT.json
    tlapm Lifecycle_proofs.tla           # the proofs: DataLemmas or any ..._proofs

## 1. Inventory

| component | state | operations | who calls it |
|---|---|---|---|
| structure locking (`data_structures.c`, `req_hashtable.c`, `req_timeline.c`) | `timeline_mutex`, `hashlist_locks[]`, `current_scheduler` | acquire_adequate_lock, lock_all, unlock_all, lock/unlock of one structure | users, schedulers, change of algorithm, `agios_init` |
| request queues (`agios_add_request.c`, `req_hashtable.c`, `req_timeline.c`) | `hashlist` (per file a read and a write queue, each with a dispatch queue), `timeline`, `multi_timeline` | hashtable_add_req, timeline_add_req, aggregation | users, migration |
| users' calls (`agios_add_request.c`, `agios_release_request.c`, `agios_cancel_request.c`) | `current_reqnb`, `current_filenb`, `timeline_reqnb`, `current_size`, `hashlist_reqcounter` | add, release, cancel | user threads; callbacks (from the AGIOS thread) |
| processing (`process_request.c`) | dispatch queues, `processing_info_t` | step 1 (with the mutex), step 2 (without) | schedulers; `agios_add_request` for NOOP |
| AGIOS thread (`agios_thread.c`) | stop flag, condition variable | loop, sleep, change of algorithm | `agios_init`, `agios_exit` |
| schedulers (`TO.c`, `NOOP.c`, `SJF.c`, `WFQ.c`, `TWINS.c`, `SW.c`, `MLF.c`, `aIOLi.c`, `waiting_common.c`) | credits, windows, quanta, waiting times | `schedule()` | AGIOS thread |
| change of algorithm (`scheduling_algorithms.c`, `data_structures.c`, `req_timeline.c`) | `current_alg`, `current_scheduler` | change_selected_alg, migrations, reorder_timeline | AGIOS thread, if the scheduler is dynamic |
| performance, statistics | history of algorithms, running averages | one update per add, release, aggregation, change | all of the above |
| init, exit, configuration (`agios.c`, `agios_config.c`) | configuration, allocated memory, the thread | agios_init, agios_exit, again | one user thread |
| trace (`trace.c`) | buffer, its occupancy, the file | add a line, flush, open, close | adds, init, exit |
| lists, hash (`mylist.c`, `hash.c`) | | | everywhere |

The components share memory under three kinds of mutexes.  The structure mutexes
protect requests and per-file data: one per line of the hashtable when the
scheduler `needs_hashtable`, the timeline's for everything otherwise.  The
counters have a small mutex of their own.  The condition variable has another.

What is hard in this code: a call chooses its mutex by reading a variable that
may change while it waits; schedulers read counters without the mutex and use
after a second lock what they read under a first; callbacks run outside every
mutex, and releases and cancellations race them; cancellation edits lists in
ways no other path does; two schedulers make a file wait for a request that may
never come, by 32-bit counters that double; the thread relies on wake-ups it may
miss; and global variables outlive `agios_exit` and each failure of
`agios_init`.  The hazards of `PROJECT.json` list these, each at its line with
the properties that watch it.

What makes each component correct:

- locking: the right mutex, alone, no deadlock, nobody inside during a change;
- queues: offset order, aggregates that cover their parts and respect the limit;
- calls: no request lost or duplicated, counters that agree with the contents;
- performance, statistics: every release counts for the period that sent the
  request, every average summarises what it should and nothing older;
- processing: each request given back once, a release always finds its record;
- thread and schedulers: every request served, no assertion fails, exit returns;
- schedulers one by one: first come first served (TO), a fair share (WFQ, TWINS),
  no starvation (SJF's scan), waits that are given up (MLF, aIOLi);
- trace: every line once, in order, inside the buffer;
- init and exit: everything allocated is freed once, on every path, and the thread
  runs for as long as the library is open.

No scheduler of the repository's table has `is_dynamic` set.  The change of
algorithm is an extension point the README of AGIOS documents; the model of the
locks has it because `acquire_adequate_lock` exists for it.  In the other models
the configuration chooses one algorithm at the start, as the code in the
repository does.

## 2. Modules

| module | models | extends or uses |
|---|---|---|
| `StructureAccess` | what the locking promises: exclusive access to the structure in use | |
| `StructureLocks` | the mutexes, step by step | implements `StructureAccess` |
| `RequestQueues` | pure operators on one list: insertion, aggregation, cancellation | |
| `RequestLife` | what a user sees of a request | |
| `AgiosCore` | users' calls, counters, both steps, the thread's loop | `RequestQueues`; implements `RequestLife` |
| `Timeorder`, `NOOP`, `SJF`, `WFQ`, `TWINS` | the `schedule()` of TO, TO-agg and SW, of NOOP, SJF, WFQ, TWINS | `AgiosCore` |
| `WaitingCommon` | what MLF and aIOLi share: waiting times, predictions, growing quanta | `AgiosCore` |
| `MLF`, `aIOLi` | the `schedule()` of each | `WaitingCommon` |
| `Agios` | the library: users, thread and the algorithm in `current_alg`; `Next`, `Spec`, `Fairness`, `FairSpec` | all the schedulers |
| `Averages` | `update_iterative_average` | |
| `Performance` | the history of periods and the accounting of releases | `Averages` |
| `Statistics` | counters and averages of the queues and of the library, and their reset | `Averages` |
| `TraceBuffer` | the buffer of the trace and its flushes | |
| `Lifecycle` | agios_init with its error paths, the thread's start and end, agios_exit, and again; the trace | `TraceBuffer` |
| `MC...` | values of the constants for TLC | the module of the name |
| `DataLemmas` | what the proofs need of numbers, averages, sums and sequences | `Averages` |
| `..._proofs` | theorems | the module of the name, `DataLemmas` |
| `Schedulers_proofs` | theorems about `Agios` that the places of the requests imply | `Agios_proofs`, which extends `RequestQueues_proofs` |

**StructureLocks.** One step is one lock, one unlock or one read of
`current_scheduler`.  `owner[s]` is the holder of a mutex.  A thread goes through
`Spin`, `Read`, `Lock`, `Check`, and `Undo` or the caller's work and `Leave`;
`Wanted(t)` is what it locks (`previous_needs_hashtable`), `WorksOn(t)` what it
then works on (`current_scheduler` again, as in `agios_add_request`).  `Init` is
the state `agios_init` leaves: its thread holds everything, and the AGIOS thread
unlocks it after it set the first scheduler.  A callback may call the library,
from the AGIOS thread.  MLF's trylock is a lock that may also not happen, which
the model has since `Serve` is a choice.

**RequestQueues.** Lists are sequences.  A virtual request is a record with its
parts in `subs`.  `include_in_aggregation`, `join_aggregations`,
`insert_aggregations`, `timeline_add_req` and `CancelEntry` follow the code
branch by branch.  A request has the fields the schedulers read: extent, number of
parts, `timestamp` and `sched_factor`.  `Int32` is signed arithmetic of `IntBits`
bits.

**AgiosCore.** The code between a call's lock and its unlock is one step, which
`AlwaysExclusive` justifies: it is alone on its structure.  Everything the code
does outside a mutex is a step of its own: the unlocked reads of
`current_reqnb` (`timeorder_test`, `SJF_test`, `WFQ_test`, `TWINS_test`) and
`current_filenb` (`SJF_shortcut`), every callback, the tests of the thread's
loop, and every line of SJF's scan.  Counters with their own mutex that are
updated inside a section change with it; the one case where a reader would see a
value in between is an add under NOOP, which raises and lowers `current_reqnb`
in one section, and `CheckQueued` has that case.  A request stands for the user
thread that adds it: `CallAdd` (the call), `Add` (its section), then
`agios_cancel_request` and `agios_release_request`.  `request_constructor` increments
`g_last_timestamp` without a mutex and then reads it, for a new request and for
a virtual one; `g_last_timestamp` of the model is the highest value it had, and
what a call reads may be any up to it, so that two calls may get the same.  `locals` holds the local
variables of the `schedule()` that runs.  `abort` is a failed `assert`: the
process is gone.  Allocation failures are not modelled.

**Timelines.** `multi_timeline` has the `max_queue_id + 1` queues `timeline_init`
makes, of which users fill the first `max_queue_id`; TWINS visits the extra one
as well, WFQ does not.  SW inserts by comparing with `sw_priority`, which nothing
assigns, so its place is any place.  WFQ's `credit` and `g_current_queue` are the
code's, `due` is a history variable: all the weight the turns of a queue gave it.
WFQ takes the mutex again after each callback, so `WFQ_pick` is one step and
control comes back to it.  TWINS compares the clock with the end of the window;
its model chooses the outcome at every look (`elapsed`), and whether the waiting
time it returns is positive.

**Waiting times.**  `waiting[f]` has the `waiting_time` of a file, and how long ago
`waiting_start` is; `Tick` lets time pass, in units of which
`config_waiting_time` is a small number.  As in the code, a visit subtracts the
time since a start it does not move, so what passed before is subtracted again.
`check_selection` decides whether the request that was found may go, and gives
back the new waiting time and the fields of the queue; `shifts` and `betters`
are history variables that count the waits it imposed since the last request.
MLF's trylock fails only when somebody may hold the mutex (`MayBeHeld`): a call
between its entry and its section, a release or a cancellation that may come.
aIOLi takes the mutex of a line three times for one selection: `aIOLi_scan`,
`aIOLi_check` and `aIOLi_drain` are its sections.  Three defects of the code are
in the model as they are.  aIOLi may read `sleeping_time` before it has set it;
`known` says when its value is determined, and before that either branch is
taken.  A queue selected by aIOLi may be emptied by a cancellation before the
second section, which takes the head of an empty list for a request
(`aIOLi_undefined`, an abort).  And `adjust_quantum` caps a number of bytes by
`MAX_AGGREG_SIZE`, which is a number of requests (16), so that the quantum of 8192
bytes a queue starts with shrinks to 16 after its first visit; `MaxAggreg` stands in
both places.  A queue is never selected if its oldest timestamp is not below `INT_MAX`;
no run has that many requests.

**Performance and Statistics** are modules of their own: the schedulers do not
read what they keep, and the histories they are checked against would multiply the
states of `Agios`.  That holds of `best_agg` too: its comment says "Used to help
deciding on waiting times" (`agios_request.h:51`), but MLF and aIOLi decide by
`lastaggregation` (`waiting_common.c:45`), which `WaitingCommon` has, and no code
reads `best_agg`.  Their actions are the sections of the calls that touch them.
A request passes through the same stages as in `AgiosCore`.  In `Performance` the
call, the sending and the release of a request and a change of algorithm each
read the clock, and no two readings agree: with equal readings a release divides
by zero (`agios_release_request.c:91`), and a request sent in the tick a period
starts counts for that period.  `chosenBy` and `measured` are history variables.
In `Statistics`, `CallAdd` reads the clock and `statistics_newreq` comes later,
under the mutex, so that requests are received in any order of their times; here
too no two readings of the clock agree.
`received`, `bandwidths` and `aggregations` are the history since the reset.

**Lifecycle and TraceBuffer.**  One user thread calls `agios_init` and
`agios_exit`; `inits` counts the calls.  A configuration file is what it makes the
code do: unreadable (the parameters stay as they are), with an unknown default or
starting algorithm (an error, before or after the default algorithm is in force), or
a choice of algorithm and trace.  `live` holds the global pointers
to allocated memory, `dangling` those to freed memory, since no code sets one to
NULL; `wrong` records a use of freed memory, a second free, a lost pointer or the close
of a file that is NULL.  `lost` records that `read_configuration_file` returned before
its `config_destroy`: what libconfig allocated has only a local variable that leads
to it, and is beyond `cleanup_agios`.  `cleanup_agios` frees what its callees free, each under its
own test (`NonNull`, a size, a flag of the configuration).  The AGIOS thread has
two steps here, since its loop is in `AgiosCore`: what it does up to the loop, which
ends with the mutexes unlocked, and its end.  If WFQ cannot read its weights the first
of them is `CrashAtStart` instead: the thread dereferences NULL and the process is gone.  A line of the trace is its request
and a length.  The buffer is a sequence up to its zero byte and an occupancy, two
things the code keeps apart: a flush prints up to the zero byte and resets the
occupancy alone.

**Refinements.** `StructureLocks` implements `StructureAccess` with `access[t]`
= the structure `t` is inside of.  `Agios` implements `RequestLife` with
`status[r]` computed from where the request is.

## 3. Runs

The runs of `MCAgios` have three requests (which only differ in their arguments, so
they are symmetric; runs with liveness do not use that, since TLC's symmetry is not
sound for it; `Waiting` takes one order of the requests, `OrderedSpec`, and so does `Live`
of those that have different offsets, `GapSpec`), two files, one per
hashtable line (one file in `Waiting`), two queue ids with weights 2 and 1, and a set of
arguments from which each request may take any.

| run | bounds | question |
|---|---|---|
| `StructureLocks` | SJF, MLF, TO as names; 2 users and callbacks, 2 lines, unbounded changes | right mutex, exclusion, lock order, no deadlock, refinement of `StructureAccess` |
| `Serve` | all nine algorithms | without cancellations: first come first served (TO), offset order (SJF), shares and credit (WFQ), contiguous lists, no failed assertion, every release accepted, no request lost or twice in a list, no deadlock |
| `Cancel` | TO-agg, SJF | conservation, counters, dispatch queues, virtual requests, what a cancellation removes, refinement of `RequestLife` |
| `Live` | NOOP, TO-agg, SJF, WFQ, TWINS; 2 requests may aggregate | under fairness: every request given back, `agios_exit` returns; aggregates within the limit |
| `Waiting` | MLF, aIOLi; one file, integers of 3 bits | under fairness: every request given back, whatever made its file wait; at most one wait for each reason |
| `Performance` | 3 requests, a history of 2 entries, no new period after time 8 | every release counted for its period, averages in range, the last periods kept |
| `Statistics` | 4 requests, 3 of them of one queue, 1 reset | averages of every queue, global counters |
| `Lifecycle` | 4 traced lines, a buffer of 5, one life, up to three calls of `agios_init` | the trace in order and inside its buffer, what the library points to freed once, the thread runs while the library is open if the scheduler can be initialised |

Why these bounds are enough.  Two files in two lines separate "the line", "the
file" and "the queue" in every counter, and let SJF's scan stop early.  Three
requests are the fewest with which an insertion joins two neighbours, a
cancellation leaves a virtual request virtual, and a hole can appear in the
middle.  `Contiguous` holds three extents that touch in every combination and one
that would touch them but belongs to another file; `WithEmpty` adds a request
for no bytes.  `MaxAggreg` is 3 in `Serve` and `Cancel`, where joins matter.  It is 2 in `Live`, where
the limit is met: the requests are of two files, in any mixture (`TwoFiles`), or one of
them fills the gap between two others (`Gap`), which would make three.  `ListCallback` is off in `Cancel`, so that a batch is
given back in several callbacks with other steps in between.  With weights 2 and
1 and lengths 1 and 2, one queue sends two requests in a turn and the other needs
two turns for one.  SW is not in `Live` since it runs the code of TO, and without
an order there is nothing more to show.  For the locks, two users and the AGIOS
thread are three contenders for a mutex, two lines are the fewest `lock_all` can
take in the wrong order, and two hashtable algorithms beside one timeline
algorithm give a change with and without a change of structure.  In `Performance`
two entries and a clock of 8 let a period be forgotten while two of its requests
are out, and every count of releases up to three.  In `Statistics` three requests
of one queue give two gaps of either sign on either side of a reset.  Only one
aggregation of a queue fits, so that the average against the best is left to the proof
(`AlwaysBestAggregation`; five requests of one queue are the fewest with two aggregations
of different size, in either order and on either side of a reset, and TLC agreed on
those once).  In `Waiting` three
requests at two places of one file with a gap give both reasons to wait (a request
beyond the predicted one, and one behind a larger aggregation); 3 bits make
`sched_factor` overflow and become zero, which it survives since the next visit
makes it 1; a waiting time of 2 ticks gives a wait that ends early and one that
is subtracted from twice.  In `Lifecycle` lines of 1, 2 and 3 in a buffer of 5 fill
it exactly, leave it one short and flush it with one line or several inside; three calls
allow an unknown algorithm, then a thread that cannot be created, then an
`agios_init` that waits for the mutexes.

`CHECK_DEADLOCK FALSE` is set where the system does stop: after an abort (`Cancel`
reaches SJF's failed assertion, and its properties hold up to it), after
`agios_exit` (`Live`, `Lifecycle`), and where every request of the instance is
released and nothing else may happen (`Performance`, `Statistics`).
`Lifecycle` also stops where the code does: an `agios_init` that follows a failed
`pthread_create` waits for mutexes its predecessor kept.

**Fairness** (`Fairness`).  `UserFairness` is weak fairness of a call already made and of the
release the AGIOS README demands; nobody has to add or cancel.  The thread gets
weak fairness of its own steps: it is a thread of the system, its mutexes are
held for finite sections, and its wait has a timeout.  Whether the wake-up is a
signal or the timeout makes no difference to what is checked, so `WakeUp` is
always enabled while it sleeps.  One step has strong fairness, TWINS's look at the
clock with the outcome that the window has elapsed: the thread comes back to it
again and again, and the clock goes on meanwhile.  `Tick` has weak fairness: the
clock goes on.  MLF's trylock needs none, since the code bounds how often it may fail
(`MAX_MLF_LOCK_TRIES`, 2 in the code).

**Expected violations.**  Four runs show that a statement of the repository
does not hold of the code.  Each is a finding with the quoted line.

| run | property | what happens |
|---|---|---|
| `CancelAborts` | `NoAbort` | a cancellation between `timeorder`'s unlocked loop test and its lock makes `assert(req)` fail; SJF alone and aIOLi alone, the other algorithms of the run, fail as well: the queue that was chosen is emptied before the second lock |
| `CancelOther` | `CancelsWhatWasNamed` | with the timeline another file's request is cancelled |
| `WindowOrder` | `WindowOrder` | SW's timeline is in no order of windows |
| `SecondLife` | `ServesWhileOpen` | nothing resets the stop flag that `agios_exit` sets: the thread of the next `agios_init` leaves its loop after one pass, and no request is served |

The passing runs about the same properties have the conditions under which they
do hold: `NoAbort` is checked without cancellations, `CancelsWhatWasNamed` with extents
no two files share, `ServesIfInitialized`, which is `ServesWhileOpen` for a scheduler that
can be initialised, with one life.

More statements fail with other constants.  TLC finds each with one change of a
configuration, named here, and the properties are checked and proved without it.

| change | property | what happens |
|---|---|---|
| `Serve`, a request for no bytes, alone | `NoAbort` | SJF's sanity check (`SJF.c:52`) fails, without any cancellation |
| `Serve` with `Cancellers = Reqs` | `ListsContiguous` | a part leaves the middle of a virtual request that still counts as contiguous, and the list callback gets a list with a hole (`agios_cancel_request.c:91`) |
| the same, extents (0,10), (5,10), (3,1), `MaxAggreg` 2 | `OffsetOrder` | a cancellation moves the offset of what is left of a virtual request, which stays where it is in the queue (`agios_cancel_request.c:98`) |
| `Cancel`, extents (0,4), (1,2), (2,4) | `CancelReaches` | `include_in_aggregation` takes the end of a virtual request from the last one only (`agios_add_request.c:192`), so that it is shorter than its parts and the search skips it; for the same reason `AggregatesHold` says nothing about ends |
| `Cancel` with WFQ or TWINS | `CancelReaches` | a cancellation searches `timeline` while the requests are in `multi_timeline`: it removes nothing and returns true (`agios_cancel_request.c:65`) |
| `Waiting`, one request of length 5, `IntBits = 4` | `EverySoonServed` | a request longer than the last product of `sched_factor` and the quantum before it overflows is never selected (`MLF.c:60`); with the code's quantum, one of more than 1 GiB that joins no other |
| `Lifecycle`, a file without weights | `ServesWhileOpen` | after an `agios_init` that succeeded: WFQ has no weights and the thread dereferences NULL before its loop (`agios_thread.c:78`) |
| `Lifecycle`, a file that asks for a trace and names an unknown algorithm | `FreedOnce` | the error path closes a trace that was never opened (`agios.c:28`) |
| `Lifecycle`, a file that cannot be read or names an unknown algorithm | `AllFreed` | the structure of libconfig is never destroyed (`agios_config.c:98`, `:113`, `:124`) |
| `Lifecycle`, two lives, `max_queue_id` 0 in the second | `FreedOnce` | nothing resets `multi_timeline_size`: the `multi_timeline` of the first life is freed again (`req_timeline.c:214`) |

And two calls may increment `g_last_timestamp` together and get the same "unique
identifier" (`agios_add_request.c:31`); the model lets them, and no property relies on it.

Two more things were seen with other constants.  The same extent twice in one queue is
an overlap as well, but takes four requests: with SJF and `MaxAggreg` 4, the extents (0,1), (1,2),
(3,1) and again (1,2), the twin included last makes the virtual request end before one
of its parts does (`CancelReaches`).  And with `SameExtent` and a timeline algorithm, the
cancellation of another file's request also lowers the counter of the wrong line
(`CountersAgree`).

`Lifecycle` has no file that makes `FreedOnce` fail in its one life: beside that of
the table this is a trace file that cannot be opened (`"fopen"` in `Failures`), and an
unreadable file after a call that failed (the strings freed there are freed again).
With `Again = TRUE` more fail than `SecondLife` shows: a trace (the buffer of the first
life is used after it was freed), more lives than the history has entries (nothing sets
its length back, so the first entry of such a life is freed as soon as it is made), and
an `agios_init` of a later life that fails with a trace, which closes the file of the
earlier one again (`TracedInOrder`).  A trace of no request prints the uninitialised
buffer; the property excepts it.  A buffer of size zero is outside the assumption: every
line would be written past its end.

**Mutants.**  Each property of each passing run has a mutant: an operator named
`<definition>_<what is wrong>` next to the definition it replaces, with a
plausible bug, under which TLC finds the property violated.

## 4. Proofs

Each holds for every value of the constants that satisfies the module's named
assumptions.

| module | theorem | statement |
|---|---|---|
| `StructureLocks_proofs` | `TypeCorrect` | `Spec => []TypeOK` |
| | `AlwaysAdequate` | `Spec => []AdequateLock` |
| | `AlwaysExclusive` | `Spec => []Exclusive` |
| | `AlwaysLockOrder` | `Spec => []LockOrder` |
| | `AlwaysStable` | `Spec => StableInside` |
| | `Implements` | `Spec => AccessSpec` |
| `DataLemmas` | `AverageBetween` | a step of the average stays between the old average and the value |
| | `SumUnion` | the sum over two disjoint finite sets is the sum of their sums |
| `RequestQueues_proofs` | `HashtableAdds` | `hashtable_add_req` leaves the old requests and the new one, each once |
| | `TimelineAdds` | the same of `timeline_add_req` |
| | `CancelLeaves` | `CancelEntry` takes out one request and leaves the others |
| `Agios_proofs` | `AlwaysPlaces` | `Spec => []Places` |
| | `NothingLost` | `Spec => []OnePlace` |
| | `LivesAsPromised` | `Spec => LifeSpec` |
| `Schedulers_proofs` | `AlwaysCounted` | `Spec => []Counted` |
| | `AlwaysCountersAgree` | `OneLineIsMeant`: `Spec => []CountersAgree` |
| | `NeverAborts` | `PlainCalls`: `Spec => []NoAbort` |
| | `CancelledWereNamed` | `Spec => []NamedOut` |
| | `CancelsTheirOwn` | `ExtentsNameOne`: `Spec => []CancelsWhatWasNamed` |
| | `NoSecondWait` | `Spec => []OneWaitForEachReason` |
| | `AlwaysAggregates` | `Spec => []AggregatesHold` |
| | `QueuesInOrder` | no cancellers: `Spec => []OffsetOrder` |
| | `NeverMoreThanShare` | `Spec => []NoMoreThanShare` |
| | `CreditIsForHead` | `Spec => []CreditForHead` |
| | `ServedInOrder` | `Spec => []FirstComeFirstServed` |
| | `NoReleaseRefused` | `Spec => []ReleaseAccepted` |
| | `DispatchHoldsOne` | `Spec => []DispatchAgrees` |
| | `ListsAreContiguous` | no cancellers: `Spec => []ListsContiguous` |
| | `CancellationsReach` | no WFQ, no TWINS: `Spec /\ ApartIfAggregated => CancelReaches` |
| | `TypeCorrect` | finite `Reqs`, `Files`: `Spec => []TypeOK` |
| `Performance_proofs` | `TypeCorrect` | `Spec => []TypeOK` |
| | `AlwaysProcessedAgrees` | `Spec => []ProcessedAgrees` |
| | `AlwaysLatestPeriods` | `Spec => []LatestPeriods` |
| | `AlwaysRightPeriod` | `Spec => []RightPeriod` |
| | `AlwaysAverageInRange` | `Spec => []AverageInRange` |
| `Statistics_proofs` | `TypeCorrect` | `Spec => []TypeOK` |
| | `AlwaysLocalAverages` | `Spec => []LocalAverages` |
| | `AlwaysLocalBandwidth` | `Spec => []LocalBandwidth` |
| | `AlwaysBestAggregation` | `Spec => []BestAggregation` |
| | `AlwaysGlobalAgrees` | `Spec => []GlobalAgrees` |
| `Lifecycle_proofs` | `AlwaysBufferFits` | `Spec => []BufferFits` |
| | `AlwaysTracedInOrder` | one life: `Spec => []TracedInOrder` |
| | `TracedInOrderUnlessWrong` | `Spec => [](~ wrong => TracedInOrder)` |
| | `AlwaysFreedOnce` | `GoodUse`: `Spec => []FreedOnce` |
| | `AlwaysAllFreed` | `GoodUse`, files that can be read and name known algorithms: `Spec => []AllFreed` |
| | `AlwaysServesIfInitialized` | one life: `Spec => []ServesIfInitialized` |
| | `AlwaysServes` | `GoodUse`: `Spec => []ServesWhileOpen` |

`StructureLocks_proofs`, `Performance_proofs` and `Statistics_proofs` have one inductive
invariant each, `IInv`, that implies their theorems; the others have several, since
their questions need different parts of the state.

**Data.**  The provers have no induction over data: the library's theorems about it
take an operator as a parameter.  `DataLemmas` uses sets instead.  A set of numbers
that is not empty has a least element, so a set that has 0 and every successor has
all of them; with the set of the lengths, or of the sizes, for which a statement
holds, this is induction for one statement.  That way it proves what the models
compute by recursion: sums over finite sets, and what is in a sequence of
sequences after they are put in a row.  `Paired(list, S, Fits)` says that a list and a
set match, one to one, each cell fitting its element; removing a cell and any element it
fits keeps them paired, which is all a search by extent can promise.

**StructureLocks.** Assumed: threads, mutex owners and algorithms are different
things; at least one line.  `AdequateLock` is not inductive: that a thread inside
holds the right mutex follows from what it found at `Check`, and stays true
because nobody changes the scheduler meanwhile.  `IInv` therefore says who owns
each mutex in every control state: a thread between `Lock` and `Undo` or `Leave`
owns what it wanted; the AGIOS thread owns a prefix of the mutexes while it locks
them, all while it switches, a suffix while it unlocks them; a thread inside
agrees with the scheduler in force.  With one owner per mutex, being inside and
the owner of everything exclude each other, which gives `Exclusive` and
`StableInside`; the prefix gives `LockOrder`.  The refinement maps `Check` (when
it succeeds) and `Serve` to `Enter`, `Leave` and `Served` to `Exit`, the writes of
the scheduler to `Switch`, and all else to stuttering.

**Averages** (in `DataLemmas`). The lemmas say what integer division may do to an average: it never
takes it past the old average or the new value, of whatever sign, so an average
in the range of its values stays in it with one more (`OneMoreValue`).

**Performance.** Assumed: lengths are natural numbers and the history has at least
one entry.  That a release finds its period is an argument about the past.
`Past` says that all recorded times lie before the clock, `Linked` that the
dispatch time of a sent request lies, among the starts of the kept periods, where
the start of its own period lies, and that a period which is not kept is older
than all that are.  `get_request_entry` then finds exactly the period that sent
the request, or nothing (`PeriodFound`), and `RightPeriod`, `ProcessedAgrees` and
`AverageInRange` follow.

**Statistics.** Assumed: every request has a queue, an offset and a length, and there
are finitely many queues.
`LastReceived` says that the time and offset a queue remembers are those of the
last request it received since the reset, if there was any, and that the counter
is the length of that history: so a new request adds one pair, and `n - 1` counts
the pairs.  `Counted` says that a counter is zero when its history is empty,
which makes the next average forget the `-1` a reset leaves.  `best_agg` outlives
a reset, and is at least every aggregation since.  `GlobalAgrees` is inductive with
it: a request raises one counter of one queue, which raises the sum over the queues
of its type by one and leaves the other sum (`SumUnion`), and a reset makes both zero.

**Lifecycle.**  Assumed: a line is shorter than the buffer, configurations are
records of their kind.  Three invariants, since the three questions need different
parts of the state.  `TraceInv`: while the file is open the occupancy tells whether the
buffer is worth printing (`Printable`); while it is not, everything is in the file
(`Complete`), for which an open file must belong to the current call (`OwnFile`) and
requests to one life (`OneLife`).  `Serving`: the flag is set by `agios_exit` alone, and the thread
crashes only if it could not initialise the scheduler.
`HeapInv` says for every place of the user's thread and of the AGIOS thread what is
allocated: nothing between calls (`Outside`), during a call and a life exactly the
strings, tables, buffers and scheduler data the configuration in force calls for
(`Inside`, `ThreadHeap`), and nothing dangling unless a call waits for ever for
mutexes that stay locked (`Stuck`).  It needs `GoodUse`, the named hypothesis of
`AlwaysFreedOnce`, `AlwaysServes` and `AlwaysAllFreed`: one life, trace files can be opened, weights are there, and only
the first file may be missing, or name an unknown algorithm if it asks for no
trace.  Each exception is one of the cases of section 3 in which the property fails.
`FreedOnce` is about what global pointers lead to; on the two paths the first file may
take, libconfig's structure is left behind, so `AlwaysAllFreed` has to exclude them.
`TracedInOrderUnlessWrong` covers the rest, any number of lives included.

**RequestQueues.**  No assumption but the types of the requests.  `ListOf(data, q)` is
what a list of queue `q` may be: simple requests with the data of their ids, and
virtual ones with two parts or more, all of that queue.  An insertion puts a request
in one place (`InsertAt`), or in the entry before it, or in the one behind it, or
in both and joins them; in each case the lists stay of this kind, no id comes twice,
and the ids are those that were there and the new one.  `CancelEntry` removes an
entry, a part, or the last part but one, which turns the entry into a simple request.

**Agios.**  Assumed: what the constants are, as the modules that declare them say.
`OnePlace` counts the places of a request and is not inductive: a step that moves a
batch says nothing about where the other requests are.  `Places` is: the types of the
lists (`ListTypes`), of the requests and the batches (`StateTypes`) and of what the
schedulers remember (`SchedulerTypes`); no two places share a request, and none has
one twice (`Apart`); together they have all that was added (`Complete`).  Each action
is first reduced to one of seven effects: nothing moves (`Still`), a request comes
into a list (`ComesIn`), passes through NOOP (`GoesPast`, `ComesBack`), is cancelled
(`Leaves`), a batch is selected (`Selects`) or given back (`Delivers`).  That each
effect keeps `Apart` and `Complete` is proved once for all algorithms.  The
refinement of `RequestLife` rests on it: `Status(r)` is a function of the place of
`r` (`StatusIsStage`), each effect changes it for the requests it moves as
`RequestLife` allows, and `Releases` says that only delivered requests are released.

**Counters.**  `Counted` says that what is kept per queue and per file, and the two
totals, are those of the waiting requests, with no hypothesis: step 1 and the
cancellations take the numbers from the requests themselves.  The counter of a
line is different.  A cancellation under a timeline algorithm lowers that of
the line it was called for, and may take another file's request, so the theorem
about all counters needs `OneLineIsMeant`: nobody cancels, or the algorithm looks
in the queue that was named, or requests with the same extent are of files of one
line.  `CancelsTheirOwn` has a similar hypothesis, `ExtentsNameOne`.  It follows from what
holds of every cancellation (`NamedOut`): what went out has the extent that was named.

**No failed assertion** (`NeverAborts`).  `Promise` says that what a scheduler saw outside
the mutex is still so when it comes back: the timeline, the queue SJF chose and the
one aIOLi selected are not empty.  Only the scheduler takes requests out, as long as
nobody cancels (`StaysFull`), and a counter that is positive means a request where
the scheduler looks (`Counted`, `OwnLists`).  A request without bytes breaks this
for SJF, which is why `PlainCalls` excludes it; both halves of the hypothesis are
necessary (section 3).

**Waiting times** (`NoSecondWait`).  `WaitsOnce` says why the second wait cannot come: the
first one sets the prediction, or the size of the last aggregation, to 0, and a wait
needs it positive.  It holds for any width of integers and any `sched_factor`.

**Queues.**  `Bounded` (no entry has more than `max_aggreg_size` requests) is kept by
insertion since every join looks at the sum, and by everything else since it takes
requests out.  `AggregatesHold` adds that a virtual request starts no later than its
parts.  `OffsetOrder` needs that nobody cancels: a
cancellation of the first part makes a virtual request start later where it stands.
TLC shows it with `MaxAggreg` 2 in a queue with the extents (0,10), (5,10)
and (3,1), which none of the configurations has.

**Contiguous lists** (`ListsAreContiguous`).  That the requests of an entry leave no gap is
not inductive: the code compares extents of entries, not of requests.  `NoGap` adds that
an entry starts where one of its requests starts and ends where one of them ends.  The end
is not that of the request that ends last, since `include_in_aggregation` takes it from the
request it adds, but it is reached: two entries that pass `CHECK_AGGREGATE` leave no gap
together (`TouchingChained`).  `GivenTogether` carries this from the lists through
`info_list` to the callbacks; with `ListCallback = FALSE` each gets one request.  A
cancellation may take a request out of the middle, hence the hypothesis.

**Cancellations find** (`CancellationsReach`).  The search goes by the extents of entries,
so it finds a request if its entry covers it, and if no entry is taken for its
place that is not.  `SolidLists` says both: the parts of an entry follow one another
from its start to its end, and of the requests that nobody took out none lies where an
entry is that does not hold it.  The second half is why the first is kept after a
cancellation in the middle: the request that was there may not come back, so that a
request that touches an entry touches one end of it, and the end that
`include_in_aggregation` takes from it is right.  Both hypotheses are needed (section 3):
with WFQ and TWINS the search looks in another list than the requests are in, and
requests that overlap make entries shorter than their parts.  `ApartIfAggregated` asks
for it only where `max_aggreg_size` allows virtual requests at all.

**Types** (`TypeCorrect`).  Most of `TypeOK` of `AgiosCore` follows from the invariants above:
the counters are between 0 and the numbers of requests and files since they count requests
that wait, and a batch is no longer than all requests together since it has none
twice.  New is `Typed`: no timestamp exceeds the number of requests constructed so far, one
by every call of `agios_add_request` and at most one virtual one by the section of each,
although a call may write an older one again, and the thread goes to no other
place.  `Reqs` and `Files` have to be finite for their `Cardinality` to be a number.

**Shares** (`NeverMoreThanShare`, `CreditIsForHead`).  `Purse(i)` is what queue `i` may still
send, the credit between its turns and the amount during one.  Bytes that went out
and purse together are at most `due[i]`, whatever is cancelled in between.  Credit
for the head (`ForHead`) holds since a turn ends with a request that is longer than
what is left, or with an empty queue and no credit; without cancellations in
`multi_timeline` nothing changes a head but the scheduler.

**Order** (`ServedInOrder`).  `InLine` says where the requests that came before one may be:
not behind it in its list, and nowhere in the lists once it was selected, or given
back.  TO, WFQ and TWINS take the head of a list, one request at a time, and what came
earlier in order with it is in the same list.

**Releases** (`NoReleaseRefused`, `DispatchHoldsOne`).  `agios_release_request` takes the
first record of the dispatch queue with the offset and length it was given, which may
be the record of another request of that extent.  `Recorded` says what is true in spite of
it: the requests that went out and were not released are paired with the records of
their queue, each with one of its own extent.  Step 1 adds a record for each part of the
virtual requests it selects (`BatchRecorded`, from `Processes`, which `Agios_proofs` proves
of every scheduler), NOOP one for the request it lets pass, and a release takes out a record
and a request with its extent, whosever record it was (`RecordedKept`).  So each request
that was given back has a record of its extent as long as it is not released, and the
queue is as long as their number.

Model-checked only: liveness (`EverySoonServed`, `ExitReturns`), which is out of TLAPS's
reach, and the absence of deadlock where a run checks it (`StructureLocks`, `Serve`,
`Waiting`), which needs `ENABLED`.

## 5. Not modelled, and the plan

- **Migration.**  What `change_selected_alg` does to the requests (moving them
  between the structures, nesting virtual requests in virtual ones, reordering the
  timeline) is reached only if the current scheduler `is_dynamic`, or if a dynamic one
  was chosen at the start, and no entry of `io_schedulers` is.  Its locking is in
  `StructureLocks` all the same, since every call pays for it.  For the same reason
  `process_requests_step2` always answers false in `AgiosCore`, and the callbacks
  that `waiting_common.c:92` would skip after a true one are never skipped.
- **Lists and hash function.**  Lists are sequences and the hash function is the
  constant `LineOf`; the pointers and the arithmetic are not modelled.
- **Reading the configuration.**  What libconfig finds is I/O.  The parameters of
  keys that are missing, which the code takes from the previous lookup, are listed
  as a hazard without a property.
- **Sleeping.**  The thread mixes units and relative and absolute times
  (`agios_thread.c:115`, `:148`), so every sleep of the model may end at any time.
- **Arithmetic.**  Only the product of factor and quantum, and the factor itself,
  have a width in the model: they overflow in normal use.  `used * 100` in aIOLi's
  `adjust_quantum`, offsets, times and counters are unbounded.
- Out for good: formatting traces and debug output, memory exhaustion, and the test
  program, which is one user of the library.
