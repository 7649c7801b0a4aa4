# TLA+ models of the MPI test suite

This directory holds a formal model of `mpi_test_suite`: TLA+ modules that
translate its C code, TLC configurations that check them on small instances, and
proofs, checked by TLAPS, that hold for every size. `PROJECT.json` lists the
components, the runs, the lines of the source each definition stands for, and
the hazards of the code with the properties that cover them.

Checking a run: `tlc -config <name>.cfg <module>`, with the module that
`PROJECT.json` names for it; checking the proofs: `tlapm <module>.tla` for
`ThreadDispatchProofs`, `ThreadSignalProofs`, `FailureLogProofs`,
`PartitionedRingProofs`, `SelectionProofs`, `SuiteRunProofs`, `StoreRunProofs` and
`StoreOutlineProofs`.

## 1. The system

The suite is a program every process of an MPI job executes. It builds three
lists (tests, communicators, datatypes) from its options and a fourth of numbers
of values, and runs every test on every combination of the other three. A test
is three functions, init, run and cleanup. Built with thread support, each
process has worker threads that execute the same functions at the same time. A
test finds a failure of the MPI library by comparing what it received with what
it knows was sent.

| Component | State | Operations | Interacts with |
|---|---|---|---|
| Thread framework (`tst_threads.c`) | `cmd`, `cmd_count`, `working`, two mutexes with their conditions, per worker the assigned functions and a state | create and end workers; assign tests (all, one, reset); execute init, run, cleanup; dispatcher, `worker_done`, `worker_barrier` | called by the test loop, calls the tests |
| Signals (`tst_threads.c`) | per tag a mutex, a condition and a state; one counter for all tags | init, wait, send, cleanup | called by threaded tests |
| Global requests and buffer (`tst_threads.c`) | an array of requests; a buffer and its size, by which the workers learn that it is there | allocate, get, release; init, get, size, cleanup | called by partitioned tests |
| List of failed tests (`tst_tests.c`) | array of combinations, their number | record, count, print | called by all tests, in all threads |
| Selection (`mpi_test_suite.c`, `tst_tests.c`, `tst_comm.c`, `tst_types.c`) | three arrays and their lengths | "all", select and deselect a class or an entry, number, compress | its result is what the test loop executes |
| Test loop (`mpi_test_suite.c`, `tst_tests.c`) | four loop indices, the environment of a test | check whether to run, synchronise, compute tags, call the functions | everything |
| Communicators (`tst_comm.c`) | the registered communicators, one copy per thread | register, initialise, query | tests, selection |
| Datatypes and standard values (`tst_types.c`) | the registered datatypes | allocate, set, compare, check values | tests |
| Point-to-point tests (`p2p/`) | buffers, requests of one combination | 26 registered tests | MPI, communicators, failures |
| Threaded tests (`threaded/`) | as above, and static data shared by the threads | 8 tests | MPI, signals, global requests |
| Collective tests (`coll/`) | buffers of one combination | 18 tests | MPI, values |
| One-sided tests (`one-sided/`) | a window from init to cleanup, epochs | 12 tests | MPI, values |
| File tests (`io/`) | files, individual and shared pointers, views | 41 tests | MPI, values, `tst_file.c` |
| Dynamic process tests (`dynamic/`) | ports, inter-communicators | 3 tests | MPI, programs that are spawned |
| Environment tests (`env/`) | none | 5 tests, a few calls of MPI each | MPI |
| Output (`tst_output.c`) | log files and levels | init, print, close | everything |
| Command line (generated) | the options | parse | selection |

What is hard about it, and hard to test, for the suite is itself the test:

* **Threads.** The framework writes shared data under one lock and reads it
  under another, and in places writes it under none: `tst_thread_assign_all`
  changes the assignments of workers that look at them, `tst_thread_execute_run`
  sets `working` without `working_mutex`. That this is right depends on where
  each worker can be at that time.
* **Order of messages.** Consecutive tests on the same communicator use tags
  that are close or equal. Some are separated by a barrier and some are not. A
  failure the suite reports is only worth something if a correct MPI library
  never causes it.
* **Progress.** A correct library may buffer a standard send or not, and let an
  epoch start before the window is posted or not; a test must not deadlock in
  either case, nor may it when somebody is slow.
* **When data move.** Between the call that starts an access to a window or a
  file and the one that must wait for it, the data may move at any time. A test
  that looks too early blames a correct library; one that has the data in its
  buffer anyway, or throws the result of its comparison away, blames none.
* **Sequences of legal options.** `-t all,^a,^b` works on an array with holes
  through functions that assume that there are none.

What makes each component correct, in one sentence: the framework executes every
function once in every thread, in lock step; a signal wait returns after its
send, and does return; no failure is lost and none is invented; what is executed
is what was asked for; on a library that conforms to MPI all tests complete, none
fails, and none leaves anything behind.

## 2. The modules

    LockStep  <==refined by==  ThreadDispatch  <--EXTENDS--  ThreadApi
                                                                ^
                                                                +-- ThreadDispatchProofs

    ThreadSignal <- MCThreadSignal     FailureLog             Selection <- MCSelection
       ^                                  ^                      ^
       +-- ThreadSignalProofs             +-- FailureLogProofs   +-- SelectionProofs

    Communicators <- PartitionedRing <- MCPartitionedRing
                        ^
                        +-- PartitionedRingProofs

    Communicators <- P2PTests <- DynamicTests <- SuiteRun <- MCSuiteRun, SuiteRunProofs
                                                    |
                                                    +--INSTANCE--> MpiMachine

    Values, Communicators <- StoreCalls <- CollTests <- OneSidedTests <- FileTests
                                                                           ^
     StoreOutlineProofs -> StoreRunProofs                                  |
                                |                                          |
                                v                                          |
      StoreExecution -> FileOutline -> StoreOutline -> StoreRun -----------+
            ^                                              |
            +-- MCStoreRun               Values <- StoreMachine <--INSTANCE

`MC...` modules give constants that are too large for a `.cfg` their values.
Where a definition has a name such as `PostSilently` and stands before `Post`, it
is a fault: what `Post` would be without its broadcast. Each property of each
passing run is violated when one such fault replaces the definition.

### ThreadDispatch, LockStep, ThreadApi

`LockStep` is what the framework promises: the steps of an execution (init, run,
cleanup of the first test, init of the second, ...) are announced one by one,
every thread executes every step once, and none begins one before all have ended
its predecessor.

`ThreadDispatch` is the code, with the loop of `main` as its client. A mutex is
the thread that owns it, a condition variable is the set of threads blocked on
it. `pc` says where a thread is:

| worker at | in the code | master at | in the code |
|---|---|---|---|
| `unborn` | before `pthread_create` | `spawn` | `tst_thread_init` |
| `lock` | before line 78 | `loop` | between two iterations of `main` |
| `test` | the loop of line 79, `cmd_mutex` held | `assign`, `assigned` | `tst_thread_assign_all` |
| `wait` | in `pthread_cond_wait` | `post`, `body`, `posted` | `tst_thread_execute_*`, up to the unlock of `cmd_mutex` |
| `taken`, `call` | line 91 on, and inside a test function | `func` | in its own test function |
| `done`, `dec`, `unlock` | `worker_done` | `barrier`, `check` | `worker_barrier` |

A critical section is one step where nothing but the data of its lock is touched;
the acquisition of `cmd_mutex` by the master and the write of `working` are kept
apart, since that write is the one made under the wrong lock. `ThreadApi` adds
the functions `main` does not use: `assign_reset`, `assign_one`, and
`tst_thread_cleanup` with its FINALIZE command. Its client may also ask for what
`assign_one` refuses: a worker that has a test already, or a number that is no
worker's.

### ThreadSignal

Threads execute scripts of waits and sends. The counter of waiting threads is
loaded and stored in separate steps, for the mutexes of two tags do not exclude
each other.

### FailureLog

`tst_test_recordfailure`, one step per access of the shared data: each iteration
of the search, the decision behind it, the write of each of the four fields of
an entry, load and store of the increment, the test of the limit. A set of
threads records failures of the combination `main` executes. Entries behind the
array are kept in the model, so that it can tell that they were written. Those of
the array start with anything, for it comes from `malloc`: an entry may name a
combination that nobody has recorded, and must not be mistaken for a record of it.

### Selection

One module for the three lists; `usage.kind` says which. A step reads a token, or
is an iteration of a loop that it has entered: `SelectNext` and `DeselectNext` are
those the functions share, `CompressNext` that of `tst_array_compress`. The
differences between the functions are parameters: in how many entries they search
(`Bound`), what they compare the result with (`Missed`), when they report too many
(`TooMany`). `wanted` is a history variable: the set the tokens ask for when they
are applied in order, as the README of the suite says they are. `OrderlyUsage` are
the uses of an option for which the code does what it is asked for.

### MpiMachine, P2PTests, DynamicTests, Communicators, SuiteRun

`MpiMachine` is the part of MPI the tests use, and is external: channels between
pairs of processes that keep the order of messages that match the same receive,
matching by source, tag and context, standard sends that complete early or do
not, synchronous, buffered and ready sends, probes, cancellation, barriers, and
the names of ports. An actor is a thread of a process; its program is a sequence of
operations.

`P2PTests` gives the operations of the three functions of every registered test
of `p2p/` and of the threaded ring, `DynamicTests` those of
`tst_establish_communication.c`, `Communicators` the groups, topologies and
classes of the registered communicators, and `SuiteRun` the loop of `main`, which
puts the programs together: which combinations are run, their tags and hash
values, the barriers, and the steps in which the threads of a process go (what
`ThreadDispatch` is proved to provide). The check of received data becomes a
comparison of the combination the message was sent in with the one it is
received in. A selection with `threads = 0` is a build without threads; a build
with threads refuses to run without any (`mpi_test_suite.c:394`), and there the
barrier behind a test is never reached, see section 4.

What a program must be like for the theorems is stated of the program alone, at the
end of `SuiteRun`: `Direct` programs name the source of every receive and do not
probe or cancel; in `Paired` ones each send has a `Counterpart`, the receive of the
same run with the same number among those it could be mistaken for, and two threads
of a process do not share an envelope; `Exchanges`, `Plain` and `Waited` say which
operations there are and that every request is waited for.

In `DynamicTests` accept and connect are a meeting of the server and all its
clients, and so is disconnect; to look up a name that nobody has published is a
fault, and a name that is left when all is over violates `NothingLeft`. Of the
`MPI_Allgather` in front only the synchronisation is modelled, not the names, whose
buffers overlap; `MPI_Comm_create` need not wait for anybody and is no step. The test
ignores the result of its comparison. The models do not: data of another run would be
a fault here too, which is more than the test claims.

### Values, StoreMachine, StoreCalls, CollTests, OneSidedTests, FileTests, StoreRun

These are the tests in which data move otherwise than by messages, and here the
data themselves are modelled. `Values` has the datatypes as the kind and the
limits of their components, `tst_type_setvalue`, the standard arrays and the
operations of reductions: numbers that do not fit are replaced by the limit or
converted with the width of the C type; `FLT_MIN`, which lies between 0 and 1,
is half a unit. Reductions are of the numbers and, as MPI-2 has it, of unsigned
characters. Of an array, a selection of elements is looked at.

`StoreMachine` is external: collective operations as contributions that are given
and taken, windows with fences, posts and starts, locks, files with individual
and shared pointers. An access to a window or a file is a transfer that is
performed at any time up to the call that must wait for it. A process that reads
a file which is not atomic gets what is there now or what was there at its last
sync. The library is sound, or it is faulty: then it once loses a transfer, or
moves the data of another process or to another place. `StoreCalls` has the
calls that all tests make, the next three modules a program for each test of the
table, `StoreRun` the table and the loop of `main`.

`StoreRun` ends with what a process must do by itself, which TLC checks of every
program and the theorems assume. `Held(pr, p, n)` is what process p has taken and not
given back when n of its operations are over: buffers, windows, locks, exposures,
open files, the file it is to delete, and transfers that no call has ended. In
`Orderly` programs a process frees and opens only in accordance with what it holds;
`Tidy` ones hold no more than two buffers at their end; in `Collected` ones what is
given to a process is given once and collected there.

### StoreOutline, FileOutline, StoreExecution

What a process can rely on although the others go on meanwhile. An outline of a
set of programs says for each process p and each n what is known when p has
executed n operations: how often each group has met (`clock`), which of its slots
are windows, and of some slots the content: the accesses whose data may still come
(`from`), and the array for each set of those that have (`value`). Of the files it
says the same (`cells`: a place, the size or the shared pointer of a file, as far as p
knows it), which file p has open and where its pointer is (`file`), what p has seen
of it at its last sync (`seen`), and at which position an access begins (`start`).
`Outlined(pr, o)` says that o follows from the programs, and each part of it is about
one operation of one process; those about slots are in `StoreOutline`:

* `Advances`: the operations in which a group meets advance its clock;
* `Follows`: a slot that is known after an operation was known before, or is what
  this operation writes; where all that was to come has come, something else may;
* `Brings`: while an access can be under way, its target awaits it or is unknown,
  and its source is known and does not change;
* `Fits`: what it accesses is a window, and no conflicting access can be under way;
* `Uses`: what is sent is known, and what is compared is known and is as expected.

Those about files, in `FileOutline`, differ in what a file is: all share it.

* `FollowsCell`: as `Follows`, but what one knows all those learn who meet it, and they
  may know what an operation changes (`SetsCell`: opening, deleting, setting the size,
  moving the shared pointer);
* `Undisturbed`, `Agreed`: such an operation changes nothing that a process knows
  which does not take part, and those that do make the same call;
* `Handles`, `Sees`, `Starts`: the pointer, what is seen, and where an access begins;
* `WritesFile`: what is written is in the buffer as long as the write is under way,
  and all who know a place that it touches expect it there;
* `ReadsFile`: as long as a read is under way its places are known, nothing is to come
  there, and, unless the file is atomic, the process has seen them.

The outlines are found by one execution of each program (`OutlineOf` in
`StoreExecution`) and are then checked: nothing is concluded from how they were found.

`Meanwhile` says which places of two processes can coincide: those where all the
groups that both belong to have met as often. Where an operation is one of a
process alone, nobody else is looked at.

Assumed of MPI: opening and closing a file, setting its size, creating and
freeing a window, and a fence synchronise the group; `MPI_Win_start` waits for
the post (the one of two allowed implementations that can deadlock); an ordered
access is one step of the group; a collective operation synchronises only as its
data require. The broadcast of a file's name is part of opening it.

The tests of files compare positions where the code does: `io_with_arrange`, in its
init function, in a world of an even size only; `iread_shared` the shared position, and
not the one of the process. Views (`MPI_File_get_view`) and infos
(`MPI_File_get_info`) are what they were set to, and comparing them is no step.

### PartitionedRing

`tst_threaded_ring_partitioned.c` and `..._many_to_one.c`, with the functions of
`tst_threads.c` for the global requests and the global buffer, which nobody else
uses. Memory has the number of the run that allocated it: `requests`, `buffer`
and `size` are the globals, `bufferOf` and `requestsOf` the pointers each thread
has taken in its init function. The master stores address and size in two steps,
and the workers wait for the size without a lock. `signal` are the states of the
signals, `barrier` the number of threads `thread_barrier` was made for, `readied`,
`taken`, `network` and `arrived` the way of a partition through the library,
which takes it out of the send buffer now or later. What `malloc` returns is
`Unset`. Threads begin a function together, as `ThreadDispatch` is proved to
make them; processes do not, for the tests are not synchronised.

The two stores of `tst_thread_global_buffer_init` are taken in the order of the
program: with a compiler or a machine that exchanges them, a worker may take the
address of memory that is freed. The number of workers is a multiple of
the ratio, and there is at least one value: with two or three workers and a
ratio that does not divide them some wait for a signal nobody sends, and with
`-n 0` the size waited for is that of no buffer. Neither requests
(`MPI_Request_free`) nor signals are freed by these tests.

## 3. Runs that pass

| Run | Instance | Shows |
|---|---|---|
| `ThreadDispatch` | 3 workers, 2 tests, 1 spurious wakeup | `TypeOK`; `PhaseExclusion`: no two threads in functions of different tests or phases; `WorkingCounts`: the counter is exact; `NoDataRace`: the writes without a lock meet nobody; `NoLostWakeup`; `ImplementsLockStep`: refinement; `AllStepsExecuted`: liveness |
| `ThreadApi` | 2 workers, 2 rounds, 1 spurious wakeup | `PhaseExclusion` with assignments to single workers, `ClientReturns`: the client and the shutdown return |
| `ThreadSignal` | 4 threads, 4 tags, four scripts | `TypeOK`, `WaitAfterSend`: no wait returns before a send of its tag; `Ends`: all waits return, or a bad tag ends the process |
| `FailureLog` | 1 or 2 threads, 3 combinations, limit 2 | `TypeOK`, `EveryFailureListed` for both teams, `ExactIfAlone`: with one thread no duplicates, no entry that did not fail, nothing behind the array |
| `Selection` | 4 entries, 3 classes, 4 tokens | `TypeOK`, `SelectedAsAsked`, `ListedOnce`, `NeverNegative` for all sequences of the orderly uses |
| `Suite` | 3 processes, without threads; threaded ring and buffered sends with 1 worker each | `TypeOK`; `NoFalseFailure`: every message is received in the combination it was sent in; `NothingLeft`: no message, request or published name; `Completes`, for every point-to-point test and the connections of server and clients |
| `Storage` | 3 processes in groups of 1, 2 and 3; a sound and a faulty library | `TypeOK`; `NoFalseFailure`: a sound library is not blamed, whatever it delays; `ChecksAgree`: nor would it be by the comparisons whose result is thrown away; `FaultNoticed`: a transfer that is lost or misplaced once is reported; `NothingLeft`: no buffer, window, lock or file; `Completes`, for the collective, one-sided and file tests |
| `Partitioned` | 3 processes with 1, 2 and 4 workers, ratios 1, 2 and 4 | `TypeOK`; `NoFalseFailure`: no memory of another run is used, no signal goes astray, the check finds the array of the root; `Carried`: after the wait for the requests every partition has arrived; `Completes` |

Why the bounds are enough to make the cases happen. Two tests are needed for
`assign_all` to race with a worker of the test before, three workers for one to
be late while another is early. Two threads suffice for every race in
`FailureLog`; the limit of 2 is reached by three combinations. Four entries, of
which one class holds the first and the last, make holes in the middle and at the
end of the list, and four tokens fill it again. Three processes are the smallest
number for a message of a third process to be mistaken. In `Suite`, tests are
executed with two numbers of values, hence twice in a row, and in mixed lists with
others in between. In `Storage` the elements that are looked at are the second and
the third, the first whose standard values depend on the rank, and for the
conversions those at the limits of a type (126 and 32766). `Partitioned` has one
run alone with a receive partition of four threads, and two runs in a row with the
same and with different numbers of values, on communicators where the root is
another process, and where each process is the root of its own. The bounds are the
constants `MaxSpurious`, `Calls` and `MaxTokens`, which appear in guards, and
`MaxThreads`, `MaxWorkers` and `MaxValues`, which bound the selections.

In the run `ThreadApi` every worker gets a test (`Partial = FALSE`) and the
client assigns at least one before it shuts down (`Untested = FALSE`). With either
set to TRUE `ClientReturns` fails: `tst_thread_execute_run` sets `working` to the
number of all workers whichever were given work, and a worker without a function
never looks at FINALIZE, so `pthread_join` does not return. No client in the
repository does either.

Three runs evaluate what the theorems of section 5 assume. `Selection`: the uses it
is run with are in `OrderlyUsage` (`OrderlyAssumption`). `Suite`
(`PairingAssumption`): the programs of its selections of one test that receives from
no wildcard source and cancels nothing are `Direct` and `Paired`; all of them but
those with buffered sends and ports are `Exchanges` and `Waited`; all of these but
those with ready sends are `Plain`. Lists of several tests are left out, since the
tags a thread uses in one test may be those of another thread in the next. `Storage`
(`CallsAssumption`): all programs but those of `io_commself`, where a process opens a
file without the one that deletes it, are `Orderly`, `Tidy` and `Collected`, and they
have an outline (`OutlineAssumption`).

The orderly uses of `Selection` are: a list of names with at most one exclusion
at its end; any number of excluded classes of tests; names, classes and numbers
without exclusions. A behaviour that ends in an error of the suite ("Too many",
a name that is not known) or in an access behind the array ends the model with a
status of its own; `all,3` is one of the latter, and to select exactly as many
tests as there are is one of the former (`tst_tests.c:1601`). `SelectedAsAsked`
looks at the set that is executed; that `num_comms` is overwritten with the number
of registered communicators (`mpi_test_suite.c:401`), so that a selected one may
be executed again from a stale entry, does not change this set.

What the run `Storage` does not claim:

* `FaultNoticed` is checked for the tests that can notice. The others cannot:
  allgather, the sums and every test that writes a file throw the result of the
  comparison away; alltoall compares the buffer it has sent; bcast and scatterv
  set the receive buffer of every process to the data that are to come; minima and
  maxima combine the data with others that hide them.
* `asyncio_atomic` is in the table but in no selection, since `NoFalseFailure` does
  not hold with it: its barrier comes before the wait for the write.
* `NothingLeft` excludes two leaks by name: the array of buffers of `get_fence`, and
  the value `alltoall` compares with.

Deadlock is checked in all runs: every module has a step for its end.

### Fairness

`ThreadDispatch`, `ThreadApi` and `ThreadSignal` assume weak fairness of each
thread: the scheduler starves nobody, a mutex that stays free is obtained by a
thread that wants it, and the test functions return. No fairness is assumed for
spurious wakeups. `SuiteRun`, `StoreRun` and `PartitionedRing` assume only that
something happens as long as something can (`WF_vars(Next)`): the programs of the
processes are finite, what a library may still do for them is too, and a thread
that polls is one that waits, so no behaviour goes on for ever while somebody is
left behind.

## 4. Runs that show a disagreement

| Run | Violated | What happens |
|---|---|---|
| `SignalCleanup` | `CleanupSucceeds` | `tst_thread_signals_count` is changed under the mutex of the caller's tag: the waits of two tags lose an update, and `tst_thread_signal_cleanup` ends the program although nobody waits. |
| `SelectionExcluded` | `SelectedAsAsked` | A second excluded test, or an excluded class of communicators or types, stays selected or an entry that was not named goes. |
| `SuiteUnsynchronised` | `NoFalseFailure` | With threads the barrier behind a test is the else branch of `if (num_threads > 0)`: a probe of any source finds a message of the next test. |
| `SuiteManyToOne` | `NoFalseFailure` | Many-to-one relies on a hash for what it calls synchronisation; the hash does not contain the number of values, and with `-n 1,2` a fast process is counted twice. |

`FailureLog` with two threads also lists a failure twice (both find it missing,
both append it), steps over its limit, and tears entries; the passing run claims
`ExactIfAlone` for one thread only. A signal with two waiters and one send leaves
one blocked, since `pthread_cond_signal` wakes one thread; the scripts of the run
have a send per waiter, as the tests have.

## 5. Proofs

All theorems hold for every value of the constants that satisfies the named
assumptions of the modules. TLC evaluates those assumptions in the runs, and has
checked the inductive invariants on the instances of the runs.

### ThreadDispatchProofs

For any number N > 0 of workers, any number of tests and of spurious wakeups
(`NAssumption`, `TestsAssumption`, `SpuriousAssumption`):

* `Invariance`: `Spec => []IInv`;
* `TypeCorrectness`, `Exclusion`, `CountCorrectness`, `RaceFreedom`,
  `WakeupsKept`: the five safety properties of the run;
* `Refinement`: `Spec => ImplementsLockStep`.

None of the properties is inductive. `WorkingCounts`, say, is kept by the step in
which a worker decrements only if that worker is one of those that still count,
and by the step in which the master sets `working` only if no worker is about to
decrement it. `IInv` is a conjunction of four parts:

* `TypeOK`;
* `MutexInv`: who owns a mutex is at one of the places between its lock and its
  unlock, and vice versa;
* `WorkerInv`: a worker lags behind `cmd_count` only between announcement and
  barrier, by one, and before it has taken the command; it is executing or
  counting itself out only then, with the command announced last; a worker in the
  condition's set is waiting and has nothing to do;
* `MasterInv`: the place of the master fixes the number of the last command, the
  assignment of the workers, and that `working` is the number of outstanding
  workers.

There is one lemma per action, with one step per part of the invariant. The step
that matters is `LeaveBarrierInv`: `working` is 0, hence the set of outstanding
workers has no element, hence all have executed the command, which is what the
next `assign_all` and the next write of `working` rely on. For the refinement each
action is shown to be `Advance`, `Begin` or `End` of `LockStep`, or to change
neither the announced step nor what any thread is executing or has executed.

`NoThreadAhead`, of the dispatcher: no two threads are ever in different steps, and none
is ahead of what is announced. It is proved of `LockStep` and carried over by the
refinement; `StepInv` adds to it what a step preserves: a thread has ended all steps
before the announced one.

`ApiExclusion` is `PhaseExclusion` of `ThreadApi`, hence whatever tests a client assigns
to which workers, in whatever order, also if it leaves some without a test or shuts
down early. Here the place of the master does not fix the number of the command,
and `working` not the number of workers that are behind. What holds instead is
`ApiInv`: `working` is the number of the workers `Owed` has, those which were given a test
and have not counted themselves out, and in the run and cleanup phases those which
were given none, too. The latter never count themselves out. So a client that gets past
the run functions has given all workers a test, and none of them is behind when tests
are assigned again; and one that has not stays at the barrier for ever, which is
what `ClientReturns` shows with `Partial = TRUE`.

### ThreadSignalProofs

For any threads, tags and scripts (`SignalAssumption`): `SignalTypes`;
`WaitReturnsAfterSend`; and `MutualExclusion`, that two threads are never both
between the lock and the unlock of one tag. The last says which of the lost
updates of `tst_thread_signals_count` (run `SignalCleanup`) there are: only those of
different tags. The invariant is `OwnerInv`, who is at the places between lock and
unlock owns the mutex, and `StateInv`, the state of a tag is GOON only after a send,
and a thread that leaves a wait has seen it.

### FailureLogProofs

For any number of threads, of combinations and any limit (`FailureAssumption`):

* `LogTypes`;
* `NoFailureLost`: each thread that has recorded the current combination finds it in
  the list, however many do so at the same time. The hard case is an entry that is
  overwritten by another thread while it is torn. `BaseInv` settles it: let b be the
  number of entries when the combination began; then every write since has been
  behind b, the number never returns to b once a thread has incremented it, and the
  entry at b is that of the combination, for all that write there write the same;
* `ExactForOneThread`: with one thread, no duplicates, no entry that did not fail,
  nothing behind the array. `AloneInv` is the invariant of that case.

### PartitionedRingProofs

For any number of processes and workers, any sequence of runs of either test on
the communicators of the module, and any ratio that divides the number of workers
(`WorldSizeAssumption`, `PlanAssumption`): `RingInvariance`, `NobodyBlamed`
(`NoFalseFailure`), `EverythingCarried` (`Carried`) and `RingTypes` (`TypeOK`). None
is inductive: that the check finds the array of the root depends on where every
thread of every process is. The invariant is, for each process,

* `PlaceInv`: in which function and at which places its threads may be, given the
  place of the master;
* `GlobalInv`: how far the master has set up requests, buffer and size, and that a
  thread past init holds the addresses of this run;
* `SendInv`, `RecvInv`: a partition that is marked ready, taken by the library,
  arrived or copied holds the value of the root;
* `SignalInv`: a signal is given only to a partner whose receive partition has
  arrived;

together with `NetworkInv`, partitions under way are of the root's array, and that
no fault has happened. Three steps carry the proof. `TakeBuffer`: a worker that
finds the size not 0 takes the address of this run, since both are reset before
the next. `Release` and `AwaitRelease`: the threads that are signalled are those
whose send partitions the arrived receive partition covers, which is where
the ratio must divide the number of workers. `Gate` and `Exit`: as many threads as
the barrier counts have arrived, hence all, by their cardinality.

`RingTypes` adds to it, in `Ranges`, that a process whose loop is over has done
nothing in the next round (`LoopInv`), and that no address and no value is of a round
the plan does not have. That a partition goes to a process of the ring
(`SendToFacts`) rests on `RankFacts`: in a group made by `MPI_Comm_split`, every rank
is that of exactly one member, since the numbers of members below two members differ.

### SelectionProofs

For any number of entries, classes and tokens and any use of an option
(`SelectionAssumption`): `TypeCorrect`, which includes that no search leaves the
array. For the orderly uses (`Usages \subseteq OrderlyUsage`):

* `CountNonNegative` (`NeverNegative`): while the list is built, `num` is at least the
  number of its occupied places (`CardInv`), of which every decrement empties one;
* `CompressedOnce` (`ListedOnce`) and `OrderlySelection` (`SelectedAsAsked`): what is
  in the list and what is still to be visited make up `wanted` (`AgreeInv`); before any
  exclusion the list has no holes (`FilledInv`); an exclusion makes holes, and only
  classes of tests, which are searched in the whole array, may follow it; while
  `tst_array_compress` runs, the entries before `pos` and those from `scanned` on are
  those of the list, and the former have no duplicates.

### SuiteRunProofs

For any number of processes and threads (`WorldSizeAssumption`, `SuiteAssumption`),
of programs with the properties named in section 2:

* `TypeCorrect`: `Direct` programs keep `TypeOK`;
* `NothingForeign`: `Direct` and `Paired` ones never receive a message of another
  run, whatever the library buffers;
* `NoFalseFailures`: `Plain` ones never blame a correct library for anything;
* `NothingIsLeft`: if they are `Exchanges` and `Waited` they leave no message, no
  posted receive, and no request.

`TypeInv` relates the library to the places of the actors: each message is of a send
behind its actor, each posted receive has its request, and both are in the order of
the program. `PairInv` is the point: a send is matched if and only if its
counterpart is. It is inductive because a match takes the first message in a channel
that a receive matches, and the first posted receive that a message matches. If these
two were not counterparts, the counterpart of one of them would be earlier; what is
earlier is matched already, and then the first one would be matched, too. `WaitInv`
says that a wait which is over has left no request of its kind.

### StoreRunProofs

For any number of processes, any library, sound or faulty, and programs with the
properties named in section 2 (`WorldSizeAssumption`, `StoreAssumption`):

* `TypeCorrect`: `Orderly` programs keep `TypeOK`;
* `NothingMisused`: no process of one frees a buffer that it does not have, and the
  file is not deleted while another process has it open;
* `NothingIsLeft`: `Orderly`, `Tidy` and `Collected` programs leave nothing behind
  but the two buffers `NothingLeft` names.

These properties are about what all processes share, and no single step shows that
they hold: when rank 0 deletes the file, that the others have closed it follows from
the close they have made together some steps before. `StoreInv` makes the shared
state a function of the places: with `Has(p)`, what a process holds at its place,
`MemoryInv`, `WindowInv`, `LockInv`, `ExposedInv`, `TransferInv`, `FileInv` and
`DiskInv` say that everything that exists is held by the process that has to give it
back; `OpenInv` that all who have opened a file together hold it together, its owner
among them; `MessagesInv` that a contribution is there only if its sender is past the
call that gives it and its receiver is not past the one that collects it. `HeldNext` is
the lemma all steps use: an operation takes away what it releases and adds what it
acquires. Hence whether a test cleans up can be decided process by process, and the
order in which processes and transfers get on does not matter.

### StoreOutlineProofs

For any number of processes and programs that are `Orderly` and `Collected` and have an
outline, if the library is sound:

* `NoFalseAlarm` (`NoFalseFailure`): nothing is blamed, whatever interleaves and however
  late the library moves the data: every comparison of the tests finds what it
  expects, no access misses its window, no two accesses to a window conflict, each file
  that is opened or deleted exists, and its size and its pointers are where the tests
  say they are;
* `AllComparisonsAgree` (`ChecksAgree`): nor would the comparisons find a difference whose
  result is thrown away.

`OutlineInv` says that the outline is right. `ClockInv`: the members of a group have
met as often. `OpenInOutline`: the windows are those it names. `PendingInv`: a transfer
is one of an access behind its process that no call has ended. `SlotInv`: a known slot
has the array of the set of its accesses that have come (`Value`), those that are
behind their process and whose transfer is done. `SentInv`: what is on its way to a
process is what its sender's outline says. `CellInv`: what is known of a file is so, for
the set of accesses that have come. `HandleInv`: a process has open what the outline
says, with the pointer there. `SeenInv`: it has seen what the outline says. And nothing
has been blamed. From `ClockInv` follows that where two processes are is a pair of
places `Meanwhile` allows.

Two steps carry the proof. `PerformOutlined`: a transfer is performed while its
process is somewhere behind the call and its target anywhere; `Brings` says of all
these pairs of places that the array is then the one for the set with this access,
and, since its source does not change, that it is the same one early and late.
`SlotsKept`: when several processes go on in a meeting, the accesses to a slot may
become others; those that are `Over` have come then (`OverHasCome`), and those that are
`Later` have not begun (`LaterHasNot`). A reduction combines its contributions in an
order that neither MPI nor the model fixes; the outline has it of the same set
of them, and the proof is that the sets are equal.

For a file the same two steps are taken for all who know something of it
(`WritePerformed`, `CellsStep`), and they may be anywhere. That a read which is
performed late (`ReadPerformed`) still reads what the test expects has two parts, for MPI lets it have
what the file has now or what the process saw last: the former is known from `CellInv`,
the latter from `SeenInv`, and `ReadsFile` says that they are equal. This is where
sync, barrier, sync of `io_sync` is needed: the second sync is the one that brings
the other's data into `seen`, the barrier makes them all come before, and the first
ends their transfer. The shared pointer is known to a process where all others that
could move it are kept from it by a meeting, as in the turns of `write_shared`, or
where all move it together (`FileOrderedOutlined`); the positions of the ordered
accesses then follow from that of the pointer and the rank.

The outlines themselves are found by TLC, which executes each program once, in a
fixed order, and reads them off. `OutlineAssumption` checks them against `Outlined`, for
162 of the 165 programs of the run, 48 of them with files; the other three are those of
`io_commself`. So one execution and a check of pairs of operations take the place of
all the executions, and of all the groups of processes that have the same programs.
Faults in the tests show there: without the second sync of `io_sync`, or without the
barriers around the turns of `write_shared`, the programs have not got the outline of
their execution, and the assumption is false.

### Only model-checked

* `SuiteRun` for programs that receive from any source, probe or cancel, and for lists
  of several tests; ready sends and buffered ones as far as they can fail.
* `NoFalseFailure` and `ChecksAgree` of `StoreRun` for `io_commself`, where each process
  opens the file for itself: its programs are not `Orderly`.
* `FaultNoticed` of `StoreRun`: that a wrong array differs from the expected one depends on
  the standard values, and on where in the file a shared pointer has come to.
* That the programs of the tests are as the theorems assume (`Paired`, `Orderly`, `Outlined`):
  it is evaluated by TLC for the selections of the runs, since the programs are put
  together by folds over the lists of tests, that is by recursion over data.
* All liveness (`AllStepsExecuted`, `ClientReturns`, `Ends`, `Completes`), which is
  beyond the prover.

## 6. What is not modelled

* Parsing of options, and the list of numbers of values.
* Environment tests: each is a sequence of single calls of MPI in one process
  without behaviour of its own.
* Spawn tests: what they do depends on the programs they spawn, `client1` and
  `client2`, which are not in the repository.
* Four of the threaded tests, which fail or hang on a sound library for reasons that
  can be read off the code. In the ring with Isend every thread checks a buffer of
  its own, and one alone has received. In those with Bsend and with persistent
  requests the tags name other threads but the communicator is private to a thread,
  and in the latter the run function expects another tag than init has posted.
  `comm_dup` uses -1, the number of the master thread, as an index
  (`tst_threaded_comm_dup.c:110`).
* `tst_threaded_bcast.c` and `tst_p2p_alltoall_sendrecv.c`, which no entry of the
  table names, and the quadratic sum, which `#if 0` disables.
* Of the datatypes: how derived types are constructed, and their holes.
* Creation and release of communicators and groups; processes are on one node.
* Output, logging, the build system and the generated option parser.

Some names of tests are shortened (`Many-to-one Probe`). Where a check of a
status ends the program (`ERROR`), the models have a fault, as for the check of
data.

## 7. Plan

Done: thread framework with its abstract specification, signals, list of failures,
selection, all classes of tests that have behaviour of their own in the loop of
`main`, and proofs for each of these modules.

Left, in this order:

1. **Communicators**: registration on several nodes, copies per thread, and the
   order of the collective calls that create them.
2. **Larger groups**: four processes in a two by two grid for the tests of
   topologies; two threads and three processes for the threaded ring.
3. **Weaker memory**: the two stores of `tst_thread_global_buffer_init`, and the
   reads of `tst_thread_global_buffer_get`, in either order.
4. **Threaded tests with disagreements**: one run for each of the four tests that
   section 6 describes.
5. **Proofs**: `io_commself`, for which a file must be held by the group that deletes
   it and not by the one that opens it; `TypeOK` of `SuiteRun` for programs with probes.
