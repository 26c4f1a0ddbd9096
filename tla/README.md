# A verification project for five operating-system labs

The repository holds five small C programs of one course: a shell (`totw_p2`), a
producer-consumer program (`totw_p3`), a two-level thread scheduler (`totw_p4`),
a memory pool (`totw_p5`) and a file system on a virtual disk (`totw_p6`). They
share no code. The TLA+ modules beside this file model all five, and the runner
that tests two of them. TLC checks the modules on small instances; TLAPS proves
theorems about all five programs and the test runner for every instance.

`PROJECT.json` lists the components, the runs, one mutant for each checked
property, the source lines of each definition, the places where code and
documentation disagree, the hazards, and the theorems.

## 1. Inventory

### totw_p4: the scheduler (`scheduler.c`, `sched_impl.c`, `list.c`)

*State.* The scheduler queue and the running list (linked lists, each with a
binary semaphore), a semaphore `sq->sem` that holds the tokens of the CPU slots,
one semaphore for each worker, and the counter `num_workers_remaining`, which no
lock protects.

*Threads.* `main` starts the scheduler, stores the counter, starts the workers,
joins the scheduler and frees everything. A worker enters the queue, then
`iterations + 1` times waits for the CPU and releases it; the last time it leaves
the queue and decrements the counter before it releases. The scheduler searches
the queue for a worker that is not running, wakes it, takes a token, and looks at
the counter again.

*Hard.* Every pair of threads shares state; `next_worker` walks the list without
its lock; the counter is unprotected; `sem_init` is called with -1; round robin
puts workers that have left back into the queue; `main` frees what workers may
still use. The program's own README reports hangs it cannot explain.

*Correct means.* Tokens are neither lost nor forged; nobody is woken twice; at
most `queue_size` workers are on the CPU; no waiting worker is overlooked; the
scheduler does not stop early; nothing is freed in use; the program ends; FIFO
serves in order, round robin starves nobody.

`dummy_impl.c` replaces all operations by empty ones.

### totw_p4 and totw_p5: the tests (`lab4_tests.c`, `testrunner.c`)

`lab4_tests.c` runs the scheduler in a process of its own and judges the lines it
prints. `testrunner.c`, of which both programs have a copy, forks each test, kills
it from a signal handler when an alarm goes off, and counts verdicts.

*Hard.* The threads print outside every critical section, so the order of the
lines is not the order of what they report; the alarm goes off between any two
steps of the runner; a killed test leaves its program behind; `fork` may fail.

*Correct means.* A test fails a run of the scheduler only for what is wrong with it;
each verdict is what happened to the test; the statistics and the exit code follow from
the verdicts; a test that hangs does not hang the run; two programs do not write the
same output file at once.

### totw_p3: producers and consumers (`p3.c`, `buffer.c`)

*State.* An array of ten ints in which -1 is a free entry, a semaphore around it,
and the threads. *Operations.* Producers test for a full array and add at the
front (FILO) or the end (FIFO); consumers test for an empty array and take the
first entry. After 300 seconds `main` cancels and joins one thread after the
other and frees the array.

*Hard.* The test and the update must not be separated; cancellation strikes in
`sem_wait`, `usleep` or `printf`, the last with the semaphore taken.

*Correct means.* Mutual exclusion; the array is a bounded queue or stack; it is
freed last; the shutdown ends.

### totw_p5: the memory pool (`mymem.c`)

*State.* A list of blocks (address, size, allocated or not) and the cursor
`next`. *Operations.* `initmem`, `mymalloc` with four placement strategies,
`myfree` with coalescing, and functions that report on the pool. Sequential.

*Hard.* Long sequences of splits and merges; the cursor over merged blocks; exact
fits; requests that fit nowhere.

*Correct means.* The list covers the pool; free blocks are merged; allocations
are disjoint; a request is refused only when nothing holds it; each strategy
chooses the gap it should; the reports are right.

### totw_p6: the file system (`fs.c`, `fsutil.c`, `disk.c`)

*State.* In memory the usage map, 64 file records and 32 descriptors; on the disk
a block for the map, three blocks for each file, and the data blocks.
*Operations.* Making, mounting and unmounting; creating, deleting, opening,
closing, reading, writing, seeking and truncating.

*Hard.* What the disk and the memory hold must agree, also if the process ends
between two writes; offsets at block boundaries; a full disk; number formats.

*Correct means.* No block belongs to two files or is lost; files are byte
sequences; the disk holds every file but the one being written; what is saved is
loaded.

### totw_p2: the shell (`shell.c`)

*State.* For each process that runs `main`: the line it has read, the array of the
pids it has started, `should_run` and `status`. *Operations.* Read a line, fork a
child for each command, wait for the children one by one in the order of the line,
report a status that is not 0.

*Hard.* A child whose `execvp` fails runs on in the parent's code with a copy of
its variables; -1 stands for an exit and for a failed `fork`; children end in any
order and are waited for in one; entries of `pids` that were never set are read.

*Correct means.* The commands of a line run side by side and are over before the
next line; every child is waited for once and its status reported under its pid;
only the shell itself serves the input; the shell stops when it is told to and not
before.

## 2. Modules

| module | models | extends or instantiates |
|---|---|---|
| `CpuSlots` | abstract: a resource with n identical slots | |
| `FifoServer` | abstract: a line served in order of arrival, with liveness | |
| `Scheduler` | p4: all threads, both policies | instantiates both |
| `SchedulerFairness` | p4 with a history variable of who was preferred to whom | `Scheduler` |
| `SchedulerTests` | p4 with the lines its threads print, and the checks of `lab4_tests.c` | `Scheduler` |
| `SchedulerProofs` | theorems of `Scheduler` | `Scheduler` |
| `SchedulerTestsProofs` | theorems of `SchedulerTests` | `SchedulerProofs`, `SchedulerTests` |
| `SchedulerFairnessProofs` | a theorem of `SchedulerFairness` | `SchedulerProofs`, `SchedulerFairness` |
| `BoundedBuffer` | abstract: a bounded queue or stack with consumers' hands | |
| `ProducerConsumer` | p3 | instantiates `BoundedBuffer` |
| `ProducerConsumerProofs` | theorems of `ProducerConsumer` | `ProducerConsumer` |
| `Heap` | abstract: disjoint allocations in a pool | |
| `Mymem` | p5 | instantiates `Heap` |
| `MymemProofs` | theorems of `Mymem`, under every strategy and without next fit | `Mymem` |
| `FileStore` | abstract: files as byte sequences with descriptors | |
| `FileSystem` | p6: fs, fsutil and the disk | instantiates `FileStore` |
| `MCFileSystem` | p6 for TLC: which values may be exchanged | `FileSystem` |
| `FileSystemProofs` | theorems of `FileSystem` | `FileSystem` |
| `JobBatches` | abstract: jobs in batches, one batch after the other | |
| `Shell` | p2: the shell and its children | instantiates `JobBatches` |
| `ShellProofs` | theorems of `Shell` | `Shell` |
| `TestRunner` | the test runner of p4 and p5 | |
| `TestRunnerProofs` | theorems of `TestRunner` | `TestRunner` |

The programs share nothing, so no module composes them; `SchedulerTests` composes
the scheduler with the test that watches it. A configuration gives a module's
constants small values, and model values where data is opaque; only `FileSystem`
needs a module for TLC, to state a symmetry.

A definition that a comment calls a *mutant* is a plausible mistake in the
definition after it. No action of a specification uses it: replacing the
definition by it must violate the property named in `PROJECT.json`.

### Scheduler

A pc value names the point a thread is at. Each operation on a list runs under
that list's semaphore and is one action: `insert_item_tail`, `remove_item`,
`peek_item_head`, `elt_in_list`, `wrapper_size`. `next_worker` therefore takes
three kinds of step (`PeekHead`, `TestRunning`, `Advance`), `wake_up_worker` two
and `rr_release_cpu` four. `num_workers_remaining--` is a load and a store, as the
Makefile's unoptimised build compiles it. `Advance` reads `elt->next` of an element
that may have been freed: it may find NULL (what `list_remove_elem` wrote) or
crash. After `clean_up` a worker may still work on the freed memory or crash
(`UseFreed`). `sem_init` of a negative value fails and leaves the zero of
`calloc`, so the scheduler has `queue_size - 1` tokens, or none, and may wake one
worker more than it has tokens. An element of a list is identified with its
worker, so when a freed element's worker has been inserted again `Advance` goes on to
the new element's successor, where the code finds NULL or crashes.

### ProducerConsumer

The test and the update of the array are separate actions, so only the semaphore
keeps them together. Cancellation is deferred: `Die` is enabled at `usleep`, at
`sem_wait` and at the `printf` inside the section. A thread that dies there keeps
the semaphore. Returning from `main` ends every thread. The third argument, which
selects FIFO or FILO, is chosen in `Init` and never changes.

### Mymem

A call is one action. A block is a record in a sequence, a pointer to it its
index, an address an offset into the pool. Negative sizes, which next fit
produces, are kept, and so are the pointers it returns for requests that do not fit,
at the end of the pool and behind it: `Myfree` is called with them too. The
dereference of NULL in next fit's search ends the model
(`crashed`), as the assertion of a call before `initmem` does (`aborted`).

### FileSystem

`fs_read` and `fs_write` go one block at a time, `save_file_meta` writes the info
block and then the two list blocks: each is a step of its own, because `Kill` may end
the process in between. The rest of a call is one action. So is `make_fs`: a process
killed inside it leaves a disk that is not mounted before the next `make_fs`.
`Reload` is the conversion of a short to two bytes and back through signed chars, with
`ByteBase` for 256.

The clients are restricted: they use open descriptors, lengths that are not
negative, and names within NAMELEN. The constant `Calls` widens what they do: make
a file system on a mounted disk, mount a disk with files, truncate, write across
the end of a file, delete a file that is open, be killed. The runs of
`BlocksOwned` and `StoreSpec` leave out the calls that section 4 shows to be
wrong: they stay within one mount, without truncation, straddling writes and
deletion of open files. `WriteThrough` is checked with all of them but a second
`make_fs`.
A call that leaves an array ends the model (`stray`).

### SchedulerTests

A thread that has made a step owes the line its `printf` will write, and makes no
further step before it has written it; the scheduler thread's last line is due before
`main` joins it. Of `main`'s lines the last is modelled, which may follow the
scheduler's. `out` is the file the test reads. The checks of `lab4_tests.c` read
that file after the program has ended, each in one loop; here the locals of these
loops are variables (`size`, `executed`, `fifo`, `rr`) that take their turn when the
line is printed, so that in every state they are what the loops would have after the
lines printed so far. The properties are about what the loops have after the last
line, with their quirk: `feof` is tested before `fgets`, so the last line is looked
at twice (`Again`).

`check_rudimentary` fails runs of a right scheduler, for two reasons: `main`'s line may
be the last, and more than `queue_size` workers may be in the queue at once, since
entering it never blocks (p4's `README:90` and `99` report the failures). So no property
says that tests pass. `RudimentaryVerdict`, `FifoVerdict` and `RrVerdict` say what
decides them: these two things and nothing else. `RrVerdict` asks for loops to make:
without them nobody is in `rrq`, and `check_executed_rr` fails at the first exit
(`lab4_tests.c:225-226`).

### Shell

A process that runs `main` is a record, whether it is the shell or a child whose
`execvp` failed and came back from `run_cmd` with 0. `fork` copies the record. A
command is what becomes of it: a program, a name `execvp` does not find, an exit,
or blanks only, for which `args[0]` is NULL. Entries of `pids` that nobody has set
may be read as any value. `fork` may fail at any time. The end of `main` frees
`pids` twice: the allocator notices (`Aborted`) or not.

### TestRunner

The runner is one thread; the handler is an action that may come between any two
of its steps while the alarm is armed. `sa_flags` is never set, so `waitpid` may
be interrupted or restarted. A child is named by its test. A kill makes it `dying`;
it dies a step later, and the program it has forked runs on. A test ends in any
way or not at all. A test run inline after a failed `fork` may end the runner with
it (`quit_if` calls `exit`).

## 3. Runs and bounds

| run | question | instance |
|---|---|---|
| `fifo_one` | with one slot: is the unlocked code safe, is FIFO a first-come first-served line, does it end, and what makes its tests fail? | 3 workers, `queue_size` 1, 1 loop, with lines, fair |
| `rr_one` | with one slot: are the rounds strict, what makes the round-robin tests fail, and does it end? | 3 workers, `queue_size` 1, 2 loops, with lines, fair |
| `rr_two` | tokens, grants, CPU bound, early end and queue in spite of the races; how often is a waiting worker passed over; does some worker finish? | 3 workers, 2 slots, creation may fail, fair |
| `buffer` | exclusion, a whole array, a queue and a stack, and does the shutdown end? | 2 producers, 2 consumers, 3 entries, creation may fail, fair |
| `mem_fit` | the whole pool, what the status functions say, three strategies | pools of 3 and 6 bytes, requests of 1 to 4 and 7 |
| `mem_next` | does next fit's cursor reach a free block? | pool of 5 bytes, requests of 1 to 3 and 6, frees of the addresses 0 to 18 |
| `fs_store` | who owns which block; are files byte sequences under two cursors? | 2 files, 2 descriptors, 2 blocks of 2 bytes, 2 values |
| `fs_crash` | does the disk follow the memory, and whom does a kill harm? | 2 files on 2 blocks of a byte, bytes of base 4, every call but a second `make_fs`, kills |
| `shell` | batches, reports, who serves the input, when does it stop, does it end? | every input of 2 lines of 2 commands, failing forks, fair |
| `test_runner` | are verdicts and statistics true, do programs meet, does the run end? | 3 tests, any target, with and without `-f`, fair |
| `rr_ends` (violated) | does the scheduler return, as p4's README says of `-rr 3 2 1`? | 2 workers, `queue_size` 3, fair |
| `fs_usage` (violated) | is block 0 the map of used blocks, as `fs.h` says? | 1 file, mounting again |

The instances are small but reach what the properties are about. Two workers are enough
for each race in the scheduler; a third one is needed for a worker that is overtaken and
for a queue whose middle element goes. Two slots are the smallest number with two
workers on the CPU; one is the smallest for the exact counter. Two loops are the least
for rounds of round robin that can be out of order. FIFO with two slots has no run of
its own: the theorems of section 6 cover both policies and any number of slots. Three
entries of a buffer tell its front, middle and end apart. A pool of 6 bytes holds six
blocks, so blocks are split and merged on both sides. Two blocks of two bytes give
offsets inside and at the edges of a block, a second block, and a full disk. In
`fs_crash` the second file is what a kill inside the save of the first must leave alone,
and with bytes of base 4 a file of two blocks comes back from a mount with two blocks
less than none, as one of 128 blocks does with 256. With `queue_size` 1, as with 0 or a
negative one, the semaphore has no token; with 1 the runs of `fifo_one` have and have
not more workers in the queue than that. Two commands are the least with a child that
fails beside one that runs, and a second line shows what the first has left behind.
Three tests give a killed one, one beside the program it left, and one that an early
stop would skip. The bounds that are not program parameters are `MaxBlocks` (the length
of the list below which `mymalloc` is called; it limits the blocks of negative size that
next fit makes), `MaxPtr` (the largest address at which a rest may begin: 18 is three
requests of 6 behind each other), `MaxBytes` (the largest read or write), `MaxLines` and
`MaxCommands` (the input of the shell, which also bound its processes), `NumTests`, and
the sets of sizes, names, exit codes and values.

`fs_store` declares the byte values symmetric: they are model values that are only
copied. No other run uses symmetry.

Deadlock is checked in `fifo_one`, `buffer`, `fs_store`, `shell` and
`test_runner`, where a state without a step is an end of the program. The other
models may stop: round robin hangs, `Mymem` ends in an assertion or a crash, and
`FileSystem` in a stray access once the wider calls are allowed.

What the properties combine: `NothingFreedInUse` is about `next_worker`'s cursor
and about the workers when `main` frees the arguments; `Tiling` says that the list
covers the pool and that no two free blocks are neighbours; `BlocksOwned` says that
no block has two owners and none is lost; `CountExact` that no decrement is lost.

## 4. Where the code and its documentation differ

Two of the differences are runs that TLC must find violated:

- `rr_ends`: `num_workers_remaining--` is a load and a store (`scheduler.c:59`), and
  with two workers on the CPU a decrement is lost. The counter stays at 1, both workers
  have ended and are listed as running, and `sched_proc` searches the queue for ever.
  `totw_p4/README:74-75` says that `-rr 3 2 1` terminates (and `README:98-102` reports
  hangs of other instances, unexplained).
- `fs_usage`: no function writes block 0, so `mount_fs` loads a map of zeros.
  `fs.h:30-31` says that block 0 is the map of the blocks in use.

The models show the following ones too; the properties above are stated so that
they hold of the code as it is, and no property claims the contrary:

| statement | what the code, and the model, do |
|---|---|
| entering the queue blocks until there is room (`scheduler.h:17`) | `sched_impl.c:115` never blocks |
| a worker that left is out of the queue (`scheduler.h:19`) | `rr_release_cpu` appends it again (`sched_impl.c:134`) |
| the tests demand at most `queue_size` threads in the queue (`lab4_tests.c:249`) | all workers may be in it, because entering never blocks: a right run fails its test, which p4's `README:99-100` cannot explain (`QueueWithin`) |
| the last line is the scheduler's (`check_for_done`) | `main` may still print that it waits for the scheduler after it (`scheduler.c:224`) |
| round robin serves in strict rounds (`check_executed_rr`) | a worker that enters after another has looped breaks the rounds, and the program may hang although there is one slot (p4's `README:95-97` suspects this) |
| initialising the counter is safe, given that `wait_for_queue` blocks (`scheduler.c:119-120`) | the dummy `wait_for_queue` does not block: the scheduler may read the counter first, or never see 0 when decrements are lost, contrary to p4's `README:65-68` |
| the counter is synchronised (`scheduler.c:27-29`) | decrements are lost with two slots or more (`scheduler.c:59`) |
| arguments are freed when workers are done with them (`scheduler.c:141-142`) | `clean_up` runs before the joins (`scheduler.c:229`) |
| FIFO workers execute completely in the order of arrival (p4's `README:30-31`) | `queue_size` of them run side by side (`sched_impl.c:146`) |
| NULL when the block is not available (`mymem.c:93-94`) | next fit grants what does not fit, so blocks overlap, and follows NULL when all is taken (`mymem.c:136-139`, `149`) |
| the cursor is at the first unused block for other strategies (`mymem.c:34`) | it stays at the head (`mymem.c:166`) |
| a file is deleted by its name (p6's `README:34`) | the first file is deleted (`fs.c:183`) |
| truncation to a length (p6's `README:43-44`) | one block short at multiples of the block size (`fs.c:353`) |
| sizes are two bytes (`fs.h:42-43`) | bytes of 128 and more come back negative (`fs.c:64-69`): a size of 200 is -56 after the next mount (`NumbersReadBack`) |
| `size_last` is what is used of the last block (`fs.h:17`) | a write across the end adds overwritten bytes too (`fs.c:271`) |
| the map is the status of the blocks (`fs.h:32-33`) | truncation clears an entry that is not the one it drops (`fs.c:350`) |
| -1 means exit (`shell.c:86-88`) | a `fork` that failed returns -1 too (`shell.c:148`, `152`) and stops the shell after the line |
| batch mode runs every line up to EOF (p2's `README:10-11`) | a last line without a newline is dropped (`shell.c:177-180`): that of the repository's own `test_script` is |
| batch mode prints the command (p2's `README:9-10`) | it does not |
| commands are separated by semicolons (p2's `README:13-14`) | one of blanks only makes `strncmp` read NULL (`shell.c:134`) |
| a child whose command fails should terminate (`shell.c:82`) | it first goes through the wait loop: `waitpid` fails there and an old `status` is printed (`shell.c:95-98`) |
| `free(pids)` after the loop (`shell.c:109`) | the loop has freed it already |
| `-f<n>` sets the number of errors before the runner quits (`testrunner.c:239-240`) | `atoi` starts at the `f` and returns 0, no maximum |
| TIMEOUT is a test that was killed (`testrunner.c:142`) | also one that had ended with 0 when the alarm went off |
| `kill(child_pid, SIGKILL)` ends the test (`testrunner.c:139`) | the program it has forked runs on |
| a failed `fork` makes the test run inline (`testrunner.c:92`) | `child_pid` stays -1, and the next test fails `assert(!child_pid)` |

## 5. Fairness

`Scheduler!FairSpec` and `ProducerConsumer!FairSpec` assume weak fairness of each
thread: the operating system runs every thread that can run. Each semaphore of p4
other than the list locks has one waiter, and a list operation is one action, so
weak fairness is enough. A worker that works on freed memory is not assumed to get
on. In p3 the semaphore has many waiters and POSIX promises no order among them:
nothing is assumed of who gets it, and so nothing is claimed of a particular
thread's progress.

`SchedulerTests!TSpec` assumes the same of the threads with their lines.
`Shell!FairSpec` assumes that every process is scheduled and that programs end by
themselves; the shell has no remedy against one that does not.
`TestRunner!FairSpec` assumes that the runner is scheduled, that an alarm that is
set goes off (unless it is disarmed first), and that SIGKILL is obeyed. Nothing is
assumed of a test or of the program it forks: they may hang.

`Terminates` holds of FIFO with one slot. Round robin does not terminate
(`SchedulerReturns` is violated by `rr_ends`), but
`SomeWorkerFinishes` holds of it: as long as no worker has left, every worker the
scheduler wakes is alive and gives its token back. With one slot `RrEndsOrLate`
holds: the program ends unless a worker enters after another has looped.
`Shutdown` says that `main` comes to its end although a thread may die with the
semaphore; the one exception is a thread that `pthread_create` refused, whose
`pthread_t` `main` then cancels without having set it. `Ends` and `RunnerEnds` are
the ends of the shell and of the test runner; a test that runs in the runner's own
process is out of reach of the alarm, and `RunnerEnds` says so. Safety needs none
of this.

## 6. Proofs

`SchedulerProofs` proves of `Scheduler`, for every number of workers, every
`queue_size`, every number of iterations and both policies:

- `TypeCorrect`, `SlotsAccounted`, `GrantsAccounted`, `WaitersQueued`: the
  invariants `TypeOK`, `SlotAccounting`, `GrantAccounting`, `WaitersStayQueued`;
- `CpuBounded`: at most `MaxRunning` workers are on the CPU;
- `ImplementsSlots`: the running list implements `CpuSlots`;
- `DoneIsNeverEarly`: the scheduler stops only after every worker has counted
  itself out.

*Assumptions.* `ConstantsAssumption` (the parameters are numbers, the policy one of
two) and `NoWorkerAssumption` (NULL is no worker). TLC evaluates both.

*Argument.* The four invariants are not inductive by themselves. That a worker is
woken once needs: where a worker is in its loop (`TurnsFollowLoop`), that one about
to enter the queue is not in it (`EnterersAreOut`), that the worker about to be
inserted in running is not listed (`WakesTheIdle`), and that the three forms of a
grant exclude each other (`OneGrant`). `CreatedInOrder` and `StartedByMain` say what
has not begun yet. `IInv` is the conjunction. `TypeStep`, `LoopStep`, `StartStep`,
`QueueStep`, `GrantStep` and `SlotStep` show that each part is kept, one step for
each action. `CpuBounded` follows from it by counting: a worker on the CPU is
listed in running once, and `SlotAccounting` bounds the length of running.
`ImplementsSlots` maps `WakeInsert` to a grant and `ReleaseRunning` to a release.

`DoneIsNeverEarly` needs a second invariant, because with several slots decrements
are lost and the counter is not exact. `CInv` adds that the counter and every copy
of it a worker has loaded are never below the number of workers that have not
counted themselves out (`CountBound`): a lost decrement errs on the safe side. So
the counter is positive while a worker is left. `CountedAfterStore` says that the
scheduler is still in its first `wait_for_queue` while `main` has not stored the
counter.

It also proves, for whenever `MaxRunning` is 1, properties whose conclusions are
false with more slots:

- `CountIsExact`: no decrement of the counter is lost (`CountExact`);
- `NothingFreed`: the cursor of `next_worker` is on an element of the queue, and no
  worker is left when `main` frees the arguments (`NothingFreedInUse`);
- `FifoIsALine`: under FIFO every step is one of `FifoServer` or a stutter
  (`LineSafety`), so the workers are served strictly in the order in which they
  entered the queue, each for all of its iterations. `LineSpec`, with the promise that
  each is served, is checked by TLC.

*Argument.* `OneBusy`: with one slot, the token accounting of `IInv` leaves room for
one worker between its wake-up and its post, and for none while the scheduler
searches. `OneInv` adds to `CInv` that the counter, and the copy of a worker about to
subtract, are exact; that the cursor is listed; and that `main` ends after the
scheduler. Only a busy worker takes an element out of the queue or touches the
counter, hence the first two are kept; the third with `NeverDoneEarly` means that
every worker has counted itself out when `main` frees, and `OneBusy` that it is not
on its way out either. For the line, `HeadServed` says that the worker in running, from
its wake-up until it leaves, is the head of the queue, and so is the one under the
cursor: a search with one slot finds running empty and never goes on (`OneListed`).

`SchedulerTestsProofs` proves of `SchedulerTests`, for every number of workers and of
iterations and every order in which the threads print:

- `RudimentaryDecided`: what `check_rudimentary` says of a run that ends by itself is
  whether the scheduler's line is the last and at most `queue_size` workers were in the
  queue at once, under both policies and with any number of slots; with as many places
  as workers the second always holds (`RudimentaryVerdict`);

and, for whenever `MaxRunning` is 1,

- `FifoDecided`: the FIFO tests add nothing to that (`FifoVerdict`);
- `RrDecided`: when no worker enters the queue after another has looped and there are
  loops to make, the rounds are strict, and the round-robin tests pass a run exactly if
  the scheduler's line is the last and there are no more workers than `queue_size`
  (`RrVerdict`).

*Assumptions.* Those of `SchedulerProofs`.

*Argument.* `TestIsSpec` makes the invariants of `Scheduler` available. `LinesInv` says
what the lines have told: a thread owes a line only where its procedure prints it
(`OwedFollowsLoop`), and the locals of `compute_queue_size` and `check_executed` follow
from where each worker is (`SizeFollows`, `ExecutedFollows`), a line late. `DoneIsLast`:
the scheduler's line comes after those of all workers, because a worker prints its exit
before it counts itself out, and the scheduler stops only after all have
(`NeverDoneEarly`). Neither needs one slot: lost decrements can hang a run, but they do
not make one that ends fail. `VerdictHolds` is the end of `check_rudimentary`, and
`CrowdSeen` that `compute_queue_size` has counted all workers at once when none is late.
For FIFO, `BegunIsHead` says that a worker between its first loop and its exit is the
head of the queue, so there is one of them at most, and `FifoFollows` that it is the one
the check has in hand, with its number of loops. For round robin `Ahead` orders the
workers that are in the rounds: by the queue, except that one that has printed its loop
is behind all the others although the queue shows it only after `RequeueIn`.
`OrderKept`: no step but a line changes this order among them. `Rounds` says that a
worker ahead of another is as many loops on or one less, and that the round of the check
is that of the worker in front; `RoundQueue` that `rrq` lists the workers that have
looped in that order. `PrinterFirst`: who prints a loop or an exit is in front of all
the others. So its line opens a round only when nobody is left in the one before, and
finds it at the head of `rrq` (`LoopRound`, `ExitRound`). A late worker is what breaks
`Rounds`, which is why `NoneLate` is asked for.

`SchedulerFairnessProofs` proves of `SchedulerFairness`, under round robin and for every
number of workers, every `queue_size` and every number of iterations:

- `WaitersAreServed`: while a worker waits its turn, no other is granted the CPU more
  than `MostGrants` times (`BoundedBypass`). That is `MaxRunning` with one or two
  slots, and `NumThreads + 2` with three or more.

*Argument.* With three slots the bound is not the number of slots, as one would think
and as the run with two suggests: `next_worker` follows `elt->next` while the workers
move themselves to the tail, so its cursor may be carried from ahead of a waiting
worker `v` to behind it, and the search then passes `v` over and wakes somebody who has
had a turn. (A scripted run with 5 workers and 3 slots has four grants to one worker.)
What bounds it is that `v` moves up a place whenever that happens. `ManyAt` adds up the
grants `w` has had, those it is still due from its place ahead of `v` (`Due`: one if it
is not running, one more if it is not just leaving its place), the place of `v`, and 1
if the search has gone past `v` (`Past`), and no step makes the sum larger. With at most
two slots the element that is carried can only be that of the one other worker that has
a slot (`OneOther`), so behind `v` such a search meets that worker itself or one that
has just entered; `FewAt` says what is then left to grant, by whether the search can
still reach `w` (`Reaches`). `CountsGrants` and `CursorEntered` say that a worker that
has not entered has had no grant and is not under the cursor. `BInv` is the
conjunction; its proof uses `IInv`, and lemmas about the places in a list without
repetition after `insert_item_tail` and `remove_item`.

`ProducerConsumerProofs` proves of `ProducerConsumer`, for every number of producers
and consumers, every size of the buffer and every set of items:

- `TypeCorrect`, `SectionExclusive`, `ItemsContiguous`, `BufferFreedLast`: the
  invariants `TypeOK`, `MutualExclusion`, `Contiguous`, `FreedLast`;
- `ImplementsBuffer`: the array implements `BoundedBuffer`.

*Assumptions.* `ConstantsAssumption` of `ProducerConsumer`.

*Argument.* `Inv` adds to these that a semaphore is 0 or 1, which threads `main` has
already joined (`Cleared`), and that a consumer that is about to take finds an item
and has nothing in its hands (`Hands`). `MutualExclusion` counts a thread that died
in the section, so a semaphore of 1 means that nobody is in it; that is why the
array a thread has tested is the array it updates. For the refinement the content of
an array is the part before its first free entry: `ContentIs` says that it is the
one prefix of items in a packed array, and the lemmas about `add_to` and `pop` give
it after each.

`MymemProofs` proves of `Mymem`, for every strategy, every pool, every set of requests
and any sequence of calls:

- `CursorNeverLost`: the search of next fit meets a free block whenever there is one
  (`CursorReachesFree`);
- `BlocksTile`: the list covers the pool and no two free blocks are neighbours
  (`Tiling`).

*Assumptions.* `MemConstants`. The first theorem needs none: sizes may be anything.
The second holds with the negative sizes that next fit makes, too.

*Argument.* `CursorReachesFree` is not inductive: when nothing is free, a cursor in
the middle of the list would hide a block freed before it. `CursorIn` says that the
cursor is at the head or has a free block from it on. `AllocateKeeps`: `CursorAfter`
ends on a free block or, when it finds none, on the head. `MergeKeeps`: a cursor
before the merged blocks keeps the merged one ahead, one on them moves to it, one
behind them moves down with the rest of the list (`Spliced` says which entries a
list has after its middle is replaced). `Tiling` follows from `Chain`: the first block
is at 0, each block starts where the one before it ends, the last ends with the pool,
and of two neighbours one is allocated. `MergeShape` computes what `merge_blocks`
leaves: there are no neighbouring free blocks before the call, so it merges three
blocks at the most and the sum over their sizes can be expanded (`FoldShort`).
`SpliceChain` gives the chain after a part of it is replaced by another chain between
the same two addresses.

Its second part is about `Mymem` with first, best and worst fit, for every pool and every
set of requests, also of those that fit nowhere:

- `StatusIsTrue`: the status functions say what is true of the bytes (`StatusExact`);
- `PlacedAsTold`: each strategy chooses the gap its name promises (`Placement`);
- `ImplementsHeap`: the list implements `Heap` (`PoolSpec`).

*Assumptions.* `MemConstants` and `SizesFit`: next fit is not among the strategies. It
hands out a free block without a look at its size, and a block of negative size is
left behind, so with it the conclusions are false (section 4 and the hazard at
`mymem.c:149`).

*Argument.* The three properties speak of bytes and gaps, the code of blocks. The
invariant adds to the chain that no block is empty. `Laid` is what follows of the
addresses: the blocks are in ascending order and each byte of the pool is in one of
them. `FreeIsGap` and `GapIsFree` then say that the free blocks are the gaps, which is
where merging is needed, and `SumOfSizes` that bytes can be counted block by block.
`ChosenCompares` says of the searches of `mymalloc` what they minimise or maximise, and
`RefusedMeansNone` that a search that finds nothing means that no gap is long enough.
For the refinement a step of `Heap` is read off the set of entries: `TakenEntries` and
`MergedEntries` say how a call changes it, and merging changes no allocated one.

`TestRunnerProofs` proves of `TestRunner`, for every number of tests:

- `TypeCorrect`, `VerdictsAreTrue`, `ResultsAreTrue`, `ProgramsAreApart`: the
  invariants `TypeOK`, `VerdictsTrue`, `ResultsTrue`, `ProgramsApart`.

*Assumptions.* `RunnerConstants`.

*Argument.* The handler may come anywhere, so the invariant says what each step has
made certain: where the runner is and whom the alarm would hit (`Position`), that
tests not yet reached have no process, no end and no program (`Untouched`), how a
process's state and its end agree (`Processes`), what the runner has learnt of the
current test (`Learnt`), that a program runs only beside its own test or after a
killed one (`Programs`), and that the statistics count the verdicts (`Counts`).

`ShellProofs` proves of `Shell`, for every input, every set of exit codes and forks that
fail at any time:

- `TypeCorrect`, `OnlyTheShellServes`, `ReportsAreTrue`, `StopsAsTold`: the invariants
  `TypeOK`, `OnlyShellServes`, `ReportsTrue`, `StopsWhenTold`;
- `RunsInBatches`: the shell and its children implement `JobBatches`.

*Assumptions.* The constants' assumption of `Shell`.

*Argument.* A child is a copy of the shell made in the middle of `main`, so what is
true of it depends on where the shell was. `Placed` ties a child's job to the place of
its pid in the shell's array, and `Slots` says of each place that it holds the child
forked for it, or -1, or was never set. With it `ReapedInOrder` can say which children
have been waited for: those of earlier lines, and those of this line that the second
loop has passed. `Ordered` says that pids and jobs are in the same order, which gives
`JobBatches` its order of starts. `ShellReports` and `Reported` are the two halves of
`ReportsTrue`. `Stops` and `ExitHeard` say why `should_run` is what it is, also while an
exit has been read and its place in the array is still to come.

`FileSystemProofs` proves of `FileSystem`, for every size of the disk, of its blocks and
of the tables, and every set of names and values:

- `TypeCorrect`: the invariant `TypeOK`, whatever the clients call;
- `SavesAreWritten`: at every moment the disk holds of each file but the one being
  written what memory holds of it, or what the mount made that memory from
  (`WriteThrough`), so that a kill harms one file at most;
- `NumbersReadBack`: a number below half of `ByteBase` squared comes back from a mount
  as it was if its low byte is below half of `ByteBase`, and as `ByteBase` less
  otherwise;
- `NoBlockShared`: no block has two owners and none is lost (`BlocksOwned`);
- `FilesAreSequences`: the files are byte sequences, and reads and writes are those of
  `FileStore` (`StoreSpec`).

*Assumptions.* `FsConstants`, and for three theorems what the clients may call.
`SavesAreWritten`: nobody makes a file system on a mounted disk, which zeroes the disk
under the tables. Nothing is assumed of the numbers a mount reads: the property holds
with what the signed bytes make of them, and of a file that a kill has left half saved.
`NoBlockShared`: no `remount`, `truncate` or `delete_open`. TLC finds
`BlocksOwned` violated when any one of the three is added to the run; section 4 and
the hazards say why. Writes across the end of a file and kills are allowed.
`FilesAreSequences`: the plain calls and kills, `Calls \subseteq {"kill"}`. Each of the
other five calls breaks it: a new file system zeroes files in use, mounted files appear,
truncation cuts a file, which `FileStore` has no step for, a write across the end counts
bytes twice and the size covers bytes of no block, and a descriptor of a deleted file
reads bytes of none.

*Argument.* `TypeCorrect` needs that a call that goes on has an open descriptor and that
one that saves has a file (`CallRuns`). For `WriteThrough`, `Saved` adds what the disk
holds of the file being saved after each of the first two of the three writes: its info
block, then also the first half of its list, so that the third makes it whole. A kill
forgets memory, so nothing is to be shown; the mount after it makes memory from the
disk. `NumbersReadBack` rests on what a signed char keeps of a byte (`SignedByte`).
`BlocksOwned` needs that no descriptor
is open on a file that does not exist and that a list is no longer than the disk;
`OneOwned` is the step of a call that changes one file's list.
`StoreSpec` rests on `BlocksOwned` (a write changes no byte of another file, nor of
another place of its own, because their blocks differ) and on what `StoreInv` adds: the
last block of a file is never empty nor more than full (`Sized`), no cursor is past the
end (`Inside`), nothing is open when nothing is mounted, and a write begins at the end
of its file or ends before it, also in the middle of the call (`WriteFits`). A turn of a
loop is `Turn` or `ReadTurn`: a run of bytes within one block (`Run`), which is a run of
the content (`PutContent`, `PieceRead`), so it is one `Write` or `Read` of the store;
mounting a disk without files, the saves and a call that finds no free block stutter.

Only model-checked, and why:

- the liveness properties, and what `LineSpec` says beyond `LineSafety`;
  These are `Terminates`, `RrEndsOrLate`, `SomeWorkerFinishes`, `Shutdown`, `Ends` and
  `RunnerEnds`. Every invariant a run checks is a theorem.

## 7. Plan

Done: the five programs and the test runner, with their abstract specifications,
runs and mutants; the theorems of section 6.

Left, in this order:

1. Calls on a file that was deleted while open.
2. The threads of p4 with the empty operations of `dummy_impl.c`.

## 8. Not modelled

- `dummy_impl.c`: functions that do nothing. Nothing then orders the threads of
  `scheduler.c`; section 4 says what comes of it.
- The pointers inside p4's lists other than `next_worker`'s cursor: a list operation
  runs under the list's semaphore and is one action.
- `memorytests.c` and p6's `test.c`: straight-line calls of functions that the
  models call in every order. The listing of targets and suites of `testrunner.c`.
- The text of lines: how the shell splits them, how `lab4_tests.c` reads them, the
  header it looks for, and the names of tests. The thread ids p4 prints.
- In the shell: the offset of the batch file, which a child shares with the shell and
  may move when it exits, and pids used again by the system.
- The widths of integers other than p6's bytes; errors of the host's system calls
  other than the creation of threads and processes; memory outside an array, which
  ends a model instead.
- p6's calls with a closed descriptor or a negative length, and a kill inside `make_fs`,
  after which the file of the disk is too short to mount.

`PROJECT.json` gives the reasons component by component.
