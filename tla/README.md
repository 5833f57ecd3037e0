# A TLA+ model of BladePSGI

BladePSGI runs a PSGI application behind FastCGI with one process per worker. This
directory holds TLA+ modules that model its processes, its shared memory and its
start-up, TLC configurations that check them on small instances, and proofs checked by TLAPS.
`PROJECT.json` lists components, runs, the source lines behind every definition,
hazards, findings and theorems.

## 1. The system

| Component | Source | State it keeps | Operations |
|---|---|---|---|
| Overseer ("runner") | `bladepsgi.cpp` | pid lists, four shutdown flags, the self-pipe, the signal mask | start-up and forks, the signal handler, the `select` loop, `waitpid`, shutdown, panic |
| Worker | `worker.cpp`, `perl/fastcgi_wrapper_loader.cpp` | `_worker_terminated`, its place in the accept loop | start-up, SIGTERM and SIGQUIT handlers, `MainLoopIteration`, accept, answer, count |
| Auxiliary process | `auxiliary.cpp` | its place in `Run` | start-up, SIGQUIT handler, SIGINT, end of the subroutine |
| Monitoring process | `monitoring.cpp` | its place in `Run`, a copy of the pid lists, a buffer of statuses | `RunnerDied`, `select`, `GetAllWorkerStatuses`, `HandleClient`, failure |
| Run-time shared state | `shmem.cpp` | should-exit flag, status array, request counter | one atomic operation each |
| Allocator | `shmem.cpp`, `perl_interpreter_sea_bridge.cpp` | offset, lock, lists of semaphores and atomics, copied by `fork` | `NewSemaphore`, `NewAtomicInt64`, `LockAllocations` |
| Semaphores | `shmem.cpp`, `perl/XS.xs` | the `sem_t`, who holds it | `Acquire`, `TryAcquire`, `Release` |
| Sockets | `bladepsgi.cpp` | the files at two paths | `stat`, `unlink`, `bind`, `listen` |
| Command line, process title | `bladepsgi.cpp` | `argv`, `optind`, the memory of `argv` and `environ` | `getopt_long`, the checks of `main`, `SetProcessTitle` |
| Perl glue | `perl_interpreter.cpp`, `perl/bladepsgi_perl.c`, `perl_interpreter_sea_bridge.cpp` | callbacks, reference counts, scopes | start, load, request, call, destroy |

Interactions. The overseer forks everybody and signals workers and the monitoring
process with `KillProcessGroup`. Children end and the kernel answers with SIGCHLD and
zombies. The overseer's end reaches workers and auxiliary processes as the
parent-death signal they asked for with `prctl`, and the monitoring process through
`getppid`. All processes share the should-exit flag: the first to raise it logs why.

What is hard: signal handlers that run between any two steps; flags set in a handler
and cleared by the loop; a child that dies, is killed or is being started while the
overseer shuts down, panics or dies; memory that is shared next to an allocator that
is copied. What makes each component correct:

- overseer: no wake-up is lost, a shutdown completes and is no panic, an unexpected
  death is one, a reaped pid is not signalled, `exit(0)` leaves nobody behind;
- worker: SIGTERM cuts no request off, SIGQUIT ends it, requests are counted;
- everyone: one reason in the log, nobody outlives the overseer;
- allocator: no two things share bytes, objects stay in their area, and all that a
  process uses is in the segment;
- semaphores: an interrupted wait takes nothing, and nobody waits for the dead for ever;
- monitoring: a reply is no older than its client's connection and fits together, and
  everyone who connects gets one while the process lives;
- sockets: what an earlier instance left does not hinder a restart, and instances that
  start together do not all fail;
- command line and title: the operands are the right ones, the title stays in its memory,
  and a read of a word under the title ends there too;
- Perl glue: a callback that is called exists, and scopes do not pile up.

## 2. Modules

| Module | Models | Extends |
|---|---|---|
| `ProcessTable` | fork, kill, waitpid, prctl, _exit, signals and failures from outside (external) | |
| `SharedState` | the fields used at run time | `ProcessTable` |
| `Overseer`, `Worker`, `Auxiliary`, `Monitoring` | one process kind each | `SharedState` |
| `BladePSGI` | the composition, fairness, all properties | the four above |
| `MCBladePSGI` | the symmetry set for TLC | `BladePSGI` |
| `BladePSGIInvariant`, `BladePSGIProofs` | inductive invariants and proofs | `BladePSGI` |
| `Supervision` | what the program promises as a whole, without pids, signals or flags | |
| `SupervisionProofs` | `BladePSGI` implements `Supervision`; requests, wake-ups, graceful shutdown, one reason in the log | `BladePSGIProofs` |
| `SharedMemory`, `SharedMemoryProofs` | the allocator and the layout | |
| `PerlCallbacks` | callbacks from the loader to the calls in the children | |
| `Loader` | the application's loader, which uses both, up to the lock and the forks | `SharedMemory`, `PerlCallbacks` |
| `MCLoader` | the symmetry set for TLC | `Loader` |
| `LoaderProofs` | proofs about `PerlCallbacks` and `Loader` | `Loader`, `SharedMemoryProofs` |
| `Semaphores`, `SemaphoresProofs` | one semaphore, its users and the overseer's reaction | |
| `Statistics`, `StatisticsProofs` | the data of a statistics reply | |
| `SocketSetup`, `SocketSetupProofs` | several instances on two socket paths | |
| `CommandLine` | `main()` up to the constructor | |
| `ProcessTitle` | what becomes of the words of `argv` | `CommandLine` |
| `StartUpProofs` | proofs about `CommandLine` and `ProcessTitle` | `ProcessTitle` |

How state and actions correspond to the code:

- `pstate` is the kernel's view of a process: unborn, alive, zombie, reaped. A process
  stands for its pid and pids are not reused. `pending` holds signals posted and not
  yet handled; a signal that is pending twice is pending once, as in the kernel.
- `opc`, `wpc`, `apc`, `mpc` are program counters. A step of the code is an action of
  its own wherever another process or a handler can tell the difference: one `kill` of
  `KillProcessGroup`, the test of the flags, the moment they are cleared, `waitpid`
  and what is done with the pid it returned.
- The overseer's signals are blocked (`signals_blocked`) from the first line of `Run` to
  `UnblockSignals()`, also while a failure of start-up is being dealt with. The handlers
  of SIGTERM, SIGINT and SIGCHLD return, and are one action each; the SIGQUIT handler
  does not return, and is a jump to `KillProcessGroup` and `_exit(1)`. A handler that
  runs while the overseer is at `select` either interrupts it (EINTR) or ran just before.
- The end of `KillProcessGroup` goes to `kill_next`, the code after the call.
- `Worker` ends where its code calls `_exit`; `wpc` keeps the place. The callback is
  `calling` until `accept()` blocks (`accepting`) or returns a connection (`app`);
  `FAIL_ACCEPT_ON_INTR` makes SIGTERM end only an `accept()` that is blocked. The
  callback's -1 is not looked at, so such an iteration is counted. So is one in which
  `Accept()` fails by itself, for want of a file descriptor, say (`WorkerAcceptFails`;
  `accept_failures` counts them).
- `SyscallException` is no `std::exception`: the handler in `RunMonitoringProcess` is
  passed by and the one in `main()` runs in the monitoring process (`MonitorThrows`).
  A failing `fork()` before the interpreter is destroyed runs its destructor, which
  calls `_exit(1)` (`ForkFailsWithInterpreter`). A failure before the loader runs is
  caught in `main()`: before there is a segment the overseer has no flag to raise and
  logs (`SetUpFailsEarly`), later it raises the flag first (`SetUpFails`). One of the
  interpreter or the loader calls `_exit(1)` at once (`LoadFails`).
- `Strays` are processes that the loader's own Perl code forked: the only way to the
  branch for an unknown child.
- `SetShouldExitImmediately` is the exchange of the flag alone. `owing` holds whoever
  got true and has to log the reason, `loggers` whoever has logged one: `Log()` is a later
  step (`LogsAndKills`, `LogsUnknownChild`, `MonitorLogs`), before which a signal may
  end the process.
- The administrator signals the overseer alone. With `Terminal`, the interrupt key posts
  SIGINT to every process at once, since nobody calls `setpgid()`. Workers ignore it,
  the monitoring and the auxiliary processes die of it, and the overseer may reap them
  before or after it handles its own.
- `Supervision` has a phase (starting, running, stopping, failing, stopped, failed) and
  a life per child (unborn, up, ended). `Phase` and `Life` in `BladePSGI` compute them
  from the program counter, `mainapp_shutdown` and the process table.
- In `SharedMemory` every process has its own offset, lock and lists, as after `fork()`.
  A call is one step, since it touches nothing another process reads before it ends.
- `Semaphores` splits `Acquire` where `sem_wait()` may be interrupted (`AcquireAgain` is
  the `goto again`). `ReleaseThrows` is the EOVERFLOW path, which ends the worker. The
  overseer is reduced to a phase, as `Supervision` has it.
- `Statistics` reads one status per step and, after `accept()`, the counter. A status is
  represented by its place in the sequence that its worker has set, and carries the
  number of requests its worker had counted. The monitoring process ends with the
  overseer, of a signal (`DiesOfSignal`) or of an exception (`Throws`), and then the
  socket, which the overseer still holds, takes connections that nobody accepts.
- `SocketSetup` has one action per system call. `alone` is a history variable: the
  instances that no other overlapped.
- `CommandLine` has one action per return of `getopt_long` and per operand it passes
  over; `operands` are places in `argv`. `ProcessTitle` continues when `state` is "Run";
  its `psgi_application_path` is the call from a child, after `SubprocessInit`, which nothing
  forbids. The operands stay in `argv` (the values of options are copied with `strdup`), so
  such a call returns bytes of the title; no document promises otherwise. `ended` is a
  history variable: every read so far met a NUL before the environment.
- In `PerlCallbacks` a behaviour follows one process through `fork()`: all children
  start from the same memory. `refs` counts what `SvREFCNT_inc` added, `perlrefs` is what
  the application's own variables keep alive, `depth` is the number of open scopes.
- `Loader` runs the allocator's calls while the interpreter is loading, locks the allocator
  in the step that returns from the loader, and copies it with every `fork()`; its interpreter is that of the one process
  the behaviour follows.

Left out of a step: text, log lines, and what the application does with a request, beyond
`set_worker_status`, an answer, an exception, or no end at all.

## 3. Runs

Module `MCBladePSGI` unless noted. Deadlock is not checked: a stopped system is a
legal end, and a system with nothing to do waits.

| Run | Instance | Question | Result |
|---|---|---|---|
| `Shutdown` | 1 worker, 1 connection, 1 failing `Accept()`, 2 SIGTERM, 1 SIGINT | Is a request cut off or not accounted for, a wake-up lost, a stale pid signalled? Do SIGINT and a second SIGTERM end the overseer? | holds |
| `Supervision` | worker, stray, 1 SIGTERM, 1 SIGQUIT, 1 failure | Types; is `Supervision` implemented, with its progress? Is one process told to log the reason, and when is it lost? Do orphans die? | holds |
| `TerminalInterrupt` | worker, auxiliary, 1 SIGINT to the overseer or to the group, 1 failure | Early `exit(0)`, panic in a shutdown? Is `Supervision` implemented with an auxiliary? Does the interrupt stop everything? | holds |
| `Loader` (`MCLoader`) | segment of 130 bytes, limit 128, semaphores of 32; 2 variables, 2 requests, 2 calls | Aliasing, objects outside their area, lost memory; is a callback that is called alive? Are scopes balanced? | holds |
| `Semaphores` (`Semaphores`) | 3 workers, 1 permit, 1 extra release, 1 crash | Permits; waits for the dead; the end of waiters | holds |
| `Statistics` (`Statistics`) | 2 workers, 2 clients, 1 request and 2 further statuses per worker, 1 interruption, all ends of the process | Is a reply fresh and consistent? Is everyone answered while the process lives? | holds |
| `SocketSetup` (`SocketSetup`) | 3 instances, any files at first | Does a restart succeed? Does someone start? Are plain files kept? | holds |
| `StartUp` (`ProcessTitle`) | all command lines of up to 6 words out of 9; titles shorter and longer than the room | Does the right command line start the application? Does the title fit? Does a read under it end? | holds |
| `AuxiliaryLifetime` | worker, auxiliary, 1 SIGINT | Does an auxiliary end with the workers? | violated |
| `SigtermRace` | 1 worker, 1 connection, 1 SIGTERM | Does SIGTERM end a worker? | violated |
| `TwoSigterms` | 1 worker, 1 connection, 2 SIGTERM | Are two SIGTERMs always fast? | violated |
| `ManyWorkers` (`SharedMemory`) | the sizes of the code, 65536 workers | Is all that is used in the segment? | violated |

Bounds. `MaxConnections`, `MaxAcceptFailures`, `MaxSIGTERM`, `MaxSIGINT`, `MaxSIGQUIT`,
`MaxFailures`, `MaxOffset`, `MaxLeaks` and the `Max...` constants of the small modules cap what
comes from outside. Each run of `MCBladePSGI` has one worker: with the monitoring process,
and an auxiliary (`TerminalInterrupt`) or a stray (`Supervision`), there are already children
that are signalled, reaped or idle at different times, and the invariants that speak of
several workers are proved for every number of them (section 4). Two SIGTERMs reach the
"second smart shutdown". One failure lets every other process find the flag up; it may
also be the death of the process that raised the flag before it has logged, since the end of
an unknown child makes the overseer, and the overseer's end by SIGQUIT makes the monitoring
process, raise it without a failure. A pipe of one byte is full after one handler, and the pipe matters only as
empty, not empty or full. In `Loader` the limit is reached by three objects, with an object
that ends exactly at the limit among the cases. Three semaphore users are a holder, a
waiter and one that overtakes; three instances are one that is up or has crashed and two
that race. Six words are the four operands and an option with its value, in every order.
Names and variables are symmetric.

Fairness. The kernel runs every process that can run, and delivers every signal that
is not blocked: weak fairness of each process's own steps and of each handler.
`select` has a time-out, so it returns. Nothing is assumed of clients, of who sends
signals, of failures, or of the application, with three exceptions. Weak fairness of the
overseer's start-up includes `LoadApplication`: the loader is assumed to return, without
which start-up has no end and `SupervisionProgress`, `StopNowCompletes` and
`InterruptStopsAll` fail (the overseer's signals are blocked until then). `SigtermRace`
assumes that the application answers (`FairAppSpec`), which makes its counterexample
stronger. `Semaphores` assumes that it releases what it acquired and that its requests end,
without which nobody could promise an end of the wait; `sem_wait()` itself need not be fair.
`Statistics` bounds the interruptions of system calls.

What the liveness properties leave out. `StopNowCompletes` (a fast shutdown, or a second
smart one, ends the overseer) is checked without auxiliary processes: with one it fails for
the reason `AuxiliaryLifetime` shows. `InterruptStopsAll` gives up if something else fails
meanwhile. `NoWaitForTheDead` gives up once a smart shutdown has begun, and `WaitersQuit`
where a holder has died: a worker that waits for a dead holder in a smart shutdown does hang,
until a fast one. The progress of `Supervision` is `[]<>AtRest`: whatever it has begun, the
end of start-up, the reaction to a dead child, a shutdown or a failure, is completed.

### What the violations show

1. `KillProcessGroup` does not signal auxiliary processes. After SIGTERM or SIGINT the
   workers are gone, the auxiliary process is not, and the overseer waits for it.
2. SIGTERM between the test of `_worker_terminated` and `accept()` is noted and not
   acted upon: an idle worker stays until the next connection, or a fast shutdown.
3. A second SIGTERM that is handled while `KillProcessGroup(SIGTERM)` runs is cleared
   with the first.
4. `main()` accepts up to 65536 workers and nothing compares their number with the 2048
   octets between the status array and the end of the segment: worker 2048 writes its
   status behind it.

## 4. Proofs

For every set of workers, auxiliary processes and strays, all bounds and all sizes.
The assumptions are that the kinds of processes are disjoint, that there is a worker,
that pids differ from -1, that the pipe holds a byte, in `SharedMemory` that the
status array starts after the fixed fields and inside the segment, that sets of workers
are finite, and in `ProcessTitle` that a word has a length.

`BladePSGIProofs`:

- `TypeCorrectness` : `TypeOK`. Inductive as it stands; one lemma per process kind.
- `ExitZero`, `ShutdownSignals` : `ExitZeroMeansAllStopped` and
  `ShutdownSignalsOnlyUnreaped`. Neither is inductive. `LifeInv` adds that processes are
  forked in the order of `Run` (`BirthsInOrder`), that the pid lists hold exactly the
  children not yet reaped, but for the one `waitpid` just returned (`PidsTracked`), that
  nobody is reaped and forgotten before a shutdown (`NobodyForgotten`), and that the
  program counter agrees with the process table (`ControlConsistent`). `exit(0)` with no
  shutdown would need every child reaped and forgotten, which `NobodyForgotten` excludes.
- `CleanShutdown` : `CleanShutdownNeverPanics`. `QuietInv` says of a system in which
  nothing failed and nobody sent SIGQUIT (`Quiet`): until a shutdown is noted no child
  has a signal pending or has ended, so there is nobody to be surprised about; after
  it, every reaped child is in a list (from `PidsTracked`), and is forgotten. The flag
  stays down, since the monitoring process sees the overseer gone only after `exit(0)`,
  when it is reaped itself. `QuietMonotone` carries `Quiet` backwards over a step.

`SupervisionProofs`:

- `Implementation` : `ImplementsSupervision`, by the refinement mapping `Phase`, `Life`. One lemma
  per action says which step of `Supervision` it is, or that it is none. Besides `LifeInv`
  and `QuietInv`, before and after the step, this needs `RefinementInv`: a shutdown is noted
  only if it was asked for (`SentInv`), and a child that is to come is unborn (`StartupInv`).
  The progress that `Supervision` promises stays with TLC.
- `RequestAccount` : `RequestsAccounted`. The property counts the workers that SIGTERM reached
  and is not inductive: a worker that was noted on its way into `accept()` may block
  there, be interrupted by a second SIGTERM, and be counted without a request. `RequestInv`
  therefore counts only the workers that will not accept again (`Spent`), of which each
  has at most one such count behind it, next to the calls of `Accept()` that failed by
  themselves. The cardinalities change by one element at a time.
- `WakeUps` : `NoLostWakeup`. `WakeInv` follows a request through the iteration: no handler
  has run while signals are blocked, a request that came after the flags were tested has
  left its byte in the pipe until `select`, also while `KillProcessGroup` acts on the other
  flag (`Towards`), and a dead child is announced by a pending SIGCHLD or by a byte.
- `GracefulShutdown` : `GracefulSmartShutdown`. `TermBudget`: a SIGTERM is pending, noted or acted
  upon, in one of the three places at a time, so one SIGTERM is never taken for the second.
  With `QuietInv`, `GracefulInv` follows: no worker is sent SIGQUIT, and one without
  SIGQUIT ends only at the top of its loop.

- `OneReason` : `SingleFatalReason`, from `ReasonInv`. The exchange tells its caller to log
  exactly if nobody was told before (`ExchangeTells`), because the flag is down only while
  there is no reason, or one from before there was a flag (`EarlyReason`, `NoReasonYet`). The
  branch for an unknown child logs whatever the flag says; that its child is a stray follows
  from `PidsTracked`, and that `child` keeps naming it from `NoWayBack`: an overseer on its
  way out calls `waitpid` no more. Who is about to log was told to (`OwedIsLogged`), and the
  overseer leaves that point only for its log line, its SIGQUIT handler or its death
  (`OverseerPays`).

`SemaphoresProofs`:

- `Conservation` : `PermitsConserved`, for every number of workers and every initial value. It needs
  that a waiter holds nothing (`WaitersEmptyHanded`), so that `holding` grows when
  `sem_wait()` returns.

`SocketSetupProofs`, for every set of instances:

- `Restart` : `RestartSucceeds`. `AloneInv` says, for every place in the set-up of an instance
  that nobody overlaps, what is at the two paths: a file it saw is still there when it
  calls `unlink`, and what it bound is still its own when it is up.
- `NotAllFail` : `SomeoneStarts`. `AheadInv`: of the instances that have started, there is always
  one whose next call does not fail for what another has done.
- `PlainFiles` : `PlainFilesKept`, from `UnlinkInv`: where an instance is about to unlink there
  is a socket or nothing.

`StatisticsProofs`, for every number of workers and clients:

- `Freshness` : `ReplyIsFresh`. The shared values only grow (`GrowthInv`), whoever waits has connected
  (`QueueInv`), and from `select` to `accept` the client at the head of the queue stays there,
  so that the statuses read so far were read for it (`ReadInv`).
- `Consistency` : `ReplyIsConsistent`. `CountInv`: the counter is the sum of what the workers have
  counted, and each octet, also the copy read before the counter, is behind its worker.
  The sum is a fold over a finite set. The prover cannot instantiate the library's
  induction theorems, so induction is stated for a set of numbers (`NatSetInduction`, from the
  well-foundedness of finite sets) and for sets of workers (`SubsetInduction`); with it,
  sums exist (`SumsExist`), grow with their terms (`SumsMonotone`) and by one with one
  term (`SumsOneMore`).

`LoaderProofs`, for every set of variables, subroutines and names:

- `Alive`, `Balanced` : `CalledIsAlive` and `ScopesBalanced`. What has a reference was not freed (`Kept`),
  BladePSGI has counted a reference to all it may still call (`Counts`), and callbacks
  run in the loader, an auxiliary process or a worker only (`CallsInPlace`).
- `LoaderImplements` : each step of `Loader` is a step, or a stutter, of the allocator's specification
  and of the interpreter's. `LoaderSafe` carries the invariants of both over to it.

`SharedMemoryProofs`:

- `TypeCorrectness` : `TypeOK`, with the alignment of every offset.
- `NoAliasingTheorem` : `NoAliasing`, from an invariant that gives the objects of the
  runner disjoint ranges below its offset, and says that a copy is locked and equal to
  the runner's allocator, which is locked too.
- `NothingLost` : `NothingLostToRefusals`. `AccountInv` is the equation for the runner, whose set of
  objects is finite; a call that takes memory adds an object that was not there, as its
  offset shows, and a copy takes nothing, being locked.
- `ObjectsInTheirAreaTheorem` : `ObjectsInTheirArea`, from the same invariant. That the status
  octets are in the segment too (`InSegment`) is not so, see violation 4.

`StartUpProofs`, for command lines, words and titles of every length:

- `CommandLines` : `StartsAsAsked`. `CommandLineInv` says of the words before `optind` that they
  have been dealt with as `Reading` has them (`Scanned`), that no "--" is among them and no
  value outstanding, and that a refusal has an option to blame. `Reading`, `Ascending` and
  `Start` are recursive functions; `Recursion` and `Unique` show, from `NatSetInduction`,
  that such equations have exactly one solution, and so that `Reading`, say, satisfies its own.
- `TitleStaysInArgv` : `TitleFits`. What is written is `Written(title)`, and state "Run" gives four
  operands (`CommandLineInv`). `argv_` then names every word (`ArgvLemma`), the ends
  of words grow with their places in memory (`EndLemma`), so the last word in a row ends no later
  than the last word of all, and exactly there if nothing was moved (`RowLemma`).
- `ReadsEnd` : `ReadsEndInArgv`. A word starts before its own NUL (`ReadLemma`); if the title lies
  over it, so does the padding, which reaches the last byte of the row.

Only model-checked: liveness, that is `StopNowCompletes`, `SupervisionProgress`,
`OrphansDie`, `InterruptStopsAll`, `NoWaitForTheDead`, `WaitersQuit` and
`EveryClientAnswered`, because the prover has no rules for fairness. Every invariant and
action property of the passing runs is also a theorem.

## 5. Not modelled, and what is left

- Pid reuse, and `worker_pids_` seen by the SIGQUIT handler in the middle of an `erase`.
- The operations of an atomic integer: one hardware instruction each. The `int` of their
  arguments in `XS.xs` cuts what does not fit before the operation begins.
- `mmap()` that fails (the code tests for NULL): nothing runs yet.
- A failing `prctl`, which the code logs and passes over.
- A client of the statistics socket that closes it: the FastCGI library is assumed to
  ignore SIGPIPE for the whole process, and the failing `write` goes unnoticed.
- Socket paths longer than `sun_path`, which are cut.
- `request_auxiliary_process` after the fork, which appends to a list nobody reads any
  more.
- A connection that the FastCGI library drops inside `Accept()` and replaces by the next.
- The exit status of an option error: `getopt_long` reports it with the '?' that is also
  the value of `--help`, so `main()` prints the usage and exits with 0 (`GetoptQuestionMark`
  has this; no property is about it).
- A variable that the loader assigns to after it was given to `request_auxiliary_process`
  changes what the process calls: the glue keeps the scalar, not a copy (`Assigns` has this).
- A child that the overseer's death overtakes before `prctl()`: `OrphansDie` leaves it out. Only
  the monitoring process notices, and a worker in `accept()` does not read the flag it sets.
- Text and layout, the formatting of exceptions and log lines, and `make_unique.hpp`.

Left to prove: type invariants as theorems of their own for the small modules, and lemmas
about the safety half of the liveness properties (that nobody leaves the region in which
the awaited step stays enabled).
