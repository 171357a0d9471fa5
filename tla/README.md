# Formal model of the ios_system shell library

`ios_system` runs Unix commands inside one iOS application: there are no
processes, so `fork`, `waitpid`, `exit`, `chdir`, `kill`, pipes and environments
are emulated with threads and shared tables. This directory holds TLA+ models of
the parts that carry that emulation, TLC configurations that check them on small
instances, and TLAPS proofs, for all instances, of the safety properties of every
component.

Everything is translated from the C and Objective-C sources in the root of the
repository; line numbers in `PROJECT.json` ("map") tie each definition to them.

## 1. The system

The program's own logic is about 10,700 lines in eleven files of the root
directory. The commands it runs (`file_cmds`, `text_cmds`, `shell_cmds`, `awk`,
`curl`, `libarchive`, `less`, ssh) are third-party code.

| Component | Files | State | Operations | Hard part |
|---|---|---|---|---|
| Emulated process table, command life cycle | `libc_replacement.c` (650-818, 1043-1144), `ios_system.m` (389-681, 1313-1373, 2963-4237), fork bookkeeping of `ios_shell_parser.m` | `thread_ids[]`, `previousPid[]`, `previousDirectory[]`, `last_allocated_pid`, thread-local `current_pid`, `cleanup_counter`, `pid_mtx`, `chdir_mtx`, `ios_system_mutex`, the working directory | `ios_fork`, `ios_storeThreadId`, `ios_waitpid`, `ios_releaseThread(Id)`, `ios_system`, `run_function`, `cleanup_function`, `chdir` | slots reused while others poll them without a lock, nested forks on one thread, error paths, a full table |
| Interpreter pool | `ios_interpreter_pool.c` | per type: semaphore, 32-bit slot bitmap, size, wait counter | acquire (timed or not), try a named slot, release, configure, force release, shutdown, queries | lock-free claims, bitmap and semaphore changed separately, lazy initialization raced by configure |
| Session manager | `ios_session_manager.m` | 256 buckets with a readers-writer lock, `ref_count`, `is_destroying`, totals | get, get-or-create, release, delete, shutdown, per-session lock | a count read under one lock and used under another; last release races delete |
| Cooperative cancellation | `ios_session_manager.m` 530-569, `libc_replacement.c` 84-250 and 353-600, `ios_kill_session` | `cancel_requested`, cancel pipe | request, clear, cancellable read, select, poll, sleep | flag and pipe change in two steps |
| PID allocator | `ios_pid_allocator.c` | lock-free free list of contexts, cleanup counter | alloc, release, wait for cleanup | ABA on pop |
| Thread pool | `ios_thread_pool.c` | four priority queues, workers, items | submit, wait, cancel, drain, shutdown | one "not full" condition for four queues, callback set after enqueue |
| Buffered pipe | `ios_buffered_pipe.c` | ring buffer, closed flags | read, write, close of each end | close while the other side sleeps |
| Asynchronous commands | `ios_async.m` | handle with reference count and state | start, wait, kill, release, callback | reference taken after the thread started |
| Environment manager | `ios_env_manager.c` | per-thread copy-on-write environments, registry | get, set, unset, clone, cleanup | pointers used after the registry is unlocked |
| Pipeline scheduler | `ios_pipeline.m` | stages, `completed_count`, global `joinMainThread` | execute, wait, kill | save/restore of a global by concurrent stages |
| Shell parser | `ios_shell_parser.m` | none of its own | substitution, `;`, `&&`, <code>&#124;&#124;</code> | nesting, capture of more output than a pipe holds |
| Command parsing and lookup, stream wrappers | `ios_system.m`, `libc_replacement.c` | - | - | string handling, no shared protocol |

How they interact:

* A caller forks a slot (`ios_fork`), calls `ios_system`, and waits for the slot
  to be free (`ios_waitpid`). `ios_system` starts a thread that runs
  `run_function`, then the command, then `cleanup_function`; the thread puts its
  id into the slot and frees it at the end.
* `ios_system` acquires an interpreter slot before it starts a Python command
  (lines 3842-3860); `cleanup_function` releases it on the command's thread
  (462-467).
* `ios_switchSession`, `ios_closeSession`, `ios_kill_session` and `ios_system`
  take and release references to sessions.
* `ios_popen` uses a buffered pipe; `run_function` and `cleanup_function` create
  and drop the environment of the command.
* The PID allocator and the thread pool are finished parts with tests of their
  own that `ios_system.m` does not call yet.

What makes each component correct:

* process table: a slot in flight is given up only by its own fork; a wait ends
  when, and not before, the command has freed its slot; nothing is left blocked;
  a directory set after a wait is not undone by the ended command;
* interpreter pool: one holder per slot, admission implies a free bit, capacity
  is neither lost nor invented, waiting acquires are served;
* session manager: a reference keeps its session alive, one open session per id,
  counts agree with the references, a deleted session goes in the end;
* cancellation: flag and wake-up byte agree, and a request that crosses no clear
  reaches every command of the session;
* PID allocator: a context has one owner and none is lost; thread pool: an item
  is neither freed while somebody uses it nor kept after, and no submitter, waiter
  or shutdown is forgotten; buffered pipe: bytes come out once and in order, nobody
  sleeps for ever after a close; async: a handle lives as long as it is used, the
  callback runs once, the final status stays; environment: a copy is a snapshot, and
  a lookup finds the living thread's own; pipeline: streams outlive the commands that
  use them and the wait returns when the input ends.

The hazards each part is exposed to are in `PROJECT.json` ("hazards"), with the
property that covers each, or the reason why none does yet.

## 2. Modules

| Module | What it is |
|---|---|
| `PidTable` | the process table and the life of a command |
| `InterpPool` | one interpreter pool, at the grain of its atomic instructions |
| `SlotPool` | what a pool promises: a slot goes to one agent at a time |
| `SessionTable` | one bucket of the session table |
| `BufferedPipe` | the ring buffer with its mutex, conditions and closing flags |
| `ByteQueue` | what a pipe promises: a bounded queue of bytes |
| `PidAllocator` | the lock-free free list of contexts, the active table, the cleanup gate |
| `ThreadPool` | the four priority queues, the workers and the reference counted items |
| `AsyncCommand` | one asynchronous command: handle, thread and clients |
| `SessionCancel` | the cancel flag and the cancel pipe of one session; extended by `Pipeline` |
| `Pipeline` | stages, their commands, `joinMainThread`, composed with `SessionCancel` |
| `EnvManager` | environments per thread, their registry and the copies |
| `MCSessionTable`, `MCThreadPool` | symmetry sets and priorities for TLC |
| `PidTableProofs`, `InterpPoolProofs`, `SessionTableProofs`, `BufferedPipeProofs`, `PidAllocatorProofs`, `ThreadPoolProofs`, `EnvManagerProofs` | inductive invariants, theorems and proofs about the module they extend (section 6) |
| `ExecutionProofs` | the same for `Pipeline` and `AsyncCommand`, both of which it extends |

A definition called "Mutant" in a comment is a wrong variant of the definition
after it. None is part of a specification; they are there to show that the
properties notice the mistake (`PROJECT.json`, "mutants").

### PidTable

State: the variables carry the names of the C globals. A slot is `"free"` (0),
`"inflight"` (the sentinel -1 that `ios_fork` writes) or the thread that runs in
it. `current_pid` is thread-local in the code and a function of the thread here.
`stack` holds one frame per nested `ios_system` call of a thread: the slot it
forked, and what to do after the wait. `job` remembers for which fork a
command thread was created. Two variables are there for the properties only and no
step reads them: `reaped`, the commands whose starter's wait has returned, and
`strayed`, that a call has acted on a slot it had not forked. Two calls can: an
`ios_system` without a fork before it (as `ios_popen`, the asynchronous commands and
the stages of a pipeline make it), whose `ios_storeThreadId` finds the slot of a stale
`current_pid` in flight; and `ios_releaseThreadId(pid)` after `ios_waitpid(pid)` (as
`source` and `jsc` call it), which finds the slot forked again. Both are part of every
run; what they do is finding 3 and the first line of section 5.

Steps are cut at every lock, unlock and unlocked read: the guard on
`cleanup_counter` is read before the lock is taken, `ios_nextAvailablePid` holds
`pid_mtx` over its scan and takes `chdir_mtx` inside it, `ios_waitpid` reads the
slot without a lock, `ios_releaseThread` frees the slot first and restores the
directory later with `pid_mtx` still held. What runs under one lock without
another shared access is one step.

| Code | Actions |
|---|---|
| `ios_fork` / `ios_nextAvailablePid` | `ForkSpin`, `ForkLock`, `ForkScan`, `ForkGetwd` |
| `ios_storeThreadId(0)`, `(pthread_self())` | `StoreZero`, `StoreSelf` inside the actions that call it |
| `ios_system` | `SysLock`, `SysEarlyReturn`, `SysSubstitute`, `SysComposite`, `SysDispatch`, `CreateThread`, `CreateFails`, `Join` |
| `;`, `&&`, <code>&#124;&#124;</code>, `$( )` | `SeqEntry`, `SeqPart`, `SeqDone`, and the frame kinds `seq`, `capture` |
| `ios_waitpid` | `WaitReturns`, and `Spin` for a turn of a polling loop that finds nothing |
| `ios_releaseThreadId` | `ReleaseIdLock`, `ReleaseIdChdir` |
| `run_function`, `cleanup_function` | `RunFunction`, `CleanupEnter`, `DrainChdir`, `DrainPid`, `ReleaseThread`, `RestoreDirectory`, `CleanupExit` |
| `chdir`, `ios_fchdir` | `ChdirSpin`, `ChdirLock`, `ChdirCommit` |
| `cd`, `newPreviousDirectory`, and other changes of the directory without a lock | `ChangeDirectory`, `RecordDirectory` |

Abstractions: a command is a thread that may itself call the API and then ends;
`joinMainThread` and the foreground/background choice of the release are
nondeterministic; which branch `ios_system` takes for a command line is
nondeterministic. The working directory is one for the process, and `cd` changes it
without a lock, so no property says which directory a thread finds; `OwnChdirSurvives`
says who may not change it. Left out: environments per slot, `ios_waitpid(-1)` on
`lastThreadId`, and the wait of `cleanup_function` for the pipe of the root
thread.

### InterpPool and SlotPool

One pool; the pools of different types share nothing. The bitmap is the set of
its set bits, and every atomic load, compare-and-swap, semaphore operation and
unlocked read of `initialized` is a step. `snap` is the local copy of the bitmap
a compare-and-swap compares with. An agent is one use of the pool, whichever
threads acquire and release the handle. A wait with a timeout may end without
the semaphore. `Disturb` adds `force_release_all` and `shutdown`; `disturbed`
remembers that one of them happened.

Shutdown may come in the middle of any call, as the header and the comment at line 141
have it. After it a call that has to initialize the pool locks the destroyed
`config_mutex` (`pthread_once` never creates it again): its label becomes `undefined`.
Assumed: `dispatch_semaphore_create` succeeds.

`SlotPool` grants a free slot to an agent or takes it back, in one step, until it
is `broken`, after which it promises nothing.
`InterpPool` implements it with the grant of an agent being its handle from the
swap that sets the bit to the one that clears it, and `broken` being `disturbed`
(`ImplementsSlotPool`).

### SessionTable

One bucket: the list of entries, the readers of its lock, and sessions with
`ref_count` and `is_destroying`. Each atomic access is a step; a critical section
under the write lock is one step, enabled when there is no reader. A session has
a number that is not used again, so a freed session is recognizable.

Calls overlap in every way. Two history variables, which no step reads, remember the
crossings that break the protocol: `overtaken`, that a session was created between the
read lock and the write lock of a delete of its id; `raced`, that, or that a delete
marked a session in the middle of another call on it (`MarksInUse`), or that the last
reference went between a delete's mark and its look at the count (`ReleasesInDelete`).
A release through a reference whose session was freed ends in the label `undefined`.
Left out: `ios_session_manager_shutdown` and the per-session lock. Cancellation has a
module of its own.

### BufferedPipe and ByteQueue

State: `buffer`, `head`, `tail`, the two closing flags, the mutex and the totals
carry the names of the C fields. A byte is the number of its arrival in the ring,
so a lost, repeated or misplaced byte shows. `received` (all bytes handed to the
reader) and `eof` (a read has reported the end) are there for the properties.

| Code | Actions |
|---|---|
| `ring_buffer_available`, `_space`, `_write`, `_read` | `Available`, `Space`, `RingWrite`, `RingRead` |
| `ios_pipe_write_timeout` | `Write`, `Lock`, `WriteCheck`, `WriteCopy`, `TimedOut` |
| `ios_pipe_read_timeout` | `Read`, `Lock`, `ReadCopy`, `ReadEmpty`, `TimedOut` |
| `wait_with_timeout` | the label `wait`, left by a signal, `Expire` or `SpuriousWakeup` |
| `ios_pipe_close_write`, `ios_pipe_close_read` | `CloseWrite`, `CloseWriteWake`, `CloseRead`, `CloseReadWake` |
| `ios_pipe_flush` | `Flush`, `FlushPoll`, `FlushSpin` |
| `ios_pipe_destroy` | `Destroy` |

The closing flag is set before the mutex is taken, so a close falls between any
two steps of a read or write; either end may be closed by any thread at any time,
as the header allows. `cut` remembers that the write end was closed in the middle
of a write (observation 2). One writer and one reader. Destroy comes when no call
is under way, as the header asks. Left out: the statistics `reader_waits` and
`writer_waits`, SIGPIPE, and the failure of `malloc`.

`ByteQueue` appends the next bytes to a bounded queue or takes some from its
front. `BufferedPipe` implements it with the queue being the bytes from `head`
to `tail`, around the end of the buffer (`ImplementsByteQueue`).

### PidAllocator

A context keeps the pid it was created with, so a context is its pid. `head`,
`next_free`, `size`, `ref_count`, `is_allocated`, `cleanup_counter` carry the
names of the C fields; `own` and `found` are the contexts a thread has from an
allocation and from a lookup.

| Code | Actions |
|---|---|
| `ios_pid_allocate` | `Allocate`, `WaitForCleanup`, the pop, `Create`, `Insert` |
| `pid_allocator_pop_free_list` | `PopLoad`, `PopNext`, `PopSwap`, `Popped` |
| `pid_allocator_push_free_list` | `PushLoad`, `PushNext`, `PushSwap` |
| `ios_pid_lookup`, `ios_pid_lookup_by_thread` | `Lookup` |
| `ios_pid_release` | `Release`, `RemoveActive`, the push |
| `ios_pid_begin_cleanup`, `ios_pid_end_cleanup` | `BeginCleanup`, `EndCleanup` |

Any number of threads are inside the pop, and lookups come at any moment. Two history
variables, which no step reads: `stale`, that a swap of a pop succeeded although
`next_free` of the head was no longer what the pop had read (ABA), and `revived`, that
a lookup counted a reference to a context whose last one was gone. After either the
same context may be in the table twice; the table is a set here, so what happens later
is an approximation, and no property is about it. The update of `size` is part of the
swap before it; a spurious failure of the weak swap repeats the same steps and is left
out; the buckets of the active table are one set. Left out: shutdown, the accessors and
the per-context environment.

### ThreadPool

State: the four queues as sequences, `shutdown`, `active_workers`, and per item its
`state` and `ref_count`. `handle` is the set of items whose creator's reference is
not given back, `lost` the items whose worker ended under them. A critical section
of `queue_mutex` or of an item's mutex is one step; a thread asleep on a condition
variable has a label for it, `cond_signal` wakes any one of them, `cond_broadcast`
all.

| Code | Actions |
|---|---|
| `ios_thread_pool_submit`, `_try_submit`, `_submit_with_callback` | `Submit`, `SubmitLocked`, `TrySubmitLocked`, `SetCallback` |
| `enqueue_work`, `dequeue_work` | `Enqueue`; `Highest`, `Taken` inside `WorkerLoop` |
| `worker_thread_main` | `WorkerLoop`, `Execute`, `WorkReturns`, `Complete`, `CallBack` |
| `pthread_exit` in a work function, `ios_work_complete` | `WorkExits` |
| `ios_work_wait`, `ios_work_cancel`, `ios_work_release` | `Wait`, `WaitCheck`, `Cancel`, `CancelWake`, `WorkRelease` |
| `ios_thread_pool_drain`, `_shutdown`, `_destroy` | `Drain`..., `Shutdown`, `ShutdownWake`, `Join` |

Assumed of the clients: the creator's reference is given back once, when no client
uses the handle, and the pool is shut down once. The pool starts created; a create
that fails returns NULL and leaves nothing. Left out: statistics; `resize`, which
the code does not implement.

### AsyncCommand

One command: `status`, `exit_code`, `kill_requested`, the callback fields and
`ref_count` as in the C struct, `expired` for the clock, which may pass the deadline
at any moment. Critical sections of `cmd->mutex` are steps; the reference count and
the stores of RUNNING are steps of their own because the code does them unlocked.
After a use of freed memory anything may happen and the thread's label becomes
`undefined`.

| Code | Actions |
|---|---|
| `ios_system_async` | `AsyncInit`, `Create` |
| `command_thread_func` | `Retain`, `Run`, `CommandEnds`, `FinishCommand`, `CloseSession`, `ThreadRelease` |
| `invoke_callback_if_set` | `Invoke`, `CallBack` |
| `ios_command_wait` | `Wait`, `WaitTurn` |
| `ios_command_kill`, `_set_callback`, `_release` | `KillCommand`, `SetCallback`, `ClientRelease`, `LastRelease` |

`set_callback` may store NULL; when it does between the test and the call of
`invoke_callback_if_set`, the call is of NULL and the label becomes `null_call`.
`ios_system_sync` and `ios_system_timeout` are sequences of these calls. Clients
give the handle back once, when no other client is inside a call.

### SessionCancel and Pipeline

`SessionCancel` has the two objects that no lock joins: `cancel_requested`, and the
bytes in the cancel pipe. A request swaps and then writes, a clear stores and then
drains; `crossed` remembers that one of each overlapped. A waiter looks at the flag
and then polls for the byte.

`Pipeline` extends it: the caller launches and waits, each stage thread forces
`joinMainThread`, goes through `ios_system` (clear, dispatch under the mutex, create,
join or not) and closes its ends of the pipes; each command reads its input to the
end, gives up when it is cancelled, or ends by itself. `joinMainThread`,
`isMainThread` and the root thread are shared by all stages, as in the code. The host
may have `joinMainThread` TRUE or FALSE; `lifted` remembers that a stage's restore took
the forced join away from another stage whose `ios_system` had yet to read it. With
`|&` (`share_stderr`) the outputs of a stage are one FILE, and its second `fclose` is
the label `undefined`.

A command that is not found needs no branch of its own: ios_system.m:4077-4081 makes
`command_not_found` the function whenever there is none, so it runs on a thread of its
own like any other, and the `else` at 4202-4223, with its `fclose` of the streams, is
dead code. So is the closing of streams for `sh` in `cleanup_function`: 3803-3808 turn
every `sh` into `dash`. `NothingToRun` is the returns before a thread is created.

| Code | Actions |
|---|---|
| `ios_pipeline_execute`, `_wait`, `_destroy`, `_kill` | `Launch`, `LaunchFails`, `WaitStage`, `Destroy`, `KillStage`, `KillStageStore` |
| `pipeline_stage_thread` | `Begin`, `ForceJoin`, `Restore`, `CloseOut`, `CloseIn`, `Finish` |
| `ios_system` in a stage | `Clear`, `Drain`, `Dispatch`, `NothingToRun`, `CreateCommand`, `CreateFails`, `JoinOrNot`, `JoinCommand`, `Return` |
| `run_function`, `ios_read`, `cleanup_function` | `StartCommand`, `Check`, `Poll`, `EndsByItself`, `Cleanup` |
| `ios_kill_session`, request, clear | `Kill`, `RequestExchange`, `RequestWrite`, `ClearStore`, `ClearDrain` |

Left out: how a line is split into stages, a failing `pipe` or `fdopen`, the bytes
and a writer that waits for a full pipe, `lastThreadId`, the exception that `dash` is
never the root thread, and the slots of the process table (`PidTable` has them).

### EnvManager

A thread's `key` is its thread-local pointer, `registry` the hash table with the
newest entry first; the locks of an environment are sets of holders. A thread id
is used again by a later thread, as pthreads does. `frees` counts how often an
environment was freed.

| Code | Actions |
|---|---|
| `env_hash_insert`, `_remove`, `env_lookup_by_tid` | `WithEntry`, `WithoutEntry`, `Lookup` |
| `ios_env_init_thread` | `InitThread`, `ReadLock`, `CopyVariable`, `CopyDone`, `Publish` |
| `ios_env_copy_from_thread` | `CopyFromThread`, `ReadLock`, `WriteLock`, `CopyVariable`, `CopyDone` |
| `ios_env_setenv`, `_unsetenv` | `Setenv`, `Unsetenv` |
| `ios_env_cleanup_thread`, the destructor, shutdown | `Cleanup`, `ExitRaw`, `Shutdown` |

Shutdown may come at any moment and calls may follow it: they lock a destroyed lock,
which `misused` remembers, as they use freed environments (`PointsToAllocated`); from
then on the behaviour is undefined and only what holds whatever happened is claimed.
`setenv` and `unsetenv` are one step each, so a shutdown falls between them and not
inside one.

## 3. Runs

| Run | Instance | What it shows |
|---|---|---|
| `pid_table` | 2 application threads, 2 command threads, 2 usable slots, nesting 2, 3 operations, fairness | With slots reused and until a call strays: no slot in flight is given up by a stranger, no wait ends early, no directory set after a wait is undone; every path pays its slot back and nobody stays in a wait, unless the table is full |
| `pid_table_release` (violation) | 2 application threads, 1 command thread, 1 usable slot, 2 operations | Finding 3 |
| `interp_pool` | 2 agents, 1 slot (or 2 by configure) of a 2-bit word, 4 calls, forced release and shutdown, fairness | Exclusion, admission, capacity, refinement of `SlotPool`; waiting acquires are served, every call returns that shutdown has not stranded |
| `session_table` | 3 threads, 2 ids, 3 sessions, 6 calls | One open session per id and exact counts in every overlap; references pin sessions until `raced`, no orphan until `overtaken` |
| `session_table_pins` (violation) | 2 threads, 1 id | Finding 1 |
| `buffered_pipe` | ring of 3, calls of 1 and 3 bytes with every kind of timeout, 4 bytes, 3 reads, 1 spurious wakeup, fairness | Bytes come out once and in order, the end of file last, no wakeup is lost |
| `pid_allocator` | 3 threads, 3 contexts, 4 calls, fairness | One owner per context, lookups keep it, the stack loses nothing, until `stale` or `revived`; the gate opens and every allocation returns, races included |
| `pid_allocator_reuse` (violation) | 2 threads, 2 contexts, 6 calls | Finding 2 |
| `thread_pool` | 1 worker, 2 submitters of different priorities with one place each, 2 clients, 4 calls, 1 `pthread_exit`, fairness | References are exact; blocked submits, waits and shutdowns return |
| `async_command` | 3 clients, 4 calls besides the release, any options, fairness | The handle outlives its use, the callback runs once and is not forgotten, the final status stays |
| `pipeline` | 2 stages, either `joinMainThread`, 1 thread that kills the session, 1 kill of either kind, fairness | Flag and byte agree, streams outlive commands until `lifted`, the wait returns, a cancellation reaches everybody |
| `env_manager` | 2 thread ids, 3 environments of 2 variables, 2 changes or copies, fairness | Copies are snapshots, lookups find the living thread's environment, nothing is freed twice, calls return |

In every module the type invariant `TypeOK` (`AsyncTypeOK` in `AsyncCommand`) is a
conjunct of one of the checked invariants, and so proved with it; only `interp_pool`
checks it by itself.

Bounds. `MaxOps` and `MaxCalls` bound the calls that are started, `MaxDepth` the
nesting, `MaxSessions` and `MaxEnvs` the allocations, `MaxKills` the kills; each is a
guard of the actions that start work, so a bound never cuts a call short. They are
the smallest with which the cases of interest happen: two usable slots and three
forks make the table wrap around and reuse a slot while another is in flight; two
agents on one slot make an agent wait, a swap fail and a release race an admission,
and two slots make named and unnamed acquires meet; three sessions on an id
allow one that waits for its last release, its successor and another; a ring of
three holds two bytes, so a write of three always waits in the middle and wraps
around the end; three contexts with threads in the pop and in the push make swaps of
both kinds fail. Queues with one place
block both submitters at once, so that a signal can pick the wrong one; three
clients of a command let a wait, a timeout and a callback meet the end of the
command; two stages suffice for a pipe, a restore of `joinMainThread` over another
stage's, and a clear that crosses a kill (that a second request before a clear adds no
byte is left to the theorem about `FlagAndByteAgree`); two ids and three environments give an id
to a second thread while the first one's environment is still registered.

TLC's deadlock check is on where a state without work left has the stuttering action
`Finished` or `Done`. It is off in `thread_pool`, `pipeline` and `env_manager`, which
may really stop: waiters for dropped items, a command whose input never ends, threads
that copy in a circle. There the liveness properties say who must not be left.

Symmetry is used in the runs of `SessionTable` only, which check safety: threads and
session ids are interchangeable in the code.

Fairness. `pid_table`: weak fairness of the library's steps of each thread
and of the steps of each command thread. The operating system schedules every
thread, and a command ends; no thread has to start work. A mutex that is free
infinitely often is not assumed to be granted: weak fairness suffices because
the number of operations is bounded and holders release. `interp_pool`:
weak fairness of every step in a call and of the release of a handle
(`cleanup_function` releases on every path), none for starting a call.
`buffered_pipe`: weak fairness of the steps of a read, a write and a close that
has begun, timers included; nobody has to call anything and no spurious wakeup
has to happen, so a reader is served by the signals alone. `pid_allocator`: weak
fairness of each thread's steps in a call, of giving references back and of
ending a cleanup. `thread_pool`: weak fairness of the steps inside the pool, and
work functions return; nobody calls anything. `async_command`: the threads run, the
command ends, the caller gives the handle back; nothing is assumed of the clock.
`pipeline`: every thread that exists runs; a read without input or cancellation
waits, and no kill has to come. `env_manager`: threads inside a call go on.

## 4. Findings

Each has a run that shows it; `PROJECT.json` quotes the comment or header line that says
otherwise. The passing run of the module shows that the property holds up to the event
named here, so that the finding is the only way to break it.

1. `session_table_pins`: `ios_session_delete` reads `ref_count` under the read
   lock and frees under the write lock without looking again; in the same
   overlap `ios_session_release` reads `is_destroying` of a freed session after
   it gave up the last reference. (`raced`)
2. `pid_allocator_reuse`: the pop compares addresses. A context that was popped
   and pushed back in between makes a stale `next_free` the head, and a context
   in use is handed out a second time. (`stale`)
3. `pid_table_release`: `ios_releaseThreadId(pid)` after `ios_waitpid(pid)` frees the
   slot of the fork that has it by then, restores that fork's directory and moves the
   caller's `current_pid`; the wait of that fork returns before its command. (`strayed`)

## 5. Observations

What the models show besides the findings. The first table has claims of the sources
that the code does not keep; each is a definition of the module, and TLC refutes it when
it takes the place of the properties in the module's cfg (for `SentinelOfOwnFork` with
one usable slot). They have no run, and each is an exception that the properties of the
passing run name, in the last column.

| Module, definition | The source says | The code | Exception |
|---|---|---|---|
| `PidTable!SentinelOfOwnFork` | libc_replacement.c:783 "we only act when sentinel == -1 (i.e. an ios_fork() actually advanced current_pid for this thread)" | `ios_storeThreadId(0)` acts on the slot of `current_pid`, which stays behind after a wait; an `ios_system` without a fork that returns early gives up the slot another thread has just forked | `strayed` |
| `InterpPool!AvailabilityExact` | ios_interpreter_pool.h:123 "true if at least one slot is available, false otherwise" | `1U << 32` is undefined for a pool of 32 slots, a size the code admits (line 396) | not a property |
| `InterpPool!ReleaseServesWaiter` | ios_interpreter_pool.h:95 "Makes the slot available for other threads" | a release after shutdown (line 343) neither clears its bit nor signals, and who waits without a timeout sleeps on | `Stranded` |
| `SessionTable!NoOrphan` | ios_session_manager.h:163 "actual deletion happens when ref_count reaches 0" | the delete frees the first entry of its id (line 400), which may be the successor of the session it marked; the marked one stays for ever | `overtaken` |
| `PidAllocator!ReferenceKeepsContext` | ios_pid_allocator.c:345 "Increment reference count before returning" | the lookup counts a reference to a context whose release has already found 1 (line 293); it is recycled under the reference | `revived` |
| `ThreadPool!PendingWorkCompleted` | ios_thread_pool.h:208 "Completes all pending work before terminating workers" | the workers leave at the sight of the flag (line 177) with items queued; their waiters, and drainers, sleep on | `NoWorkers` |
| `Pipeline!CommandFinishesFirst` | ios_pipeline.m:83 "we need the command to finish before we can clean up streams" | a stage restores the host's FALSE (line 91), another stage's `ios_system` returns without its join, and the streams are closed under the command | `lifted` |
| `Pipeline!ClosesOnce` | ios_pipeline.m:104 "Close only internally-created streams" | with <code>&#124;&amp;</code> line 109 has set `stdout_stream` to NULL when line 114 compares with it, and the FILE that both outputs are is closed twice | `Undefined` |
| `EnvManager!FoundIsAllocated` | ios_env_manager.h:28 "Thread-safe: Can be called multiple times (idempotent)" | shutdown (line 98), or a thread that ends without cleanup, frees an environment that a copy took from the registry | `Undefined` |
| `EnvManager!EndedIsFreed` | ios_env_manager.h:46 "Frees all environment variables and storage" and ios_env_manager.c:329 | `ios_env_cleanup_thread` sets the key to NULL, after which pthreads does not call the destructor: nothing is freed and the entry stays | not a property |

The rest are conditions of the passing properties, which name them, or bounds.

Process table.

1. With all slots taken `ios_nextAvailablePid` scans for ever with `pid_mtx` held,
   and everything that frees a slot needs `pid_mtx`; the comment at
   libc_replacement.c:702 says it is held briefly. (`TableFull` of
   `EventuallyQuiescent`.)

Buffered pipe and interpreter pool.

2. The loop of `ios_pipe_write_timeout` looks at `read_closed` only. When another
   thread closes the write end in the middle of a write, the reader is told end of
   file and the rest is placed afterwards; ios_buffered_pipe.h:126 says "Reader will
   see EOF after draining remaining data". (`~cut` of `EofIsFinal`.)
3. A pipe with `buffer_size` 1 has no space at all; `ios_pipe_flush` without a
   timeout polls for ever once the reader has closed with bytes left; a reader that
   sleeps while its own end is closed is not told.
4. `ios_interp_pool_configure` returns 0 when another thread initialized the pool with
   another size after the unlocked check; a call after shutdown locks a destroyed mutex.

Asynchronous commands.

5. The thread takes its reference after `pthread_create` (ios_async.m:83). A caller
   that releases before that frees the handle under it when a wait has marked the
   command as timed out; otherwise its release waits on a handle that two threads will free
   (`~early` of `HandleOutlivesUseOnceStarted`). The comment above the line says the
   reference prevents exactly this, and ios_async.h:152 that a release waits for the
   command.
6. A TIMEOUT that a wait has stored may be overwritten by RUNNING; after it,
   `ios_command_kill` does nothing, so `ios_system_timeout` never kills what it timed
   out; `set_callback` after it fires while the command still runs (`~gave_up` of
   `CallbackOnce`). The wait sleeps without a deadline, so it notices one only when it
   is woken for another reason. `set_callback(NULL)` between the test and the call of
   the callback makes it a call of NULL (`Crashed`).

Cancellation and pipelines.

7. A request that crosses a clear leaves the flag set without a byte, or a byte
   without the flag (`~crossed` of `FlagAndByteAgree`): in the first case later kills
   write nothing and a command that is already polling sleeps on, in the second the
   next command is interrupted.
8. Every stage's `ios_system` clears the cancellation of the whole session, so a kill
   while stages start is lost. The root thread is the command of one stage; when
   that stage ends, `ios_kill_session` answers ESRCH although other commands run.
9. A stage whose thread could not be created leaves its pipe ends open, and the next
   stage waits for an end of input that never comes (`Created` of `WaitReturns`).
   `ios_pipeline_wait` ignores its timeout; `ios_pipeline_kill` signals the stage's
   thread, not the command's, and the status it stores is overwritten.

Environments.

10. Two `ios_env_copy_from_thread` in opposite directions wait for each other, and one
    from a thread to itself waits for itself (`Circle`). The process environment is
    copied without a lock. Were cleanup to free the environment as its comment says, a
    second free would follow at the next shutdown, because the entry stays (the mutant
    of `FreedOnce`).

Thread pool.

11. A cancelled item is still executed: `worker_thread_main` stores EXECUTING over
    CANCELLED. A work function that ends in `pthread_exit` leaves `active_workers` too
    high, so that a later drain never returns, and its reference is never given back
    (`lost`). A drain may look between a dequeue and the increment of `active_workers`.
    A callback set after the item ran is not called. A `max_queue_size` below 8 gives
    queues without a place.

## 6. Proofs

All modelled components are proved about, in modules that extend the models: the
invariants that the runs check, the refinements, and the action properties
`SentinelUnlessStrayed`, `NoEarlyReturnUnlessStrayed` and `StatusFinal`, for every value
of the constants. No theorem has a hypothesis besides the `ASSUME` of its model, which
only gives the constants their types.

| Theorem | Statement |
|---|---|
| `PidTableProofs!PidTableTypes`, `CleanupsAreCounted`, `MutexesAreExclusive` | `[]TypeOK`, `[]CounterExact`, `[]LocksHeld` |
| `PidTableProofs!ChdirIsNotUndone`, `CommandsHaveOwnSlots` | `[]OwnChdirSurvives`, `[]SlotsDiffer` |
| `PidTableProofs!WaitIsNotEarly`, `SentinelIsOwn` | `NoEarlyReturnUnlessStrayed`, `SentinelUnlessStrayed` |
| `InterpPoolProofs!TypeCorrect`, `SlotsAreExclusive`, `SemaphoreGuarantee`, `CapacityIsConserved` | `[]TypeOK`, `[]MutualExclusion`, `[]AdmittedFindsSlot`, `[]CapacityConserved` |
| `InterpPoolProofs!PoolImplementsSlotPool` | `ImplementsSlotPool` |
| `SessionTableProofs!OneSessionOpen`, `CountsAreExact` | `[]OneOpenSession`, `[]CountsAgree` |
| `SessionTableProofs!SessionIsPinned`, `NoSessionIsOrphaned` | `[]PinnedUnlessRaced`, `[]NoOrphanUnlessOvertaken` |
| `BufferedPipeProofs!EofAfterDraining`, `BytesDeliveredInOrder` | `[]EofIsFinal`, `[]NothingLostOrSwapped` |
| `BufferedPipeProofs!PipeRefinesQueue` | `ImplementsByteQueue` |
| `PidAllocatorProofs!OwnerIsUnique`, `ReferencePins`, `NoContextIsLost` | `[]OwnersShareNothing`, `[]ReferencesCounted`, `[]NothingLost` |
| `ThreadPoolProofs!ReferenceCountsExact` | `[]ReferencesExact` |
| `ExecutionProofs!HandleSafe`, `CallbackAtMostOnce` | `[]HandleOutlivesUseOnceStarted`, `[]CallbackOnce` |
| `ExecutionProofs!StatusIsFinal` | `StatusFinal` |
| `ExecutionProofs!PipelineTypeCorrect`, `FlagAndByteConsistent` | `[]TypeOK`, `[]FlagAndByteAgree` |
| `ExecutionProofs!StreamsSafe` | `[]StreamsOutliveCommand` |
| `EnvManagerProofs!CopyIsExact`, `ThreadIsFound`, `FreedAtMostOnce` | `[]CopyIsSnapshot`, `[]FoundByItsThread`, `[]FreedOnce` |

Where a finding or a claim of section 5 refutes a property of the code as it is, the theorem says how far it
goes: the specification has every call the code allows, a history variable remembers
the one event that breaks the property (`strayed`, `overtaken`, `raced`, `stale`,
`revived`, `lifted`, `crossed`), and the theorem is that nothing else does. A repair of
the event, say a check of the owner in `ios_releaseThreadId`, would make the flag
constantly FALSE and the property unconditional.

None of the properties is inductive as it stands. What is:

**PidTable.** `TypeInv` adds to `TypeOK` that `cleanup_counter` is the number of threads
inside `cleanup_function` (`CounterExact`) and that a thread has frames exactly while it
is in a call, the outermost one a user's and no other (`Calls`). It holds always.
`PidInv` is `TypeInv` and, until something has strayed, `SlotInv` and `ReapInv`, which
are about claims. A claim on a slot is a fork under way, a frame that has forked
and has not given its slot on, or a command thread that has not stored its id: frames
under a `$( )` keep their claim while the inner command runs, frames under a part of a
sequence have given it back. `SlotInv`: a claimed slot is in flight (`ClaimsInFlight`),
no slot has two claims (`ClaimsDiffer`), `current_pid` is the slot of the innermost call
or is kept in the frame that will put it back (`CurrentIsTop`), and a command thread has
the slot it was created for, under its own id, until it frees it (`WorkersHold`). Every
step makes a claim on a free slot, hands one on, or gives one up, and no step touches a
claim of somebody else: `ios_storeThreadId` sees only the slot of `current_pid`, which is
the claim of the call it runs in. So a slot that a wait finds free was freed by the
command of that fork, which is `NoEarlyReturn`. `ReapInv` carries that on to the
directory: a reaped command is past its release (`ReapedReleased`), and who is past the
guard of `chdir` has read `cleanup_counter = 0` after that, so that none of its reaped
commands is about to restore (`ChdirAfterRestore`); here the counter has to be exact.
`LocksHeld` reads the holder of each mutex off the places of the threads.

**InterpPool.** `TypeInv` adds the ranges of `want` and `snap` to `TypeOK`. `PoolInv`
says that an agent has a handle only between the swap and the end of its release
(`HandlePlaces`), the set bits are the slots of the holders (`BitmapIsHeld`), who have
different ones (`HeldOnce`), and semaphore plus admitted agents is the number of slots
(`Accounts`). A swap that succeeds sees the bitmap it copied, so the bit it sets was
nobody's. An admitted agent without a slot is one of at most `max_slots`, so by the
pigeonhole principle (`FreeSlotForAdmitted`) a bit is clear. A successful swap is the
grant or the return of `SlotPool`, everything else stutters, and a step at or after a
disturbance is a step of the broken pool. A shutdown in
the middle of calls is a disturbance too.

**SessionTable.** Four layers. `ListInv`: the list has created sessions, none twice, and
of the sessions with one id only the first may be open. A creation under the write lock
keeps that because its second lookup saw the first one closed. `CountInv`: what a thread
sees in the middle of a call is still a session with the id of the call (`Sees`), and
`SessionCounts` and `TotalCounts` are the sums; both layers hold in every overlap.
`OrphanInv`, until `overtaken`: a marked session without references has a thread that
will free it or is deleting it (`Tended`), and a delete finds the session it marked first
of its id (`Finds`). `PinInv`, until `raced`: what a thread may believe in the middle of a
call (`Relies`), and a session has at most one thread that frees it (`OneTends`). The step
that carries the argument is the release: it reads 1 only if it was the last holder, so
nobody else is about to free the session, and from then on nobody gets a reference,
because no call uses a marked session it finds.

**BufferedPipe.** `PipeInv` adds who holds the mutex (`MutexInv`) and that the reader
decides end of file on an empty ring behind a closed write end with no writer inside
(`EofInv`). The arithmetic comes first: indices go around at most once, so `RingWrite`
appends to the queue of the refinement mapping and `RingRead` takes from its front.
`NothingLostOrSwapped` follows from the refinement.

**PidAllocator.** `PidInv` follows a context around until `stale` or `revived`: on the
free list, in the hand of one thread that allocates or releases it, or in the table with
as many references as holders (`Hands`, `TableOK`, `HoldersOK`). `ListOK` states the free
list as a sequence that exists, without naming it: a pop drops its first element, a push
adds one. Nothing is said of what a pop has read: a swap that succeeds with a `next_free`
that still holds takes the first element off, and one with a stale one sets the flag.
`NothingLost` then needs the walk from `head` along `next_free` to be that sequence
(`WalkIsList`) and the sequence to be no longer than there are contexts (`ListIsShort`).

**ThreadPool.** `PoolInv`: an item is in one place at a time, with its submitter, once
in one queue, with one worker, or lost with its worker (`QueuedOnce`, `WorkedOnce`,
`SubmittedOnce`), items are used only once created, `ref_count` is the creator's
reference plus the one of that place (`Counts`), and `active_workers` counts the work
functions that have not returned (`ActiveExact`). A signal or broadcast moves sleepers
only between labels that mean the same place.

**AsyncCommand.** `AsyncInv`: the count is the caller's reference plus the thread's
(`References`); without an early release, who is on its way to free the handle is the
only one left inside (`LastIsAlone`); the status tells whether the command ended
(`StatusTells`), which makes it final; `callback_invoked` is given once
(`CallbackPermit`).

**Pipeline and SessionCancel.** `TypeInv` bounds the bytes in the cancel pipe by the
kills that are not still on their way. `CancelInv` says what flag and pipe hold while
a request or a clear is half done. `StageInv`, until `lifted`: `joinMainThread` is TRUE
while an `ios_system` has still to read it (`Relying`), so a command lives only while its
stage's thread is about to join it, and the streams are open until that thread closes
them.

**EnvManager.** `EnvInv`: an environment that is not registered is known to its maker
only (`NewIsPrivate`), which is why it is filled without a lock; readers and writers of
a lock are in the copy that took it (`LocksHeld`); entries of the registry are allocated
and distinct (`RegistryInv`) and the first one with a thread's id is the thread's own
(`KeysFirst`), so that a raw exit removes exactly what it frees and a shutdown leaves
nothing registered that it freed; and what a copy has done so far equals the source while
nobody has freed what it uses (`CopiedSoFar`).

TLC checks every one of these invariants on the instance of its run as well. `ListOK`
quantifies over lists of any length, which TLC cannot enumerate: it was checked with the
length bounded by `MaxPids`.

Only model-checked: the liveness properties, because fairness and `ENABLED` are out of
reach of the prover. Every invariant and every action property of a passing run is
stated by a theorem.

## 7. Not modelled, and the plan

Of the 624,617 lines of C and Objective-C in the repository about 612,000 are the
bundled commands and libraries (curl, libarchive, ssh, less, awk, the BSD tools).
They are third-party programs that run on top of the library; they keep no state of
it. The map therefore covers a small share of the repository, but most of the
protocol code of the program itself (the root directory's library sources).

Not modelled for good: parsing and lookup of commands, stream wrappers and the
bundled commands: string handling and I/O without a protocol of their own.

Left out of modelled parts, and why: `ios_session_manager_shutdown` and the accessors
of the PID allocator (called at the end of a process, or reads); `ios_select`,
`ios_poll` and the sleep wrappers (the same wait for flag and byte as `ios_read`, which
`SessionCancel` has); `params->thread_id`, written after the command may have ended
(ios_system.m:4146); the contents of pipes in `Pipeline` and in
`capture_command_output`.

Next:

1. `PidTable` with the pipe of `capture_command_output`, so that a command that
   writes more than the pipe holds is covered.
2. Splitting and short-circuit evaluation of the shell parser as operators,
   checked against a reference definition over bounded inputs.
