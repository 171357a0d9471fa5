------------------------------ MODULE PidTable ------------------------------
(***************************************************************************)
(* The table of emulated processes of ios_system: the slots of             *)
(* libc_replacement.c that ios_fork hands out, and the life of a command   *)
(* that uses one.  A thread forks a slot, calls ios_system, which either   *)
(* gives the slot back itself or starts a command thread that stores its   *)
(* thread id in it, and waits until the slot is free again.  The command   *)
(* thread frees the slot in cleanup_function and restores the directory.   *)
(*                                                                         *)
(* Threads interleave at every lock, every unlock and every unlocked read  *)
(* of shared state (cleanup_counter, thread_ids in ios_waitpid).  Any      *)
(* thread may call ios_system with or without a fork before it, and may    *)
(* call ios_releaseThreadId after its wait, as source and jsc do.          *)
(*                                                                         *)
(* The history variable strayed, which no step reads, remembers that a     *)
(* call acted on a slot that some other call had forked: see StoreZero,    *)
(* StoreSelf and ReleaseIdChdir.                                           *)
(***************************************************************************)
EXTENDS Integers, Sequences, FiniteSets

CONSTANTS
    Roots,            \* threads of the application that call the shell API
    Commands,         \* threads that pthread_create returns to ios_system
    IOS_MAX_THREADS,  \* size of the table; slot 0 is never handed out
    Dirs,             \* directories of the file system
    Home,             \* the directory the process starts in
    MaxDepth,         \* bound: nested ios_system calls on one thread
    MaxOps            \* bound: operations all threads start between them

Threads == Roots \cup Commands

ASSUME PidTableAssumption ==
    /\ Roots \cap Commands = {}
    /\ IOS_MAX_THREADS \in Nat /\ IOS_MAX_THREADS > 1
    /\ Home \in Dirs
    /\ MaxDepth \in Nat \ {0}
    /\ MaxOps \in Nat
    /\ "free" \notin Threads /\ "inflight" \notin Threads
    /\ "unlocked" \notin Threads

VARIABLES
    thread_ids,         \* per slot: "free" (0), "inflight" (-1), or a thread
    previousPid,        \* per slot: current_pid of the forking thread
    previousDirectory,  \* per slot: working directory at the fork
    last_allocated_pid,
    pid_overflow,
    pid_mtx, chdir_mtx, ios_system_mutex, \* the holder, or "unlocked"
    cleanup_counter,
    cwd,                \* working directory of the process
    current_pid,        \* per thread (__thread)
    pc,                 \* per thread: where it is in the code below
    stack,              \* per thread: one frame per ios_system call it is in
    job,                \* per command thread: who started it, for which fork,
                        \* with which params->pid, and whether it is joined
    reaped,             \* command threads whose starter's waitpid has returned
    ops,                \* operations started so far
    strayed             \* history: a slot was changed by who had not forked it

vars == <<thread_ids, previousPid, previousDirectory, last_allocated_pid,
          pid_overflow, pid_mtx, chdir_mtx, ios_system_mutex, cleanup_counter,
          cwd, current_pid, pc, stack, job, reaped, ops, strayed>>

table == <<thread_ids, previousPid, previousDirectory, last_allocated_pid,
           pid_overflow>>
locks == <<pid_mtx, chdir_mtx, ios_system_mutex>>

Slots == 0 .. IOS_MAX_THREADS - 1

\* A frame: the slot the call forked (0: called without ios_fork), why the
\* call is made, and the current_pid to put back (capture) or to remember
\* while the fork is under way (prev).
Frame == [pid : Slots, kind : {"user", "seq", "capture"},
          saved : Slots, prev : Slots]

NewFrame(kind, saved) == [pid |-> 0, kind |-> kind, saved |-> saved, prev |-> 0]

NoJob == [by |-> "nobody", fork |-> 0, pid |-> 0, join |-> FALSE]

Top(t) == stack[t][Len(stack[t])]
SetTop(t, field, v) == [stack EXCEPT ![t][Len(stack[t])][field] = v]
Push(t, f) == [stack EXCEPT ![t] = Append(@, f)]
Pop(t) == [stack EXCEPT ![t] = SubSeq(@, 1, Len(@) - 1)]

Goto(t, label) == pc' = [pc EXCEPT ![t] = label]

Init ==
    /\ thread_ids = [p \in Slots |-> "free"]
    /\ previousPid = [p \in Slots |-> 0]
    /\ previousDirectory = [p \in Slots |-> Home]
    /\ last_allocated_pid = 0
    /\ pid_overflow = FALSE
    /\ pid_mtx = "unlocked" /\ chdir_mtx = "unlocked"
    /\ ios_system_mutex = "unlocked"
    /\ cleanup_counter = 0
    /\ cwd = Home
    /\ current_pid = [t \in Threads |-> 0]
    /\ pc = [t \in Threads |-> IF t \in Roots THEN "user" ELSE "none"]
    /\ stack = [t \in Threads |-> <<>>]
    /\ job = [t \in Commands |-> NoJob]
    /\ reaped = {}
    /\ ops = 0
    /\ strayed = FALSE

-----------------------------------------------------------------------------
(* What the code above the table asks for: a thread in "user" runs the     *)
(* application or the body of a command.                                   *)

\* pid = ios_fork(); ios_system(cmd); ios_waitpid(pid);
StartFork(t) ==
    /\ pc[t] = "user" /\ ops < MaxOps
    /\ ops' = ops + 1
    /\ stack' = Push(t, NewFrame("user", 0))
    /\ Goto(t, "fork_spin")
    /\ UNCHANGED <<table, locks, cleanup_counter, cwd, current_pid, job, reaped, strayed>>

\* ios_system(cmd) with no fork before it (ios_popen, the plain API).
StartPlain(t) ==
    /\ pc[t] = "user" /\ ops < MaxOps
    /\ ops' = ops + 1
    /\ stack' = Push(t, NewFrame("user", 0))
    /\ Goto(t, "sys_lock")
    /\ UNCHANGED <<table, locks, cleanup_counter, cwd, current_pid, job, reaped, strayed>>

\* chdir or ios_fchdir.
StartChdir(t) ==
    /\ pc[t] = "user" /\ ops < MaxOps
    /\ ops' = ops + 1
    /\ Goto(t, "cd_spin")
    /\ UNCHANGED <<table, locks, cleanup_counter, cwd, current_pid, stack, job,
                   reaped, strayed>>

\* The directory changes, or does not, without a look at cleanup_counter or
\* chdir_mtx: cd, which goes on to newPreviousDirectory, and ios_switchSession,
\* ios_setDirectoryURL and the like.
ChangeDirectory(t) ==
    /\ pc[t] = "user" /\ ops < MaxOps
    /\ ops' = ops + 1
    /\ cwd' \in Dirs
    /\ \E label \in {"user", "cd_record"} : Goto(t, label)
    /\ UNCHANGED <<table, locks, cleanup_counter, current_pid, stack, job, reaped, strayed>>

\* newPreviousDirectory: getwd into the slot of current_pid, whosever it is by now.
RecordDirectory(t) ==
    /\ pc[t] = "cd_record"
    /\ previousDirectory' = [previousDirectory EXCEPT ![current_pid[t]] = cwd]
    /\ Goto(t, "user")
    /\ UNCHANGED <<thread_ids, previousPid, last_allocated_pid, pid_overflow, locks,
                   cleanup_counter, cwd, current_pid, stack, job, reaped, ops, strayed>>

-----------------------------------------------------------------------------
(* ios_nextAvailablePid, behind fork, ios_fork and vfork.                  *)

\* while (cleanup_counter > 0) { }  -- an unlocked read.
ForkSpin(t) ==
    /\ pc[t] = "fork_spin" /\ cleanup_counter = 0
    /\ Goto(t, "fork_lock")
    /\ UNCHANGED <<table, locks, cleanup_counter, cwd, current_pid, stack, job,
                   reaped, ops, strayed>>

ForkLock(t) ==
    /\ pc[t] = "fork_lock" /\ pid_mtx = "unlocked"
    /\ pid_mtx' = t
    /\ stack' = SetTop(t, "prev", current_pid[t])
    /\ Goto(t, "fork_scan")
    /\ UNCHANGED <<table, chdir_mtx, ios_system_mutex, cleanup_counter, cwd,
                   current_pid, job, reaped, ops, strayed>>

NeverOverflowed ==
    /\ ~pid_overflow
    /\ last_allocated_pid < IOS_MAX_THREADS - 1
    /\ thread_ids[last_allocated_pid + 1] = "free"

\* The slot after the last one handed out, back to 1 past the end.
NextSlot ==
    IF last_allocated_pid + 1 >= IOS_MAX_THREADS THEN 1 ELSE last_allocated_pid + 1

Claim(t, p) ==
    /\ current_pid' = [current_pid EXCEPT ![t] = p]
    /\ last_allocated_pid' = p
    /\ thread_ids' = [thread_ids EXCEPT ![p] = "inflight"]
    /\ Goto(t, "fork_getwd")

\* One look at the table: the fast path, or one turn of the while (1) loop,
\* which holds pid_mtx until it meets a free slot.
ForkScan(t) ==
    /\ pc[t] = "fork_scan"
    /\ \/ /\ NeverOverflowed
          /\ Claim(t, last_allocated_pid + 1)
          /\ UNCHANGED pid_overflow
       \/ /\ ~NeverOverflowed
          /\ pid_overflow' = TRUE
          /\ \/ /\ thread_ids[NextSlot] = "free"
                /\ Claim(t, NextSlot)
             \/ /\ thread_ids[NextSlot] # "free"
                /\ current_pid' = [current_pid EXCEPT ![t] = NextSlot]
                /\ last_allocated_pid' = NextSlot
                /\ UNCHANGED <<thread_ids, pc>>
    /\ UNCHANGED <<previousPid, previousDirectory, locks, cleanup_counter, cwd,
                   stack, job, reaped, ops, strayed>>

\* getwd under chdir_mtx, previousPid, and pid_mtx is released.
ForkGetwd(t) ==
    /\ pc[t] = "fork_getwd" /\ chdir_mtx = "unlocked"
    /\ LET p == current_pid[t] IN
       /\ previousDirectory' = [previousDirectory EXCEPT ![p] = cwd]
       /\ previousPid' = [previousPid EXCEPT ![p] = Top(t).prev]
       /\ stack' = SetTop(t, "pid", p)
    /\ pid_mtx' = "unlocked"
    /\ Goto(t, "sys_lock")
    /\ UNCHANGED <<thread_ids, last_allocated_pid, pid_overflow, chdir_mtx,
                   ios_system_mutex, cleanup_counter, cwd, current_pid, job,
                   reaped, ops, strayed>>

-----------------------------------------------------------------------------
(* ios_storeThreadId.  It acts only on an in-flight slot.                  *)

\* ios_storeThreadId(0): the slot of current_pid is given back.  In a call without a
\* fork that slot is another call's.
StoreZero(t) ==
    /\ pid_mtx = "unlocked"
    /\ LET p == current_pid[t] IN
       \/ /\ thread_ids[p] = "inflight"
          /\ current_pid' = [current_pid EXCEPT ![t] = previousPid[p]]
          /\ thread_ids' = [thread_ids EXCEPT ![p] = "free"]
          /\ strayed' = (strayed \/ Top(t).pid = 0)
       \/ /\ thread_ids[p] # "inflight"
          /\ UNCHANGED <<current_pid, thread_ids, strayed>>

\* ios_storeThreadId(pthread_self()), on the thread of the command.
StoreSelf(w) ==
    /\ pid_mtx = "unlocked"
    /\ LET p == job[w].pid IN
       \/ /\ thread_ids[p] = "inflight"
          /\ thread_ids' = [thread_ids EXCEPT ![p] = w]
          /\ strayed' = (strayed \/ job[w].fork = 0)
       \/ /\ thread_ids[p] # "inflight"
          /\ UNCHANGED <<thread_ids, strayed>>

-----------------------------------------------------------------------------
(* ios_system.                                                             *)

\* At the entry, and again after the substitutions.
SysLock(t) ==
    /\ pc[t] \in {"sys_lock", "sys_relock"} /\ ios_system_mutex = "unlocked"
    /\ ios_system_mutex' = t
    /\ Goto(t, "sys")
    /\ UNCHANGED <<table, pid_mtx, chdir_mtx, cleanup_counter, cwd, current_pid,
                   stack, job, reaped, ops, strayed>>

\* NULL command, no argument left, no memory: give the slot back and return.
SysEarlyReturn(t) ==
    /\ pc[t] = "sys"
    /\ StoreZero(t)
    /\ ios_system_mutex' = "unlocked"
    /\ Goto(t, "ret")
    /\ UNCHANGED <<previousPid, previousDirectory, last_allocated_pid,
                   pid_overflow, pid_mtx, chdir_mtx, cleanup_counter, cwd, stack,
                   job, reaped, ops>>

\* $(...): capture_command_output forks and runs the inner command on this
\* thread, without the mutex, and puts current_pid back when it is done.
SysSubstitute(t) ==
    /\ pc[t] = "sys" /\ ops < MaxOps /\ Len(stack[t]) < MaxDepth
    /\ ops' = ops + 1
    /\ stack' = Push(t, NewFrame("capture", current_pid[t]))
    /\ ios_system_mutex' = "unlocked"
    /\ Goto(t, "fork_spin")
    /\ UNCHANGED <<table, pid_mtx, chdir_mtx, cleanup_counter, cwd, current_pid,
                   job, reaped, strayed>>

\* ; && || and |: the mutex is released, and the wrapper that runs the parts
\* gives the outer slot back before the first of them.
SysComposite(t) ==
    /\ pc[t] = "sys"
    /\ ios_system_mutex' = "unlocked"
    /\ Goto(t, "seq_entry")
    /\ UNCHANGED <<table, pid_mtx, chdir_mtx, cleanup_counter, cwd, current_pid,
                   stack, job, reaped, ops, strayed>>

SeqEntry(t) ==
    /\ pc[t] = "seq_entry"
    /\ StoreZero(t)
    /\ Goto(t, "seq")
    /\ UNCHANGED <<previousPid, previousDirectory, last_allocated_pid,
                   pid_overflow, locks, cleanup_counter, cwd, stack, job, reaped,
                   ops>>

\* The next part: pid = ios_fork(); ios_system(part); ios_waitpid(pid);
SeqPart(t) ==
    /\ pc[t] = "seq" /\ ops < MaxOps /\ Len(stack[t]) < MaxDepth
    /\ ops' = ops + 1
    /\ stack' = Push(t, NewFrame("seq", 0))
    /\ Goto(t, "fork_spin")
    /\ UNCHANGED <<table, locks, cleanup_counter, cwd, current_pid, job, reaped, strayed>>

SeqDone(t) ==
    /\ pc[t] = "seq"
    /\ Goto(t, "ret")
    /\ UNCHANGED <<table, locks, cleanup_counter, cwd, current_pid, stack, job,
                   reaped, ops, strayed>>

\* Mutant: the dispatch gives the slot back as the early returns do.
SysDispatchReleases(t) ==
    /\ pc[t] = "sys"
    /\ StoreZero(t)
    /\ ios_system_mutex' = "unlocked"
    /\ Goto(t, "create")
    /\ UNCHANGED <<previousPid, previousDirectory, last_allocated_pid,
                   pid_overflow, pid_mtx, chdir_mtx, cleanup_counter, cwd, stack,
                   job, reaped, ops>>

\* Dispatch: params->pid is taken, the mutex is released; then pthread_create.
SysDispatch(t) ==
    /\ pc[t] = "sys"
    /\ ios_system_mutex' = "unlocked"
    /\ Goto(t, "create")
    /\ UNCHANGED <<table, pid_mtx, chdir_mtx, cleanup_counter, cwd, current_pid,
                   stack, job, reaped, ops, strayed>>

\* The new thread w; joinMainThread decides whether the caller joins it.
CreateThread(t, w) ==
    /\ pc[t] = "create" /\ pc[w] = "none"
    /\ reaped' = reaped \ {w}
    /\ \E joinMainThread \in BOOLEAN :
         /\ job' = [job EXCEPT ![w] = [by |-> t, fork |-> Top(t).pid,
                                       pid |-> current_pid[t],
                                       join |-> joinMainThread]]
         /\ pc' = [pc EXCEPT ![t] = IF joinMainThread THEN "join" ELSE "ret",
                             ![w] = "start"]
    /\ UNCHANGED <<table, locks, cleanup_counter, cwd, current_pid, stack, ops, strayed>>

\* Mutant: the error path of pthread_create forgets ios_storeThreadId(0).
CreateFailsKeepsSlot(t) ==
    /\ pc[t] = "create"
    /\ Goto(t, "ret")
    /\ UNCHANGED <<table, locks, cleanup_counter, cwd, current_pid, stack, job,
                   reaped, ops, strayed>>

CreateFails(t) ==
    /\ pc[t] = "create"
    /\ StoreZero(t)
    /\ Goto(t, "ret")
    /\ UNCHANGED <<previousPid, previousDirectory, last_allocated_pid,
                   pid_overflow, locks, cleanup_counter, cwd, stack, job, reaped,
                   ops>>

\* pthread_join returns when the thread has ended; its id can be used again.
Join(t, w) ==
    /\ pc[t] = "join" /\ job[w].by = t /\ job[w].join /\ pc[w] = "ended"
    /\ pc' = [pc EXCEPT ![t] = "ret", ![w] = "none"]
    /\ UNCHANGED <<table, locks, cleanup_counter, cwd, current_pid, stack, job,
                   reaped, ops, strayed>>

\* Mutant: capture_command_output leaves current_pid on the inner slot.
WaitReturnsKeepsPid(t) ==
    /\ pc[t] = "ret"
    /\ Top(t).pid # 0 => thread_ids[Top(t).pid] = "free"
    /\ stack' = Pop(t)
    /\ Goto(t, CASE Top(t).kind = "user"    -> "user"
                 [] Top(t).kind = "seq"     -> "seq"
                 [] Top(t).kind = "capture" -> "sys_relock")
    /\ UNCHANGED <<table, locks, cleanup_counter, cwd, current_pid, job, reaped,
                   ops, strayed>>

\* ios_waitpid: an unlocked read of the slot; a call without a fork waits for
\* nothing.  capture_command_output then puts the outer current_pid back; source
\* and jsc go on to ios_releaseThreadId.
WaitReturns(t) ==
    /\ pc[t] = "ret"
    /\ Top(t).pid # 0 => thread_ids[Top(t).pid] = "free"
    /\ \/ /\ stack' = Pop(t)
          /\ Goto(t, CASE Top(t).kind = "user"    -> "user"
                       [] Top(t).kind = "seq"     -> "seq"
                       [] Top(t).kind = "capture" -> "sys_relock")
       \/ /\ Top(t).kind = "user" /\ Top(t).pid # 0
          /\ Goto(t, "rid_lock")
          /\ UNCHANGED stack
    /\ current_pid' = IF Top(t).kind = "capture"
                      THEN [current_pid EXCEPT ![t] = Top(t).saved]
                      ELSE current_pid
    /\ reaped' = reaped \cup
         {w \in Commands : /\ Top(t).pid # 0
                           /\ job[w].by = t /\ job[w].fork = Top(t).pid
                           /\ pc[w] \notin {"none", "ended"}}
    /\ UNCHANGED <<table, locks, cleanup_counter, cwd, job, ops, strayed>>

\* ios_releaseThreadId(pid): nothing to do when the slot is free, as the wait has
\* seen it.
ReleaseIdLock(t) ==
    /\ pc[t] = "rid_lock" /\ pid_mtx = "unlocked"
    /\ \/ /\ thread_ids[Top(t).pid] # "free"
          /\ pid_mtx' = t /\ Goto(t, "rid_chdir")
          /\ UNCHANGED stack
       \/ /\ thread_ids[Top(t).pid] = "free"
          /\ stack' = Pop(t) /\ Goto(t, "user")
          /\ UNCHANGED pid_mtx
    /\ UNCHANGED <<table, chdir_mtx, ios_system_mutex, cleanup_counter, cwd,
                   current_pid, job, reaped, ops, strayed>>

\* The slot has been forked again since: the directory of that fork first, the slot
\* after it.
ReleaseIdChdir(t) ==
    /\ pc[t] = "rid_chdir" /\ chdir_mtx = "unlocked"
    /\ LET p == Top(t).pid IN
       /\ cwd' = previousDirectory[p]
       /\ current_pid' = [current_pid EXCEPT ![t] = previousPid[p]]
       /\ thread_ids' = [thread_ids EXCEPT ![p] = "free"]
    /\ strayed' = TRUE
    /\ pid_mtx' = "unlocked"
    /\ stack' = Pop(t)
    /\ Goto(t, "user")
    /\ UNCHANGED <<previousPid, previousDirectory, last_allocated_pid,
                   pid_overflow, chdir_mtx, ios_system_mutex, cleanup_counter,
                   job, reaped, ops>>

-----------------------------------------------------------------------------
(* run_function and cleanup_function, on a command thread.                 *)

RunFunction(w) ==
    /\ pc[w] = "start"
    /\ StoreSelf(w)
    /\ current_pid' = [current_pid EXCEPT ![w] = job[w].pid]
    /\ Goto(w, "user")
    /\ UNCHANGED <<previousPid, previousDirectory, last_allocated_pid,
                   pid_overflow, locks, cleanup_counter, cwd, stack, job, reaped,
                   ops>>

\* The command returns, exits, or is killed: cleanup_counter++.
CleanupEnter(w) ==
    /\ pc[w] = "user" /\ w \in Commands
    /\ cleanup_counter' = cleanup_counter + 1
    /\ Goto(w, "drain_chdir")
    /\ UNCHANGED <<table, locks, cwd, current_pid, stack, job, reaped, ops, strayed>>

\* trylock / unlock of each mutex waits for the callers past the guard.
DrainChdir(w) ==
    /\ pc[w] = "drain_chdir" /\ chdir_mtx = "unlocked"
    /\ Goto(w, "drain_pid")
    /\ UNCHANGED <<table, locks, cleanup_counter, cwd, current_pid, stack, job,
                   reaped, ops, strayed>>

DrainPid(w) ==
    /\ pc[w] = "drain_pid" /\ pid_mtx = "unlocked"
    /\ Goto(w, "release")
    /\ UNCHANGED <<table, locks, cleanup_counter, cwd, current_pid, stack, job,
                   reaped, ops, strayed>>

\* ios_releaseThread and ios_releaseBackgroundThread: the slot that holds this
\* thread is freed; the directory is restored after it, or not at all.
ReleaseThread(w) ==
    /\ pc[w] = "release" /\ pid_mtx = "unlocked"
    /\ \/ \E p \in Slots :
            /\ thread_ids[p] = w
            /\ thread_ids' = [thread_ids EXCEPT ![p] = "free"]
            /\ current_pid' = [current_pid EXCEPT ![w] = previousPid[p]]
            /\ \/ pid_mtx' = w /\ Goto(w, "restore")              \* foreground
               \/ UNCHANGED pid_mtx /\ Goto(w, "cleanup_exit")   \* background
       \/ /\ \A p \in Slots : thread_ids[p] # w
          /\ Goto(w, "cleanup_exit")
          /\ UNCHANGED <<thread_ids, current_pid, pid_mtx>>
    /\ UNCHANGED <<previousPid, previousDirectory, last_allocated_pid,
                   pid_overflow, chdir_mtx, ios_system_mutex, cleanup_counter,
                   cwd, stack, job, reaped, ops, strayed>>

\* pid_mtx is still held; the slot just freed is the one of params->pid, the
\* only one RunFunction stores the thread in.
RestoreDirectory(w) ==
    /\ pc[w] = "restore" /\ chdir_mtx = "unlocked"
    /\ cwd' = previousDirectory[job[w].pid]
    /\ pid_mtx' = "unlocked"
    /\ Goto(w, "cleanup_exit")
    /\ UNCHANGED <<table, chdir_mtx, ios_system_mutex, cleanup_counter,
                   current_pid, stack, job, reaped, ops, strayed>>

\* cleanup_counter--, and the thread ends: detached, or kept for its joiner.
CleanupExit(w) ==
    /\ pc[w] = "cleanup_exit"
    /\ cleanup_counter' = cleanup_counter - 1
    /\ Goto(w, IF job[w].join THEN "ended" ELSE "none")
    /\ UNCHANGED <<table, locks, cwd, current_pid, stack, job, reaped, ops, strayed>>

-----------------------------------------------------------------------------
(* chdir and ios_fchdir.                                                   *)

\* Mutant: chdir does not wait for cleanups under way.
ChdirSpinUnguarded(t) ==
    /\ pc[t] = "cd_spin"
    /\ Goto(t, "cd_lock")
    /\ UNCHANGED <<table, locks, cleanup_counter, cwd, current_pid, stack, job,
                   reaped, ops, strayed>>

ChdirSpin(t) ==
    /\ pc[t] = "cd_spin" /\ cleanup_counter = 0
    /\ Goto(t, "cd_lock")
    /\ UNCHANGED <<table, locks, cleanup_counter, cwd, current_pid, stack, job,
                   reaped, ops, strayed>>

ChdirLock(t) ==
    /\ pc[t] = "cd_lock" /\ chdir_mtx = "unlocked"
    /\ chdir_mtx' = t
    /\ Goto(t, "cd_locked")
    /\ UNCHANGED <<table, pid_mtx, ios_system_mutex, cleanup_counter, cwd,
                   current_pid, stack, job, reaped, ops, strayed>>

\* The directory changes, or an error or a refusal leaves it as it was.
ChdirCommit(t) ==
    /\ pc[t] = "cd_locked"
    /\ cwd' \in Dirs
    /\ chdir_mtx' = "unlocked"
    /\ Goto(t, "user")
    /\ UNCHANGED <<table, pid_mtx, ios_system_mutex, cleanup_counter,
                   current_pid, stack, job, reaped, ops, strayed>>

-----------------------------------------------------------------------------
\* New work, which a thread may or may not ask for.
Start(t) == StartFork(t) \/ StartPlain(t) \/ StartChdir(t) \/ ChangeDirectory(t)

\* The steps of the library code itself.
Library(t) ==
    \/ ForkSpin(t) \/ ForkLock(t) \/ ForkScan(t) \/ ForkGetwd(t)
    \/ SysLock(t) \/ SysEarlyReturn(t) \/ SysSubstitute(t) \/ SysComposite(t)
    \/ SeqEntry(t) \/ SeqPart(t) \/ SeqDone(t)
    \/ SysDispatch(t) \/ CreateFails(t) \/ WaitReturns(t)
    \/ ReleaseIdLock(t) \/ ReleaseIdChdir(t)
    \/ ChdirSpin(t) \/ ChdirLock(t) \/ ChdirCommit(t) \/ RecordDirectory(t)
    \/ \E w \in Commands : CreateThread(t, w) \/ Join(t, w)

CommandThread(w) ==
    \/ RunFunction(w) \/ CleanupEnter(w) \/ DrainChdir(w) \/ DrainPid(w)
    \/ ReleaseThread(w) \/ RestoreDirectory(w) \/ CleanupExit(w)

\* The waits that are loops on an unlocked read: one turn that changes nothing.
Spin(t) ==
    /\ \/ pc[t] \in {"fork_spin", "cd_spin"} /\ cleanup_counter > 0
       \/ pc[t] = "ret" /\ Top(t).pid # 0 /\ thread_ids[Top(t).pid] # "free"
    /\ UNCHANGED vars

\* All the work that was started is done and nobody may start more.
Finished ==
    /\ ops = MaxOps
    /\ \A t \in Threads : pc[t] = IF t \in Roots THEN "user" ELSE "none"
    /\ UNCHANGED vars

Next ==
    \/ \E t \in Threads : Start(t) \/ Library(t) \/ Spin(t)
    \/ \E w \in Commands : CommandThread(w)
    \/ Finished

Spec == Init /\ [][Next]_vars

\* Every thread the operating system created goes on running, and every
\* command ends; nobody has to start anything.
Fairness ==
    /\ \A t \in Threads : WF_vars(Library(t))
    /\ \A w \in Commands : WF_vars(CommandThread(w))

FairSpec == Spec /\ Fairness

-----------------------------------------------------------------------------
(* Properties.                                                             *)

Labels ==
    {"none", "user", "fork_spin", "fork_lock", "fork_scan", "fork_getwd",
     "sys_lock", "sys", "sys_relock", "seq_entry", "seq", "create", "join",
     "ret", "rid_lock", "rid_chdir", "start", "drain_chdir", "drain_pid",
     "release", "restore", "cleanup_exit", "ended", "cd_spin", "cd_lock",
     "cd_locked", "cd_record"}

Mutex == Threads \cup {"unlocked"}

\* Every variable keeps its type; cleanup_counter, a plain int that every exit
\* path of cleanup_function must pair, never goes below zero.
TypeOK ==
    /\ thread_ids \in [Slots -> Threads \cup {"free", "inflight"}]
    /\ previousPid \in [Slots -> Slots]
    /\ previousDirectory \in [Slots -> Dirs]
    /\ last_allocated_pid \in Slots
    /\ pid_overflow \in BOOLEAN
    /\ pid_mtx \in Mutex /\ chdir_mtx \in Mutex /\ ios_system_mutex \in Mutex
    /\ cleanup_counter \in Nat
    /\ cwd \in Dirs
    /\ current_pid \in [Threads -> Slots]
    /\ pc \in [Threads -> Labels]
    /\ stack \in [Threads -> Seq(Frame)]
    /\ job \in [Commands -> [by : Threads \cup {"nobody"}, fork : Slots,
                             pid : Slots, join : BOOLEAN]]
    /\ reaped \subseteq Commands
    /\ ops \in 0 .. MaxOps
    /\ strayed \in BOOLEAN

\* The thread that takes a step.
Moves(t) == pc'[t] # pc[t]

\* A slot stops being in flight only through the thread whose innermost call forked
\* it, or through the command thread that was created for that call.
SentinelStep ==
    \A p \in Slots :
      thread_ids[p] = "inflight" /\ thread_ids'[p] # "inflight"
      => \/ thread_ids'[p] = "free"
            /\ \E t \in Threads : Moves(t) /\ stack[t] # <<>> /\ Top(t).pid = p
         \/ \E w \in Commands : thread_ids'[p] = w /\ job[w].fork = p

\* The comment of ios_storeThreadId: "we only act when sentinel == -1 (i.e. an
\* ios_fork() actually advanced current_pid for this thread)".  It does not hold: a
\* wait leaves current_pid on the slot it waited for, and a later call without a fork
\* acts on the next fork that gets the slot.
SentinelOfOwnFork == [][SentinelStep]_vars

\* What is left of it: calls that did fork act on their own slot, through
\* substitutions, sequences, nested calls and the reuse of slots, as long as no call
\* without a fork and no late ios_releaseThreadId met a slot in flight.
SentinelUnlessStrayed == [][~strayed' => SentinelStep]_vars

BeforeRelease == {"start", "user", "fork_spin", "fork_lock", "fork_scan",
    "fork_getwd", "sys_lock", "sys", "sys_relock", "seq_entry", "seq", "create",
    "join", "ret", "rid_lock", "rid_chdir", "cd_spin", "cd_lock", "cd_locked",
    "cd_record", "drain_chdir", "drain_pid", "release"}

\* No wait returns while the command started for its fork still runs or has not yet
\* freed its slot.
WaitStep ==
    \A t \in Threads : pc[t] = "ret" /\ Moves(t) =>
      ~ \E w \in Commands : /\ job[w].by = t
                            /\ job[w].fork # 0 /\ job[w].fork = Top(t).pid
                            /\ w \notin reaped
                            /\ pc[w] \in BeforeRelease

\* ios_waitpid: "-1: not started, >0 started, not finished, 0: finished".  It does not
\* hold: an ios_releaseThreadId that comes after its own wait frees the slot of the
\* command that got it next.
NoEarlyReturn == [][WaitStep]_vars

\* But for that, and for calls without a fork that met a slot in flight, ios_waitpid
\* waits for its command, however often slots are reused.
NoEarlyReturnUnlessStrayed == [][~strayed' => WaitStep]_vars

\* The guard on cleanup_counter in chdir: the directory a thread sets with chdir after
\* ios_waitpid told it that its command ended is not undone by the directory
\* restore of that command, which runs after the slot is freed.  And every variable
\* keeps its type, whatever strayed.
OwnChdirSurvives ==
    /\ TypeOK
    /\ ~strayed => \A t \in Threads : pc[t] = "cd_locked" =>
         ~ \E w \in reaped : job[w].by = t /\ pc[w] = "restore"

Quiescent ==
    /\ \A t \in Threads : pc[t] = IF t \in Roots THEN "user" ELSE "none"
    /\ \A p \in Slots : thread_ids[p] = "free"
    /\ cleanup_counter = 0

\* The scan of ios_nextAvailablePid finds no free slot and never will: whoever frees
\* one needs pid_mtx, which the scan holds.
TableFull ==
    \E t \in Threads :
      pc[t] = "fork_scan" /\ \A p \in Slots \ {0} : thread_ids[p] # "free"

\* Every fork is paid back: from any point on, once the threads have started
\* their last operation the library runs dry with no thread blocked or spinning
\* in ios_waitpid or on cleanup_counter, every slot free and cleanup_counter back
\* to zero (no early return, failed pthread_create or nested wrapper leaves a
\* sentinel behind that a wait spins on), however slots are reused.  The exceptions
\* are a fork that meets a full table and a call on a slot that is not its own.
EventuallyQuiescent == []<>(Quiescent \/ TableFull \/ strayed)

=============================================================================
