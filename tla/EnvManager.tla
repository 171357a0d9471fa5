------------------------------ MODULE EnvManager ------------------------------
(***************************************************************************)
(* ios_env_manager.c: an environment per thread, the registry that finds a *)
(* thread's environment by its id, and the copies between threads.         *)
(*                                                                         *)
(* The registry's lock is held inside one step only.  The lock of an       *)
(* environment is held over the steps of a copy.  A thread id is used      *)
(* again by a later thread once its thread has ended.  A setenv and an     *)
(* unsetenv are one step, so a shutdown never falls inside one.  What      *)
(* happens once freed memory, or the registry's lock after the shutdown    *)
(* destroyed it, is used is undefined, and the model stops there.          *)
(***************************************************************************)
EXTENDS Integers, Sequences, FiniteSets

CONSTANTS
    Tids,       \* thread ids
    NumNames,   \* variables an environment may hold
    NumValues,  \* values a variable may have
    MaxEnvs,    \* bound: environments created
    MaxCalls    \* bound: calls that copy or change an environment

ASSUME EnvManagerAssumption ==
    {NumNames, NumValues, MaxEnvs, MaxCalls} \subseteq Nat \ {0} /\ 0 \notin Tids

Names == 1..NumNames
Envs == 1..MaxEnvs
Absent == 0
Values == Absent..NumValues
Empty == [n \in Names |-> Absent]

VARIABLES
    initialized,    \* env_manager_initialized
    process,        \* environ of the process
    made,           \* environments created so far
    vars_of,        \* per environment
    readers, writer,    \* per environment: who holds its rwlock
    frees,          \* per environment: how often it was freed
    registry,       \* env_hash_table, the newest entry first
    key,            \* per thread: env_key, 0 for NULL
    pc, src, dst, at,   \* per thread: its copy, and how far it is
    calls,
    misused         \* the registry's lock was used after it was destroyed

lifetime == <<initialized, made, frees, registry, key, misused>>
locks == <<readers, writer>>
copying == <<src, dst, at>>
vars == <<lifetime, locks, copying, process, vars_of, pc, calls>>

Init ==
    /\ initialized = TRUE
    /\ process = Empty
    /\ made = 0
    /\ vars_of = [e \in Envs |-> Empty]
    /\ readers = [e \in Envs |-> {}] /\ writer = [e \in Envs |-> {}]
    /\ frees = [e \in Envs |-> 0]
    /\ registry = <<>>
    /\ key = [t \in Tids |-> 0]
    /\ pc = [t \in Tids |-> "idle"]
    /\ src = [t \in Tids |-> 0] /\ dst = [t \in Tids |-> 0] /\ at = [t \in Tids |-> 1]
    /\ calls = 0 /\ misused = FALSE

Goto(t, label) == pc' = [pc EXCEPT ![t] = label]

Call == calls < MaxCalls /\ calls' = calls + 1

\* env_get_current: nothing once the manager is shut down.
Current(t) == IF initialized THEN key[t] ELSE 0

-----------------------------------------------------------------------------
(* The registry.                                                           *)

\* Mutant: the new entry goes behind the others.
WithEntryLast(tid, e) == Append(registry, [tid |-> tid, env |-> e])

\* env_hash_insert puts the new entry at the head of its bucket.
WithEntry(tid, e) == <<[tid |-> tid, env |-> e]>> \o registry

Matches(tid) == {i \in DOMAIN registry : registry[i].tid = tid}

First(indices) == CHOOSE i \in indices : \A j \in indices : i <= j

\* env_lookup_by_tid: 0 when there is none.
Lookup(tid) == IF Matches(tid) = {} THEN 0 ELSE registry[First(Matches(tid))].env

\* env_hash_remove takes the first match only.
WithoutEntry(tid) ==
    IF Matches(tid) = {} THEN registry
    ELSE LET i == First(Matches(tid))
         IN  SubSeq(registry, 1, i - 1) \o SubSeq(registry, i + 1, Len(registry))

-----------------------------------------------------------------------------
(* ios_env_init_thread.                                                    *)

\* A parent without an environment leaves the child's empty; no parent means the
\* environment of the process, which is read without a lock.  The manager is not asked
\* whether it was shut down: without a parent the call gets as far as Publish.
InitThread(t, parent) ==
    /\ pc[t] = "idle" /\ Current(t) = 0
    /\ initialized \/ parent = 0
    /\ made < MaxEnvs
    /\ made' = made + 1
    /\ dst' = [dst EXCEPT ![t] = made + 1]
    /\ src' = [src EXCEPT ![t] = IF parent = 0 THEN 0 ELSE Lookup(parent)]
    /\ Goto(t, CASE parent = 0 -> "copy"
                 [] parent # 0 /\ Lookup(parent) = 0 -> "publish"
                 [] OTHER -> "parent_lock")
    /\ UNCHANGED <<initialized, frees, registry, key, misused, locks, at, process,
                   vars_of, calls>>

\* The copy is of this thread's new environment, not of ios_env_copy_from_thread.
IsNew(t) == writer[dst[t]] = {}

ReadLock(t) ==
    /\ pc[t] \in {"parent_lock", "read_lock"} /\ writer[src[t]] = {}
    /\ readers' = [readers EXCEPT ![src[t]] = @ \cup {t}]
    /\ Goto(t, IF pc[t] = "parent_lock" THEN "copy" ELSE "write_lock")
    /\ UNCHANGED <<lifetime, writer, copying, process, vars_of, calls>>

Source(t) == IF src[t] = 0 THEN process ELSE vars_of[src[t]]

\* One string of the loop that copies the variables.
CopyVariable(t) ==
    /\ pc[t] = "copy" /\ at[t] \in Names
    /\ vars_of' = [vars_of EXCEPT ![dst[t]][at[t]] = Source(t)[at[t]]]
    /\ at' = [at EXCEPT ![t] = @ + 1]
    /\ UNCHANGED <<lifetime, locks, src, dst, process, pc, calls>>

\* Mutant: the locks stay taken.
ReleasedNever(holders, t) == holders

\* pthread_rwlock_unlock
Released(holders, t) == [e \in Envs |-> holders[e] \ {t}]

\* The locks are given back; a new environment is still to be registered.
CopyDone(t) ==
    /\ pc[t] = "copy" /\ at[t] \notin Names
    /\ readers' = Released(readers, t)
    /\ writer' = Released(writer, t)
    /\ Goto(t, IF IsNew(t) THEN "publish" ELSE "idle")
    /\ src' = [src EXCEPT ![t] = 0]
    /\ dst' = [dst EXCEPT ![t] = IF IsNew(t) THEN @ ELSE 0]
    /\ at' = [at EXCEPT ![t] = 1]
    /\ UNCHANGED <<lifetime, process, vars_of, calls>>

\* pthread_setspecific, seen by the thread only, and env_hash_insert.
Publish(t) ==
    /\ pc[t] = "publish" /\ initialized
    /\ key' = [key EXCEPT ![t] = dst[t]]
    /\ registry' = WithEntry(t, dst[t])
    /\ dst' = [dst EXCEPT ![t] = 0]
    /\ Goto(t, "idle")
    /\ UNCHANGED <<initialized, made, frees, misused, locks, src, at, process, vars_of,
                   calls>>

-----------------------------------------------------------------------------
(* The end of a thread and of the manager.                                 *)

\* Mutant: the environment is freed, as the comment has it.
CleanedUpFreed(e) == [frees EXCEPT ![e] = @ + 1]

\* ios_env_cleanup_thread frees nothing.
CleanedUp(e) == frees

\* Once the key is NULL the destructor is not called any more, and the environment
\* stays in the registry.
Cleanup(t) ==
    /\ pc[t] = "idle" /\ Current(t) # 0
    /\ key' = [key EXCEPT ![t] = 0]
    /\ frees' = CleanedUp(key[t])
    /\ UNCHANGED <<initialized, made, registry, misused, locks, copying, process, vars_of,
                   pc, calls>>

\* A thread that ends with its key set: env_thread_destructor takes the entry out and
\* frees the environment; in between nobody new finds it.
ExitRaw(t) ==
    /\ pc[t] = "idle" /\ Current(t) # 0
    /\ registry' = WithoutEntry(t)
    /\ frees' = [frees EXCEPT ![key[t]] = @ + 1]
    /\ vars_of' = [vars_of EXCEPT ![key[t]] = Empty]
    /\ key' = [key EXCEPT ![t] = 0]
    /\ UNCHANGED <<initialized, made, misused, locks, copying, process, pc, calls>>

\* ios_env_manager_shutdown frees what is registered, whoever is using it, and destroys
\* the registry's lock; pthread_key_delete takes the keys, so that the threads go on with
\* the environment of the process.
Shutdown ==
    /\ initialized
    /\ initialized' = FALSE
    /\ frees' = [e \in Envs |-> frees[e]
                  + Cardinality({i \in DOMAIN registry : registry[i].env = e})]
    /\ registry' = <<>>
    /\ key' = [t \in Tids |-> 0]
    /\ UNCHANGED <<made, misused, locks, copying, process, vars_of, pc, calls>>

\* After the shutdown env_hash_insert, or the env_lookup_by_tid of a call that begins,
\* locks what is destroyed.
LockDestroyed(t, label) ==
    /\ pc[t] = label /\ ~initialized
    /\ misused' = TRUE
    /\ UNCHANGED <<initialized, made, frees, registry, key, locks, copying, process,
                   vars_of, pc, calls>>

-----------------------------------------------------------------------------
(* Changes.                                                                *)

\* Mutant: the readers of the environment are not waited for.
WriteLockableOverReaders(e) == writer[e] = {}

\* pthread_rwlock_wrlock
WriteLockable(e) == readers[e] = {} /\ writer[e] = {}

\* Name n of t's environment, or of the process, becomes v.
Change(t, n, v) ==
    \/ /\ Current(t) # 0 /\ WriteLockable(key[t])
       /\ vars_of' = [vars_of EXCEPT ![key[t]][n] = v]
       /\ UNCHANGED process
    \/ /\ Current(t) = 0
       /\ process' = [process EXCEPT ![n] = v]
       /\ UNCHANGED vars_of

\* ios_env_setenv; without overwrite a variable that exists stays as it is.
Setenv(t, n, v, overwrite) ==
    /\ pc[t] = "idle" /\ Call
    /\ overwrite \/ Absent = (IF Current(t) = 0 THEN process ELSE vars_of[key[t]])[n]
    /\ Change(t, n, v)
    /\ UNCHANGED <<lifetime, locks, copying, pc>>

Unsetenv(t, n) ==
    /\ pc[t] = "idle" /\ Call
    /\ Change(t, n, Absent)
    /\ UNCHANGED <<lifetime, locks, copying, pc>>

\* ios_env_copy_from_thread: the pointers that the two lookups find are used after the
\* registry is unlocked, the source's lock before the destination's.  After a
\* shutdown the lookups lock what is destroyed: see LockDestroyed.
CopyFromThread(t, source, dest) ==
    /\ pc[t] = "idle" /\ initialized /\ Call
    /\ Lookup(source) # 0 /\ Lookup(dest) # 0
    /\ src' = [src EXCEPT ![t] = Lookup(source)]
    /\ dst' = [dst EXCEPT ![t] = Lookup(dest)]
    /\ Goto(t, "read_lock")
    /\ UNCHANGED <<lifetime, locks, at, process, vars_of>>

WriteLock(t) ==
    /\ pc[t] = "write_lock" /\ WriteLockable(dst[t])
    /\ writer' = [writer EXCEPT ![dst[t]] = {t}]
    /\ Goto(t, "copy")
    /\ UNCHANGED <<lifetime, readers, copying, process, vars_of, calls>>

-----------------------------------------------------------------------------

\* What the two lookups of a thread found is still allocated.
PointsToAllocated(t) == \A e \in {src[t], dst[t]} \ {0} : frees[e] = 0

Undefined == misused \/ \E t \in Tids : ~PointsToAllocated(t)

Continue(t) ==
    /\ ~Undefined
    /\ ReadLock(t) \/ WriteLock(t) \/ CopyVariable(t) \/ CopyDone(t) \/ Publish(t)
       \/ LockDestroyed(t, "publish")

Begin(t) ==
    /\ ~Undefined
    /\ \/ Cleanup(t) \/ ExitRaw(t) \/ LockDestroyed(t, "idle")
       \/ \E parent \in Tids \cup {0} : InitThread(t, parent)
       \/ \E n \in Names, v \in Values \ {Absent}, o \in BOOLEAN : Setenv(t, n, v, o)
       \/ \E n \in Names : Unsetenv(t, n)
       \/ \E source, dest \in Tids : CopyFromThread(t, source, dest)

Next == Shutdown \/ \E t \in Tids : Begin(t) \/ Continue(t)

Spec == Init /\ [][Next]_vars

\* A thread inside a call goes on; nobody is made to call.
FairSpec == Spec /\ \A t \in Tids : WF_vars(Continue(t))

-----------------------------------------------------------------------------

\* Every variable has its type.
TypeOK ==
    /\ initialized \in BOOLEAN
    /\ process \in [Names -> Values]
    /\ made \in 0..MaxEnvs /\ calls \in 0..MaxCalls
    /\ vars_of \in [Envs -> [Names -> Values]]
    /\ readers \in [Envs -> SUBSET Tids] /\ writer \in [Envs -> SUBSET Tids]
    /\ frees \in [Envs -> Nat]
    /\ registry \in Seq([tid : Tids, env : Envs])
    /\ key \in [Tids -> 0..MaxEnvs]
    /\ pc \in [Tids -> {"idle", "parent_lock", "read_lock", "write_lock", "copy",
                     "publish"}]
    /\ src \in [Tids -> 0..MaxEnvs] /\ dst \in [Tids -> 0..MaxEnvs]
    /\ at \in [Tids -> 1..(NumNames + 1)]
    /\ misused \in BOOLEAN

\* A child's copy of its parent's environment, and a copy between threads, is the
\* source as it was at one instant, however the source's thread changes it meanwhile
\* (ios_env_init_thread, ios_env_copy_from_thread).
CopyIsSnapshot ==
    \A t \in Tids : (pc[t] = "copy" /\ at[t] \notin Names /\ src[t] # 0 /\ ~Undefined)
                        => vars_of[dst[t]] = vars_of[src[t]]

\* A thread is found under its id with the environment it has now, though the ones that
\* earlier threads with that id left behind are still registered (env_hash_insert,
\* ios_env_cleanup_thread).
FoundByItsThread ==
    \A t \in Tids : Current(t) # 0 => Lookup(t) = key[t]

\* No environment is freed twice, neither by a thread that ends with its key set nor by
\* the shutdown, and none under the thread it belongs to, though the entries that earlier
\* threads with the same id left behind are still registered (env_hash_remove,
\* env_thread_destructor, ios_env_manager_shutdown).  And every variable keeps its type.
FreedOnce ==
    /\ TypeOK
    /\ \A e \in Envs : frees[e] <= 1
    /\ \A t \in Tids : Current(t) # 0 => frees[key[t]] = 0

\* ios_env_manager.h calls the functions thread-safe, the shutdown too: the environments
\* that the lookups of a call found are allocated for as long as the call uses them,
\* whichever threads end and whoever shuts the manager down (env_lookup_by_tid).
FoundIsAllocated == \A t \in Tids : PointsToAllocated(t)

\* ios_env_cleanup_thread "Frees all environment variables and storage": an environment
\* that is no longer a thread's, nor becoming one's, is freed.
EndedIsFreed ==
    \A e \in 1..made : (\A t \in Tids : key[t] # e /\ dst[t] # e) => frees[e] > 0

\* The threads of some set copy in a circle, each reading what another wants to write.
Circle ==
    \E S \in SUBSET Tids : S # {} /\ \A t \in S :
        pc[t] = "write_lock" /\ \E u \in S : pc[u] = "write_lock" /\ src[u] = dst[t]

\* A call returns, unless threads copy in a circle (ios_env_copy_from_thread takes two
\* locks in the order of its arguments), or use what a raw exit or a shutdown has freed.
CallsReturn ==
    \A t \in Tids : (pc[t] # "idle") ~> (pc[t] = "idle" \/ Circle \/ Undefined)
=============================================================================
