----------------------------- MODULE InterpPool -----------------------------
(***************************************************************************)
(* One interpreter pool of ios_interpreter_pool.c: a counting semaphore    *)
(* that admits max_slots callers, and a bitmap in which each admitted      *)
(* caller claims a slot by compare-and-swap.                               *)
(*                                                                         *)
(* An agent is one use of the pool: the caller of ios_interp_acquire, and  *)
(* whoever releases the handle it got (ios_system acquires on the calling  *)
(* thread and cleanup_function releases on the command's thread).          *)
(***************************************************************************)
EXTENDS Integers, FiniteSets

CONSTANTS
    Agents,
    DefaultSize,   \* get_default_pool_size(type)
    ConfigSizes,   \* sizes ios_interp_pool_configure is called with
    WordBits,      \* width of slot_bitmap; also MAX_SLOTS_PER_TYPE
    Disturb,       \* TRUE: force_release_all and shutdown may be called
    MaxOps         \* bound: operations all agents start between them

ASSUME InterpPoolAssumption ==
    /\ IsFiniteSet(Agents)
    /\ WordBits \in Nat \ {0}
    /\ DefaultSize \in 1 .. WordBits
    /\ ConfigSizes \subseteq 1 .. WordBits
    /\ Disturb \in BOOLEAN
    /\ MaxOps \in Nat

VARIABLES
    initialized,   \* pool->initialized
    max_slots,     \* pool->max_slots
    semaphore,     \* value of pool->semaphore
    slot_bitmap,   \* the set of bits that are set
    wait_count,
    pc,            \* per agent: where it is
    timeout,       \* per agent: DISPATCH_TIME_FOREVER, or "bounded": NOW or later
    want,          \* per agent: the slot asked for, or -1 for any, or a size
    snap,          \* per agent: the local copy of slot_bitmap
    handle,        \* per agent: slot_number of its handle, or -1
    todo,          \* per agent: signals force_release_all has still to send
    disturbed,     \* force_release_all or shutdown has been called
    ops

vars == <<initialized, max_slots, semaphore, slot_bitmap, wait_count, pc,
          timeout, want, snap, handle, todo, disturbed, ops>>

pool == <<initialized, max_slots, semaphore, slot_bitmap, wait_count>>
args == <<timeout, want, todo, disturbed>>

Bits == 0 .. WordBits - 1
Slots == 0 .. max_slots - 1

Goto(a, label) == pc' = [pc EXCEPT ![a] = label]

Init ==
    /\ initialized = FALSE
    /\ max_slots = 0
    /\ semaphore = 0
    /\ slot_bitmap = {}
    /\ wait_count = 0
    /\ pc = [a \in Agents |-> "idle"]
    /\ timeout = [a \in Agents |-> "forever"]
    /\ want = [a \in Agents |-> -1]
    /\ snap = [a \in Agents |-> {}]
    /\ handle = [a \in Agents |-> -1]
    /\ todo = [a \in Agents |-> 0]
    /\ disturbed = FALSE
    /\ ops = 0

-----------------------------------------------------------------------------
(* Calls.                                                                  *)

\* After ios_interp_pool_shutdown: pool->initialized is FALSE and config_mutex
\* is destroyed, for good, since init_once never runs again.
Shut == disturbed /\ ~initialized

\* ios_interp_acquire: any slot (want = -1), with a timeout.
Acquire(a) ==
    /\ pc[a] = "idle" /\ handle[a] = -1 /\ ops < MaxOps
    /\ ops' = ops + 1
    /\ \E d \in {"bounded", "forever"} :
         timeout' = [timeout EXCEPT ![a] = d]
    /\ want' = [want EXCEPT ![a] = -1]
    /\ Goto(a, "check")
    /\ UNCHANGED <<pool, snap, handle, todo, disturbed>>

\* ios_interp_try_acquire_slot: the slot is named, and may be out of range.
TryAcquireSlot(a) ==
    /\ pc[a] = "idle" /\ handle[a] = -1 /\ ops < MaxOps
    /\ ops' = ops + 1
    /\ timeout' = [timeout EXCEPT ![a] = "bounded"]
    /\ \E s \in 0 .. WordBits : want' = [want EXCEPT ![a] = s]
    /\ Goto(a, "check")
    /\ UNCHANGED <<pool, snap, handle, todo, disturbed>>

\* The unlocked read of pool->initialized, and lazy initialization.
CheckInitialized(a) ==
    /\ pc[a] = "check"
    /\ Goto(a, IF ~initialized THEN "init"
               ELSE IF want[a] = -1 THEN "enter" ELSE "wait")
    /\ UNCHANGED <<pool, snap, handle, args, ops>>

\* Mutant: no second look at pool->initialized under config_mutex.
InitTypeAgain(size) ==
    /\ initialized' = TRUE
    /\ max_slots' = size
    /\ slot_bitmap' = {}
    /\ semaphore' = size

\* interp_pool_init_type, under config_mutex: the second caller changes
\* nothing and is told 0 all the same.
InitType(size) ==
    \/ /\ ~initialized
       /\ initialized' = TRUE
       /\ max_slots' = size
       /\ slot_bitmap' = {}
       /\ semaphore' = size
    \/ /\ initialized
       /\ UNCHANGED <<initialized, max_slots, slot_bitmap, semaphore>>

\* The lock of config_mutex once shutdown has destroyed it: undefined, and the
\* caller is followed no further.
LockDestroyed(a) ==
    /\ Shut
    /\ Goto(a, "undefined")
    /\ UNCHANGED <<initialized, max_slots, slot_bitmap, semaphore>>

LazyInit(a) ==
    /\ pc[a] = "init"
    /\ \/ /\ ~Shut
          /\ InitType(DefaultSize)
          /\ Goto(a, IF want[a] = -1 THEN "enter" ELSE "wait")
       \/ LockDestroyed(a)
    /\ UNCHANGED <<wait_count, snap, handle, args, ops>>

\* ios_interp_pool_configure: refused when the unlocked read says initialized.
Configure(a) ==
    /\ pc[a] = "idle" /\ handle[a] = -1 /\ ~initialized /\ ops < MaxOps
    /\ ops' = ops + 1
    /\ \E n \in ConfigSizes : want' = [want EXCEPT ![a] = n]
    /\ Goto(a, "configure")
    /\ UNCHANGED <<pool, snap, handle, timeout, todo, disturbed>>

ConfigureInit(a) ==
    /\ pc[a] = "configure"
    /\ \/ ~Shut /\ InitType(want[a]) /\ Goto(a, "configured")
       \/ LockDestroyed(a)
    /\ UNCHANGED <<wait_count, snap, handle, args, ops>>

ConfigureReturns(a) ==
    /\ pc[a] = "configured"
    /\ Goto(a, "idle")
    /\ UNCHANGED <<pool, snap, handle, args, ops>>

-----------------------------------------------------------------------------
(* The semaphore.                                                          *)

EnterWait(a) ==
    /\ pc[a] = "enter"
    /\ wait_count' = wait_count + 1
    /\ Goto(a, "wait")
    /\ UNCHANGED <<initialized, max_slots, semaphore, slot_bitmap, snap, handle,
                   args, ops>>

\* Mutant: the wait returns at once whatever the value of the semaphore.
SemaphorePassUnchecked(a) ==
    /\ pc[a] = "wait"
    /\ semaphore' = semaphore - 1
    /\ Goto(a, IF want[a] = -1 THEN "passed" ELSE "try_load")
    /\ UNCHANGED <<initialized, max_slots, slot_bitmap, wait_count, snap, handle,
                   args, ops>>

SemaphorePass(a) ==
    /\ pc[a] = "wait" /\ semaphore > 0
    /\ semaphore' = semaphore - 1
    /\ Goto(a, IF want[a] = -1 THEN "passed" ELSE "try_load")
    /\ UNCHANGED <<initialized, max_slots, slot_bitmap, wait_count, snap, handle,
                   args, ops>>

\* dispatch_semaphore_wait gives up: the caller gets NULL.
SemaphoreTimeout(a) ==
    /\ pc[a] = "wait" /\ semaphore = 0 /\ timeout[a] # "forever"
    /\ Goto(a, IF want[a] = -1 THEN "timed_out" ELSE "idle")
    /\ UNCHANGED <<pool, snap, handle, args, ops>>

LeaveWait(a) ==
    /\ pc[a] \in {"passed", "timed_out"}
    /\ wait_count' = wait_count - 1
    /\ Goto(a, IF pc[a] = "passed" THEN "scan" ELSE "idle")
    /\ UNCHANGED <<initialized, max_slots, semaphore, slot_bitmap, snap, handle,
                   args, ops>>

\* Mutant: a failed acquire returns without signalling.
SignalBackForgotten(a) ==
    /\ pc[a] \in {"no_free_slot", "try_failed"}
    /\ Goto(a, "idle")
    /\ UNCHANGED <<pool, snap, handle, args, ops>>

\* dispatch_semaphore_signal on the way out of a failed acquire.
SignalBack(a) ==
    /\ pc[a] \in {"no_free_slot", "try_failed"}
    /\ semaphore' = semaphore + 1
    /\ Goto(a, "idle")
    /\ UNCHANGED <<initialized, max_slots, slot_bitmap, wait_count, snap, handle,
                   args, ops>>

-----------------------------------------------------------------------------
(* The bitmap.                                                             *)

\* Mutant: the scan stops one slot short.
FindLoadShort(a) ==
    /\ pc[a] = "scan"
    /\ snap' = [snap EXCEPT ![a] = slot_bitmap]
    /\ Goto(a, IF 0 .. max_slots - 2 \subseteq slot_bitmap
               THEN "no_free_slot" ELSE "cas")
    /\ UNCHANGED <<pool, handle, args, ops>>

\* interp_pool_find_free_slot: load, look for the lowest free bit, swap it in;
\* on failure load again and start over.
FindLoad(a) ==
    /\ pc[a] = "scan"
    /\ snap' = [snap EXCEPT ![a] = slot_bitmap]
    /\ Goto(a, IF Slots \subseteq slot_bitmap THEN "no_free_slot" ELSE "cas")
    /\ UNCHANGED <<pool, handle, args, ops>>

\* Mutant: a plain store where the code compares and swaps.
FindSwapBlind(a) ==
    /\ pc[a] = "cas"
    /\ \E s \in Slots \ snap[a] :
         /\ 0 .. s - 1 \subseteq snap[a]
         /\ slot_bitmap' = snap[a] \cup {s}
         /\ handle' = [handle EXCEPT ![a] = s]
    /\ Goto(a, "idle")
    /\ UNCHANGED <<initialized, max_slots, semaphore, wait_count, snap, args, ops>>

\* Mutant: a failed swap is tried again without another look at the bitmap.
FindSwapStale(a) ==
    /\ pc[a] = "cas"
    /\ \/ /\ slot_bitmap = snap[a]
          /\ \E s \in Slots \ snap[a] :
               /\ 0 .. s - 1 \subseteq snap[a]
               /\ slot_bitmap' = slot_bitmap \cup {s}
               /\ handle' = [handle EXCEPT ![a] = s]
          /\ Goto(a, "idle")
       \/ slot_bitmap # snap[a] /\ UNCHANGED <<slot_bitmap, handle, pc>>
    /\ UNCHANGED <<initialized, max_slots, semaphore, wait_count, snap, args, ops>>

FindSwap(a) ==
    /\ pc[a] = "cas"
    /\ \/ /\ slot_bitmap = snap[a]
          /\ \E s \in Slots \ snap[a] :
               /\ 0 .. s - 1 \subseteq snap[a]
               /\ slot_bitmap' = slot_bitmap \cup {s}
               /\ handle' = [handle EXCEPT ![a] = s]
          /\ Goto(a, "idle")
       \/ /\ slot_bitmap # snap[a]
          /\ Goto(a, "scan")
          /\ UNCHANGED <<slot_bitmap, handle>>
    /\ UNCHANGED <<initialized, max_slots, semaphore, wait_count, snap, args, ops>>

\* interp_pool_try_acquire_slot_internal: the named slot or nothing.  A failed
\* swap leaves the value it met in old_bitmap; a spurious failure of the weak
\* swap repeats it with the same value and is no step of its own.
TryLoad(a) ==
    /\ pc[a] = "try_load"
    /\ snap' = [snap EXCEPT ![a] = slot_bitmap]
    /\ Goto(a, IF want[a] \notin Slots \/ want[a] \in slot_bitmap
               THEN "try_failed" ELSE "try_cas")
    /\ UNCHANGED <<pool, handle, args, ops>>

TrySwap(a) ==
    /\ pc[a] = "try_cas"
    /\ \/ /\ slot_bitmap = snap[a]
          /\ slot_bitmap' = slot_bitmap \cup {want[a]}
          /\ handle' = [handle EXCEPT ![a] = want[a]]
          /\ Goto(a, "idle")
          /\ UNCHANGED snap
       \/ /\ slot_bitmap # snap[a]
          /\ snap' = [snap EXCEPT ![a] = slot_bitmap]
          /\ Goto(a, IF want[a] \in slot_bitmap THEN "try_failed" ELSE "try_cas")
          /\ UNCHANGED <<slot_bitmap, handle>>
    /\ UNCHANGED <<initialized, max_slots, semaphore, wait_count, args, ops>>

\* ios_interp_release: clear the bit, then signal, then free the handle.
ReleaseLoad(a) ==
    /\ pc[a] = "idle" /\ handle[a] # -1
    /\ \/ /\ initialized
          /\ snap' = [snap EXCEPT ![a] = slot_bitmap]
          /\ Goto(a, "rel_cas")
          /\ UNCHANGED handle
       \/ /\ ~initialized              \* only after shutdown
          /\ handle' = [handle EXCEPT ![a] = -1]
          /\ UNCHANGED <<snap, pc>>
    /\ UNCHANGED <<pool, args, ops>>

\* Mutant: a failed swap does not leave the new value in old_bitmap.
ReleaseSwapStale(a) ==
    /\ pc[a] = "rel_cas"
    /\ \/ /\ slot_bitmap = snap[a]
          /\ slot_bitmap' = slot_bitmap \ {handle[a]}
          /\ Goto(a, "rel_signal")
       \/ slot_bitmap # snap[a] /\ UNCHANGED <<slot_bitmap, pc>>
    /\ UNCHANGED <<initialized, max_slots, semaphore, wait_count, snap, handle,
                   args, ops>>

ReleaseSwap(a) ==
    /\ pc[a] = "rel_cas"
    /\ \/ /\ slot_bitmap = snap[a]
          /\ slot_bitmap' = slot_bitmap \ {handle[a]}
          /\ Goto(a, "rel_signal")
          /\ UNCHANGED snap
       \/ /\ slot_bitmap # snap[a]
          /\ snap' = [snap EXCEPT ![a] = slot_bitmap]
          /\ UNCHANGED <<slot_bitmap, pc>>
    /\ UNCHANGED <<initialized, max_slots, semaphore, wait_count, handle, args, ops>>

ReleaseSignal(a) ==
    /\ pc[a] = "rel_signal"
    /\ semaphore' = semaphore + 1
    /\ handle' = [handle EXCEPT ![a] = -1]
    /\ Goto(a, "idle")
    /\ UNCHANGED <<initialized, max_slots, slot_bitmap, wait_count, snap, args, ops>>

-----------------------------------------------------------------------------
(* Emergency and shutdown.  Force is called at most once; a second shutdown *)
(* returns at manager_initialized.                                         *)

ForceReleaseAll(a) ==
    /\ Disturb /\ ~disturbed /\ pc[a] = "idle" /\ handle[a] = -1 /\ initialized
    /\ disturbed' = TRUE
    /\ slot_bitmap' = {}
    /\ todo' = [todo EXCEPT ![a] = max_slots]
    /\ Goto(a, "force")
    /\ UNCHANGED <<initialized, max_slots, semaphore, wait_count, timeout, want,
                   snap, handle, ops>>

ForceSignal(a) ==
    /\ pc[a] = "force"
    /\ \/ /\ todo[a] > 0
          /\ semaphore' = semaphore + 1
          /\ todo' = [todo EXCEPT ![a] = @ - 1]
          /\ UNCHANGED pc
       \/ /\ todo[a] = 0
          /\ Goto(a, "idle")
          /\ UNCHANGED <<semaphore, todo>>
    /\ UNCHANGED <<initialized, max_slots, slot_bitmap, wait_count, timeout, want,
                   snap, handle, disturbed, ops>>

\* ios_interp_pool_shutdown, at any time: callers may be waiting or between two
\* steps, and handles may be outstanding.  The semaphore is left as it is.
Shutdown ==
    /\ Disturb /\ ~Shut
    /\ disturbed' = TRUE
    /\ initialized' = FALSE
    /\ UNCHANGED <<max_slots, semaphore, slot_bitmap, wait_count, pc, timeout,
                   want, snap, handle, todo, ops>>

-----------------------------------------------------------------------------
Call(a) == Acquire(a) \/ TryAcquireSlot(a) \/ Configure(a) \/ ForceReleaseAll(a)

Work(a) ==
    \/ CheckInitialized(a) \/ LazyInit(a) \/ ConfigureInit(a) \/ ConfigureReturns(a)
    \/ EnterWait(a) \/ SemaphorePass(a) \/ SemaphoreTimeout(a) \/ LeaveWait(a)
    \/ SignalBack(a) \/ FindLoad(a) \/ FindSwap(a) \/ TryLoad(a) \/ TrySwap(a)
    \/ ReleaseLoad(a) \/ ReleaseSwap(a) \/ ReleaseSignal(a) \/ ForceSignal(a)

\* A caller that never comes back: it locked the destroyed mutex, or it waits
\* without a timeout on a semaphore that shutdown has abandoned at zero.
Stranded(a) ==
    \/ pc[a] = "undefined"
    \/ Shut /\ pc[a] = "wait" /\ timeout[a] = "forever" /\ semaphore = 0

\* No call under way that can go on, no handle out, and the bound is reached.
Finished ==
    /\ \A a \in Agents :
         Stranded(a) \/ (pc[a] = "idle" /\ handle[a] = -1 /\ ops = MaxOps)
    /\ UNCHANGED vars

Next == (\E a \in Agents : Call(a) \/ Work(a)) \/ Shutdown \/ Finished

Spec == Init /\ [][Next]_vars

\* A thread in the pool keeps running, and whoever has a handle releases it.
FairSpec == Spec /\ \A a \in Agents : WF_vars(Work(a))

-----------------------------------------------------------------------------
(* Queries.                                                                *)

\* full_mask = (1U << max_slots) - 1.  A shift by the full width is undefined:
\* the shift counts modulo the width (the processor's instruction) or gives 0.
FullMasks ==
    IF max_slots < WordBits THEN {Slots} ELSE {{}, Bits}

\* The answers ios_interp_has_available_slot may give.
HasAvailableSlot ==
    IF ~initialized THEN {TRUE} ELSE {slot_bitmap # mask : mask \in FullMasks}

-----------------------------------------------------------------------------
(* Properties.                                                             *)

Labels == {"idle", "check", "init", "configure", "configured", "enter", "wait",
           "passed", "timed_out", "scan", "cas", "no_free_slot", "try_load",
           "try_cas", "try_failed", "rel_cas", "rel_signal", "force", "undefined"}

\* Every variable keeps its type; in particular the counters never go negative.
TypeOK ==
    /\ initialized \in BOOLEAN
    /\ max_slots \in 0 .. WordBits
    /\ semaphore \in Nat
    /\ slot_bitmap \subseteq Bits
    /\ wait_count \in Int
    /\ pc \in [Agents -> Labels]
    /\ timeout \in [Agents -> {"bounded", "forever"}]
    /\ want \in [Agents -> -1 .. WordBits]
    /\ snap \in [Agents -> SUBSET Bits]
    /\ handle \in [Agents -> -1 .. WordBits - 1]
    /\ todo \in [Agents -> 0 .. WordBits]
    /\ disturbed \in BOOLEAN
    /\ ops \in 0 .. MaxOps

\* Agents that own a slot: from the swap that set its bit to the one that
\* clears it.
Holders == {a \in Agents : handle[a] # -1 /\ pc[a] \in {"idle", "rel_cas"}}

\* Agents the semaphore has admitted and that have not signalled it yet.
Admitted == {a \in Agents :
    \/ pc[a] \in {"passed", "scan", "cas", "no_free_slot", "try_load", "try_cas",
                  "try_failed", "rel_cas", "rel_signal"}
    \/ pc[a] = "idle" /\ handle[a] # -1}

\* Two interpreters never run in the same slot at the same time: lock-free
\* claims and releases of slot_bitmap may interleave in any way.
MutualExclusion ==
    ~disturbed => \A a, b \in Holders : handle[a] = handle[b] => a = b

\* The comment in ios_interp_acquire: "This should never happen (semaphore
\* guarantees a slot is available)".  Whoever passed the semaphore finds a free
\* bit, whatever the other callers are doing between their swap and signal.
AdmittedFindsSlot ==
    ~disturbed => \A a \in Agents : pc[a] # "no_free_slot"

\* No capacity is lost or invented: the semaphore and the admitted agents
\* together account for every slot of the pool, on all failure paths.
CapacityConserved ==
    initialized /\ ~disturbed => semaphore + Cardinality(Admitted) = max_slots

\* ios_interpreter_pool.h: "true if at least one slot is available, false
\* otherwise".  Not so when the pool has a slot for every bit of the word: then
\* 1U << max_slots has no defined value.
AvailabilityExact ==
    initialized => HasAvailableSlot = {\E s \in Slots : s \notin slot_bitmap}

\* An acquire that waits without a timeout gets a slot when handles are
\* released, unless the pool is reset by force or shut down meanwhile: no wakeup
\* is lost between clearing the bit and the signal.
AcquireReturns ==
    \A a \in Agents : (pc[a] = "check" /\ timeout[a] = "forever")
                      ~> (handle[a] # -1 \/ disturbed)

\* Every call comes back, whatever force_release_all and shutdown do to the
\* bitmap and the semaphore under it: no retry loop of a swap spins on a stale
\* copy and every timeout ends a wait.  The exceptions are a lock of the mutex
\* shutdown destroyed and an endless wait that meets the semaphore at zero after
\* shutdown: ios_interp_release signals no more then, so only calls that were
\* already past their look at pool->initialized may still wake it.
CallsReturn ==
    \A a \in Agents : (pc[a] # "idle") ~> (pc[a] = "idle" \/ Stranded(a))

\* ios_interpreter_pool.h of ios_interp_release: "Makes the slot available for
\* other threads".  Not so after shutdown: a caller that waits without a timeout
\* while every handle is released is forgotten.
ReleaseServesWaiter ==
    \A a \in Agents : (pc[a] = "wait" /\ timeout[a] = "forever")
                      ~> (pc[a] # "wait" \/ \E b \in Agents : handle[b] # -1)

-----------------------------------------------------------------------------
(* The pool implements SlotPool, which force_release_all and shutdown      *)
(* break.                                                                  *)

Abstract == INSTANCE SlotPool WITH
    Sizes <- 1 .. WordBits,
    size  <- max_slots,
    grant <- [a \in Agents |-> IF a \in Holders THEN handle[a] ELSE -1],
    broken <- disturbed

\* Until force_release_all or shutdown is called, lock-free claims and releases
\* appear as single grants and returns of a slot that nobody else has.
ImplementsSlotPool == Abstract!Spec

=============================================================================
