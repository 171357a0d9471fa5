----------------------------- MODULE ThreadPool -----------------------------
(***************************************************************************)
(* The pool of ios_thread_pool.c: four bounded priority queues behind one  *)
(* mutex, workers, and work items shared by reference count.               *)
(*                                                                         *)
(* A critical section of queue_mutex or of an item's mutex is one step.    *)
(* The flags read inside one (shutdown, an item's state) are also written  *)
(* outside, but each section acts as if it had read them at its start, or  *)
(* as if the write came after it.                                          *)
(***************************************************************************)
EXTENDS Integers, Sequences, SequencesExt

CONSTANTS
    Workers,        \* the threads of the pool
    Submitters,     \* threads that submit work
    Users,          \* threads that work with handles and with the pool
    max_queue_size, \* config->max_queue_size
    priority,       \* per submitter: the priority it submits with (a thread
                    \* that uses several acts as several submitters)
    MaxCalls,       \* bound: calls of all clients together
    MaxExits        \* bound: work functions that end in pthread_exit

ASSUME ThreadPoolAssumption ==
    /\ Workers \cap (Submitters \cup Users) = {} /\ Submitters \cap Users = {}
    /\ max_queue_size \in Nat /\ MaxCalls \in Nat /\ MaxExits \in Nat
    /\ priority \in [Submitters -> 0 .. 3]

VARIABLES
    queue,          \* per priority: the items in it
    shutdown, active_workers,
    pool_freed,     \* ios_thread_pool_destroy has returned
    state, ref_count, \* per item
    pc, cur,        \* per thread: where it is, and the item it works on
    handle,         \* items whose creator's reference is not given back yet
    lost,           \* items whose worker ended under them
    calls, exits

vars == <<queue, shutdown, active_workers, pool_freed, state, ref_count, pc, cur,
          handle, lost, calls, exits>>

items == <<state, ref_count>>
pool == <<queue, shutdown, active_workers, pool_freed>>
history == <<lost, calls, exits>>

Priorities == 0 .. 3     \* LOW, NORMAL, HIGH, URGENT
Items == 1 .. MaxCalls
Clients == Submitters \cup Users
Threads == Workers \cup Clients

\* The shares of ios_thread_pool_create, with C's integer division.
queue_capacity ==
    [p \in Priorities |-> max_queue_size \div (CASE p = 1 -> 2 [] p = 2 -> 4
                                                 [] OTHER -> 8)]

Full(p) == Len(queue[p]) >= queue_capacity[p]

\* The priorities that have work.
Queued == {p \in Priorities : queue[p] # <<>>}

Init ==
    /\ queue = [p \in Priorities |-> <<>>]
    /\ shutdown = FALSE /\ active_workers = 0 /\ pool_freed = FALSE
    /\ state = [i \in Items |-> "unused"]
    /\ ref_count = [i \in Items |-> 0]
    /\ pc = [t \in Threads |-> IF t \in Workers THEN "loop" ELSE "idle"]
    /\ cur = [t \in Threads |-> 0]
    /\ handle = {} /\ lost = {}
    /\ calls = 0 /\ exits = 0

-----------------------------------------------------------------------------
(* Condition variables: the threads asleep on one have a label of its own. *)

Goto(t, label) == pc' = [pc EXCEPT ![t] = label]

\* t goes on at label, and one thread asleep at from, if there is any, at to.
GotoSignal(t, label, from, to) ==
    LET asleep == {u \in Threads \ {t} : pc[u] = from} IN
    \/ asleep = {} /\ Goto(t, label)
    \/ \E u \in asleep : pc' = [pc EXCEPT ![t] = label, ![u] = to]

\* Mutant: nobody is told.
GotoUntold(t, label, i) == Goto(t, label)

\* t goes on at label, and all threads asleep on the condition of item i wake.
GotoBroadcast(t, label, i) ==
    pc' = [u \in Threads |-> IF u = t THEN label
                             ELSE IF pc[u] = "item_wait" /\ cur[u] = i THEN "item_check"
                             ELSE pc[u]]

\* A client starts a call.
Called == calls < MaxCalls /\ calls' = calls + 1

\* t has no item at hand any more.
Drop(t) == cur' = [cur EXCEPT ![t] = 0]

-----------------------------------------------------------------------------
(* References.                                                             *)

\* work_item_release_internal: the last reference frees the item.
Unref(i) ==
    LET last == ref_count[i] = 1 IN
    /\ ref_count' = [ref_count EXCEPT ![i] = @ - 1]
    /\ state' = [state EXCEPT ![i] = IF last THEN "freed" ELSE @]

\* Mutant: the queue takes over the creator's reference.
QueueReferenceForgotten(i) == ref_count

\* work_item_retain in enqueue_work.
QueueReference(i) == [ref_count EXCEPT ![i] = @ + 1]

-----------------------------------------------------------------------------
(* Submitting.                                                             *)

\* work_item_create: the next item that was never used.
NewItem == CHOOSE i \in Items : state[i] = "unused"
                                  /\ \A j \in 1 .. i - 1 : state[j] # "unused"

\* ios_thread_pool_submit, _try_submit and _submit_with_callback up to the lock;
\* a pool that was shut down refuses.
Submit(c) ==
    /\ pc[c] = "idle" /\ ~shutdown /\ Called
    /\ LET i == NewItem IN
       /\ state' = [state EXCEPT ![i] = "pending"]
       /\ ref_count' = [ref_count EXCEPT ![i] = 1]
       /\ handle' = handle \cup {i}
       /\ cur' = [cur EXCEPT ![c] = i]
    /\ \E label \in {"submit", "try_submit"} : Goto(c, label)
    /\ UNCHANGED <<pool, lost, exits>>

\* enqueue_work; the call returns, or has a callback to set.
Enqueue(c, i) ==
    /\ queue' = [queue EXCEPT ![priority[c]] = Append(@, i)]
    /\ ref_count' = QueueReference(i)
    /\ \/ GotoSignal(c, "idle", "work_available", "loop") /\ Drop(c)
       \/ /\ pc[c] = "submit"
          /\ GotoSignal(c, "set_callback", "work_available", "loop")
          /\ UNCHANGED cur
    /\ UNCHANGED <<handle, state>>

\* The call gives the item up.
GiveUp(c, i) ==
    /\ Unref(i)
    /\ handle' = handle \ {i}
    /\ Goto(c, "idle") /\ Drop(c)
    /\ UNCHANGED queue

\* Under queue_mutex: a submit waits for room in its own queue, and gives up when
\* the pool is shut down.
SubmitLocked(c) ==
    LET i == cur[c] IN
    /\ pc[c] = "submit"
    /\ \/ shutdown /\ GiveUp(c, i)
       \/ /\ ~shutdown /\ Full(priority[c])
          /\ Goto(c, "queue_not_full")
          /\ UNCHANGED <<queue, items, cur, handle>>
       \/ ~shutdown /\ ~Full(priority[c]) /\ Enqueue(c, i)
    /\ UNCHANGED <<shutdown, active_workers, pool_freed, history>>

\* A try_submit looks at neither; without room it gives up.
TrySubmitLocked(c) ==
    LET i == cur[c] IN
    /\ pc[c] = "try_submit"
    /\ \/ Full(priority[c]) /\ GiveUp(c, i)
       \/ ~Full(priority[c]) /\ Enqueue(c, i)
    /\ UNCHANGED <<shutdown, active_workers, pool_freed, history>>

\* ios_thread_pool_submit_with_callback: the item, which the workers have by now,
\* is written to.
SetCallback(c) ==
    /\ pc[c] = "set_callback"
    /\ Goto(c, "idle") /\ Drop(c)
    /\ UNCHANGED <<pool, items, handle, history>>

-----------------------------------------------------------------------------
(* worker_thread_main.                                                     *)

\* The highest priority that has work.
Highest == CHOOSE p \in Queued : \A q \in Queued : q <= p

\* Mutant: dequeue_work does not signal queue_not_full.
TakenSilent(w) == Goto(w, "dequeued")

\* The worker goes on with its item; one submitter that waits for room, of
\* whatever priority, is signalled.
Taken(w) == GotoSignal(w, "dequeued", "queue_not_full", "submit")

\* Under queue_mutex: leave, sleep, or dequeue_work.
WorkerLoop(w) ==
    /\ pc[w] = "loop"
    /\ \/ shutdown /\ Goto(w, "ended") /\ UNCHANGED <<queue, cur>>
       \/ ~shutdown /\ Queued = {} /\ Goto(w, "work_available") /\ UNCHANGED <<queue, cur>>
       \/ /\ ~shutdown /\ Queued # {}
          /\ cur' = [cur EXCEPT ![w] = Head(queue[Highest])]
          /\ queue' = [queue EXCEPT ![Highest] = Tail(@)]
          /\ Taken(w)
    /\ UNCHANGED <<shutdown, active_workers, pool_freed, items, handle, history>>

\* The state is overwritten whatever it was, CANCELLED included; work_fn starts.
Execute(w) ==
    /\ pc[w] = "dequeued"
    /\ active_workers' = active_workers + 1
    /\ state' = [state EXCEPT ![cur[w]] = "executing"]
    /\ Goto(w, "work_fn")
    /\ UNCHANGED <<queue, shutdown, pool_freed, ref_count, cur, handle, history>>

WorkReturns(w) ==
    /\ pc[w] = "work_fn"
    /\ active_workers' = active_workers - 1
    /\ Goto(w, "complete")
    /\ UNCHANGED <<queue, shutdown, pool_freed, items, cur, handle, history>>

\* Under the item's mutex.
Complete(w) ==
    /\ pc[w] = "complete"
    /\ state' = [state EXCEPT ![cur[w]] = "completed"]
    /\ GotoBroadcast(w, "call_back", cur[w])
    /\ UNCHANGED <<pool, ref_count, cur, handle, history>>

\* The callback, total_completed, and the worker's reference.
CallBack(w) ==
    /\ pc[w] = "call_back"
    /\ Unref(cur[w])
    /\ Goto(w, "loop") /\ Drop(w)
    /\ UNCHANGED <<pool, handle, history>>

\* The function calls pthread_exit and its cleanup handler ios_work_complete:
\* the item is complete, and the worker is gone with all it had still to do.
WorkExits(w) ==
    /\ pc[w] = "work_fn" /\ exits < MaxExits
    /\ exits' = exits + 1
    /\ lost' = lost \cup {cur[w]}
    /\ state' = [state EXCEPT ![cur[w]] = IF @ = "executing" THEN "completed" ELSE @]
    /\ GotoBroadcast(w, "ended", cur[w]) /\ Drop(w)
    /\ UNCHANGED <<pool, ref_count, handle, calls>>

-----------------------------------------------------------------------------
(* What a client does with an item.  Any thread may wait for it or cancel  *)
(* it until the creator's reference is given back.                         *)

Submitted(i) ==
    i \in handle /\ \A c \in Clients :
        cur[c] = i => pc[c] \in {"item_check", "item_wait", "cancelled"}

Wait(c, i) ==
    /\ pc[c] = "idle" /\ Submitted(i)
    /\ cur' = [cur EXCEPT ![c] = i]
    /\ Goto(c, "item_check")
    /\ Called
    /\ UNCHANGED <<pool, items, handle, lost, exits>>

\* Under the item's mutex.
WaitCheck(c) ==
    /\ pc[c] = "item_check"
    /\ \/ state[cur[c]] \in {"completed", "cancelled"} /\ Goto(c, "idle") /\ Drop(c)
       \/ /\ state[cur[c]] \notin {"completed", "cancelled"}
          /\ Goto(c, "item_wait") /\ UNCHANGED cur
    /\ UNCHANGED <<pool, items, handle, history>>

\* The swap from PENDING; the broadcast is a step of its own.
Cancel(c, i) ==
    /\ pc[c] = "idle" /\ Submitted(i) /\ state[i] = "pending"
    /\ state' = [state EXCEPT ![i] = "cancelled"]
    /\ cur' = [cur EXCEPT ![c] = i]
    /\ Goto(c, "cancelled")
    /\ Called
    /\ UNCHANGED <<pool, ref_count, handle, lost, exits>>

CancelWake(c) ==
    /\ pc[c] = "cancelled"
    /\ GotoBroadcast(c, "idle", cur[c]) /\ Drop(c)
    /\ UNCHANGED <<pool, items, handle, history>>

\* ios_work_release, when no client uses the handle any more.
WorkRelease(c, i) ==
    /\ pc[c] = "idle" /\ i \in handle /\ \A d \in Clients : cur[d] # i
    /\ handle' = handle \ {i}
    /\ Unref(i)
    /\ Called
    /\ UNCHANGED <<pool, pc, cur, lost, exits>>

-----------------------------------------------------------------------------
(* Draining and shutting down.                                             *)

Drain(c) ==
    /\ pc[c] = "idle" /\ ~pool_freed
    /\ Goto(c, "drain")
    /\ Called
    /\ UNCHANGED <<pool, items, cur, handle, lost, exits>>

\* The queues under the mutex, and after it active_workers without.
DrainQueued(c) ==
    /\ pc[c] = "drain" /\ Queued = {}
    /\ Goto(c, "drain_active")
    /\ UNCHANGED <<pool, items, cur, handle, history>>

DrainActive(c) ==
    /\ pc[c] = "drain_active"
    /\ Goto(c, IF active_workers = 0 THEN "idle" ELSE "drain")
    /\ UNCHANGED <<pool, items, cur, handle, history>>

\* usleep and another look.
DrainSpin(c) == pc[c] = "drain" /\ Queued # {} /\ UNCHANGED vars

\* ios_thread_pool_shutdown and _destroy, called once: the flag without the lock,
Shutdown(c) ==
    /\ pc[c] = "idle" /\ ~shutdown
    /\ shutdown' = TRUE
    /\ Goto(c, "shut_down")
    /\ Called
    /\ UNCHANGED <<queue, active_workers, pool_freed, items, cur, handle, lost, exits>>

\* Mutant: only the workers are told.
WokenByShutdownWorkers == [work_available |-> "loop"]

\* The labels whose threads the two broadcasts wake, and where these go on.
WokenByShutdown == [work_available |-> "loop", queue_not_full |-> "submit"]

\* the two broadcasts under it,
ShutdownWake(c) ==
    /\ pc[c] = "shut_down"
    /\ pc' = [t \in Threads |->
                IF t = c THEN "join"
                ELSE IF pc[t] \in DOMAIN WokenByShutdown THEN WokenByShutdown[pc[t]]
                ELSE pc[t]]
    /\ UNCHANGED <<pool, items, cur, handle, history>>

\* pthread_join of every worker; destroy then frees the pool, which nobody may
\* be using.  Items still queued stay where they are.
Join(c) ==
    /\ pc[c] = "join" /\ \A w \in Workers : pc[w] = "ended"
    /\ \/ UNCHANGED pool_freed
       \/ /\ \A d \in Clients \ {c} : pc[d] \notin
               {"submit", "try_submit", "queue_not_full", "drain", "drain_active"}
          /\ pool_freed' = TRUE
    /\ Goto(c, "idle")
    /\ UNCHANGED <<queue, shutdown, active_workers, items, cur, handle, history>>

-----------------------------------------------------------------------------
Call(u) ==
    \/ Drain(u) \/ Shutdown(u)
    \/ \E i \in Items : Wait(u, i) \/ Cancel(u, i) \/ WorkRelease(u, i)

UserStep(u) ==
    \/ WaitCheck(u) \/ CancelWake(u) \/ DrainQueued(u) \/ DrainActive(u)
    \/ ShutdownWake(u) \/ Join(u)

SubmitterStep(c) == SubmitLocked(c) \/ TrySubmitLocked(c) \/ SetCallback(c)

WorkerStep(w) ==
    \/ WorkerLoop(w) \/ Execute(w) \/ WorkReturns(w) \/ Complete(w) \/ CallBack(w)

Next ==
    \/ \E c \in Submitters : Submit(c) \/ SubmitterStep(c)
    \/ \E u \in Users : Call(u) \/ UserStep(u) \/ DrainSpin(u)
    \/ \E w \in Workers : WorkerStep(w) \/ WorkExits(w)

Spec == Init /\ [][Next]_vars

\* Threads inside the pool keep running and work functions come to an end;
\* nobody has to call anything.
FairSpec ==
    /\ Spec
    /\ \A c \in Submitters : WF_vars(SubmitterStep(c))
    /\ \A u \in Users : WF_vars(UserStep(u))
    /\ \A w \in Workers : WF_vars(WorkerStep(w))

-----------------------------------------------------------------------------
(* Properties.                                                             *)

InWorker(w, i) ==
    cur[w] = i /\ pc[w] \in {"dequeued", "work_fn", "complete", "call_back"}

\* The references an item should have: its creator's, the queue's or the
\* worker's, and one nobody gives back when its worker ended in pthread_exit.
References(i) ==
    (IF i \in handle THEN 1 ELSE 0) + (IF i \in lost THEN 1 ELSE 0)
    + (IF \E p \in Priorities : Contains(queue[p], i) THEN 1 ELSE 0)
    + (IF \E w \in Workers : InWorker(w, i) THEN 1 ELSE 0)

Asleep == {"item_wait", "queue_not_full", "work_available"}

\* Every variable keeps its type, and no queue exceeds its capacity.
TypeOK ==
    /\ queue \in [Priorities -> Seq(Items)]
    /\ \A p \in Priorities : Len(queue[p]) <= queue_capacity[p]
    /\ shutdown \in BOOLEAN /\ pool_freed \in BOOLEAN
    /\ active_workers \in 0 .. MaxCalls
    /\ state \in [Items -> {"unused", "pending", "executing", "completed",
                            "cancelled", "freed"}]
    /\ ref_count \in [Items -> Nat]
    /\ pc \in [Threads -> {"loop", "dequeued", "work_fn", "complete", "call_back",
         "ended", "idle", "submit", "try_submit", "set_callback",
         "item_check", "cancelled", "drain", "drain_active", "shut_down", "join"}
         \cup Asleep]
    /\ cur \in [Threads -> 0 .. MaxCalls]
    /\ handle \subseteq Items /\ lost \subseteq Items
    /\ calls \in 0 .. MaxCalls /\ exits \in 0 .. MaxExits

\* The reference count of a work item is exactly the number of those who still
\* use it: enqueue_work's, the worker's and the caller's pairs of retain and
\* release match on every path (full queue, shutdown, cancellation, a release
\* before the work has run), so no item is freed under a queue, a worker or a
\* waiter, and none survives them.  And every variable keeps its type.
ReferencesExact == TypeOK /\ \A i \in Items : ref_count[i] = References(i)

\* No worker is left: the pool was shut down, or all ended in pthread_exit.
NoWorkers == \A w \in Workers : pc[w] = "ended"

\* A blocked submit returns as long as a worker is left, although one condition
\* variable serves four queues and cond_signal may pick a submitter whose own
\* queue is still full: a wakeup wasted in this way always leaves a dequeue, and
\* its signal, still to come.
SubmitReturns ==
    \A c \in Submitters : (pc[c] = "submit")
                          ~> (pc[c] \in {"idle", "set_callback"} \/ NoWorkers)

\* ios_work_wait returns once the item runs or is cancelled; no completion or
\* cancellation slips between the waiter's look at the state and its sleep.  Only
\* a shutdown, which leaves queued items where they are, may strand it.
WaitReturns ==
    \A u \in Users : (pc[u] = "item_check") ~> (pc[u] = "idle" \/ NoWorkers)

\* A shutdown returns, and no submitter stays asleep on a full queue: the flag
\* set without the lock and the broadcasts under it miss no worker between its
\* look at the flag and its sleep.  Those who wait for an item that is still
\* queued, and a drain, are not woken; nothing is claimed for them.
ShutdownReturns ==
    shutdown ~> (NoWorkers /\ \A c \in Clients : pc[c] \notin {"join", "queue_not_full"})

\* ios_thread_pool.h of ios_thread_pool_shutdown: "Completes all pending work
\* before terminating workers".  Not so: a worker looks at the flag before it
\* looks at the queues, and what is queued stays there, with its waiters.
PendingWorkCompleted ==
    [][\A w \in Workers : pc[w] = "loop" /\ pc'[w] = "ended" => Queued = {}]_vars

=============================================================================
