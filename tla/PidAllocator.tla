---------------------------- MODULE PidAllocator ----------------------------
(***************************************************************************)
(* The allocator of ios_pid_allocator.c: contexts that are never freed,    *)
(* a lock-free stack of the free ones, a table of the active ones, and the *)
(* gate that holds allocations back while cleanups run.                    *)
(*                                                                         *)
(* A context keeps the pid it was created with, so the two are one number. *)
(* Steps are cut at every access to the head of the stack, to next_free of *)
(* a context that may be on it, and to ref_count.  A section under the     *)
(* lock of a bucket or under cleanup_mutex is one step.                    *)
(***************************************************************************)
EXTENDS Integers, FiniteSets

CONSTANTS
    Threads,
    MaxPids,      \* bound: contexts that are ever created
    MaxOps        \* bound: calls all threads start between them

ASSUME PidAllocatorAssumption ==
    /\ MaxPids \in Nat \ {0}
    /\ MaxOps \in Nat

Contexts == 1 .. MaxPids
NULL == 0

VARIABLES
    head,          \* free_list.head
    next_free,     \* per context
    size,          \* free_list.size
    ref_count, is_allocated,
    active,        \* the contexts in the hash table
    next_pid,      \* the next context to be created
    currently_active,
    cleanup_counter,
    pc,
    snap, next,    \* per thread: locals of pop and push
    ctx,           \* per thread: the context its call works on
    own,           \* per thread: contexts from ios_pid_allocate
    found,         \* per thread: contexts from ios_pid_lookup
    cleaning,      \* threads between begin_cleanup and end_cleanup
    ops,
    stale,         \* history: a pop has put a next_free on the stack that was no
                   \* longer the one of the context it popped
    revived        \* history: a lookup has counted a reference to a context whose
                   \* last one was dropped

vars == <<head, next_free, size, ref_count, is_allocated, active, next_pid,
          currently_active, cleanup_counter, pc, snap, next, ctx, own, found,
          cleaning, ops, stale, revived>>

stack == <<head, next_free, size>>
counts == <<ref_count, is_allocated>>
table == <<active, next_pid, currently_active>>
locals == <<snap, next, ctx>>
held == <<own, found>>
gate == <<cleanup_counter, cleaning>>
history == <<stale, revived>>

Goto(t, label) == pc' = [pc EXCEPT ![t] = label]

Init ==
    /\ head = NULL /\ next_free = [c \in Contexts |-> NULL] /\ size = 0
    /\ ref_count = [c \in Contexts |-> 0]
    /\ is_allocated = [c \in Contexts |-> FALSE]
    /\ active = {} /\ next_pid = 1 /\ currently_active = 0
    /\ cleanup_counter = 0 /\ cleaning = {}
    /\ pc = [t \in Threads |-> "idle"]
    /\ snap = [t \in Threads |-> NULL] /\ next = [t \in Threads |-> NULL]
    /\ ctx = [t \in Threads |-> NULL]
    /\ own = [t \in Threads |-> {}] /\ found = [t \in Threads |-> {}]
    /\ ops = 0 /\ stale = FALSE /\ revived = FALSE

-----------------------------------------------------------------------------
(* ios_pid_allocate.                                                       *)

\* A thread in its own cleanup does not allocate: it would wait for itself.
Allocate(t) ==
    /\ pc[t] = "idle" /\ t \notin cleaning /\ ops < MaxOps
    /\ ops' = ops + 1
    /\ Goto(t, "gate")
    /\ UNCHANGED <<stack, counts, table, locals, held, gate, history>>

\* ios_pid_wait_for_cleanup: one look at the counter under cleanup_mutex.
WaitForCleanup(t) ==
    /\ pc[t] = "gate"
    /\ Goto(t, IF cleanup_counter > 0 THEN "gate_wait" ELSE "pop")
    /\ UNCHANGED <<stack, counts, table, locals, held, gate, ops, history>>

Popping == {"pop_next", "pop_cas"}

\* pid_allocator_pop_free_list: the load of head.
PopLoad(t) ==
    /\ pc[t] = "pop"
    /\ snap' = [snap EXCEPT ![t] = head]
    /\ Goto(t, IF head = NULL THEN "create" ELSE "pop_next")
    /\ UNCHANGED <<stack, counts, table, next, ctx, held, gate, ops, history>>

\* next = head->next_free, of a context that may have left the stack.
PopNext(t) ==
    /\ pc[t] = "pop_next"
    /\ next' = [next EXCEPT ![t] = next_free[snap[t]]]
    /\ Goto(t, "pop_cas")
    /\ UNCHANGED <<stack, counts, table, snap, ctx, held, gate, ops, history>>

\* Mutant: after a failed swap the old head is tried again.
PopSwapStale(t) ==
    /\ pc[t] = "pop_cas"
    /\ \/ /\ head = snap[t]
          /\ head' = next[t]
          /\ size' = size - 1
          /\ ctx' = [ctx EXCEPT ![t] = snap[t]]
          /\ stale' = (stale \/ next[t] # next_free[snap[t]])
          /\ Goto(t, "popped")
       \/ head # snap[t] /\ UNCHANGED <<head, size, ctx, pc, stale>>
    /\ UNCHANGED <<next_free, counts, table, snap, next, held, gate, ops, revived>>

\* The swap compares the address only; a failed one leaves the new head.  A
\* spurious failure of the weak swap would repeat the two steps before it.
PopSwap(t) ==
    /\ pc[t] = "pop_cas"
    /\ \/ /\ head = snap[t]
          /\ head' = next[t]
          /\ size' = size - 1
          /\ ctx' = [ctx EXCEPT ![t] = snap[t]]
          /\ stale' = (stale \/ next[t] # next_free[snap[t]])
          /\ Goto(t, "popped")
          /\ UNCHANGED snap
       \/ /\ head # snap[t]
          /\ snap' = [snap EXCEPT ![t] = head]
          /\ Goto(t, IF head = NULL THEN "create" ELSE "pop_next")
          /\ UNCHANGED <<head, size, ctx, stale>>
    /\ UNCHANGED <<next_free, counts, table, next, held, gate, ops, revived>>

Popped(t) ==
    /\ pc[t] = "popped"
    /\ next_free' = [next_free EXCEPT ![ctx[t]] = NULL]
    /\ is_allocated' = [is_allocated EXCEPT ![ctx[t]] = TRUE]
    /\ ref_count' = [ref_count EXCEPT ![ctx[t]] = 1]
    /\ Goto(t, "insert")
    /\ UNCHANGED <<head, size, table, locals, held, gate, ops, history>>

\* Mutant: next_pid is a plain int; of two increments one may be lost.
CreatePlain(t) ==
    /\ pc[t] = "create" /\ next_pid \in Contexts
    /\ next_pid' = IF \E u \in Threads \ {t} : pc[u] = "create"
                   THEN next_pid ELSE next_pid + 1
    /\ ctx' = [ctx EXCEPT ![t] = next_pid]
    /\ is_allocated' = [is_allocated EXCEPT ![next_pid] = TRUE]
    /\ ref_count' = [ref_count EXCEPT ![next_pid] = 1]
    /\ Goto(t, "insert")
    /\ UNCHANGED <<stack, active, currently_active, snap, next, held, gate, ops, history>>

\* A new context, or NULL when there is no memory (the pid is used up).
Create(t) ==
    /\ pc[t] = "create" /\ next_pid \in Contexts
    /\ next_pid' = next_pid + 1
    /\ \/ /\ ctx' = [ctx EXCEPT ![t] = next_pid]
          /\ is_allocated' = [is_allocated EXCEPT ![next_pid] = TRUE]
          /\ ref_count' = [ref_count EXCEPT ![next_pid] = 1]
          /\ Goto(t, "insert")
       \/ /\ Goto(t, "idle")
          /\ UNCHANGED <<ctx, counts>>
    /\ UNCHANGED <<stack, active, currently_active, snap, next, held, gate, ops, history>>

\* The bound on contexts is reached: like a failed calloc.
CreateBounded(t) ==
    /\ pc[t] = "create" /\ next_pid \notin Contexts
    /\ Goto(t, "idle")
    /\ UNCHANGED <<stack, counts, table, locals, held, gate, ops, history>>

\* pid_allocator_insert_active, and the caller has the context.
Insert(t) ==
    /\ pc[t] = "insert"
    /\ active' = active \cup {ctx[t]}
    /\ currently_active' = currently_active + 1
    /\ own' = [own EXCEPT ![t] = @ \cup {ctx[t]}]
    /\ Goto(t, "idle")
    /\ UNCHANGED <<stack, counts, next_pid, locals, found, gate, ops, history>>

-----------------------------------------------------------------------------
(* ios_pid_lookup and ios_pid_lookup_by_thread.                            *)

\* Mutant: the context is returned without a reference.
LookupUncounted(t, c) ==
    /\ pc[t] = "idle" /\ ops < MaxOps
    /\ c \in active /\ is_allocated[c] /\ c \notin found[t]
    /\ ops' = ops + 1
    /\ found' = [found EXCEPT ![t] = @ \cup {c}]
    /\ UNCHANGED <<stack, counts, table, pc, locals, own, gate, history>>

\* Under the bucket's read lock: the context is in the table, and its count
\* goes up, from zero too when its last reference has just been dropped.
Lookup(t, c) ==
    /\ pc[t] = "idle" /\ ops < MaxOps
    /\ c \in active /\ is_allocated[c] /\ c \notin found[t]
    /\ ops' = ops + 1
    /\ ref_count' = [ref_count EXCEPT ![c] = @ + 1]
    /\ revived' = (revived \/ ref_count[c] <= 0)
    /\ found' = [found EXCEPT ![t] = @ \cup {c}]
    /\ UNCHANGED <<stack, is_allocated, table, pc, locals, own, gate, stale>>

-----------------------------------------------------------------------------
(* ios_pid_release.                                                        *)

\* The reference is given up; the last one releases the context.
Release(t, c) ==
    /\ pc[t] = "idle"
    /\ \/ c \in own[t] /\ own' = [own EXCEPT ![t] = @ \ {c}] /\ UNCHANGED found
       \/ c \in found[t] /\ found' = [found EXCEPT ![t] = @ \ {c}] /\ UNCHANGED own
    /\ ref_count' = [ref_count EXCEPT ![c] = @ - 1]
    /\ ctx' = [ctx EXCEPT ![t] = c]
    /\ Goto(t, IF ref_count[c] > 1 THEN "idle" ELSE "remove")
    /\ UNCHANGED <<stack, is_allocated, table, snap, next, gate, ops, history>>

RemoveActive(t) ==
    /\ pc[t] = "remove"
    /\ active' = active \ {ctx[t]}
    /\ currently_active' = currently_active - 1
    /\ Goto(t, "push")
    /\ UNCHANGED <<stack, counts, next_pid, locals, held, gate, ops, history>>

\* pid_allocator_push_free_list: the context is cleared, head is loaded.
PushLoad(t) ==
    /\ pc[t] = "push"
    /\ is_allocated' = [is_allocated EXCEPT ![ctx[t]] = FALSE]
    /\ snap' = [snap EXCEPT ![t] = head]
    /\ Goto(t, "push_next")
    /\ UNCHANGED <<stack, ref_count, table, next, ctx, held, gate, ops, history>>

PushNext(t) ==
    /\ pc[t] = "push_next"
    /\ next_free' = [next_free EXCEPT ![ctx[t]] = snap[t]]
    /\ Goto(t, "push_cas")
    /\ UNCHANGED <<head, size, counts, table, locals, held, gate, ops, history>>

\* Mutant: next_free is not set again after a failed swap.
PushSwapStale(t) ==
    /\ pc[t] = "push_cas"
    /\ \/ /\ head = snap[t]
          /\ head' = ctx[t]
          /\ size' = size + 1
          /\ Goto(t, "idle")
          /\ UNCHANGED snap
       \/ /\ head # snap[t]
          /\ snap' = [snap EXCEPT ![t] = head]
          /\ UNCHANGED <<pc, head, size>>
    /\ UNCHANGED <<next_free, counts, table, next, ctx, held, gate, ops, history>>

PushSwap(t) ==
    /\ pc[t] = "push_cas"
    /\ \/ /\ head = snap[t]
          /\ head' = ctx[t]
          /\ size' = size + 1
          /\ Goto(t, "idle")
          /\ UNCHANGED snap
       \/ /\ head # snap[t]
          /\ snap' = [snap EXCEPT ![t] = head]
          /\ Goto(t, "push_next")
          /\ UNCHANGED <<head, size>>
    /\ UNCHANGED <<next_free, counts, table, next, ctx, held, gate, ops, history>>

-----------------------------------------------------------------------------
(* The gate.                                                               *)

BeginCleanup(t) ==
    /\ pc[t] = "idle" /\ t \notin cleaning /\ ops < MaxOps
    /\ ops' = ops + 1
    /\ cleaning' = cleaning \cup {t}
    /\ cleanup_counter' = cleanup_counter + 1
    /\ UNCHANGED <<stack, counts, table, pc, locals, held, history>>

\* The last cleanup wakes everyone at the gate.
EndCleanup(t) ==
    /\ pc[t] = "idle" /\ t \in cleaning
    /\ cleaning' = cleaning \ {t}
    /\ cleanup_counter' = cleanup_counter - 1
    /\ pc' = IF cleanup_counter = 1
             THEN [u \in Threads |-> IF pc[u] = "gate_wait" THEN "gate" ELSE pc[u]]
             ELSE pc
    /\ UNCHANGED <<stack, counts, table, locals, held, ops, history>>

-----------------------------------------------------------------------------
Call(t) ==
    \/ Allocate(t) \/ BeginCleanup(t)
    \/ \E c \in Contexts : Lookup(t, c)

Work(t) ==
    \/ WaitForCleanup(t) \/ PopLoad(t) \/ PopNext(t) \/ PopSwap(t) \/ Popped(t)
    \/ Create(t) \/ CreateBounded(t) \/ Insert(t)
    \/ RemoveActive(t) \/ PushLoad(t) \/ PushNext(t) \/ PushSwap(t)

GiveBack(t) == EndCleanup(t) \/ \E c \in Contexts : Release(t, c)

Finished ==
    /\ ops = MaxOps /\ cleaning = {}
    /\ \A t \in Threads : pc[t] = "idle" /\ own[t] = {} /\ found[t] = {}
    /\ UNCHANGED vars

Next ==
    \/ \E t \in Threads : Call(t) \/ Work(t) \/ GiveBack(t)
    \/ Finished

Spec == Init /\ [][Next]_vars

\* A thread inside the allocator keeps running, references are given back and
\* cleanups end; nobody has to begin anything.
FairSpec == Spec /\ \A t \in Threads : WF_vars(Work(t)) /\ WF_vars(GiveBack(t))

-----------------------------------------------------------------------------
(* Properties.                                                             *)

Labels == {"idle", "gate", "gate_wait", "pop", "pop_next", "pop_cas", "popped",
           "create", "insert", "remove", "push", "push_next", "push_cas"}

\* Every variable keeps its type.
TypeOK ==
    /\ head \in Contexts \cup {NULL}
    /\ next_free \in [Contexts -> Contexts \cup {NULL}]
    /\ size \in Int
    /\ ref_count \in [Contexts -> Int]
    /\ is_allocated \in [Contexts -> BOOLEAN]
    /\ active \subseteq Contexts /\ next_pid \in 1 .. MaxPids + 1
    /\ currently_active \in Int
    /\ cleanup_counter \in Nat /\ cleaning \subseteq Threads
    /\ pc \in [Threads -> Labels]
    /\ snap \in [Threads -> Contexts \cup {NULL}]
    /\ next \in [Threads -> Contexts \cup {NULL}]
    /\ ctx \in [Threads -> Contexts \cup {NULL}]
    /\ own \in [Threads -> SUBSET Contexts]
    /\ found \in [Threads -> SUBSET Contexts]
    /\ ops \in 0 .. MaxOps /\ stale \in BOOLEAN /\ revived \in BOOLEAN

\* No pop has swapped in a stale next_free and no lookup has revived a context: the
\* two races that the code leaves open have not happened.
Sound == ~stale /\ ~revived

\* The header of ios_pid_allocate: "Returns a new PID context with unique ID".
\* Two callers never have the same context, and it is in the table, as long as no
\* lookup has revived one (ReferenceKeepsContext is about those).
UniqueOwner ==
    ~revived => \A t \in Threads : \A c \in own[t] :
      /\ c \in active
      /\ \A u \in Threads \ {t} : c \notin own[u]

\* UniqueOwner fails in no other way than by a stale next_free: any number of pops,
\* pushes and lookups that meet on the stack leave every context to one caller, as long
\* as the next_free that a successful swap puts on the stack is the present one.
OwnersShareNothing == ~stale => UniqueOwner

\* The comment in ios_pid_lookup, "Increment reference count before returning": a
\* reference from a lookup keeps its context in the table, away from the free list.
ReferenceKeepsContext ==
    \A t \in Threads : \A c \in found[t] : c \in active /\ ref_count[c] > 0

\* A reference is lost in no other way than by the two races, however the lookups and
\* releases of the other threads fall; and every variable keeps its type, always.
ReferencesCounted == TypeOK /\ (Sound => ReferenceKeepsContext)

\* The k-th context of the free list, NULL past its end.
FreeListAt[k \in Nat] ==
    IF k = 0 THEN head
    ELSE IF FreeListAt[k - 1] = NULL THEN NULL ELSE next_free[FreeListAt[k - 1]]

OnFreeList == {FreeListAt[k] : k \in 0 .. MaxPids} \ {NULL}

\* When no call is under way the stack is a list that ends, it holds exactly the
\* contexts that were created and are not in the table, and the two statistics
\* count them: no context is lost in a failed swap, none is on both sides.
\* Again the two races are the only exceptions.
NothingLost ==
    Sound /\ (\A t \in Threads : pc[t] = "idle") =>
      /\ FreeListAt[MaxPids] = NULL
      /\ size = Cardinality(OnFreeList)
      /\ currently_active = Cardinality(active)
      /\ OnFreeList \cap active = {}
      /\ \A c \in OnFreeList : ~is_allocated[c]
      /\ \A c \in Contexts : is_allocated[c] => c \in active

\* Nobody is left at the gate: an allocation that met a cleanup returns once the
\* cleanups end, although new ones may begin.
AllocateReturns ==
    \A t \in Threads : pc[t] = "gate" ~> pc[t] = "idle"

=============================================================================
