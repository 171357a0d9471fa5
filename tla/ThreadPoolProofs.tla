-------------------------- MODULE ThreadPoolProofs --------------------------
(***************************************************************************)
(* Proofs about ThreadPool, for every set of workers, submitters and users *)
(* and every size of the queues.                                           *)
(*                                                                         *)
(* The reference count of an item is exact because the item is in one      *)
(* place at a time: with the thread that submits it, in one queue and once *)
(* there, with one worker, or lost with its worker.  Each move between     *)
(* them pairs a retain with a release or hands a reference over, and the   *)
(* creator's reference is independent of where the item is.                *)
(***************************************************************************)
EXTENDS ThreadPool, FiniteSetTheorems, SequenceTheorems, TLAPS

\* t is in a submit that may still give its item up.
Submitting(t) == pc[t] \in {"submit", "try_submit", "queue_not_full"}

\* t is a worker with an item.
Busy(t) == t \in Workers /\ pc[t] \in {"dequeued", "work_fn", "complete", "call_back"}

InQueue(i) == \E p \in Priorities : \E a \in 1 .. Len(queue[p]) : queue[p][a] = i
AtWorker(i) == \E w \in Workers : Busy(w) /\ cur[w] = i

\* No item is in two queues, or twice in one.
QueuedOnce ==
    \A p, q \in Priorities : \A a \in 1 .. Len(queue[p]), b \in 1 .. Len(queue[q]) :
      queue[p][a] = queue[q][b] => p = q /\ a = b

\* A worker's item is nobody else's and in no queue; an item that was lost is in
\* neither place.
WorkedOnce ==
    /\ \A w \in Workers : Busy(w) =>
         /\ cur[w] \in Items /\ cur[w] \notin lost /\ ~InQueue(cur[w])
         /\ \A v \in Workers : Busy(v) /\ cur[v] = cur[w] => v = w
    /\ \A i \in lost : ~InQueue(i)

\* An item that is being submitted is nowhere else, and has its creator's reference.
SubmittedOnce ==
    \A c \in Submitters : Submitting(c) =>
      /\ cur[c] \in handle /\ cur[c] \notin lost
      /\ ~InQueue(cur[c]) /\ ~AtWorker(cur[c])
      /\ \A d \in Submitters : Submitting(d) /\ cur[d] = cur[c] => d = c

\* Items are created in order, one per call at most, and used only once created.
CreatedFirst ==
    /\ \E k \in 0 .. calls : \A i \in Items : state[i] = "unused" <=> i > k
    /\ \A i \in Items : state[i] = "unused" =>
         /\ i \notin handle /\ i \notin lost /\ ~InQueue(i)
         /\ \A t \in Threads : cur[t] # i

Running == lost \cup {i \in Items : \E w \in Workers : pc[w] = "work_fn" /\ cur[w] = i}

\* active_workers counts the work functions under way and those that never returned.
ActiveExact == active_workers = Cardinality(Running)

Places == QueuedOnce /\ WorkedOnce /\ SubmittedOnce /\ CreatedFirst

\* References, in the words of the invariant.
Refs(i) ==
    (IF i \in handle THEN 1 ELSE 0) + (IF i \in lost THEN 1 ELSE 0)
    + (IF InQueue(i) THEN 1 ELSE 0) + (IF AtWorker(i) THEN 1 ELSE 0)

Counts == \A i \in Items : ref_count[i] = Refs(i)

Labels ==
    {"loop", "dequeued", "work_fn", "complete", "call_back", "ended", "idle", "submit",
     "try_submit", "set_callback", "item_check", "cancelled", "drain", "drain_active",
     "shut_down", "join"} \cup Asleep

States == {"unused", "pending", "executing", "completed", "cancelled", "freed"}

\* TypeOK without active_workers, whose bound follows from ActiveExact.
Types ==
    /\ queue \in [Priorities -> Seq(Items)]
    /\ \A p \in Priorities : Len(queue[p]) <= queue_capacity[p]
    /\ shutdown \in BOOLEAN /\ pool_freed \in BOOLEAN
    /\ state \in [Items -> States]
    /\ ref_count \in [Items -> Nat]
    /\ pc \in [Threads -> Labels]
    /\ cur \in [Threads -> 0 .. MaxCalls]
    /\ handle \subseteq Items /\ lost \subseteq Items
    /\ calls \in 0 .. MaxCalls /\ exits \in 0 .. MaxExits

PoolInv == Types /\ Places /\ Counts /\ ActiveExact

-----------------------------------------------------------------------------
(* The beginning.                                                          *)

\* The capacities are numbers.
LEMMA CapacityType == \A p \in Priorities : queue_capacity[p] \in Nat
<1> SUFFICES ASSUME NEW p \in Priorities PROVE queue_capacity[p] \in Nat
  OBVIOUS
<1>1. max_queue_size \in Nat
  BY ThreadPoolAssumption
<1>2. queue_capacity[p] = max_queue_size \div (CASE p = 1 -> 2 [] p = 2 -> 4 [] OTHER -> 8)
  BY DEF queue_capacity
<1>3. CASE p = 1
  BY <1>1, <1>2, <1>3
<1>4. CASE p = 2
  BY <1>1, <1>2, <1>4
<1>5. CASE p # 1 /\ p # 2
  BY <1>1, <1>2, <1>5
<1> QED
  BY <1>3, <1>4, <1>5

\* No item is created yet.
LEMMA PoolInvInit == Init => PoolInv
<1> SUFFICES ASSUME Init PROVE PoolInv
  OBVIOUS
<1> USE ThreadPoolAssumption DEF Init
<1>1. Types
  <2>1. shutdown \in BOOLEAN /\ pool_freed \in BOOLEAN
    OBVIOUS
  <2>2. \A p \in Priorities : queue[p] = <<>>
    OBVIOUS
  <2>3. \A p \in Priorities : Len(queue[p]) <= queue_capacity[p]
    BY <2>2, CapacityType
  <2>4. queue \in [Priorities -> Seq(Items)]
    OBVIOUS
  <2>5. state \in [Items -> States] /\ pc \in [Threads -> Labels]
    BY DEF States, Labels
  <2> QED
    BY <2>1, <2>3, <2>4, <2>5 DEF Types
<1>2. /\ \A p \in Priorities : Len(queue[p]) = 0
      /\ \A i : ~InQueue(i)
  <2>1. \A p \in Priorities : Len(queue[p]) = 0
    OBVIOUS
  <2> QED
    BY <2>1 DEF InQueue
<1>3. \A t \in Threads : ~Busy(t) /\ ~Submitting(t) /\ cur[t] = 0 /\ pc[t] # "work_fn"
  BY DEF Busy, Submitting
<1>4. QueuedOnce /\ WorkedOnce /\ SubmittedOnce
  <2>1. QueuedOnce
    BY <1>2 DEF QueuedOnce
  <2>2. (\A w \in Workers : ~Busy(w)) /\ lost = {}
    BY <1>3 DEF Threads
  <2>3. \A c \in Submitters : ~Submitting(c)
    BY <1>3 DEF Threads, Clients
  <2>4. WorkedOnce
    BY ONLY <2>2 DEF WorkedOnce
  <2>5. SubmittedOnce
    BY ONLY <2>3 DEF SubmittedOnce
  <2> QED
    BY <2>1, <2>4, <2>5
<1>5. CreatedFirst
  <2>1. \A i \in Items : i > 0 /\ state[i] = "unused"
    BY DEF Items
  <2>2. 0 \in 0 .. calls
    OBVIOUS
  <2> QED
    BY <1>2, <1>3, <2>1, <2>2 DEF CreatedFirst
<1>6. Counts
  <2>1. \A i : ~AtWorker(i)
    BY <1>3 DEF AtWorker, Threads
  <2>2. handle = {} /\ lost = {} /\ \A i \in Items : ref_count[i] = 0
    OBVIOUS
  <2> QED
    BY ONLY <1>2, <2>1, <2>2 DEF Counts, Refs
<1>7. ActiveExact
  <2>1. Running = {}
    BY <1>3 DEF Running, Threads
  <2> QED
    BY <2>1, FS_EmptySet DEF ActiveExact
<1> QED
  BY <1>1, <1>4, <1>5, <1>6, <1>7 DEF PoolInv, Places

-----------------------------------------------------------------------------
(* What the steps have in common.                                          *)

\* t goes on, or is woken from the condition variable it sleeps on.
Woken(t) ==
    \/ pc'[t] = pc[t]
    \/ pc[t] = "work_available" /\ pc'[t] = "loop"
    \/ pc[t] = "queue_not_full" /\ pc'[t] = "submit"
    \/ pc[t] = "item_wait" /\ pc'[t] = "item_check"

\* A step of t: at most the other threads' sleep ends.
StepOf(t) == \A u \in Threads \ {t} : Woken(u) /\ cur'[u] = cur[u]

\* Waking a thread changes nothing about the item it has.
LEMMA WokenKeeps ==
    ASSUME NEW t, Woken(t)
    PROVE  /\ Busy(t)' <=> Busy(t)
           /\ Submitting(t)' <=> Submitting(t)
           /\ pc'[t] = "work_fn" <=> pc[t] = "work_fn"
           /\ pc[t] \in Labels => pc'[t] \in Labels
  BY DEF Woken, Busy, Submitting, Labels, Asleep

\* A signal, a broadcast or neither.
LEMMA GotoWakes ==
    ASSUME Types, NEW t \in Threads, NEW label \in Labels, Goto(t, label)
    PROVE  /\ pc'[t] = label /\ pc' \in [Threads -> Labels]
           /\ \A u \in Threads \ {t} : Woken(u)
  BY DEF Types, Goto, Woken

\* A signal wakes at most one sleeper; the others stay where they are.
LEMMA SignalWakes ==
    ASSUME Types, NEW t \in Threads, NEW label \in Labels, NEW from, NEW to,
           \/ from = "work_available" /\ to = "loop"
           \/ from = "queue_not_full" /\ to = "submit",
           GotoSignal(t, label, from, to)
    PROVE  /\ pc'[t] = label /\ pc' \in [Threads -> Labels]
           /\ \A u \in Threads \ {t} : Woken(u)
<1>1. CASE Goto(t, label)
  BY <1>1, GotoWakes
<1>2. CASE \E u \in Threads \ {t} :
             pc[u] = from /\ pc' = [pc EXCEPT ![t] = label, ![u] = to]
  <2>1. PICK u \in Threads \ {t} :
             pc[u] = from /\ pc' = [pc EXCEPT ![t] = label, ![u] = to]
    BY <1>2
  <2>2. to \in Labels
    BY DEF Labels
  <2> QED
    BY <2>1, <2>2 DEF Types, Woken
<1> QED
  BY <1>1, <1>2 DEF GotoSignal

\* A broadcast wakes every sleeper of the condition.
LEMMA BroadcastWakes ==
    ASSUME Types, NEW t \in Threads, NEW label \in Labels, NEW i,
           GotoBroadcast(t, label, i)
    PROVE  /\ pc'[t] = label /\ pc' \in [Threads -> Labels]
           /\ \A u \in Threads \ {t} : Woken(u)
<1>1. "item_check" \in Labels
  BY DEF Labels
<1> QED
  BY <1>1 DEF Types, GotoBroadcast, Woken

\* No step of a thread changes where the items are if it moves none.
LEMMA PlacesQuiet ==
    ASSUME Types, Places, Counts, NEW t \in Threads, StepOf(t),
           UNCHANGED <<queue, handle, lost, ref_count>>,
           calls' \in Nat, calls' >= calls,
           \A i \in Items : state'[i] = "unused" <=> state[i] = "unused",
           Busy(t)' <=> Busy(t), Submitting(t)' <=> Submitting(t),
           \/ cur'[t] = cur[t]
           \/ /\ ~Busy(t) /\ ~Submitting(t)
              /\ \A i \in Items : cur'[t] = i => state[i] # "unused"
    PROVE  Places' /\ Counts'
<1>1. \A u \in Threads : (Busy(u)' <=> Busy(u)) /\ (Submitting(u)' <=> Submitting(u))
  BY WokenKeeps DEF StepOf
<1>2. \A u \in Threads : Busy(u) \/ Submitting(u) => cur'[u] = cur[u]
  BY DEF StepOf
<1>3. \A i : (InQueue(i)' <=> InQueue(i)) /\ (AtWorker(i)' <=> AtWorker(i))
  BY <1>1, <1>2 DEF InQueue, AtWorker, Threads
<1>4. QueuedOnce'
  BY DEF Places, QueuedOnce
<1>5. WorkedOnce'
  BY <1>1, <1>2, <1>3 DEF Places, WorkedOnce, Threads, InQueue
<1>6. SubmittedOnce'
  BY <1>1, <1>2, <1>3 DEF Places, SubmittedOnce, Threads, Clients, InQueue, AtWorker
<1>7. CreatedFirst'
  <2>1. PICK k \in 0 .. calls : \A i \in Items : state[i] = "unused" <=> i > k
    BY DEF Places, CreatedFirst
  <2>2. k \in 0 .. calls'
    BY DEF Types
  <2>3. \A u \in Threads : \A i \in Items : state[i] = "unused" => cur'[u] # i
    BY DEF Places, CreatedFirst, StepOf
  <2> QED
    BY <1>3, <2>1, <2>2, <2>3 DEF Places, CreatedFirst
<1>8. Counts'
  BY <1>3 DEF Counts, Refs
<1> QED
  BY <1>4, <1>5, <1>6, <1>7, <1>8 DEF Places

\* The work functions under way are the same.
LEMMA ActiveQuiet ==
    ASSUME ActiveExact, NEW t \in Threads, StepOf(t), UNCHANGED <<active_workers, lost>>,
           pc'[t] = "work_fn" <=> pc[t] = "work_fn",
           pc[t] = "work_fn" => cur'[t] = cur[t]
    PROVE  ActiveExact'
<1>1. \A u \in Threads : (pc'[u] = "work_fn" <=> pc[u] = "work_fn")
                         /\ (pc[u] = "work_fn" => cur'[u] = cur[u])
  BY WokenKeeps DEF StepOf
<1>2. Running' = Running
  BY <1>1 DEF Running, Threads
<1> QED
  BY <1>2 DEF ActiveExact

-----------------------------------------------------------------------------
(* Steps that move no item.                                                *)

\* A client's step that leaves queues, references and workers alone.
LEMMA ClientQuiet ==
    ASSUME PoolInv, NEW c \in Clients, NEW x \in 0 .. MaxCalls,
           pc' \in [Threads -> Labels], \A u \in Threads \ {c} : Woken(u),
           pc[c] # "work_fn", pc'[c] # "work_fn", Submitting(c)' <=> Submitting(c),
           cur' = [cur EXCEPT ![c] = x],
           \/ x = cur[c]
           \/ ~Submitting(c) /\ (x = 0 \/ state[x] # "unused"),
           UNCHANGED <<queue, active_workers, ref_count, handle, lost, exits>>,
           shutdown' \in BOOLEAN, pool_freed' \in BOOLEAN,
           state' \in [Items -> States],
           \A i \in Items : state'[i] = "unused" <=> state[i] = "unused",
           calls' \in 0 .. MaxCalls, calls' >= calls
    PROVE  PoolInv'
<1>1. Types /\ Places /\ Counts /\ ActiveExact
  BY DEF PoolInv
<1>2. c \in Threads /\ c \notin Workers
  BY ThreadPoolAssumption DEF Clients, Threads
<1>3. cur' \in [Threads -> 0 .. MaxCalls] /\ cur'[c] = x
      /\ \A u \in Threads \ {c} : cur'[u] = cur[u]
  BY <1>1, <1>2 DEF Types
<1>4. StepOf(c)
  BY <1>3 DEF StepOf
<1>5. ~Busy(c) /\ ~Busy(c)'
  BY <1>2 DEF Busy
<1>6. \A i \in Items : x = i => i # 0
  BY DEF Items
<1>7. calls' \in Nat
  OBVIOUS
<1>8. Places' /\ Counts'
  BY <1>1, <1>2, <1>3, <1>4, <1>5, <1>6, <1>7, PlacesQuiet
<1>9. ActiveExact'
  BY <1>1, <1>2, <1>4, ActiveQuiet
<1>10. Types'
  BY <1>1, <1>3 DEF Types
<1> QED
  BY <1>8, <1>9, <1>10 DEF PoolInv

\* Calls that wait, cancel, drain or shut down.
LEMMA UserKeepsInv ==
    ASSUME PoolInv, NEW u \in Users,
           \/ Drain(u) \/ Shutdown(u) \/ \E i \in Items : Wait(u, i) \/ Cancel(u, i)
           \/ UserStep(u)
    PROVE  PoolInv'
<1>1. Types /\ CreatedFirst /\ cur \in [Threads -> 0 .. MaxCalls]
  BY DEF PoolInv, Places, Types
<1>2. u \in Clients /\ u \in Threads
  BY DEF Clients, Threads
<1>3. cur[u] \in 0 .. MaxCalls /\ cur = [cur EXCEPT ![u] = cur[u]]
  BY <1>1, <1>2
<1>t. /\ calls \in 0 .. MaxCalls /\ calls >= calls /\ shutdown \in BOOLEAN
      /\ pool_freed \in BOOLEAN /\ state \in [Items -> States] /\ MaxCalls \in Nat
  BY <1>1, ThreadPoolAssumption DEF Types
<1>c. ASSUME Called PROVE calls' \in 0 .. MaxCalls /\ calls' >= calls
  BY <1>c, <1>t DEF Called
<1> USE DEF pool, items, history
<1>4. CASE Drain(u)
  <2>1. /\ pc[u] = "idle" /\ Goto(u, "drain") /\ Called
        /\ UNCHANGED <<pool, items, cur, handle, lost, exits>>
    BY <1>4 DEF Drain
  <2>2. pc'[u] = "drain" /\ pc' \in [Threads -> Labels] /\ \A v \in Threads \ {u} : Woken(v)
    BY <1>1, <1>2, <2>1, GotoWakes DEF Labels
  <2>3. ~Submitting(u) /\ ~Submitting(u)'
    BY <2>1, <2>2 DEF Submitting
  <2> QED
    BY <1>2, <1>3, <1>t, <1>c, <2>1, <2>2, <2>3, ClientQuiet
<1>5. CASE Shutdown(u)
  <2>1. /\ pc[u] = "idle" /\ Goto(u, "shut_down") /\ Called /\ shutdown' = TRUE
        /\ UNCHANGED <<queue, active_workers, pool_freed, items, cur, handle, lost, exits>>
    BY <1>5 DEF Shutdown
  <2>2. pc'[u] = "shut_down" /\ pc' \in [Threads -> Labels]
        /\ \A v \in Threads \ {u} : Woken(v)
    BY <1>1, <1>2, <2>1, GotoWakes DEF Labels
  <2>3. ~Submitting(u) /\ ~Submitting(u)'
    BY <2>1, <2>2 DEF Submitting
  <2>4. shutdown' \in BOOLEAN
    BY <2>1, Zenon
  <2> QED
    BY <1>2, <1>3, <1>t, <1>c, <2>1, <2>2, <2>3, <2>4, ClientQuiet
<1>6. ASSUME NEW i \in Items, Wait(u, i) PROVE PoolInv'
  <2>1. /\ pc[u] = "idle" /\ Goto(u, "item_check") /\ Called /\ i \in handle
        /\ cur' = [cur EXCEPT ![u] = i]
        /\ UNCHANGED <<pool, items, handle, lost, exits>>
    BY <1>6 DEF Wait, Submitted
  <2>2. pc'[u] = "item_check" /\ pc' \in [Threads -> Labels]
        /\ \A v \in Threads \ {u} : Woken(v)
    BY <1>1, <1>2, <2>1, GotoWakes DEF Labels
  <2>3. ~Submitting(u) /\ ~Submitting(u)'
    BY <2>1, <2>2 DEF Submitting
  <2>4. i \in 0 .. MaxCalls /\ state[i] # "unused"
    BY <1>1, <2>1 DEF CreatedFirst, Items
  <2> QED
    BY <1>2, <1>t, <1>c, <2>1, <2>2, <2>3, <2>4, ClientQuiet
<1>7. ASSUME NEW i \in Items, Cancel(u, i) PROVE PoolInv'
  <2>1. /\ pc[u] = "idle" /\ Goto(u, "cancelled") /\ Called /\ i \in handle
        /\ cur' = [cur EXCEPT ![u] = i] /\ state' = [state EXCEPT ![i] = "cancelled"]
        /\ UNCHANGED <<pool, ref_count, handle, lost, exits>>
    BY <1>7 DEF Cancel, Submitted
  <2>2. pc'[u] = "cancelled" /\ pc' \in [Threads -> Labels]
        /\ \A v \in Threads \ {u} : Woken(v)
    BY <1>1, <1>2, <2>1, GotoWakes DEF Labels
  <2>3. ~Submitting(u) /\ ~Submitting(u)'
    BY <2>1, <2>2 DEF Submitting
  <2>4. i \in 0 .. MaxCalls /\ state[i] # "unused"
    BY <1>1, <2>1 DEF CreatedFirst, Items
  <2>5. /\ state' \in [Items -> States]
        /\ \A j \in Items : state'[j] = "unused" <=> state[j] = "unused"
    BY <1>t, <2>1, <2>4 DEF States
  <2> QED
    BY <1>2, <1>t, <1>c, <2>1, <2>2, <2>3, <2>4, <2>5, ClientQuiet
<1>8. CASE WaitCheck(u)
  <2>1. /\ pc[u] = "item_check"
        /\ \/ Goto(u, "idle") /\ cur' = [cur EXCEPT ![u] = 0]
           \/ Goto(u, "item_wait") /\ cur' = cur
        /\ UNCHANGED <<pool, items, handle, history>>
    BY <1>8 DEF WaitCheck, Drop
  <2>2. pc'[u] \in {"idle", "item_wait"} /\ pc' \in [Threads -> Labels]
        /\ \A v \in Threads \ {u} : Woken(v)
    BY <1>1, <1>2, <2>1, GotoWakes DEF Labels, Asleep
  <2>3. ~Submitting(u) /\ ~Submitting(u)'
    BY <2>1, <2>2 DEF Submitting
  <2>4. \E x \in {0, cur[u]} : cur' = [cur EXCEPT ![u] = x]
    BY <1>3, <2>1
  <2>5. PICK x \in {0, cur[u]} : cur' = [cur EXCEPT ![u] = x]
    BY <2>4
  <2>6. x \in 0 .. MaxCalls
    BY <1>3, <1>t
  <2> QED
    BY <1>2, <1>t, <2>1, <2>2, <2>3, <2>5, <2>6, ClientQuiet
<1>9. CASE CancelWake(u)
  <2>1. /\ pc[u] = "cancelled" /\ GotoBroadcast(u, "idle", cur[u])
        /\ cur' = [cur EXCEPT ![u] = 0]
        /\ UNCHANGED <<pool, items, handle, history>>
    BY <1>9 DEF CancelWake, Drop
  <2>2. pc'[u] = "idle" /\ pc' \in [Threads -> Labels]
        /\ \A v \in Threads \ {u} : Woken(v)
    BY <1>1, <1>2, <2>1, BroadcastWakes DEF Labels
  <2>3. ~Submitting(u) /\ ~Submitting(u)' /\ 0 \in 0 .. MaxCalls
    BY <1>t, <2>1, <2>2 DEF Submitting
  <2> QED
    BY <1>2, <1>t, <2>1, <2>2, <2>3, ClientQuiet
<1>10. CASE DrainQueued(u) \/ DrainActive(u)
  <2>1. /\ pc[u] \in {"drain", "drain_active"}
        /\ \E label \in {"drain", "drain_active", "idle"} : Goto(u, label)
        /\ UNCHANGED <<pool, items, cur, handle, history>>
    BY <1>10 DEF DrainQueued, DrainActive
  <2>2. pc'[u] \in {"drain", "drain_active", "idle"} /\ pc' \in [Threads -> Labels]
        /\ \A v \in Threads \ {u} : Woken(v)
    BY <1>1, <1>2, <2>1, GotoWakes DEF Labels
  <2>3. ~Submitting(u) /\ ~Submitting(u)'
    BY <2>1, <2>2 DEF Submitting
  <2> QED
    BY <1>2, <1>3, <1>t, <2>1, <2>2, <2>3, ClientQuiet
<1>11. CASE ShutdownWake(u)
  <2>1. /\ pc[u] = "shut_down" /\ UNCHANGED <<pool, items, cur, handle, history>>
        /\ pc' = [t \in Threads |->
                IF t = u THEN "join"
                ELSE IF pc[t] \in DOMAIN WokenByShutdown THEN WokenByShutdown[pc[t]]
                ELSE pc[t]]
    BY <1>11 DEF ShutdownWake
  <2>2. \A t \in Threads \ {u} :
          pc'[t] = IF pc[t] = "work_available" THEN "loop"
                   ELSE IF pc[t] = "queue_not_full" THEN "submit" ELSE pc[t]
    BY <2>1 DEF WokenByShutdown
  <2>3. pc'[u] = "join"
    BY <1>2, <2>1
  <2>4. \A v \in Threads \ {u} : Woken(v)
    BY <2>2 DEF Woken
  <2>5. pc' \in [Threads -> Labels]
    <3>1. \A t \in Threads : pc'[t] \in Labels
      BY <1>1, <2>2, <2>3 DEF Types, Labels
    <3> QED
      BY <2>1, <3>1
  <2>6. ~Submitting(u) /\ ~Submitting(u)'
    BY <2>1, <2>3 DEF Submitting
  <2> QED
    BY <1>2, <1>3, <1>t, <2>1, <2>3, <2>4, <2>5, <2>6, ClientQuiet
<1>12. CASE Join(u)
  <2>1. /\ pc[u] = "join" /\ Goto(u, "idle")
        /\ UNCHANGED <<queue, shutdown, active_workers, items, cur, handle, history>>
    BY <1>12 DEF Join
  <2>2. pool_freed' \in BOOLEAN
    BY <1>12, <1>t, Zenon DEF Join
  <2>3. pc'[u] = "idle" /\ pc' \in [Threads -> Labels]
        /\ \A v \in Threads \ {u} : Woken(v)
    BY <1>1, <1>2, <2>1, GotoWakes DEF Labels
  <2>4. ~Submitting(u) /\ ~Submitting(u)'
    BY <2>1, <2>3 DEF Submitting
  <2> QED
    BY <1>2, <1>3, <1>t, <2>1, <2>2, <2>3, <2>4, ClientQuiet
<1> QED
  BY <1>4, <1>5, <1>6, <1>7, <1>8, <1>9, <1>10, <1>11, <1>12 DEF UserStep

-----------------------------------------------------------------------------
(* Submitting.                                                             *)

\* A client's step leaves the workers' items alone.
LEMMA ClientWorkers ==
    ASSUME PoolInv, NEW c \in Clients, StepOf(c), pc[c] # "work_fn", pc'[c] # "work_fn"
    PROVE  /\ c \in Threads /\ c \notin Workers
           /\ \A w \in Workers : (Busy(w)' <=> Busy(w)) /\ cur'[w] = cur[w]
           /\ \A i : AtWorker(i)' <=> AtWorker(i)
           /\ \A d \in Submitters : d # c =>
                (Submitting(d)' <=> Submitting(d)) /\ cur'[d] = cur[d]
           /\ UNCHANGED <<active_workers, lost>> => ActiveExact'
<1>1. c \in Threads /\ c \notin Workers
  BY ThreadPoolAssumption DEF Clients, Threads
<1>2. \A w \in Workers : (Busy(w)' <=> Busy(w)) /\ cur'[w] = cur[w]
  BY <1>1, WokenKeeps DEF StepOf, Threads
<1>3. \A i : AtWorker(i)' <=> AtWorker(i)
  BY <1>2 DEF AtWorker
<1>4. \A d \in Submitters : d # c => (Submitting(d)' <=> Submitting(d)) /\ cur'[d] = cur[d]
  BY WokenKeeps DEF StepOf, Threads, Clients
<1>5. UNCHANGED <<active_workers, lost>> => ActiveExact'
  BY <1>1, ActiveQuiet DEF PoolInv
<1> QED
  BY <1>1, <1>2, <1>3, <1>4, <1>5

\* As long as a call is left so is an item, and NewItem is the next one.
LEMMA NewItemIs ==
    ASSUME PoolInv, calls < MaxCalls, NEW k \in 0 .. calls,
           \A i \in Items : state[i] = "unused" <=> i > k
    PROVE  NewItem \in Items /\ NewItem = k + 1 /\ state[NewItem] = "unused"
<1>1. calls \in Nat /\ MaxCalls \in Nat
  BY ThreadPoolAssumption DEF PoolInv, Types
<1>2. k + 1 \in Items /\ k + 1 > k
  BY <1>1 DEF Items
<1>3. \A j \in 1 .. (k + 1) - 1 : j \in Items /\ ~(j > k)
  BY <1>1 DEF Items
<1>4. state[k + 1] = "unused" /\ \A j \in 1 .. (k + 1) - 1 : state[j] # "unused"
  BY <1>2, <1>3
<1>5. /\ NewItem \in Items /\ state[NewItem] = "unused"
      /\ \A j \in 1 .. NewItem - 1 : state[j] # "unused"
  BY <1>2, <1>4 DEF NewItem
<1>6. NewItem > k
  BY <1>5
<1>7. ~(k + 1 < NewItem)
  <2>1. k + 1 < NewItem => k + 1 \in 1 .. NewItem - 1
    BY <1>5 DEF Items
  <2> QED
    BY <1>4, <1>5, <2>1
<1> QED
  BY <1>5, <1>6, <1>7 DEF Items

\* The new item is nobody else's.
LEMMA SubmitKeepsInv ==
    ASSUME PoolInv, NEW c \in Submitters, Submit(c) PROVE PoolInv'
<1>1. Types /\ Places /\ Counts
  BY DEF PoolInv
<1>2. /\ pc[c] = "idle" /\ Called
      /\ \E label \in {"submit", "try_submit"} : Goto(c, label)
      /\ UNCHANGED <<queue, shutdown, active_workers, pool_freed, lost, exits>>
  BY DEF Submit, pool
<1>3. PICK k \in 0 .. calls : \A i \in Items : state[i] = "unused" <=> i > k
  BY <1>1 DEF Places, CreatedFirst
<1> DEFINE n == k + 1
<1>4. n \in Items /\ state[n] = "unused" /\ NewItem = n
  BY <1>2, <1>3, NewItemIs DEF Called
<1>5. /\ state' = [state EXCEPT ![n] = "pending"] /\ ref_count' = [ref_count EXCEPT ![n] = 1]
      /\ handle' = handle \cup {n} /\ cur' = [cur EXCEPT ![c] = n]
  BY <1>4 DEF Submit
<1> HIDE DEF n
<1>6. c \in Clients /\ c \in Threads
  BY DEF Clients, Threads
<1>7. /\ pc'[c] \in {"submit", "try_submit"} /\ pc' \in [Threads -> Labels]
      /\ \A u \in Threads \ {c} : Woken(u)
  BY <1>1, <1>2, <1>6, GotoWakes DEF Labels
<1>8. /\ cur'[c] = n /\ \A u \in Threads : u # c => cur'[u] = cur[u]
      /\ cur' \in [Threads -> 0 .. MaxCalls]
  BY <1>1, <1>4, <1>5, <1>6 DEF Types, Items
<1>9. StepOf(c)
  BY <1>7, <1>8 DEF StepOf
<1>10. /\ c \notin Workers
       /\ \A w \in Workers : (Busy(w)' <=> Busy(w)) /\ cur'[w] = cur[w]
       /\ \A i : AtWorker(i)' <=> AtWorker(i)
       /\ \A d \in Submitters : d # c =>
            (Submitting(d)' <=> Submitting(d)) /\ cur'[d] = cur[d]
       /\ ActiveExact'
  <2>1. pc[c] # "work_fn" /\ pc'[c] # "work_fn"
    BY <1>2, <1>7
  <2> QED
    BY <1>2, <1>6, <1>9, <2>1, ClientWorkers
<1>11. \A i : InQueue(i)' <=> InQueue(i)
  BY <1>2 DEF InQueue
<1>12. /\ n \notin handle /\ n \notin lost /\ ~InQueue(n)
       /\ \A t \in Threads : cur[t] # n
  BY <1>1, <1>4 DEF Places, CreatedFirst
<1>13. ~AtWorker(n)
  BY <1>12 DEF AtWorker, Threads
<1>14. Types'
  <2>1. calls' \in 0 .. MaxCalls
    BY <1>1, <1>2, ThreadPoolAssumption DEF Called, Types
  <2>2. state' \in [Items -> States] /\ ref_count' \in [Items -> Nat]
    BY <1>1, <1>5 DEF Types, States
  <2> QED
    BY <1>1, <1>2, <1>4, <1>5, <1>7, <1>8, <2>1, <2>2 DEF Types
<1>15. QueuedOnce'
  BY <1>1, <1>2 DEF Places, QueuedOnce
<1>16. WorkedOnce'
  BY <1>1, <1>2, <1>10, <1>11 DEF Places, WorkedOnce, InQueue
<1>17. SubmittedOnce'
  <2>1. \A d \in Submitters : Submitting(d) => cur[d] \in handle /\ cur[d] # n
    BY <1>1, <1>12 DEF Places, SubmittedOnce
  <2>2. ASSUME NEW d \in Submitters, d # c, Submitting(d)'
        PROVE  /\ cur'[d] \in handle' /\ cur'[d] \notin lost'
               /\ ~InQueue(cur[d])' /\ ~AtWorker(cur[d])'
               /\ \A e \in Submitters : Submitting(e)' /\ cur'[e] = cur'[d] => e = d
    <3>1. Submitting(d) /\ cur'[d] = cur[d]
      BY <1>10, <2>2
    <3>2. /\ cur[d] \in handle /\ cur[d] \notin lost /\ ~InQueue(cur[d]) /\ ~AtWorker(cur[d])
          /\ \A e \in Submitters : Submitting(e) /\ cur[e] = cur[d] => e = d
      BY <1>1, <3>1 DEF Places, SubmittedOnce
    <3>3. cur'[d] \in handle' /\ cur'[d] \notin lost'
      BY <1>2, <1>5, <3>1, <3>2
    <3>4. \A x : x = cur[d] => ~InQueue(x)' /\ ~AtWorker(x)'
      BY <1>10, <1>11, <3>2
    <3>5. ~InQueue(cur[d])' /\ ~AtWorker(cur[d])'
      BY <3>1, <3>4 DEF InQueue, AtWorker
    <3>6. \A e \in Submitters : Submitting(e)' /\ cur'[e] = cur'[d] => e = d
      BY <1>8, <1>10, <2>1, <3>1, <3>2
    <3> QED
      BY <3>3, <3>5, <3>6
  <2>3. /\ cur'[c] \in handle' /\ cur'[c] \notin lost'
        /\ ~InQueue(cur[c])' /\ ~AtWorker(cur[c])'
        /\ \A e \in Submitters : Submitting(e)' /\ cur'[e] = cur'[c] => e = c
    <3>1. cur'[c] \in handle' /\ cur'[c] \notin lost'
      BY <1>2, <1>5, <1>8, <1>12
    <3>2. \A x : x = n => ~InQueue(x)' /\ ~AtWorker(x)'
      BY <1>10, <1>11, <1>12, <1>13
    <3>3. ~InQueue(cur[c])' /\ ~AtWorker(cur[c])'
      BY <1>8, <3>2 DEF InQueue, AtWorker
    <3>4. \A e \in Submitters : Submitting(e)' /\ cur'[e] = cur'[c] => e = c
      BY <1>8, <1>10, <2>1
    <3> QED
      BY <3>1, <3>3, <3>4
  <2> QED
    BY <2>2, <2>3 DEF SubmittedOnce
<1>18. CreatedFirst'
  <2>1. k + 1 \in 0 .. calls'
    BY <1>1, <1>2 DEF Called, Types
  <2>2. \A i \in Items : (state'[i] = "unused") <=> (state[i] = "unused" /\ i # n)
    BY <1>1, <1>4, <1>5 DEF Types
  <2>3. \A i \in Items : (i > k /\ i # n) <=> (i > k + 1)
    BY <1>1 DEF n, Items, Types
  <2>4. \A i \in Items : (state'[i] = "unused") <=> i > k + 1
    BY <1>3, <2>2, <2>3
  <2>5. ASSUME NEW i \in Items, state'[i] = "unused"
        PROVE  /\ i \notin handle' /\ i \notin lost' /\ ~InQueue(i)'
               /\ \A t \in Threads : cur'[t] # i
    <3>1. state[i] = "unused" /\ i # n
      BY <2>2, <2>5
    <3>2. i \notin handle /\ i \notin lost /\ ~InQueue(i) /\ \A t \in Threads : cur[t] # i
      BY <1>1, <3>1 DEF Places, CreatedFirst
    <3> QED
      BY <1>2, <1>5, <1>8, <1>11, <3>1, <3>2
  <2> QED
    BY <2>1, <2>4, <2>5 DEF CreatedFirst
<1>19. Counts'
  <2>1. ASSUME NEW i \in Items, i # n PROVE ref_count'[i] = Refs(i)'
    BY <1>1, <1>2, <1>5, <1>10, <1>11, <2>1 DEF Counts, Refs, Types
  <2>2. ASSUME NEW i \in Items, i = n PROVE ref_count'[i] = Refs(i)'
    BY <1>1, <1>2, <1>5, <1>10, <1>11, <1>12, <1>13, <2>2 DEF Refs, Types
  <2> QED
    BY <2>1, <2>2 DEF Counts
<1> QED
  BY <1>10, <1>14, <1>15, <1>16, <1>17, <1>18, <1>19 DEF PoolInv, Places

\* Append puts one item into one queue.
LEMMA AppendPuts ==
    ASSUME Types, QueuedOnce, NEW p \in Priorities, NEW i \in Items, ~InQueue(i),
           queue' = [queue EXCEPT ![p] = Append(@, i)]
    PROVE  /\ queue' \in [Priorities -> Seq(Items)]
           /\ Len(queue'[p]) = Len(queue[p]) + 1
           /\ \A q \in Priorities : q # p => queue'[q] = queue[q]
           /\ \A j : InQueue(j)' <=> (InQueue(j) \/ j = i)
           /\ QueuedOnce'
<1>1. queue[p] \in Seq(Items) /\ queue'[p] = Append(queue[p], i)
  BY DEF Types
<1>2. /\ queue' \in [Priorities -> Seq(Items)]
      /\ \A q \in Priorities : q # p => queue'[q] = queue[q]
  BY <1>1 DEF Types
<1>3. /\ Len(queue[p]) \in Nat /\ Len(queue'[p]) = Len(queue[p]) + 1
      /\ \A a \in 1 .. Len(queue[p]) : queue'[p][a] = queue[p][a]
      /\ queue'[p][Len(queue[p]) + 1] = i
  BY <1>1
<1> DEFINE m == Len(queue[p])
<1>4. \A a \in 1 .. m + 1 : a = m + 1 \/ a \in 1 .. m
  BY <1>3
<1>5. \A j : InQueue(j)' <=> (InQueue(j) \/ j = i)
  <2>1. ASSUME NEW j, InQueue(j)' PROVE InQueue(j) \/ j = i
    <3>1. PICK q \in Priorities : \E a \in 1 .. Len(queue'[q]) : queue'[q][a] = j
      BY <2>1 DEF InQueue
    <3>2. PICK a \in 1 .. Len(queue'[q]) : queue'[q][a] = j
      BY <3>1
    <3>3. CASE q # p
      BY <1>2, <3>2, <3>3 DEF InQueue
    <3>4. CASE q = p
      BY <1>3, <1>4, <3>2, <3>4 DEF InQueue
    <3> QED
      BY <3>3, <3>4
  <2>2. ASSUME NEW j, InQueue(j) PROVE InQueue(j)'
    <3>1. PICK q \in Priorities : \E a \in 1 .. Len(queue[q]) : queue[q][a] = j
      BY <2>2 DEF InQueue
    <3>2. PICK a \in 1 .. Len(queue[q]) : queue[q][a] = j
      BY <3>1
    <3>3. a \in 1 .. Len(queue'[q]) /\ queue'[q][a] = j
      BY <1>2, <1>3, <3>2
    <3> QED
      BY <3>3 DEF InQueue
  <2>3. InQueue(i)'
    <3>1. Len(queue[p]) + 1 \in 1 .. Len(queue'[p])
      BY <1>3
    <3> QED
      BY <1>3, <3>1 DEF InQueue
  <2> QED
    BY <2>1, <2>2, <2>3
<1>6. QueuedOnce'
  <2>1. \A q \in Priorities : \A a \in 1 .. Len(queue'[q]) :
          \/ a \in 1 .. Len(queue[q]) /\ queue'[q][a] = queue[q][a] /\ queue[q][a] # i
          \/ q = p /\ a = m + 1 /\ queue'[q][a] = i
    BY <1>2, <1>3, <1>4 DEF InQueue
  <2> QED
    BY <2>1 DEF QueuedOnce
<1> QED
  BY <1>2, <1>3, <1>5, <1>6

\* The submitter's item is with it alone, and others who submit have other items.
LEMMA SubmitterHas ==
    ASSUME PoolInv, NEW c \in Submitters, Submitting(c)
    PROVE  /\ c \in Clients /\ c \in Threads /\ c \notin Workers
           /\ cur[c] \in Items /\ cur[c] \in handle /\ cur[c] \notin lost
           /\ ~InQueue(cur[c]) /\ ~AtWorker(cur[c])
           /\ state[cur[c]] # "unused" /\ ref_count[cur[c]] = 1
           /\ \A d \in Submitters : d # c /\ Submitting(d) => cur[d] # cur[c]
<1>1. c \in Clients /\ c \in Threads /\ c \notin Workers
  BY ThreadPoolAssumption DEF Clients, Threads
<1>2. /\ cur[c] \in handle /\ cur[c] \notin lost
      /\ ~InQueue(cur[c]) /\ ~AtWorker(cur[c])
      /\ \A d \in Submitters : d # c /\ Submitting(d) => cur[d] # cur[c]
  BY DEF PoolInv, Places, SubmittedOnce
<1>3. cur[c] \in Items
  BY <1>2 DEF PoolInv, Types
<1>4. state[cur[c]] # "unused"
  BY <1>2, <1>3 DEF PoolInv, Places, CreatedFirst
<1>5. ref_count[cur[c]] = 1
  BY <1>2, <1>3 DEF PoolInv, Counts, Refs
<1> QED
  BY <1>1, <1>2, <1>3, <1>4, <1>5

\* enqueue_work: the item moves to the queue, which has a reference of its own.
LEMMA EnqueueKeepsInv ==
    ASSUME PoolInv, NEW c \in Submitters, Submitting(c), ~Full(priority[c]),
           Enqueue(c, cur[c]), UNCHANGED <<shutdown, active_workers, pool_freed, history>>
    PROVE  PoolInv'
<1> USE DEF history
<1>1. Types /\ Places /\ Counts
  BY DEF PoolInv
<1>2. PICK i \in Items : i = cur[c]
  BY SubmitterHas
<1>3. /\ c \in Clients /\ c \in Threads /\ c \notin Workers
      /\ i \in handle /\ i \notin lost /\ ~InQueue(i) /\ ~AtWorker(i)
      /\ state[i] # "unused" /\ ref_count[i] = 1
      /\ \A d \in Submitters : d # c /\ Submitting(d) => cur[d] # i
  BY <1>2, SubmitterHas
<1>4. PICK p \in Priorities : p = priority[c]
  BY ThreadPoolAssumption DEF Priorities
<1>5. /\ queue' = [queue EXCEPT ![p] = Append(@, i)]
      /\ ref_count' = [ref_count EXCEPT ![i] = @ + 1]
      /\ handle' = handle /\ state' = state
  BY <1>2, <1>4 DEF Enqueue, QueueReference
<1>6. /\ queue' \in [Priorities -> Seq(Items)]
      /\ Len(queue'[p]) = Len(queue[p]) + 1
      /\ \A q \in Priorities : q # p => queue'[q] = queue[q]
      /\ \A j : InQueue(j)' <=> (InQueue(j) \/ j = i)
      /\ QueuedOnce'
  BY <1>1, <1>3, <1>5, AppendPuts DEF Places
<1>7. \E label \in {"idle", "set_callback"} : \E x \in {0, i} :
        GotoSignal(c, label, "work_available", "loop") /\ cur' = [cur EXCEPT ![c] = x]
  <2>1. cur = [cur EXCEPT ![c] = i]
    BY <1>1, <1>2, <1>3 DEF Types
  <2> QED
    BY <2>1 DEF Enqueue, Drop
<1>8. PICK label \in {"idle", "set_callback"} : \E x \in {0, i} :
        GotoSignal(c, label, "work_available", "loop") /\ cur' = [cur EXCEPT ![c] = x]
  BY <1>7
<1>9. PICK x \in {0, i} :
        GotoSignal(c, label, "work_available", "loop") /\ cur' = [cur EXCEPT ![c] = x]
  BY <1>8
<1>10. /\ pc'[c] = label /\ pc' \in [Threads -> Labels]
       /\ \A u \in Threads \ {c} : Woken(u)
  <2>1. label \in Labels
    BY DEF Labels
  <2> QED
    BY <1>1, <1>3, <1>9, <2>1, SignalWakes
<1>11. /\ cur'[c] = x /\ \A u \in Threads : u # c => cur'[u] = cur[u]
       /\ cur' \in [Threads -> 0 .. MaxCalls]
  <2>1. x \in 0 .. MaxCalls
    BY ThreadPoolAssumption DEF Items
  <2> QED
    BY <1>1, <1>3, <1>9, <2>1 DEF Types
<1>12. StepOf(c) /\ pc[c] # "work_fn" /\ pc'[c] # "work_fn"
  BY <1>10, <1>11 DEF StepOf, Submitting
<1>13. /\ \A w \in Workers : (Busy(w)' <=> Busy(w)) /\ cur'[w] = cur[w]
       /\ \A j : AtWorker(j)' <=> AtWorker(j)
       /\ \A d \in Submitters : d # c =>
            (Submitting(d)' <=> Submitting(d)) /\ cur'[d] = cur[d]
       /\ ActiveExact'
  BY <1>3, <1>12, ClientWorkers
<1>14. ~Submitting(c)'
  BY <1>10 DEF Submitting
<1>15. Types'
  <2>1. Len(queue'[p]) <= queue_capacity[p]
    <3>1. Len(queue[p]) \in Nat /\ queue_capacity[p] \in Nat /\ ~(Len(queue[p]) >= queue_capacity[p])
      BY <1>1, <1>4, CapacityType DEF Types, Full
    <3> QED
      BY <1>6, <3>1
  <2>2. \A q \in Priorities : Len(queue'[q]) <= queue_capacity[q]
    BY <1>1, <1>6, <2>1 DEF Types
  <2>3. ref_count' \in [Items -> Nat]
    BY <1>1, <1>5 DEF Types
  <2> QED
    BY <1>1, <1>5, <1>6, <1>10, <1>11, <2>2, <2>3 DEF Types
<1>16. WorkedOnce'
  <2>1. \A w \in Workers : Busy(w) => cur[w] # i
    BY <1>3 DEF AtWorker
  <2>2. ASSUME NEW w \in Workers, Busy(w)'
        PROVE  /\ cur'[w] \in Items /\ cur'[w] \notin lost' /\ ~InQueue(cur[w])'
               /\ \A v \in Workers : Busy(v)' /\ cur'[v] = cur'[w] => v = w
    <3>1. Busy(w) /\ cur'[w] = cur[w] /\ cur[w] # i
      BY <1>13, <2>1, <2>2
    <3>2. cur[w] \in Items /\ cur[w] \notin lost /\ ~InQueue(cur[w])
          /\ \A v \in Workers : Busy(v) /\ cur[v] = cur[w] => v = w
      BY <1>1, <3>1 DEF Places, WorkedOnce
    <3>3. \A y : y = cur[w] => ~InQueue(y)'
      BY <1>6, <3>1, <3>2
    <3>4. ~InQueue(cur[w])'
      BY <3>1, <3>3 DEF InQueue
    <3> QED
      BY <1>13, <3>1, <3>2, <3>4
  <2>3. \A j \in lost' : ~InQueue(j)'
    BY <1>1, <1>3, <1>6 DEF Places, WorkedOnce
  <2> QED
    BY <2>2, <2>3 DEF WorkedOnce
<1>17. SubmittedOnce'
  <2>1. ASSUME NEW d \in Submitters, Submitting(d)'
        PROVE  /\ cur'[d] \in handle' /\ cur'[d] \notin lost'
               /\ ~InQueue(cur[d])' /\ ~AtWorker(cur[d])'
               /\ \A e \in Submitters : Submitting(e)' /\ cur'[e] = cur'[d] => e = d
    <3>1. d # c /\ Submitting(d) /\ cur'[d] = cur[d] /\ cur[d] # i
      BY <1>3, <1>13, <1>14, <2>1
    <3>2. /\ cur[d] \in handle /\ cur[d] \notin lost /\ ~InQueue(cur[d]) /\ ~AtWorker(cur[d])
          /\ \A e \in Submitters : Submitting(e) /\ cur[e] = cur[d] => e = d
      BY <1>1, <3>1 DEF Places, SubmittedOnce
    <3>3. \A y : y = cur[d] => ~InQueue(y)' /\ ~AtWorker(y)'
      BY <1>6, <1>13, <3>1, <3>2
    <3>4. ~InQueue(cur[d])' /\ ~AtWorker(cur[d])'
      BY <3>1, <3>3 DEF InQueue, AtWorker
    <3>5. \A e \in Submitters : Submitting(e)' /\ cur'[e] = cur'[d] => e = d
      BY <1>13, <1>14, <3>1, <3>2
    <3> QED
      BY <1>5, <3>1, <3>2, <3>4, <3>5
  <2> QED
    BY <2>1 DEF SubmittedOnce
<1>18. CreatedFirst'
  <2>1. \A j \in Items : state[j] = "unused" => ~InQueue(j)' /\ \A t \in Threads : cur'[t] # j
    <3>1. \A j \in Items : j # 0
      BY DEF Items
    <3> QED
      BY <1>1, <1>3, <1>6, <1>11, <3>1 DEF Places, CreatedFirst
  <2> QED
    BY <1>1, <1>5, <2>1 DEF Places, CreatedFirst
<1>19. Counts'
  <2>1. ASSUME NEW j \in Items, j # i PROVE ref_count'[j] = Refs(j)'
    BY <1>1, <1>5, <1>6, <1>13, <2>1 DEF Counts, Refs, Types
  <2>2. ASSUME NEW j \in Items, j = i PROVE ref_count'[j] = Refs(j)'
    BY <1>1, <1>3, <1>5, <1>6, <1>13, <2>2 DEF Refs, Types
  <2> QED
    BY <2>1, <2>2 DEF Counts
<1> QED
  BY <1>6, <1>13, <1>15, <1>16, <1>17, <1>18, <1>19 DEF PoolInv, Places

\* work_item_release_internal.
LEMMA UnrefIs ==
    ASSUME Types, NEW i \in Items, ref_count[i] > 0, state[i] # "unused", Unref(i)
    PROVE  /\ ref_count' \in [Items -> Nat] /\ state' \in [Items -> States]
           /\ ref_count'[i] = ref_count[i] - 1
           /\ \A j \in Items : j # i => ref_count'[j] = ref_count[j]
           /\ \A j \in Items : state'[j] = "unused" <=> state[j] = "unused"
<1>1. ref_count[i] - 1 \in Nat
  BY DEF Types
<1>2. /\ ref_count' = [ref_count EXCEPT ![i] = ref_count[i] - 1]
      /\ \E s \in States : s # "unused" /\ state' = [state EXCEPT ![i] = s]
  BY DEF Unref, Types, States
<1> QED
  BY <1>1, <1>2 DEF Types

\* The creator's reference is given back.
LEMMA HandleGivenUp ==
    ASSUME PoolInv, NEW c \in Clients, NEW i \in handle, Unref(i), handle' = handle \ {i},
           \A d \in Submitters : d # c /\ Submitting(d) => cur[d] # i,
           StepOf(c), pc' \in [Threads -> Labels], cur' \in [Threads -> 0 .. MaxCalls],
           cur'[c] \in {0, cur[c]}, pc[c] # "work_fn", pc'[c] # "work_fn", ~Submitting(c)',
           UNCHANGED <<queue, shutdown, active_workers, pool_freed, lost, exits>>,
           calls' \in 0 .. MaxCalls, calls' >= calls
    PROVE  PoolInv'
<1>1. Types /\ Places /\ Counts
  BY DEF PoolInv
<1>2. i \in Items /\ state[i] # "unused" /\ ref_count[i] > 0
  <2>1. i \in Items
    BY <1>1 DEF Types
  <2>2. state[i] # "unused"
    BY <1>1, <2>1 DEF Places, CreatedFirst
  <2>3. ref_count[i] > 0
    BY <1>1, <2>1 DEF Counts, Refs
  <2> QED
    BY <2>1, <2>2, <2>3
<1>3. /\ ref_count' \in [Items -> Nat] /\ state' \in [Items -> States]
      /\ ref_count'[i] = ref_count[i] - 1
      /\ \A j \in Items : j # i => ref_count'[j] = ref_count[j]
      /\ \A j \in Items : state'[j] = "unused" <=> state[j] = "unused"
  BY <1>1, <1>2, UnrefIs
<1>4. /\ c \in Threads /\ c \notin Workers
      /\ \A w \in Workers : (Busy(w)' <=> Busy(w)) /\ cur'[w] = cur[w]
      /\ \A j : AtWorker(j)' <=> AtWorker(j)
      /\ \A d \in Submitters : d # c =>
           (Submitting(d)' <=> Submitting(d)) /\ cur'[d] = cur[d]
      /\ ActiveExact'
  BY ClientWorkers
<1>5. \A j : InQueue(j)' <=> InQueue(j)
  BY DEF InQueue
<1>6. Types'
  BY <1>1, <1>3 DEF Types
<1>7. QueuedOnce'
  BY <1>1 DEF Places, QueuedOnce
<1>8. WorkedOnce'
  BY <1>1, <1>4, <1>5 DEF Places, WorkedOnce, InQueue
<1>9. SubmittedOnce'
  <2>1. ASSUME NEW d \in Submitters, Submitting(d)'
        PROVE  /\ cur'[d] \in handle' /\ cur'[d] \notin lost'
               /\ ~InQueue(cur[d])' /\ ~AtWorker(cur[d])'
               /\ \A e \in Submitters : Submitting(e)' /\ cur'[e] = cur'[d] => e = d
    <3>1. d # c /\ Submitting(d) /\ cur'[d] = cur[d] /\ cur[d] # i
      BY <1>4, <2>1
    <3>2. /\ cur[d] \in handle /\ cur[d] \notin lost /\ ~InQueue(cur[d]) /\ ~AtWorker(cur[d])
          /\ \A e \in Submitters : Submitting(e) /\ cur[e] = cur[d] => e = d
      BY <1>1, <3>1 DEF Places, SubmittedOnce
    <3>3. \A y : y = cur[d] => ~InQueue(y)' /\ ~AtWorker(y)'
      BY <1>4, <1>5, <3>2
    <3>4. ~InQueue(cur[d])' /\ ~AtWorker(cur[d])'
      BY <3>1, <3>3 DEF InQueue, AtWorker
    <3>5. \A e \in Submitters : Submitting(e)' /\ cur'[e] = cur'[d] => e = d
      BY <1>4, <3>1, <3>2
    <3> QED
      BY <3>1, <3>2, <3>4, <3>5
  <2> QED
    BY <2>1 DEF SubmittedOnce
<1>10. CreatedFirst'
  <2>1. PICK k \in 0 .. calls : \A j \in Items : state[j] = "unused" <=> j > k
    BY <1>1 DEF Places, CreatedFirst
  <2>2. k \in 0 .. calls'
    BY <1>1 DEF Types
  <2>3. \A j \in Items : state[j] = "unused" => \A t \in Threads : cur'[t] # j
    <3>1. \A j \in Items : j # 0
      BY DEF Items
    <3> QED
      BY <1>1, <1>4, <3>1 DEF Places, CreatedFirst, StepOf
  <2>4. \A j \in Items : state[j] = "unused" => j \notin handle' /\ j \notin lost' /\ ~InQueue(j)'
    BY <1>1, <1>5 DEF Places, CreatedFirst
  <2>5. \A j \in Items : state'[j] = "unused" <=> j > k
    BY <1>3, <2>1
  <2> QED
    BY <1>3, <2>2, <2>3, <2>4, <2>5 DEF CreatedFirst
<1>11. Counts'
  <2>1. ASSUME NEW j \in Items, j # i PROVE ref_count'[j] = Refs(j)'
    BY <1>1, <1>3, <1>4, <1>5, <2>1 DEF Counts, Refs
  <2>2. ASSUME NEW j \in Items, j = i PROVE ref_count'[j] = Refs(j)'
    <3>1. ref_count[j] = Refs(j) /\ j \in handle /\ j \notin handle'
      BY <1>1, <2>2 DEF Counts
    <3> QED
      BY <1>3, <1>4, <1>5, <2>2, <3>1 DEF Refs
  <2> QED
    BY <2>1, <2>2 DEF Counts
<1> QED
  BY <1>4, <1>6, <1>7, <1>8, <1>9, <1>10, <1>11 DEF PoolInv, Places

\* Under queue_mutex, and the callback.
LEMMA SubmitterKeepsInv ==
    ASSUME PoolInv, NEW c \in Submitters, SubmitterStep(c) PROVE PoolInv'
<1>1. Types /\ c \in Clients /\ c \in Threads
  BY DEF PoolInv, Clients, Threads
<1>2. /\ calls \in 0 .. MaxCalls /\ calls >= calls /\ MaxCalls \in Nat
      /\ shutdown \in BOOLEAN /\ pool_freed \in BOOLEAN /\ state \in [Items -> States]
      /\ cur[c] \in 0 .. MaxCalls /\ cur = [cur EXCEPT ![c] = cur[c]]
      /\ 0 \in 0 .. MaxCalls
  BY <1>1, ThreadPoolAssumption DEF Types
<1> USE DEF history, items, pool
<1>3. ASSUME pc[c] \in {"submit", "try_submit"}, GiveUp(c, cur[c]),
             UNCHANGED <<shutdown, active_workers, pool_freed, history>>
      PROVE  PoolInv'
  <2>1. Submitting(c)
    BY <1>3 DEF Submitting
  <2>2. PICK i \in handle : i = cur[c]
    BY <2>1, SubmitterHas
  <2>3. \A d \in Submitters : d # c /\ Submitting(d) => cur[d] # i
    BY <2>1, <2>2, SubmitterHas
  <2>4. /\ Unref(i) /\ handle' = handle \ {i} /\ queue' = queue
        /\ Goto(c, "idle") /\ cur' = [cur EXCEPT ![c] = 0]
    BY <1>3, <2>2 DEF GiveUp, Drop
  <2>5. pc'[c] = "idle" /\ pc' \in [Threads -> Labels] /\ \A v \in Threads \ {c} : Woken(v)
    BY <1>1, <2>4, GotoWakes DEF Labels
  <2>6. cur' \in [Threads -> 0 .. MaxCalls] /\ cur'[c] = 0
        /\ \A u \in Threads \ {c} : cur'[u] = cur[u]
    BY <1>1, <1>2, <2>4 DEF Types
  <2>7. StepOf(c) /\ ~Submitting(c)' /\ pc[c] # "work_fn" /\ pc'[c] # "work_fn"
    BY <1>3, <2>5, <2>6 DEF StepOf, Submitting
  <2> QED
    BY <1>1, <1>2, <1>3, <2>3, <2>4, <2>5, <2>6, <2>7, HandleGivenUp
<1>4. CASE SubmitLocked(c)
  <2>1. pc[c] = "submit" /\ UNCHANGED <<shutdown, active_workers, pool_freed, history>>
    BY <1>4 DEF SubmitLocked
  <2>2. CASE GiveUp(c, cur[c])
    BY <1>3, <2>1, <2>2
  <2>3. CASE Goto(c, "queue_not_full") /\ UNCHANGED <<queue, items, cur, handle>>
    <3>1. pc'[c] = "queue_not_full" /\ pc' \in [Threads -> Labels]
          /\ \A v \in Threads \ {c} : Woken(v)
      BY <1>1, <2>3, GotoWakes DEF Labels, Asleep
    <3>2. Submitting(c) /\ Submitting(c)'
      BY <2>1, <3>1 DEF Submitting
    <3> QED
      BY <1>1, <1>2, <2>1, <2>3, <3>1, <3>2, ClientQuiet
  <2>4. CASE ~Full(priority[c]) /\ Enqueue(c, cur[c])
    <3>1. Submitting(c)
      BY <2>1 DEF Submitting
    <3> QED
      BY <2>1, <2>4, <3>1, EnqueueKeepsInv
  <2> QED
    BY <1>4, <2>2, <2>3, <2>4 DEF SubmitLocked
<1>5. CASE TrySubmitLocked(c)
  <2>1. pc[c] = "try_submit" /\ UNCHANGED <<shutdown, active_workers, pool_freed, history>>
    BY <1>5 DEF TrySubmitLocked
  <2>2. CASE GiveUp(c, cur[c])
    BY <1>3, <2>1, <2>2
  <2>3. CASE ~Full(priority[c]) /\ Enqueue(c, cur[c])
    <3>1. Submitting(c)
      BY <2>1 DEF Submitting
    <3> QED
      BY <2>1, <2>3, <3>1, EnqueueKeepsInv
  <2> QED
    BY <1>5, <2>2, <2>3 DEF TrySubmitLocked
<1>6. CASE SetCallback(c)
  <2>1. /\ pc[c] = "set_callback" /\ Goto(c, "idle") /\ cur' = [cur EXCEPT ![c] = 0]
        /\ UNCHANGED <<pool, items, handle, history>>
    BY <1>6 DEF SetCallback, Drop
  <2>2. pc'[c] = "idle" /\ pc' \in [Threads -> Labels] /\ \A v \in Threads \ {c} : Woken(v)
    BY <1>1, <2>1, GotoWakes DEF Labels
  <2>3. ~Submitting(c) /\ ~Submitting(c)'
    BY <2>1, <2>2 DEF Submitting
  <2> QED
    BY <1>1, <1>2, <2>1, <2>2, <2>3, ClientQuiet
<1> QED
  BY <1>4, <1>5, <1>6 DEF SubmitterStep

\* ios_work_release.
LEMMA WorkReleaseKeepsInv ==
    ASSUME PoolInv, NEW u \in Users, NEW i \in Items, WorkRelease(u, i) PROVE PoolInv'
<1>1. Types /\ u \in Clients /\ u \in Threads
  BY DEF PoolInv, Clients, Threads
<1>2. /\ pc[u] = "idle" /\ i \in handle /\ \A d \in Clients : cur[d] # i
      /\ handle' = handle \ {i} /\ Unref(i) /\ Called
      /\ UNCHANGED <<pool, pc, cur, lost, exits>>
  BY DEF WorkRelease
<1>3. calls' \in 0 .. MaxCalls /\ calls' >= calls
  BY <1>1, <1>2, ThreadPoolAssumption DEF Called, Types
<1>4. pc' \in [Threads -> Labels] /\ cur' \in [Threads -> 0 .. MaxCalls]
      /\ cur'[u] = cur[u] /\ pc'[u] = "idle"
  BY <1>1, <1>2 DEF Types
<1>5. StepOf(u) /\ ~Submitting(u)'
  BY <1>2 DEF StepOf, Woken, Submitting
<1>6. \A d \in Submitters : cur[d] # i
  BY <1>2 DEF Clients
<1> QED
  BY <1>1, <1>2, <1>3, <1>4, <1>5, <1>6, HandleGivenUp DEF pool

-----------------------------------------------------------------------------
(* worker_thread_main.                                                     *)

\* Running is a finite set of items.
LEMMA RunningFinite ==
    ASSUME lost \subseteq Items
    PROVE  IsFiniteSet(Running) /\ Cardinality(Running) \in 0 .. MaxCalls
<1>1. MaxCalls \in Nat /\ 1 \in Int /\ MaxCalls \in Int
  BY ThreadPoolAssumption
<1>2. IsFiniteSet(Items) /\ Cardinality(Items) = MaxCalls
  BY <1>1, FS_Interval DEF Items
<1>3. Running \in SUBSET Items
  BY DEF Running
<1>4. IsFiniteSet(Running) /\ Cardinality(Running) <= Cardinality(Items)
  BY <1>2, <1>3, FS_Subset
<1>5. Cardinality(Running) \in Nat
  BY <1>4, FS_CardinalityType
<1> QED
  BY <1>1, <1>2, <1>4, <1>5

\* A busy worker's item is with it alone.
LEMMA WorkerHas ==
    ASSUME PoolInv, NEW w \in Workers, Busy(w)
    PROVE  /\ w \in Threads /\ cur[w] \in Items /\ cur[w] \notin lost /\ ~InQueue(cur[w])
           /\ AtWorker(cur[w]) /\ state[cur[w]] # "unused" /\ ref_count[cur[w]] > 0
           /\ \A v \in Workers : Busy(v) /\ v # w => cur[v] # cur[w]
           /\ \A c \in Submitters : Submitting(c) => cur[c] # cur[w]
<1>1. /\ cur[w] \in Items /\ cur[w] \notin lost /\ ~InQueue(cur[w])
      /\ \A v \in Workers : Busy(v) /\ v # w => cur[v] # cur[w]
  BY DEF PoolInv, Places, WorkedOnce
<1>2. w \in Threads
  BY DEF Threads
<1>3. AtWorker(cur[w])
  BY DEF AtWorker
<1>4. state[cur[w]] # "unused"
  BY <1>1, <1>2 DEF PoolInv, Places, CreatedFirst
<1>5. ref_count[cur[w]] > 0
  BY <1>1, <1>3 DEF PoolInv, Counts, Refs
<1>6. \A c \in Submitters : Submitting(c) => cur[c] # cur[w]
  BY <1>3 DEF PoolInv, Places, SubmittedOnce
<1> QED
  BY <1>1, <1>2, <1>3, <1>4, <1>5, <1>6

\* A worker's step that moves no item.
LEMMA WorkerQuiet ==
    ASSUME PoolInv, NEW w \in Workers, pc' \in [Threads -> Labels],
           \A u \in Threads \ {w} : Woken(u), cur' = cur,
           Busy(w)' <=> Busy(w), ~Submitting(w), ~Submitting(w)',
           UNCHANGED <<queue, shutdown, pool_freed, ref_count, handle, lost, calls, exits>>,
           state' \in [Items -> States],
           \A i \in Items : state'[i] = "unused" <=> state[i] = "unused",
           ActiveExact'
    PROVE  PoolInv'
<1>1. Types /\ Places /\ Counts /\ w \in Threads
  BY DEF PoolInv, Threads
<1>2. StepOf(w) /\ calls' \in Nat /\ calls' >= calls
  BY <1>1 DEF StepOf, Types
<1>3. Places' /\ Counts'
  BY <1>1, <1>2, PlacesQuiet
<1>4. Types'
  BY <1>1 DEF Types
<1> QED
  BY <1>3, <1>4 DEF PoolInv

\* work_fn starts, returns, and its item is complete.
LEMMA ExecuteKeepsInv ==
    ASSUME PoolInv, NEW w \in Workers, Execute(w) \/ WorkReturns(w) \/ Complete(w)
    PROVE  PoolInv'
<1>1. Types /\ ActiveExact /\ w \in Threads /\ lost \subseteq Items
      /\ state \in [Items -> States]
  BY DEF PoolInv, Types, Threads
<1>2. Busy(w) /\ ~Submitting(w)
  BY DEF Execute, WorkReturns, Complete, Busy, Submitting
<1>3. PICK i \in Items : i = cur[w]
  BY <1>2, WorkerHas
<1>4. /\ i \notin lost /\ state[i] # "unused"
      /\ \A v \in Workers : Busy(v) /\ v # w => cur[v] # i
  BY <1>2, <1>3, WorkerHas
<1>5. IsFiniteSet(Running)
  BY <1>1, RunningFinite
<1>s. ASSUME NEW s \in States, s # "unused", state' = [state EXCEPT ![i] = s]
      PROVE  /\ state' \in [Items -> States]
             /\ \A j \in Items : state'[j] = "unused" <=> state[j] = "unused"
  BY <1>1, <1>4, <1>s
<1> USE DEF history, items, pool
<1>6. CASE Execute(w)
  <2>1. /\ pc[w] = "dequeued" /\ Goto(w, "work_fn") /\ active_workers' = active_workers + 1
        /\ state' = [state EXCEPT ![i] = "executing"]
        /\ UNCHANGED <<queue, shutdown, pool_freed, ref_count, cur, handle, history>>
    BY <1>3, <1>6 DEF Execute
  <2>2. pc'[w] = "work_fn" /\ pc' \in [Threads -> Labels] /\ \A u \in Threads \ {w} : Woken(u)
    BY <1>1, <2>1, GotoWakes DEF Labels
  <2>3. Busy(w)' /\ ~Submitting(w)'
    BY <2>2 DEF Busy, Submitting
  <2>4. /\ state' \in [Items -> States]
        /\ \A j \in Items : state'[j] = "unused" <=> state[j] = "unused"
    BY <1>s, <2>1 DEF States
  <2>5. \A v \in Workers : v # w => (pc'[v] = "work_fn" <=> pc[v] = "work_fn")
    BY <2>2, WokenKeeps DEF Threads
  <2>6. i \notin Running
    BY <1>4, <2>1 DEF Running, Busy
  <2>7. Running' = Running \cup {i}
    BY <1>3, <2>1, <2>2, <2>5 DEF Running
  <2>8. Cardinality(Running \cup {i}) = Cardinality(Running) + 1
    BY <1>5, <2>6, FS_AddElement
  <2>9. ActiveExact'
    BY <1>1, <2>1, <2>7, <2>8 DEF ActiveExact
  <2> QED
    BY <1>2, <2>1, <2>2, <2>3, <2>4, <2>9, WorkerQuiet
<1>7. CASE WorkReturns(w)
  <2>1. /\ pc[w] = "work_fn" /\ Goto(w, "complete") /\ active_workers' = active_workers - 1
        /\ UNCHANGED <<queue, shutdown, pool_freed, items, cur, handle, history>>
    BY <1>7 DEF WorkReturns
  <2>2. pc'[w] = "complete" /\ pc' \in [Threads -> Labels]
        /\ \A u \in Threads \ {w} : Woken(u)
    BY <1>1, <2>1, GotoWakes DEF Labels
  <2>3. Busy(w)' /\ ~Submitting(w)'
    BY <2>2 DEF Busy, Submitting
  <2>4. \A v \in Workers : v # w => (pc'[v] = "work_fn" <=> pc[v] = "work_fn")
    BY <2>2, WokenKeeps DEF Threads
  <2>5. i \in Running
    BY <1>3, <2>1 DEF Running
  <2>6. \A v \in Workers : pc[v] = "work_fn" /\ v # w => cur[v] # i
    BY <1>4 DEF Busy
  <2>7. Running' = Running \ {i}
    BY <1>3, <1>4, <2>1, <2>2, <2>4, <2>6 DEF Running
  <2>8. Cardinality(Running \ {i}) = Cardinality(Running) - 1
    BY <1>5, <2>5, FS_RemoveElement
  <2>9. ActiveExact'
    BY <1>1, <2>1, <2>7, <2>8 DEF ActiveExact
  <2> QED
    BY <1>1, <1>2, <2>1, <2>2, <2>3, <2>9, WorkerQuiet
<1>8. CASE Complete(w)
  <2>1. /\ pc[w] = "complete" /\ GotoBroadcast(w, "call_back", i)
        /\ state' = [state EXCEPT ![i] = "completed"]
        /\ UNCHANGED <<pool, ref_count, cur, handle, history>>
    BY <1>3, <1>8 DEF Complete
  <2>2. pc'[w] = "call_back" /\ pc' \in [Threads -> Labels]
        /\ \A u \in Threads \ {w} : Woken(u)
    BY <1>1, <2>1, BroadcastWakes DEF Labels
  <2>3. Busy(w)' /\ ~Submitting(w)'
    BY <2>2 DEF Busy, Submitting
  <2>4. /\ state' \in [Items -> States]
        /\ \A j \in Items : state'[j] = "unused" <=> state[j] = "unused"
    BY <1>s, <2>1 DEF States
  <2>5. StepOf(w)
    BY <2>1, <2>2 DEF StepOf
  <2>6. ActiveExact'
    BY <1>1, <2>1, <2>2, <2>5, ActiveQuiet
  <2> QED
    BY <1>2, <2>1, <2>2, <2>3, <2>4, <2>6, WorkerQuiet
<1> QED
  BY <1>6, <1>7, <1>8

\* dequeue_work looks into a queue that has an item.
LEMMA HighestIs ==
    ASSUME Types, Queued # {}
    PROVE  Highest \in Priorities /\ queue[Highest] # <<>>
<1>1. Queued \subseteq 0 .. 3
  BY DEF Queued, Priorities
<1>2. \E p \in Queued : \A q \in Queued : q <= p
  <2>1. CASE 3 \in Queued
    BY <1>1, <2>1
  <2>2. CASE 3 \notin Queued /\ 2 \in Queued
    BY <1>1, <2>2
  <2>3. CASE 3 \notin Queued /\ 2 \notin Queued /\ 1 \in Queued
    BY <1>1, <2>3
  <2>4. CASE 3 \notin Queued /\ 2 \notin Queued /\ 1 \notin Queued
    <3>1. \A q \in Queued : q = 0
      BY <1>1, <2>4
    <3> QED
      BY <3>1
  <2> QED
    BY <2>1, <2>2, <2>3, <2>4
<1>3. Highest \in Queued
  BY <1>2 DEF Highest
<1> QED
  BY <1>3 DEF Queued

\* Tail takes one item out of one queue.
LEMMA TailTakes ==
    ASSUME Types, QueuedOnce, NEW p \in Priorities, queue[p] # <<>>,
           NEW h, h = Head(queue[p]), queue' = [queue EXCEPT ![p] = Tail(@)]
    PROVE  /\ queue' \in [Priorities -> Seq(Items)] /\ h \in Items
           /\ \A q \in Priorities : Len(queue'[q]) <= queue_capacity[q]
           /\ InQueue(h)
           /\ \A j : InQueue(j)' <=> (InQueue(j) /\ j # h)
           /\ QueuedOnce'
<1>1. queue[p] \in Seq(Items) /\ queue'[p] = Tail(queue[p])
  BY DEF Types
<1>2. /\ Len(queue[p]) \in Nat /\ Len(queue[p]) > 0 /\ h = queue[p][1] /\ h \in Items
      /\ queue'[p] \in Seq(Items) /\ Len(queue'[p]) = Len(queue[p]) - 1
      /\ \A a \in 1 .. Len(queue[p]) - 1 : queue'[p][a] = queue[p][a + 1]
  <2>1. Len(queue[p]) \in Nat /\ Len(queue[p]) # 0
    BY <1>1, EmptySeq
  <2>2. Len(queue[p]) > 0 /\ 1 \in 1 .. Len(queue[p])
    BY <2>1
  <2>3. h = queue[p][1]
    BY <1>1, <2>2
  <2>4. h \in Items
    BY <1>1, <2>2, <2>3
  <2>5. queue'[p] \in Seq(Items) /\ Len(queue'[p]) = Len(queue[p]) - 1
    BY <1>1, HeadTailProperties
  <2>6. \A a \in 1 .. Len(queue[p]) - 1 : queue'[p][a] = queue[p][a + 1]
    BY <1>1, <2>5, HeadTailProperties
  <2> QED
    BY <2>1, <2>2, <2>3, <2>4, <2>5, <2>6
<1>3. /\ queue' \in [Priorities -> Seq(Items)]
      /\ \A q \in Priorities : q # p => queue'[q] = queue[q]
  BY <1>2 DEF Types
<1>4. 1 \in 1 .. Len(queue[p])
  BY <1>2
<1>5. InQueue(h)
  BY <1>2, <1>4 DEF InQueue
<1>6. \A q \in Priorities : Len(queue'[q]) <= queue_capacity[q]
  <2>1. Len(queue'[p]) <= queue_capacity[p]
    <3>1. Len(queue[p]) <= queue_capacity[p] /\ queue_capacity[p] \in Nat
      BY CapacityType DEF Types
    <3> QED
      BY <1>2, <3>1
  <2> QED
    BY <1>3, <2>1 DEF Types
<1>7. \A a \in 1 .. Len(queue[p]) - 1 : a + 1 \in 1 .. Len(queue[p]) /\ a + 1 # 1
  BY <1>2
<1>8. ASSUME NEW j, InQueue(j)' PROVE InQueue(j) /\ j # h
  <2>1. PICK q \in Priorities : \E a \in 1 .. Len(queue'[q]) : queue'[q][a] = j
    BY <1>8 DEF InQueue
  <2>2. PICK a \in 1 .. Len(queue'[q]) : queue'[q][a] = j
    BY <2>1
  <2>3. CASE q # p
    <3>1. a \in 1 .. Len(queue[q]) /\ queue[q][a] = j
      BY <1>3, <2>2, <2>3
    <3> QED
      BY <1>2, <1>4, <2>3, <3>1 DEF InQueue, QueuedOnce
  <2>4. CASE q = p
    <3>1. a + 1 \in 1 .. Len(queue[p]) /\ a + 1 # 1 /\ queue[p][a + 1] = j
      BY <1>2, <1>7, <2>2, <2>4
    <3> QED
      BY <1>2, <1>4, <3>1 DEF InQueue, QueuedOnce
  <2> QED
    BY <2>3, <2>4
<1>9. ASSUME NEW j, InQueue(j), j # h PROVE InQueue(j)'
  <2>1. PICK q \in Priorities : \E a \in 1 .. Len(queue[q]) : queue[q][a] = j
    BY <1>9 DEF InQueue
  <2>2. PICK a \in 1 .. Len(queue[q]) : queue[q][a] = j
    BY <2>1
  <2>3. CASE q # p
    BY <1>3, <2>2, <2>3 DEF InQueue
  <2>4. CASE q = p
    <3>1. a # 1
      BY <1>2, <1>9, <2>2, <2>4
    <3>2. a - 1 \in 1 .. Len(queue[p]) - 1 /\ (a - 1) + 1 = a
      BY <1>2, <2>2, <2>4, <3>1
    <3>3. queue'[p][a - 1] = j
      BY <1>2, <2>2, <2>4, <3>2
    <3> QED
      BY <1>2, <3>2, <3>3 DEF InQueue
  <2> QED
    BY <2>3, <2>4
<1>10. QueuedOnce'
  <2> SUFFICES ASSUME NEW q \in Priorities, NEW r \in Priorities,
                      NEW a \in 1 .. Len(queue'[q]), NEW b \in 1 .. Len(queue'[r]),
                      queue'[q][a] = queue'[r][b]
               PROVE  q = r /\ a = b
    BY DEF QueuedOnce
  <2> DEFINE da == IF q = p THEN a + 1 ELSE a
             db == IF r = p THEN b + 1 ELSE b
  <2>1. da \in 1 .. Len(queue[q]) /\ queue[q][da] = queue'[q][a]
    BY <1>2, <1>3, <1>7
  <2>2. db \in 1 .. Len(queue[r]) /\ queue[r][db] = queue'[r][b]
    BY <1>2, <1>3, <1>7
  <2>3. q = r /\ da = db
    BY <2>1, <2>2 DEF QueuedOnce
  <2> QED
    BY <2>3
<1> QED
  BY <1>2, <1>3, <1>5, <1>6, <1>8, <1>9, <1>10

\* What a worker's step leaves alone in the other threads.
LEMMA WorkerOthers ==
    ASSUME NEW w \in Workers, StepOf(w)
    PROVE  /\ \A v \in Workers : v # w =>
                (Busy(v)' <=> Busy(v)) /\ (pc'[v] = "work_fn" <=> pc[v] = "work_fn")
                /\ cur'[v] = cur[v]
           /\ \A c \in Submitters : c # w /\ (Submitting(c)' <=> Submitting(c))
                /\ cur'[c] = cur[c]
<1>1. \A c \in Submitters : c # w
  BY ThreadPoolAssumption
<1> QED
  BY <1>1, WokenKeeps DEF StepOf, Threads, Clients

\* An item moves from the queue to the worker, with the queue's reference.
LEMMA WorkerLoopKeepsInv ==
    ASSUME PoolInv, NEW w \in Workers, WorkerLoop(w) PROVE PoolInv'
<1>1. Types /\ Places /\ Counts /\ ActiveExact /\ w \in Threads
  BY DEF PoolInv, Threads
<1>2. /\ pc[w] = "loop"
      /\ UNCHANGED <<shutdown, active_workers, pool_freed, state, ref_count, handle, lost,
                     calls, exits>>
  BY DEF WorkerLoop, items, history
<1>3. ~Busy(w) /\ ~Submitting(w)
  BY <1>2 DEF Busy, Submitting
<1>4. ASSUME NEW label \in {"ended", "work_available"}, Goto(w, label),
             UNCHANGED <<queue, cur>>
      PROVE  PoolInv'
  <2>1. pc'[w] = label /\ pc' \in [Threads -> Labels] /\ \A u \in Threads \ {w} : Woken(u)
    BY <1>1, <1>4, GotoWakes DEF Labels, Asleep
  <2>2. ~Busy(w)' /\ ~Submitting(w)' /\ StepOf(w)
    BY <1>4, <2>1 DEF Busy, Submitting, StepOf
  <2>3. ActiveExact'
    BY <1>1, <1>2, <2>1, <2>2, ActiveQuiet
  <2>4. state \in [Items -> States]
    BY <1>1 DEF Types
  <2> QED
    BY <1>2, <1>3, <1>4, <2>1, <2>2, <2>3, <2>4, WorkerQuiet
<1>5. ASSUME Queued # {}, Taken(w), cur' = [cur EXCEPT ![w] = Head(queue[Highest])],
             queue' = [queue EXCEPT ![Highest] = Tail(@)]
      PROVE  PoolInv'
  <2>1. Highest \in Priorities /\ queue[Highest] # <<>>
    BY <1>1, <1>5, HighestIs
  <2>2. PICK h : h = Head(queue[Highest])
    OBVIOUS
  <2>3. /\ queue' \in [Priorities -> Seq(Items)] /\ h \in Items
        /\ \A q \in Priorities : Len(queue'[q]) <= queue_capacity[q]
        /\ InQueue(h)
        /\ \A j : InQueue(j)' <=> (InQueue(j) /\ j # h)
        /\ QueuedOnce'
    BY <1>1, <1>5, <2>1, <2>2, TailTakes DEF Places
  <2>4. pc'[w] = "dequeued" /\ pc' \in [Threads -> Labels]
        /\ \A u \in Threads \ {w} : Woken(u)
    <3>1. GotoSignal(w, "dequeued", "queue_not_full", "submit") /\ "dequeued" \in Labels
      BY <1>5 DEF Taken, Labels
    <3> QED
      BY <1>1, <3>1, SignalWakes
  <2>5. cur'[w] = h /\ (\A u \in Threads \ {w} : cur'[u] = cur[u])
        /\ cur' \in [Threads -> 0 .. MaxCalls]
    BY <1>1, <1>5, <2>2, <2>3 DEF Types, Items
  <2>6. StepOf(w) /\ Busy(w)'
    BY <2>4, <2>5 DEF StepOf, Busy
  <2>7. /\ \A v \in Workers : v # w => (Busy(v)' <=> Busy(v)) /\ cur'[v] = cur[v]
        /\ \A c \in Submitters : (Submitting(c)' <=> Submitting(c)) /\ cur'[c] = cur[c]
    BY <2>6, WorkerOthers
  <2>8. \A j : AtWorker(j)' <=> (AtWorker(j) \/ j = h)
    BY <1>3, <2>5, <2>6, <2>7 DEF AtWorker
  <2>9. h \notin lost /\ ~AtWorker(h) /\ state[h] # "unused"
    <3>1. h \notin lost
      BY <1>1, <2>3 DEF Places, WorkedOnce
    <3>2. ~AtWorker(h)
      BY <1>1, <2>3 DEF Places, WorkedOnce, AtWorker
    <3>3. state[h] # "unused"
      BY <1>1, <2>3 DEF Places, CreatedFirst
    <3> QED
      BY <3>1, <3>2, <3>3
  <2>10. Types'
    BY <1>1, <1>2, <2>3, <2>4, <2>5 DEF Types
  <2>11. WorkedOnce'
    <3>1. ASSUME NEW v \in Workers, v # w, Busy(v)'
          PROVE  /\ cur'[v] \in Items /\ cur'[v] \notin lost' /\ ~InQueue(cur[v])'
                 /\ \A x \in Workers : Busy(x)' /\ cur'[x] = cur'[v] => x = v
      <4>1. Busy(v) /\ cur'[v] = cur[v]
        BY <2>7, <3>1
      <4>2. /\ cur[v] \in Items /\ cur[v] \notin lost /\ ~InQueue(cur[v]) /\ cur[v] # h
            /\ \A x \in Workers : Busy(x) /\ cur[x] = cur[v] => x = v
        BY <1>1, <2>9, <4>1 DEF Places, WorkedOnce, AtWorker
      <4>3. \A y : y = cur[v] => ~InQueue(y)'
        BY <2>3, <4>2
      <4>4. ~InQueue(cur[v])'
        BY <4>1, <4>3 DEF InQueue
      <4> QED
        BY <1>2, <2>5, <2>7, <4>1, <4>2, <4>4
    <3>2. /\ cur'[w] \in Items /\ cur'[w] \notin lost' /\ ~InQueue(cur[w])'
          /\ \A x \in Workers : Busy(x)' /\ cur'[x] = cur'[w] => x = w
      <4>1. \A y : y = h => ~InQueue(y)'
        BY <2>3
      <4>2. ~InQueue(cur[w])'
        BY <2>5, <4>1 DEF InQueue
      <4>3. \A x \in Workers : Busy(x)' /\ cur'[x] = cur'[w] => x = w
        BY <2>5, <2>7, <2>9 DEF AtWorker
      <4> QED
        BY <1>2, <2>3, <2>5, <2>9, <4>2, <4>3
    <3>3. \A j \in lost' : ~InQueue(j)'
      BY <1>1, <1>2, <2>3 DEF Places, WorkedOnce
    <3> QED
      BY <3>1, <3>2, <3>3 DEF WorkedOnce
  <2>12. SubmittedOnce'
    <3>1. ASSUME NEW d \in Submitters, Submitting(d)'
          PROVE  /\ cur'[d] \in handle' /\ cur'[d] \notin lost'
                 /\ ~InQueue(cur[d])' /\ ~AtWorker(cur[d])'
                 /\ \A e \in Submitters : Submitting(e)' /\ cur'[e] = cur'[d] => e = d
      <4>1. Submitting(d) /\ cur'[d] = cur[d]
        BY <2>7, <3>1
      <4>2. /\ cur[d] \in handle /\ cur[d] \notin lost /\ ~InQueue(cur[d]) /\ ~AtWorker(cur[d])
            /\ \A e \in Submitters : Submitting(e) /\ cur[e] = cur[d] => e = d
        BY <1>1, <4>1 DEF Places, SubmittedOnce
      <4>3. \A y : y = cur[d] => ~InQueue(y)' /\ ~AtWorker(y)'
        BY <2>3, <2>8, <4>2
      <4>4. ~InQueue(cur[d])' /\ ~AtWorker(cur[d])'
        BY <4>1, <4>3 DEF InQueue, AtWorker
      <4> QED
        BY <1>2, <2>7, <4>1, <4>2, <4>4
    <3> QED
      BY <3>1 DEF SubmittedOnce
  <2>13. CreatedFirst'
    <3>1. \A j \in Items : state[j] = "unused" => \A t \in Threads : cur'[t] # j
      BY <1>1, <2>5, <2>9 DEF Places, CreatedFirst
    <3> QED
      BY <1>1, <1>2, <2>3, <3>1 DEF Places, CreatedFirst
  <2>14. Counts'
    <3>1. ASSUME NEW j \in Items, j # h PROVE ref_count'[j] = Refs(j)'
      BY <1>1, <1>2, <2>3, <2>8, <3>1 DEF Counts, Refs
    <3>2. ASSUME NEW j \in Items, j = h PROVE ref_count'[j] = Refs(j)'
      BY <1>1, <1>2, <2>3, <2>8, <2>9, <3>2 DEF Counts, Refs
    <3> QED
      BY <3>1, <3>2 DEF Counts
  <2>15. ActiveExact'
    BY <1>1, <1>2, <2>4, <2>6, ActiveQuiet
  <2> QED
    BY <2>3, <2>10, <2>11, <2>12, <2>13, <2>14, <2>15 DEF PoolInv, Places
<1> QED
  BY <1>4, <1>5 DEF WorkerLoop

\* The worker's reference is given back, or lost with the worker.
LEMMA WorkerEndsKeepsInv ==
    ASSUME PoolInv, NEW w \in Workers, CallBack(w) \/ WorkExits(w) PROVE PoolInv'
<1>1. Types /\ Places /\ Counts /\ ActiveExact
  BY DEF PoolInv
<1>2. Busy(w) /\ ~Submitting(w)
  BY DEF CallBack, WorkExits, Busy, Submitting
<1>3. PICK i \in Items : i = cur[w]
  BY <1>2, WorkerHas
<1>4. /\ w \in Threads /\ i \notin lost /\ ~InQueue(i) /\ AtWorker(i)
      /\ state[i] # "unused" /\ ref_count[i] > 0
      /\ \A v \in Workers : Busy(v) /\ v # w => cur[v] # i
      /\ \A c \in Submitters : Submitting(c) => cur[c] # i
  BY <1>2, <1>3, WorkerHas
<1>5. /\ UNCHANGED <<queue, shutdown, active_workers, pool_freed, handle, calls>>
      /\ cur' = [cur EXCEPT ![w] = 0]
  BY DEF CallBack, WorkExits, Drop, pool, history
<1>6. /\ pc'[w] \in {"loop", "ended"} /\ pc' \in [Threads -> Labels]
      /\ \A u \in Threads \ {w} : Woken(u)
  <2>1. CASE CallBack(w)
    BY <1>1, <1>4, <2>1, GotoWakes DEF CallBack, Labels
  <2>2. CASE WorkExits(w)
    BY <1>1, <1>4, <2>2, BroadcastWakes DEF WorkExits, Labels
  <2> QED
    BY <2>1, <2>2
<1>7. cur'[w] = 0 /\ (\A u \in Threads \ {w} : cur'[u] = cur[u])
      /\ cur' \in [Threads -> 0 .. MaxCalls]
  BY <1>1, <1>4, <1>5, ThreadPoolAssumption DEF Types
<1>8. StepOf(w) /\ ~Busy(w)'
  BY <1>6, <1>7 DEF StepOf, Busy
<1>9. /\ \A v \in Workers : v # w =>
           (Busy(v)' <=> Busy(v)) /\ (pc'[v] = "work_fn" <=> pc[v] = "work_fn")
           /\ cur'[v] = cur[v]
      /\ \A c \in Submitters : (Submitting(c)' <=> Submitting(c)) /\ cur'[c] = cur[c]
  BY <1>8, WorkerOthers
<1>10. \A j : AtWorker(j)' <=> (AtWorker(j) /\ j # i)
  BY <1>3, <1>4, <1>8, <1>9 DEF AtWorker
<1>11. \A j : InQueue(j)' <=> InQueue(j)
  BY <1>5 DEF InQueue
<1>12. /\ ref_count' \in [Items -> Nat] /\ state' \in [Items -> States]
       /\ \A j \in Items : state'[j] = "unused" <=> state[j] = "unused"
       /\ \A j \in Items : j # i => ref_count'[j] = ref_count[j]
       /\ \/ lost' = lost \cup {i} /\ ref_count'[i] = ref_count[i] /\ pc[w] = "work_fn"
          \/ lost' = lost /\ ref_count'[i] = ref_count[i] - 1 /\ pc[w] = "call_back"
       /\ exits' \in 0 .. MaxExits
  <2>1. CASE CallBack(w)
    <3>1. Unref(i) /\ pc[w] = "call_back" /\ lost' = lost /\ exits' = exits
      BY <1>3, <2>1 DEF CallBack, history
    <3>2. /\ ref_count' \in [Items -> Nat] /\ state' \in [Items -> States]
          /\ ref_count'[i] = ref_count[i] - 1
          /\ \A j \in Items : j # i => ref_count'[j] = ref_count[j]
          /\ \A j \in Items : state'[j] = "unused" <=> state[j] = "unused"
      BY <1>1, <1>4, <3>1, UnrefIs
    <3> QED
      BY <1>1, <3>1, <3>2 DEF Types
  <2>2. CASE WorkExits(w)
    <3>1. /\ pc[w] = "work_fn" /\ exits < MaxExits /\ exits' = exits + 1
          /\ lost' = lost \cup {i} /\ ref_count' = ref_count
          /\ state' = [state EXCEPT ![i] =
               IF state[i] = "executing" THEN "completed" ELSE state[i]]
      BY <1>3, <2>2 DEF WorkExits
    <3>2. exits' \in 0 .. MaxExits
      BY <1>1, <3>1, ThreadPoolAssumption DEF Types
    <3>3. /\ state' \in [Items -> States]
          /\ \A j \in Items : state'[j] = "unused" <=> state[j] = "unused"
      BY <1>1, <1>4, <3>1 DEF Types, States
    <3> QED
      BY <1>1, <3>1, <3>2, <3>3 DEF Types
  <2> QED
    BY <2>1, <2>2
<1>13. lost' \subseteq lost \cup {i} /\ lost \subseteq lost'
  BY <1>12
<1>14. Types'
  BY <1>1, <1>5, <1>6, <1>7, <1>12, <1>13 DEF Types
<1>15. QueuedOnce'
  BY <1>1, <1>5 DEF Places, QueuedOnce
<1>16. WorkedOnce'
  <2>1. ASSUME NEW v \in Workers, Busy(v)'
        PROVE  /\ cur'[v] \in Items /\ cur'[v] \notin lost' /\ ~InQueue(cur[v])'
               /\ \A x \in Workers : Busy(x)' /\ cur'[x] = cur'[v] => x = v
    <3>1. v # w /\ Busy(v) /\ cur'[v] = cur[v] /\ cur[v] # i
      BY <1>4, <1>8, <1>9, <2>1
    <3>2. /\ cur[v] \in Items /\ cur[v] \notin lost /\ ~InQueue(cur[v])
          /\ \A x \in Workers : Busy(x) /\ cur[x] = cur[v] => x = v
      BY <1>1, <3>1 DEF Places, WorkedOnce
    <3>3. \A y : y = cur[v] => ~InQueue(y)'
      BY <1>11, <3>2
    <3>4. ~InQueue(cur[v])'
      BY <3>1, <3>3 DEF InQueue
    <3> QED
      BY <1>8, <1>9, <1>13, <3>1, <3>2, <3>4
  <2>2. \A j \in lost' : ~InQueue(j)'
    BY <1>1, <1>4, <1>11, <1>13 DEF Places, WorkedOnce
  <2> QED
    BY <2>1, <2>2 DEF WorkedOnce
<1>17. SubmittedOnce'
  <2>1. ASSUME NEW d \in Submitters, Submitting(d)'
        PROVE  /\ cur'[d] \in handle' /\ cur'[d] \notin lost'
               /\ ~InQueue(cur[d])' /\ ~AtWorker(cur[d])'
               /\ \A e \in Submitters : Submitting(e)' /\ cur'[e] = cur'[d] => e = d
    <3>1. Submitting(d) /\ cur'[d] = cur[d] /\ cur[d] # i
      BY <1>4, <1>9, <2>1
    <3>2. /\ cur[d] \in handle /\ cur[d] \notin lost /\ ~InQueue(cur[d]) /\ ~AtWorker(cur[d])
          /\ \A e \in Submitters : Submitting(e) /\ cur[e] = cur[d] => e = d
      BY <1>1, <3>1 DEF Places, SubmittedOnce
    <3>3. \A y : y = cur[d] => ~InQueue(y)' /\ ~AtWorker(y)'
      BY <1>10, <1>11, <3>2
    <3>4. ~InQueue(cur[d])' /\ ~AtWorker(cur[d])'
      BY <3>1, <3>3 DEF InQueue, AtWorker
    <3> QED
      BY <1>5, <1>9, <1>13, <3>1, <3>2, <3>4
  <2> QED
    BY <2>1 DEF SubmittedOnce
<1>18. CreatedFirst'
  <2>1. \A j \in Items : state[j] = "unused" => \A t \in Threads : cur'[t] # j
    <3>1. \A j \in Items : j # 0
      BY DEF Items
    <3> QED
      BY <1>1, <1>7, <3>1 DEF Places, CreatedFirst
  <2>2. \A j \in Items : state[j] = "unused" =>
          j \notin handle' /\ j \notin lost' /\ ~InQueue(j)'
    BY <1>1, <1>4, <1>5, <1>11, <1>13 DEF Places, CreatedFirst
  <2>3. \E k \in 0 .. calls' : \A j \in Items : state'[j] = "unused" <=> j > k
    BY <1>1, <1>5, <1>12 DEF Places, CreatedFirst
  <2> QED
    BY <1>12, <2>1, <2>2, <2>3 DEF CreatedFirst
<1>19. Counts'
  <2>1. ASSUME NEW j \in Items, j # i PROVE ref_count'[j] = Refs(j)'
    <3>1. j \in lost' <=> j \in lost
      BY <1>13, <2>1
    <3> QED
      BY <1>1, <1>5, <1>10, <1>11, <1>12, <2>1, <3>1 DEF Counts, Refs
  <2>2. ASSUME NEW j \in Items, j = i PROVE ref_count'[j] = Refs(j)'
    <3>1. ref_count[i] = Refs(i)
      BY <1>1 DEF Counts
    <3> QED
      BY <1>4, <1>5, <1>10, <1>11, <1>12, <2>2, <3>1 DEF Refs
  <2> QED
    BY <2>1, <2>2 DEF Counts
<1>20. ActiveExact'
  <2>1. \A v \in Workers : pc[v] = "work_fn" /\ v # w => cur[v] # i
    BY <1>4 DEF Busy
  <2>2. Running' = Running
    BY <1>3, <1>6, <1>9, <1>12, <2>1 DEF Running
  <2> QED
    BY <1>1, <1>5, <2>2 DEF ActiveExact
<1> QED
  BY <1>14, <1>15, <1>16, <1>17, <1>18, <1>19, <1>20 DEF PoolInv, Places

-----------------------------------------------------------------------------
(* The invariant and the property.                                         *)

\* Every step keeps the invariant.
LEMMA PoolInvStep == PoolInv /\ [Next]_vars => PoolInv'
<1> SUFFICES ASSUME PoolInv, [Next]_vars PROVE PoolInv'
  OBVIOUS
<1>1. ASSUME NEW c \in Submitters, Submit(c) \/ SubmitterStep(c) PROVE PoolInv'
  BY <1>1, SubmitKeepsInv, SubmitterKeepsInv
<1>2. ASSUME NEW u \in Users, Call(u) \/ UserStep(u) PROVE PoolInv'
  BY <1>2, UserKeepsInv, WorkReleaseKeepsInv DEF Call
<1>3. ASSUME NEW w \in Workers, WorkerStep(w) \/ WorkExits(w) PROVE PoolInv'
  BY <1>3, WorkerLoopKeepsInv, ExecuteKeepsInv, WorkerEndsKeepsInv DEF WorkerStep
<1>4. CASE UNCHANGED vars
  BY <1>4 DEF vars, PoolInv, Types, Places, QueuedOnce, WorkedOnce, SubmittedOnce,
              CreatedFirst, Counts, Refs, ActiveExact, Running, InQueue, AtWorker, Busy,
              Submitting
<1>5. ASSUME NEW u \in Users, DrainSpin(u) PROVE UNCHANGED vars
  BY <1>5 DEF DrainSpin
<1> QED
  BY <1>1, <1>2, <1>3, <1>4, <1>5 DEF Next

\* The reference count of a work item is exactly the number of those who still use it, on
\* every path of submitting, running, waiting, cancelling and shutting down; no queue
\* exceeds its share, and active_workers stays within its bounds.
THEOREM ReferenceCountsExact == Spec => []ReferencesExact
<1>1. PoolInv => ReferencesExact
  <2> SUFFICES ASSUME PoolInv PROVE ReferencesExact
    OBVIOUS
  <2>1. Types /\ Counts /\ ActiveExact
    BY DEF PoolInv
  <2>2. active_workers \in 0 .. MaxCalls
    BY <2>1, RunningFinite DEF Types, ActiveExact
  <2>3. TypeOK
    BY <2>1, <2>2 DEF Types, TypeOK, Labels, States
  <2>4. ASSUME NEW i \in Items PROVE References(i) = Refs(i)
    <3>1. (\E p \in Priorities : Contains(queue[p], i)) <=> InQueue(i)
      BY DEF Contains, InQueue
    <3>2. (\E w \in Workers : InWorker(w, i)) <=> AtWorker(i)
      BY DEF InWorker, AtWorker, Busy
    <3> QED
      BY <3>1, <3>2 DEF References, Refs
  <2> QED
    BY <2>1, <2>3, <2>4 DEF ReferencesExact, Counts
<1> QED
  BY <1>1, PoolInvInit, PoolInvStep, PTL DEF Spec

=============================================================================
