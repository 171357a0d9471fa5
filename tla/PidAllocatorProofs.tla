------------------------- MODULE PidAllocatorProofs -------------------------
(***************************************************************************)
(* Proofs about PidAllocator, for every set of threads and every number of *)
(* contexts.  The code leaves two races open: a pop may swap in a stale    *)
(* next_free, and a lookup may count a reference to a context whose last   *)
(* one was dropped.  What is proved is that nothing else goes wrong: as    *)
(* long as neither has happened (Sound), the invariant holds, however many *)
(* threads pop, push, look up and release at once.                         *)
(*                                                                         *)
(* The invariant follows a context around: it is on the free list, in the  *)
(* hand of the one thread that allocates or releases it, or in the table   *)
(* with as many references as its holders.  A pop whose next_free is still *)
(* that of the head when its swap succeeds takes the first of the list,    *)
(* whatever happened between its two reads.                                *)
(***************************************************************************)
EXTENDS PidAllocator, FiniteSetTheorems, WellFoundedInduction, TLAPS

HandLabels == {"popped", "insert", "remove", "push", "push_next", "push_cas"}

\* t has a context that is neither free nor anybody's yet, or not any more.
Hand(t) == pc[t] \in HandLabels

Owners(c) == {t \in Threads : c \in own[t]}
Finders(c) == {t \in Threads : c \in found[t]}

\* A context is in one hand at most.
Hands ==
    \A t \in Threads : Hand(t) =>
      /\ ctx[t] \in Contexts /\ ctx[t] < next_pid
      /\ \A u \in Threads : Hand(u) /\ ctx[u] = ctx[t] => u = t
      /\ (pc[t] = "remove") <=> (ctx[t] \in active)
      /\ pc[t] = "insert" => is_allocated[ctx[t]] /\ ref_count[ctx[t]] = 1
      /\ pc[t] = "remove" => ref_count[ctx[t]] = 0
      /\ pc[t] = "push_cas" => next_free[ctx[t]] = snap[t]

\* The table's contexts have their references counted, and what is allocated is in
\* the table or on its way in or out.
TableOK ==
    /\ \A c \in active :
         /\ c < next_pid /\ is_allocated[c]
         /\ ref_count[c] = Cardinality(Owners(c)) + Cardinality(Finders(c))
    /\ currently_active = Cardinality(active)
    /\ \A c \in Contexts : is_allocated[c] =>
         c \in active \/ \E t \in Threads : pc[t] \in {"insert", "push"} /\ ctx[t] = c

\* Only contexts of the table have holders, and one owner at most.
HoldersOK ==
    \A c \in Contexts :
      /\ IsFiniteSet(Owners(c)) /\ IsFiniteSet(Finders(c))
      /\ c \notin active => Owners(c) = {} /\ Finders(c) = {}
      /\ \A t, u \in Owners(c) : t = u

\* The n contexts l[1], ..., l[n] are the free list.
List(n, l) ==
    /\ \A i, j \in 1 .. n : l[i] = l[j] => i = j
    /\ head = IF n = 0 THEN NULL ELSE l[1]
    /\ \A i \in 1 .. n : next_free[l[i]] = IF i < n THEN l[i + 1] ELSE NULL
    /\ size = n
    /\ \A i \in 1 .. n : l[i] < next_pid /\ l[i] \notin active /\ ~is_allocated[l[i]]
    /\ \A i \in 1 .. n : \A t \in Threads : Hand(t) => ctx[t] # l[i]

ListOK == \E n \in Nat : \E l \in [1 .. n -> Contexts] : List(n, l)

\* What the code dereferences is a context, the races included.
Pointed ==
    \A t \in Threads :
      /\ pc[t] \in Popping => snap[t] \in Contexts
      /\ Hand(t) => ctx[t] \in Contexts

\* cleanup_counter counts the cleanups under way.
GateOK == IsFiniteSet(cleaning) /\ cleanup_counter = Cardinality(cleaning)

Moving == Hands /\ TableOK /\ HoldersOK /\ ListOK

PidInv == TypeOK /\ Pointed /\ GateOK /\ (Sound => Moving)

-----------------------------------------------------------------------------
(* The beginning, and the steps that move no context.                      *)

\* No context is created yet.
LEMMA PidInvInit == Init => PidInv
<1> SUFFICES ASSUME Init PROVE PidInv
  OBVIOUS
<1> USE PidAllocatorAssumption DEF Init
<1>1. TypeOK
  <2>1. is_allocated \in [Contexts -> BOOLEAN]
    OBVIOUS
  <2>2. stale \in BOOLEAN /\ revived \in BOOLEAN
    OBVIOUS
  <2>3. ref_count \in [Contexts -> Int]
    OBVIOUS
  <2> QED
    BY <2>1, <2>2, <2>3 DEF TypeOK, Labels
<1>2. GateOK
  BY FS_EmptySet DEF GateOK
<1>3. Hands /\ Pointed
  BY DEF Hands, Pointed, Hand, HandLabels, Popping
<1>4. TableOK
  BY FS_EmptySet DEF TableOK
<1>5. HoldersOK
  <2>1. \A c \in Contexts : Owners(c) = {} /\ Finders(c) = {}
    BY DEF Owners, Finders
  <2> QED
    BY <2>1, FS_EmptySet DEF HoldersOK
<1>6. ListOK
  <2> DEFINE l == [i \in 1 .. 0 |-> 1]
  <2>1. l \in [1 .. 0 -> Contexts]
    OBVIOUS
  <2>2. List(0, l)
    BY DEF List
  <2> QED
    BY <2>1, <2>2 DEF ListOK
<1> QED
  BY <1>1, <1>2, <1>3, <1>4, <1>5, <1>6 DEF PidInv, Moving

\* A step that leaves the contexts alone, and the threads that have one in hand.
LEMMA QuietStep ==
    ASSUME Moving, UNCHANGED <<stack, counts, table, locals, held>>,
           \A t \in Threads :
             pc'[t] = pc[t] \/ (pc[t] \notin HandLabels /\ pc'[t] \notin HandLabels)
    PROVE  Moving'
<1> USE DEF stack, counts, table, locals, held
<1>1. \A t \in Threads : Hand(t)' <=> Hand(t)
  BY DEF Hand
<1>2. \A t \in Threads : Hand(t) => pc'[t] = pc[t]
  BY DEF Hand
<1>4. Hands'
  BY <1>1, <1>2 DEF Moving, Hands
<1>6. HoldersOK'
  BY DEF Moving, HoldersOK, Owners, Finders
<1>7. TableOK'
  <2>1. \A t \in Threads : pc[t] \in {"insert", "push"} => pc'[t] = pc[t]
    BY DEF HandLabels
  <2>2. \A c : Owners(c)' = Owners(c) /\ Finders(c)' = Finders(c)
    BY DEF Owners, Finders
  <2> QED
    BY <2>1, <2>2 DEF Moving, TableOK
<1>8. ListOK'
  <2>n. PICK n \in Nat : \E l \in [1 .. n -> Contexts] : List(n, l)
    BY DEF Moving, ListOK
  <2>1. PICK l \in [1 .. n -> Contexts] : List(n, l)
    BY <2>n
  <2>2. List(n, l)'
    BY <2>1, <1>1 DEF List
  <2> QED
    BY <2>2 DEF ListOK
<1> QED
  BY <1>4, <1>6, <1>7, <1>8 DEF Moving

-----------------------------------------------------------------------------
(* ios_pid_allocate.                                                       *)

\* What the proofs below use of the types.
Typed ==
    /\ pc \in [Threads -> Labels]
    /\ snap \in [Threads -> Contexts \cup {NULL}]
    /\ next \in [Threads -> Contexts \cup {NULL}]
    /\ ctx \in [Threads -> Contexts \cup {NULL}]
    /\ next_free \in [Contexts -> Contexts \cup {NULL}]
    /\ ref_count \in [Contexts -> Int] /\ is_allocated \in [Contexts -> BOOLEAN]
    /\ active \subseteq Contexts /\ next_pid \in 1 .. MaxPids + 1
    /\ own \in [Threads -> SUBSET Contexts] /\ found \in [Threads -> SUBSET Contexts]

\* There are finitely many contexts.
LEMMA ContextsFinite == IsFiniteSet(Contexts) /\ Cardinality(Contexts) = MaxPids
<1>1. MaxPids \in Nat /\ 1 \in Int /\ MaxPids \in Int
  BY PidAllocatorAssumption
<1> QED
  BY <1>1, FS_Interval DEF Contexts

\* The load of head.
LEMMA PopLoadStep ==
    ASSUME Moving, Typed, NEW t \in Threads, PopLoad(t) PROVE Moving'
<1> USE DEF Moving
<1>1. /\ pc[t] = "pop"
      /\ snap' = [snap EXCEPT ![t] = head]
      /\ pc' = [pc EXCEPT ![t] = IF head = NULL THEN "create" ELSE "pop_next"]
      /\ UNCHANGED <<stack, counts, table, next, ctx, held>>
  BY DEF PopLoad, Goto
<1> USE DEF stack, counts, table, held
<1>2. \A u \in Threads : u # t => pc'[u] = pc[u] /\ snap'[u] = snap[u]
  BY <1>1 DEF Typed
<1>3. /\ pc'[t] = (IF head = NULL THEN "create" ELSE "pop_next") /\ snap'[t] = head
  BY <1>1 DEF Typed
<1>4. \A u \in Threads : (Hand(u)' <=> Hand(u)) /\ (Hand(u) => u # t)
  BY <1>1, <1>2, <1>3 DEF Hand, HandLabels
<1>5. Hands'
  BY <1>1, <1>2, <1>4 DEF Hands
<1>7. HoldersOK'
  BY <1>1 DEF HoldersOK, Owners, Finders
<1>8. TableOK'
  <2>1. \A u \in Threads : pc[u] \in {"insert", "push"} => pc'[u] = pc[u]
    BY <1>1, <1>2
  <2>2. \A c : Owners(c)' = Owners(c) /\ Finders(c)' = Finders(c)
    BY <1>1 DEF Owners, Finders
  <2> QED
    BY <1>1, <2>1, <2>2 DEF TableOK
<1>9. ListOK'
  <2>n. PICK n \in Nat : \E l \in [1 .. n -> Contexts] : List(n, l)
    BY DEF ListOK
  <2>1. PICK l \in [1 .. n -> Contexts] : List(n, l)
    BY <2>n
  <2>3. List(n, l)'
    BY <1>1, <1>4, <2>1 DEF List
  <2> QED
    BY <2>3 DEF ListOK
<1> QED
  BY <1>5, <1>7, <1>8, <1>9

\* next_free of the context that was at the head.
LEMMA PopNextStep ==
    ASSUME Moving, Typed, NEW t \in Threads, PopNext(t) PROVE Moving'
<1> USE DEF Moving
<1>1. /\ pc[t] = "pop_next"
      /\ next' = [next EXCEPT ![t] = next_free[snap[t]]]
      /\ pc' = [pc EXCEPT ![t] = "pop_cas"]
      /\ UNCHANGED <<stack, counts, table, snap, ctx, held>>
  BY DEF PopNext, Goto
<1> USE DEF stack, counts, table, held
<1>2. \A u \in Threads : u # t => pc'[u] = pc[u] /\ next'[u] = next[u]
  BY <1>1 DEF Typed
<1>3. pc'[t] = "pop_cas" /\ next'[t] = next_free[snap[t]]
  BY <1>1 DEF Typed
<1>4. \A u \in Threads : (Hand(u)' <=> Hand(u)) /\ (Hand(u) => u # t)
  BY <1>1, <1>2, <1>3 DEF Hand, HandLabels
<1>6. Hands'
  BY <1>1, <1>2, <1>4 DEF Hands
<1>8. HoldersOK'
  BY <1>1 DEF HoldersOK, Owners, Finders
<1>9. TableOK'
  <2>1. \A u \in Threads : pc[u] \in {"insert", "push"} => pc'[u] = pc[u]
    BY <1>1, <1>2
  <2>2. \A c : Owners(c)' = Owners(c) /\ Finders(c)' = Finders(c)
    BY <1>1 DEF Owners, Finders
  <2> QED
    BY <1>1, <2>1, <2>2 DEF TableOK
<1>10. ListOK'
  <2>n. PICK n \in Nat : \E l \in [1 .. n -> Contexts] : List(n, l)
    BY DEF ListOK
  <2>1. PICK l \in [1 .. n -> Contexts] : List(n, l)
    BY <2>n
  <2>2. List(n, l)'
    BY <1>1, <1>4, <2>1 DEF List
  <2> QED
    BY <2>2 DEF ListOK
<1> QED
  BY <1>6, <1>8, <1>9, <1>10

\* The swap takes the first context, if what it puts on the stack is its next_free; or
\* it fails and the new head is looked at.
LEMMA PopSwapStep ==
    ASSUME Moving, Typed, Pointed, NEW t \in Threads, PopSwap(t), ~stale' PROVE Moving'
<1> USE DEF Moving
<1>n. PICK n \in Nat : \E l \in [1 .. n -> Contexts] : List(n, l)
  BY DEF ListOK
<1>1. PICK l \in [1 .. n -> Contexts] : List(n, l)
  BY <1>n
<1>2. pc[t] = "pop_cas" /\ ~Hand(t) /\ pc[t] \in Popping
  BY DEF PopSwap, Hand, HandLabels, Popping
<1>3. snap[t] \in Contexts
  BY <1>2 DEF Pointed
<1>4. CASE head = snap[t]
  <2>1. /\ head' = next[t] /\ size' = size - 1
        /\ ctx' = [ctx EXCEPT ![t] = snap[t]]
        /\ pc' = [pc EXCEPT ![t] = "popped"]
        /\ UNCHANGED <<snap, next_free, counts, table, next, held>>
    BY <1>4 DEF PopSwap, Goto
  <2> USE DEF counts, table, held
  <2>2. \A u \in Threads : u # t => pc'[u] = pc[u] /\ ctx'[u] = ctx[u]
    BY <2>1 DEF Typed
  <2>3. pc'[t] = "popped" /\ ctx'[t] = snap[t]
    BY <2>1 DEF Typed
  <2>4. /\ \A u \in Threads : u # t => (Hand(u)' <=> Hand(u))
        /\ Hand(t)'
    BY <2>2, <2>3 DEF Hand, HandLabels
  <2>6. n # 0 /\ snap[t] = l[1] /\ next[t] = next_free[l[1]]
    <3>1. head # NULL
      BY <1>3, <1>4 DEF Contexts, NULL
    <3>2. n # 0 /\ snap[t] = l[1]
      BY <1>1, <1>4, <3>1 DEF List
    <3>3. next[t] = next_free[snap[t]]
      BY <1>4 DEF PopSwap
    <3> QED
      BY <3>2, <3>3
  <2>7. /\ l[1] \in Contexts /\ l[1] < next_pid /\ l[1] \notin active
        /\ \A u \in Threads : Hand(u) => ctx[u] # l[1]
    BY <1>1, <2>6 DEF List
  <2>8. Hands'
    <3>1. ASSUME NEW u \in Threads, u # t, Hand(u)'
          PROVE  /\ ctx'[u] \in Contexts /\ ctx'[u] < next_pid'
                 /\ \A v \in Threads : Hand(v)' /\ ctx'[v] = ctx'[u] => v = u
                 /\ (pc'[u] = "remove") <=> (ctx'[u] \in active')
                 /\ pc'[u] = "insert" => is_allocated'[ctx'[u]] /\ ref_count'[ctx'[u]] = 1
                 /\ pc'[u] = "remove" => ref_count'[ctx'[u]] = 0
                 /\ pc'[u] = "push_cas" => next_free'[ctx'[u]] = snap'[u]
      BY <2>1, <2>2, <2>3, <2>4, <2>6, <2>7, <3>1 DEF Hands
    <3>2. /\ ctx'[t] \in Contexts /\ ctx'[t] < next_pid'
          /\ \A v \in Threads : Hand(v)' /\ ctx'[v] = ctx'[t] => v = t
          /\ ctx'[t] \notin active'
      BY <2>1, <2>2, <2>3, <2>4, <2>6, <2>7
    <3> QED
      BY <2>3, <3>1, <3>2 DEF Hands
  <2>10. HoldersOK'
    BY <2>1 DEF HoldersOK, Owners, Finders
  <2>11. TableOK'
    <3>1. \A u \in Threads : pc[u] \in {"insert", "push"} =>
            pc'[u] = pc[u] /\ ctx'[u] = ctx[u]
      BY <1>2, <2>2
    <3>2. \A c : Owners(c)' = Owners(c) /\ Finders(c)' = Finders(c)
      BY <2>1 DEF Owners, Finders
    <3> QED
      BY <2>1, <3>1, <3>2 DEF TableOK
  <2>12. ListOK'
    <3> DEFINE k == [i \in 1 .. n - 1 |-> l[i + 1]]
    <3>1. n - 1 \in Nat /\ k \in [1 .. n - 1 -> Contexts]
      BY <2>6
    <3>2. \A i \in 1 .. n - 1 : k[i] = l[i + 1] /\ i + 1 \in 1 .. n
      OBVIOUS
    <3> HIDE DEF k
    <3>3. \A i, j \in 1 .. n - 1 : k[i] = k[j] => i = j
      <4>1. ASSUME NEW i \in 1 .. n - 1, NEW j \in 1 .. n - 1, k[i] = k[j] PROVE i = j
        <5>1. i + 1 = j + 1
          BY <1>1, <3>2, <4>1 DEF List
        <5> QED
          BY <5>1
      <4> QED
        BY <4>1
    <3>4. head' = IF n - 1 = 0 THEN NULL ELSE k[1]
      <4>1. next_free[l[1]] = IF 1 < n THEN l[2] ELSE NULL
        BY <1>1, <2>6 DEF List
      <4>2. n - 1 # 0 => 1 \in 1 .. n - 1 /\ k[1] = l[2]
        BY <2>6, <3>2
      <4> QED
        BY <2>1, <2>6, <4>1, <4>2
    <3>5. ASSUME NEW i \in 1 .. n - 1
          PROVE  next_free'[k[i]] = IF i < n - 1 THEN k[i + 1] ELSE NULL
      <4>1. next_free[l[i + 1]] = IF i + 1 < n THEN l[(i + 1) + 1] ELSE NULL
        BY <1>1, <3>2 DEF List
      <4>2. i < n - 1 => k[i + 1] = l[(i + 1) + 1]
        BY <3>2
      <4> QED
        BY <2>1, <3>2, <4>1, <4>2
    <3>6. size' = n - 1
      BY <1>1, <2>1 DEF List
    <3>7. \A i \in 1 .. n - 1 :
            k[i] < next_pid' /\ k[i] \notin active' /\ ~is_allocated'[k[i]]
      BY <1>1, <2>1, <3>2 DEF List
    <3>8. ASSUME NEW i \in 1 .. n - 1, NEW u \in Threads, Hand(u)' PROVE ctx'[u] # k[i]
      <4>1. k[i] # l[1]
        BY <1>1, <2>6, <3>2 DEF List
      <4> QED
        BY <1>1, <2>2, <2>3, <2>4, <2>6, <3>2, <3>8, <4>1 DEF List
    <3>9. List(n - 1, k)'
      BY <3>3, <3>4, <3>5, <3>6, <3>7, <3>8 DEF List
    <3> QED
      BY <3>1, <3>9 DEF ListOK
  <2> QED
    BY <2>8, <2>10, <2>11, <2>12
<1>5. CASE head # snap[t]
  <2>1. /\ snap' = [snap EXCEPT ![t] = head]
        /\ pc' = [pc EXCEPT ![t] = IF head = NULL THEN "create" ELSE "pop_next"]
        /\ UNCHANGED <<stack, counts, table, next, ctx, held>>
    BY <1>5 DEF PopSwap, Goto, stack
  <2> USE DEF stack, counts, table, held
  <2>2. \A u \in Threads : u # t => pc'[u] = pc[u] /\ snap'[u] = snap[u]
    BY <2>1 DEF Typed
  <2>3. /\ pc'[t] = (IF head = NULL THEN "create" ELSE "pop_next") /\ snap'[t] = head
    BY <2>1 DEF Typed
  <2>4. \A u \in Threads : (Hand(u)' <=> Hand(u)) /\ (Hand(u) => u # t)
    BY <1>2, <2>2, <2>3 DEF Hand, HandLabels
  <2>5. Hands'
    BY <2>1, <2>2, <2>4 DEF Hands
  <2>7. HoldersOK'
    BY <2>1 DEF HoldersOK, Owners, Finders
  <2>8. TableOK'
    <3>1. \A u \in Threads : pc[u] \in {"insert", "push"} => pc'[u] = pc[u]
      BY <1>2, <2>2
    <3>2. \A c : Owners(c)' = Owners(c) /\ Finders(c)' = Finders(c)
      BY <2>1 DEF Owners, Finders
    <3> QED
      BY <2>1, <3>1, <3>2 DEF TableOK
  <2>9. ListOK'
    <3>1. List(n, l)'
      BY <1>1, <2>1, <2>4 DEF List
    <3> QED
      BY <3>1 DEF ListOK
  <2> QED
    BY <2>5, <2>7, <2>8, <2>9
<1> QED
  BY <1>4, <1>5

\* The popped context is made anew, out of everybody's sight.
LEMMA PoppedStep ==
    ASSUME Moving, Typed, NEW t \in Threads, Popped(t) PROVE Moving'
<1> USE DEF Moving
<1> DEFINE c == ctx[t]
<1>1. /\ pc[t] = "popped"
      /\ next_free' = [next_free EXCEPT ![c] = NULL]
      /\ is_allocated' = [is_allocated EXCEPT ![c] = TRUE]
      /\ ref_count' = [ref_count EXCEPT ![c] = 1]
      /\ pc' = [pc EXCEPT ![t] = "insert"]
      /\ UNCHANGED <<head, size, table, locals, held>>
  BY DEF Popped, Goto
<1> USE DEF table, locals, held
<1>2. \A u \in Threads : u # t => pc'[u] = pc[u]
  BY <1>1 DEF Typed
<1>3. pc'[t] = "insert"
  BY <1>1 DEF Typed
<1>4. Hand(t) /\ \A u \in Threads : Hand(u)' <=> Hand(u)
  BY <1>1, <1>2, <1>3 DEF Hand, HandLabels
<1>5. /\ c \in Contexts /\ c < next_pid /\ c \notin active
      /\ \A u \in Threads : Hand(u) /\ ctx[u] = c => u = t
  BY <1>1, <1>4 DEF Hands
<1>7. \A x \in Contexts : x # c =>
        /\ next_free'[x] = next_free[x] /\ ref_count'[x] = ref_count[x]
        /\ is_allocated'[x] = is_allocated[x]
  BY <1>1 DEF Typed
<1>8. is_allocated'[c] /\ ref_count'[c] = 1
  BY <1>1, <1>5 DEF Typed
<1>n. PICK n \in Nat : \E l \in [1 .. n -> Contexts] : List(n, l)
  BY DEF ListOK
<1>l. PICK l \in [1 .. n -> Contexts] : List(n, l)
  BY <1>n
<1>9. \A i \in 1 .. n : l[i] # c /\ l[i] \in Contexts
  BY <1>4, <1>l DEF List
<1>10. Hands'
  <2>1. ASSUME NEW u \in Threads, u # t, Hand(u)'
        PROVE  /\ ctx'[u] \in Contexts /\ ctx'[u] < next_pid'
               /\ \A v \in Threads : Hand(v)' /\ ctx'[v] = ctx'[u] => v = u
               /\ (pc'[u] = "remove") <=> (ctx'[u] \in active')
               /\ pc'[u] = "insert" => is_allocated'[ctx'[u]] /\ ref_count'[ctx'[u]] = 1
               /\ pc'[u] = "remove" => ref_count'[ctx'[u]] = 0
               /\ pc'[u] = "push_cas" => next_free'[ctx'[u]] = snap'[u]
    <3>1. Hand(u) /\ ctx[u] # c /\ ctx[u] \in Contexts /\ pc'[u] = pc[u]
      BY <1>2, <1>4, <1>5, <2>1 DEF Hands
    <3> QED
      BY <1>1, <1>4, <1>7, <3>1 DEF Hands
  <2>2. /\ ctx'[t] \in Contexts /\ ctx'[t] < next_pid'
        /\ \A v \in Threads : Hand(v)' /\ ctx'[v] = ctx'[t] => v = t
        /\ ctx'[t] \notin active' /\ is_allocated'[ctx'[t]] /\ ref_count'[ctx'[t]] = 1
    BY <1>1, <1>4, <1>5, <1>8
  <2> QED
    BY <1>3, <2>1, <2>2 DEF Hands
<1>12. HoldersOK'
  BY <1>1 DEF HoldersOK, Owners, Finders
<1>13. TableOK'
  <2>1. \A u \in Threads : pc[u] \in {"insert", "push"} => pc'[u] = pc[u]
    BY <1>1, <1>2
  <2>2. \A x : Owners(x)' = Owners(x) /\ Finders(x)' = Finders(x)
    BY <1>1 DEF Owners, Finders
  <2>3. \A x \in active : x # c /\ x \in Contexts
    BY <1>5 DEF Typed
  <2>4. \A x \in active : x < next_pid /\ is_allocated'[x]
            /\ ref_count'[x] = Cardinality(Owners(x)) + Cardinality(Finders(x))
    BY <1>7, <2>3 DEF TableOK
  <2>5. ASSUME NEW x \in Contexts, is_allocated'[x]
        PROVE  x \in active \/ \E u \in Threads : pc'[u] \in {"insert", "push"} /\ ctx[u] = x
    BY <1>3, <1>7, <2>1, <2>5 DEF TableOK
  <2>6. active' = active /\ next_pid' = next_pid /\ currently_active' = currently_active
        /\ ctx' = ctx
    BY <1>1
  <2>7. currently_active = Cardinality(active)
    BY DEF TableOK
  <2> QED
    BY <2>2, <2>4, <2>5, <2>6, <2>7 DEF TableOK
<1>14. ListOK'
  <2>1. List(n, l)'
    BY <1>1, <1>4, <1>7, <1>9, <1>l DEF List
  <2> QED
    BY <2>1 DEF ListOK
<1> QED
  BY <1>10, <1>12, <1>13, <1>14

\* A new context, which nobody has seen; or no memory.
LEMMA CreateStep ==
    ASSUME Moving, Typed, NEW t \in Threads, Create(t) PROVE Moving'
<1> USE DEF Moving
<1> DEFINE c == next_pid
<1>1. /\ pc[t] = "create" /\ c \in Contexts /\ next_pid' = c + 1
      /\ UNCHANGED <<stack, active, currently_active, snap, next, held>>
  BY DEF Create
<1> USE DEF stack, counts, held
<1>n. PICK n \in Nat : \E l \in [1 .. n -> Contexts] : List(n, l)
  BY DEF ListOK
<1>l. PICK l \in [1 .. n -> Contexts] : List(n, l)
  BY <1>n
<1>2. /\ \A x \in Contexts : x < next_pid => x < next_pid' /\ x # c
      /\ c < next_pid'
  BY <1>1 DEF Contexts
<1>3. /\ c \notin active
      /\ \A u \in Threads : Hand(u) => ctx[u] \in Contexts /\ ctx[u] # c
      /\ \A i \in 1 .. n : l[i] \in Contexts /\ l[i] # c
  BY <1>2, <1>l DEF TableOK, Hands, List, Typed
<1>4. HoldersOK'
  BY <1>1 DEF HoldersOK, Owners, Finders
<1>5. \A x : Owners(x)' = Owners(x) /\ Finders(x)' = Finders(x)
  BY <1>1 DEF Owners, Finders
<1>6. CASE pc' = [pc EXCEPT ![t] = "insert"] /\ ctx' = [ctx EXCEPT ![t] = c]
           /\ is_allocated' = [is_allocated EXCEPT ![c] = TRUE]
           /\ ref_count' = [ref_count EXCEPT ![c] = 1]
  <2>1. \A u \in Threads : u # t => pc'[u] = pc[u] /\ ctx'[u] = ctx[u]
    BY <1>6 DEF Typed
  <2>2. pc'[t] = "insert" /\ ctx'[t] = c /\ is_allocated'[c] /\ ref_count'[c] = 1
    BY <1>1, <1>6 DEF Typed
  <2>3. ~Hand(t) /\ Hand(t)' /\ \A u \in Threads : u # t => (Hand(u)' <=> Hand(u))
    BY <1>1, <2>1, <2>2 DEF Hand, HandLabels
  <2>4. \A x \in Contexts : x # c =>
          is_allocated'[x] = is_allocated[x] /\ ref_count'[x] = ref_count[x]
    BY <1>6 DEF Typed
  <2>6. Hands'
    <3>1. ASSUME NEW u \in Threads, u # t, Hand(u)'
          PROVE  /\ ctx'[u] \in Contexts /\ ctx'[u] < next_pid'
                 /\ \A v \in Threads : Hand(v)' /\ ctx'[v] = ctx'[u] => v = u
                 /\ (pc'[u] = "remove") <=> (ctx'[u] \in active')
                 /\ pc'[u] = "insert" => is_allocated'[ctx'[u]] /\ ref_count'[ctx'[u]] = 1
                 /\ pc'[u] = "remove" => ref_count'[ctx'[u]] = 0
                 /\ pc'[u] = "push_cas" => next_free'[ctx'[u]] = snap'[u]
      <4>1. /\ Hand(u) /\ ctx'[u] = ctx[u] /\ pc'[u] = pc[u] /\ ctx[u] \in Contexts
            /\ ctx[u] # c /\ ctx[u] < next_pid'
        BY <1>2, <1>3, <2>1, <2>3, <3>1 DEF Hands
      <4>2. \A v \in Threads : Hand(v)' /\ ctx'[v] = ctx[u] => v = u
        BY <2>1, <2>2, <2>3, <4>1 DEF Hands
      <4> QED
        BY <1>1, <2>4, <4>1, <4>2 DEF Hands
    <3>2. \A v \in Threads : Hand(v)' /\ ctx'[v] = c => v = t
      BY <1>3, <2>1, <2>3
    <3> QED
      BY <1>1, <1>2, <1>3, <2>2, <3>1, <3>2 DEF Hands
  <2>8. TableOK'
    <3>1. \A x \in active : x \in Contexts /\ x # c
      BY <1>3 DEF Typed
    <3>2. \A x \in active : x < next_pid' /\ is_allocated'[x]
              /\ ref_count'[x] = Cardinality(Owners(x)) + Cardinality(Finders(x))
      BY <1>2, <2>4, <3>1 DEF TableOK
    <3>3. ASSUME NEW x \in Contexts, is_allocated'[x]
          PROVE  x \in active \/ \E u \in Threads : pc'[u] \in {"insert", "push"} /\ ctx'[u] = x
      BY <1>1, <2>1, <2>2, <2>4, <3>3 DEF TableOK
    <3>4. active' = active /\ currently_active' = currently_active
      BY <1>1
    <3>5. currently_active = Cardinality(active)
      BY DEF TableOK
    <3> QED
      BY <1>5, <3>2, <3>3, <3>4, <3>5 DEF TableOK
  <2>9. ListOK'
    <3>1. \A i \in 1 .. n : l[i] < next_pid' /\ ~is_allocated'[l[i]]
      BY <1>2, <1>3, <1>l, <2>4 DEF List
    <3>2. \A i \in 1 .. n : \A u \in Threads : Hand(u)' => ctx'[u] # l[i]
      BY <1>3, <1>l, <2>1, <2>2, <2>3 DEF List
    <3>3. List(n, l)'
      BY <1>1, <1>l, <3>1, <3>2 DEF List
    <3> QED
      BY <3>3 DEF ListOK
  <2> QED
    BY <1>4, <2>6, <2>8, <2>9
<1>7. CASE pc' = [pc EXCEPT ![t] = "idle"] /\ UNCHANGED <<ctx, counts>>
  <2>1. \A u \in Threads : u # t => pc'[u] = pc[u]
    BY <1>7 DEF Typed
  <2>2. pc'[t] = "idle"
    BY <1>7 DEF Typed
  <2>3. ~Hand(t) /\ \A u \in Threads : Hand(u)' <=> Hand(u)
    BY <1>1, <2>1, <2>2 DEF Hand, HandLabels
  <2>5. Hands'
    <3>1. \A u \in Threads : Hand(u) => ctx[u] < next_pid' /\ pc'[u] = pc[u]
      BY <1>2, <2>1, <2>3 DEF Hands
    <3> QED
      BY <1>1, <1>7, <2>3, <3>1 DEF Hands
  <2>7. TableOK'
    <3>1. \A x \in active : x < next_pid'
      BY <1>2 DEF TableOK, Typed
    <3>2. \A u \in Threads : pc[u] \in {"insert", "push"} => pc'[u] = pc[u]
      BY <1>1, <2>1
    <3> QED
      BY <1>1, <1>5, <1>7, <3>1, <3>2 DEF TableOK
  <2>8. ListOK'
    <3>1. \A i \in 1 .. n : l[i] < next_pid'
      BY <1>2, <1>3, <1>l DEF List
    <3>2. List(n, l)'
      BY <1>1, <1>7, <1>l, <2>3, <3>1 DEF List
    <3> QED
      BY <3>2 DEF ListOK
  <2> QED
    BY <1>4, <2>5, <2>7, <2>8
<1> QED
  BY <1>6, <1>7 DEF Create, Goto

\* The context enters the table, and its caller is the only owner.
LEMMA InsertStep ==
    ASSUME Moving, Typed, NEW t \in Threads, Insert(t) PROVE Moving'
<1> USE DEF Moving
<1> DEFINE c == ctx[t]
<1>1. /\ pc[t] = "insert"
      /\ active' = active \cup {c}
      /\ currently_active' = currently_active + 1
      /\ own' = [own EXCEPT ![t] = @ \cup {c}]
      /\ pc' = [pc EXCEPT ![t] = "idle"]
      /\ UNCHANGED <<stack, counts, next_pid, locals, found>>
  BY DEF Insert, Goto
<1> USE DEF stack, counts, locals
<1>2. \A u \in Threads : u # t => pc'[u] = pc[u]
  BY <1>1 DEF Typed
<1>3. pc'[t] = "idle"
  BY <1>1 DEF Typed
<1>4. Hand(t) /\ ~Hand(t)' /\ \A u \in Threads : u # t => (Hand(u)' <=> Hand(u))
  BY <1>1, <1>2, <1>3 DEF Hand, HandLabels
<1>5. /\ c \in Contexts /\ c < next_pid /\ c \notin active
      /\ \A u \in Threads : Hand(u) /\ ctx[u] = c => u = t
      /\ is_allocated[c] /\ ref_count[c] = 1
  BY <1>1, <1>4 DEF Hands
<1>7. /\ \A x : Finders(x)' = Finders(x)
      /\ \A x : Owners(x)' = IF x = c THEN {t} ELSE Owners(x)
      /\ Owners(c) = {} /\ Finders(c) = {}
  <2>1. Owners(c) = {} /\ Finders(c) = {}
    BY <1>5 DEF HoldersOK
  <2>2. /\ \A x : Finders(x)' = Finders(x)
        /\ \A x : x # c => Owners(x)' = Owners(x)
    BY <1>1 DEF Finders, Owners, Typed
  <2>3. \A u \in Threads : c \in own'[u] <=> u = t
    BY <1>1, <2>1 DEF Owners, Typed
  <2>4. \A x : x = c => Owners(x)' = {t}
    BY <1>1, <2>3 DEF Owners
  <2> QED
    BY <2>1, <2>2, <2>4
<1> HIDE DEF c
<1>8. Hands'
  <2>1. ASSUME NEW u \in Threads, Hand(u)' PROVE u # t /\ Hand(u) /\ ctx[u] # c /\ pc'[u] = pc[u]
    BY <1>2, <1>4, <1>5, <2>1
  <2> QED
    BY <1>1, <2>1 DEF Hands
<1>10. HoldersOK'
  <2>1. ASSUME NEW x \in Contexts
        PROVE  /\ IsFiniteSet(Owners(x)') /\ IsFiniteSet(Finders(x)')
               /\ x \notin active' => Owners(x)' = {} /\ Finders(x)' = {}
               /\ \A u, v \in Owners(x)' : u = v
    <3>1. CASE x = c
      <4>1. Owners(x)' = {t} /\ Finders(x)' = {} /\ x \in active'
        BY <1>1, <1>7, <3>1
      <4> QED
        BY <4>1, FS_Singleton, FS_EmptySet
    <3>2. CASE x # c
      BY <1>1, <1>7, <3>2 DEF HoldersOK
    <3> QED
      BY <3>1, <3>2
  <2> QED
    BY <2>1 DEF HoldersOK
<1>11. TableOK'
  <2>1. ASSUME NEW x \in active'
        PROVE  /\ x < next_pid' /\ is_allocated'[x]
               /\ ref_count'[x] = Cardinality(Owners(x)') + Cardinality(Finders(x)')
    <3>1. CASE x = c
      <4>1. Cardinality(Owners(x)') = 1 /\ Cardinality(Finders(x)') = 0
        BY <1>7, <3>1, FS_Singleton, FS_EmptySet
      <4> QED
        BY <1>1, <1>5, <3>1, <4>1
    <3>2. CASE x # c
      BY <1>1, <1>7, <2>1, <3>2 DEF TableOK
    <3> QED
      BY <3>1, <3>2
  <2>2. currently_active' = Cardinality(active')
    <3>1. IsFiniteSet(active)
      BY ContextsFinite, FS_Subset DEF Typed
    <3>2. Cardinality(active \cup {c}) = Cardinality(active) + 1
      BY <1>5, <3>1, FS_AddElement
    <3> QED
      BY <1>1, <3>2 DEF TableOK
  <2>3. ASSUME NEW x \in Contexts, is_allocated'[x]
        PROVE  x \in active' \/ \E u \in Threads : pc'[u] \in {"insert", "push"} /\ ctx'[u] = x
    <3>1. is_allocated[x] /\ ctx' = ctx
      BY <1>1, <2>3
    <3>2. CASE x \in active
      BY <1>1, <3>2
    <3>3. CASE x = c
      BY <1>1, <3>3
    <3>4. CASE x \notin active /\ x # c
      <4>1. PICK u \in Threads : pc[u] \in {"insert", "push"} /\ ctx[u] = x
        BY <3>1, <3>4 DEF TableOK
      <4>2. u # t
        BY <3>4, <4>1 DEF c
      <4> QED
        BY <1>2, <3>1, <4>1, <4>2
    <3> QED
      BY <3>2, <3>3, <3>4
  <2> QED
    BY <2>1, <2>2, <2>3 DEF TableOK
<1>12. ListOK'
  <2>n. PICK n \in Nat : \E l \in [1 .. n -> Contexts] : List(n, l)
    BY DEF ListOK
  <2>1. PICK l \in [1 .. n -> Contexts] : List(n, l)
    BY <2>n
  <2>2. \A i \in 1 .. n : l[i] # c
    BY <1>4, <2>1 DEF List, c
  <2>3. List(n, l)'
    BY <1>1, <1>4, <2>1, <2>2 DEF List
  <2> QED
    BY <2>3 DEF ListOK
<1> QED
  BY <1>8, <1>10, <1>11, <1>12

-----------------------------------------------------------------------------
(* ios_pid_lookup and ios_pid_release.                                     *)

\* A context with a holder is in the table, counted, and in nobody's hand.
LEMMA HeldIs ==
    ASSUME Moving, Typed, NEW c \in Contexts, NEW t \in Owners(c) \cup Finders(c)
    PROVE  /\ c \in active /\ is_allocated[c] /\ ref_count[c] > 0
           /\ ref_count[c] = Cardinality(Owners(c)) + Cardinality(Finders(c))
           /\ \A u \in Threads : Hand(u) => ctx[u] # c
<1> USE DEF Moving
<1>1. /\ c \in active /\ IsFiniteSet(Owners(c)) /\ IsFiniteSet(Finders(c))
  BY DEF HoldersOK
<1>2. /\ ref_count[c] = Cardinality(Owners(c)) + Cardinality(Finders(c)) /\ is_allocated[c]
  BY <1>1 DEF TableOK
<1>3. Cardinality(Owners(c)) \in Nat /\ Cardinality(Finders(c)) \in Nat
  BY <1>1, FS_CardinalityType
<1>4. Cardinality(Owners(c)) # 0 \/ Cardinality(Finders(c)) # 0
  BY <1>1, FS_EmptySet
<1>5. ref_count[c] > 0
  BY <1>2, <1>3, <1>4
<1>6. \A u \in Threads : Hand(u) => ctx[u] # c
  BY <1>1, <1>5 DEF Hands
<1> QED
  BY <1>1, <1>2, <1>5, <1>6

\* A reference more, to a context that has one already.
LEMMA LookupStep ==
    ASSUME Moving, Typed, NEW t \in Threads, NEW c \in Contexts, Lookup(t, c),
           ~revived'
    PROVE  Moving'
<1> USE DEF Moving
<1>1. /\ c \in active /\ c \notin found[t] /\ ref_count[c] > 0
      /\ ref_count' = [ref_count EXCEPT ![c] = @ + 1]
      /\ found' = [found EXCEPT ![t] = @ \cup {c}]
      /\ UNCHANGED <<stack, is_allocated, table, pc, locals, own>>
  BY DEF Lookup, Typed
<1> USE DEF stack, table, locals
<1>2. \A x \in Contexts : ref_count'[x] = IF x = c THEN ref_count[c] + 1 ELSE ref_count[x]
  BY <1>1 DEF Typed
<1>3. \A x : /\ Owners(x)' = Owners(x)
             /\ Finders(x)' = IF x = c THEN Finders(x) \cup {t} ELSE Finders(x)
  BY <1>1 DEF Owners, Finders, Typed
<1>4. t \notin Finders(c) /\ IsFiniteSet(Finders(c)) /\ IsFiniteSet(Owners(c))
  BY <1>1 DEF Finders, HoldersOK
<1>5. /\ IsFiniteSet(Finders(c) \cup {t})
      /\ Cardinality(Finders(c) \cup {t}) = Cardinality(Finders(c)) + 1
  BY <1>4, FS_AddElement
<1>6. \A u \in Threads : Hand(u)' <=> Hand(u)
  BY <1>1 DEF Hand
<1>7. Hands'
  <2>1. \A u \in Threads : Hand(u) => ctx[u] # c
    BY <1>1 DEF Hands
  <2> QED
    BY <1>1, <1>2, <1>6, <2>1 DEF Hands
<1>9. HoldersOK'
  BY <1>1, <1>3, <1>5 DEF HoldersOK
<1>10. TableOK'
  <2>1. ASSUME NEW x \in active
        PROVE  ref_count'[x] = Cardinality(Owners(x)') + Cardinality(Finders(x)')
    <3>1. x \in Contexts /\ ref_count[x] = Cardinality(Owners(x)) + Cardinality(Finders(x))
      BY DEF TableOK, Typed
    <3>2. CASE x = c
      <4>1. Cardinality(Owners(c)) \in Nat /\ Cardinality(Finders(c)) \in Nat
        BY <1>4, FS_CardinalityType
      <4>2. Owners(x)' = Owners(c) /\ Finders(x)' = Finders(c) \cup {t}
        BY <1>3, <3>2
      <4>3. ref_count'[x] = ref_count[c] + 1
        BY <1>2, <3>1, <3>2
      <4>4. ref_count[c] = Cardinality(Owners(c)) + Cardinality(Finders(c))
        BY <3>1, <3>2
      <4> QED
        BY <1>5, <4>1, <4>2, <4>3, <4>4
    <3>3. CASE x # c
      BY <1>2, <1>3, <3>1, <3>3
    <3> QED
      BY <3>2, <3>3
  <2> QED
    BY <1>1, <2>1 DEF TableOK
<1>11. ListOK'
  <2>n. PICK n \in Nat : \E l \in [1 .. n -> Contexts] : List(n, l)
    BY DEF ListOK
  <2>1. PICK l \in [1 .. n -> Contexts] : List(n, l)
    BY <2>n
  <2>2. List(n, l)'
    BY <1>1, <1>6, <2>1 DEF List
  <2> QED
    BY <2>2 DEF ListOK
<1> QED
  BY <1>7, <1>9, <1>10, <1>11

\* A reference less; whoever drops the last one has the context in hand.
LEMMA ReleaseStep ==
    ASSUME Moving, Typed, NEW t \in Threads, NEW c \in Contexts, Release(t, c)
    PROVE  Moving'
<1> USE DEF Moving
<1>1. /\ pc[t] = "idle"
      /\ \/ c \in own[t] /\ own' = [own EXCEPT ![t] = @ \ {c}] /\ UNCHANGED found
         \/ c \in found[t] /\ found' = [found EXCEPT ![t] = @ \ {c}] /\ UNCHANGED own
      /\ ref_count' = [ref_count EXCEPT ![c] = @ - 1]
      /\ ctx' = [ctx EXCEPT ![t] = c]
      /\ pc' = [pc EXCEPT ![t] = IF ref_count[c] > 1 THEN "idle" ELSE "remove"]
      /\ UNCHANGED <<stack, is_allocated, table, snap, next>>
  BY DEF Release, Goto
<1> USE DEF stack, table
<1>2. t \in Owners(c) \cup Finders(c)
  BY <1>1 DEF Owners, Finders
<1>3. /\ c \in active /\ ref_count[c] > 0 /\ ref_count[c] \in Int
      /\ ref_count[c] = Cardinality(Owners(c)) + Cardinality(Finders(c))
      /\ \A u \in Threads : Hand(u) => ctx[u] # c
  BY <1>2, HeldIs DEF Typed
<1>4. \A u \in Threads : u # t => pc'[u] = pc[u] /\ ctx'[u] = ctx[u]
  BY <1>1 DEF Typed
<1>5. pc'[t] = (IF ref_count[c] > 1 THEN "idle" ELSE "remove") /\ ctx'[t] = c
  BY <1>1 DEF Typed
<1>6. \A x \in Contexts : ref_count'[x] = IF x = c THEN ref_count[c] - 1 ELSE ref_count[x]
  BY <1>1 DEF Typed
<1>7. ~Hand(t) /\ \A u \in Threads : u # t => (Hand(u)' <=> Hand(u))
  BY <1>1, <1>4 DEF Hand, HandLabels
<1>9. IsFiniteSet(Finders(c)) /\ IsFiniteSet(Owners(c))
  BY DEF HoldersOK
<1>10. /\ \A x : x # c => Owners(x)' = Owners(x) /\ Finders(x)' = Finders(x)
       /\ \A x : x = c =>
            /\ IsFiniteSet(Owners(x)') /\ IsFiniteSet(Finders(x)')
            /\ Owners(x)' \subseteq Owners(x)
            /\ Cardinality(Owners(x)') + Cardinality(Finders(x)') = ref_count[c] - 1
  <2>1. CASE c \in own[t] /\ own' = [own EXCEPT ![t] = @ \ {c}] /\ UNCHANGED found
    <3>1. \A x : /\ Finders(x)' = Finders(x)
                 /\ Owners(x)' = IF x = c THEN Owners(x) \ {t} ELSE Owners(x)
      BY <2>1 DEF Owners, Finders, Typed
    <3>2. t \in Owners(c)
      BY <2>1 DEF Owners
    <3>3. /\ IsFiniteSet(Owners(c) \ {t})
          /\ Cardinality(Owners(c) \ {t}) = Cardinality(Owners(c)) - 1
      BY <1>9, <3>2, FS_RemoveElement
    <3>4. Cardinality(Owners(c)) \in Nat /\ Cardinality(Finders(c)) \in Nat
      BY <1>9, FS_CardinalityType
    <3>5. (Cardinality(Owners(c)) - 1) + Cardinality(Finders(c)) = ref_count[c] - 1
      BY <1>3, <3>4
    <3> QED
      BY <1>9, <3>1, <3>3, <3>5
  <2>2. CASE c \in found[t] /\ found' = [found EXCEPT ![t] = @ \ {c}] /\ UNCHANGED own
    <3>1. \A x : /\ Owners(x)' = Owners(x)
                 /\ Finders(x)' = IF x = c THEN Finders(x) \ {t} ELSE Finders(x)
      BY <2>2 DEF Owners, Finders, Typed
    <3>2. t \in Finders(c)
      BY <2>2 DEF Finders
    <3>3. /\ IsFiniteSet(Finders(c) \ {t})
          /\ Cardinality(Finders(c) \ {t}) = Cardinality(Finders(c)) - 1
      BY <1>9, <3>2, FS_RemoveElement
    <3>4. Cardinality(Owners(c)) \in Nat /\ Cardinality(Finders(c)) \in Nat
      BY <1>9, FS_CardinalityType
    <3>5. Cardinality(Owners(c)) + (Cardinality(Finders(c)) - 1) = ref_count[c] - 1
      BY <1>3, <3>4
    <3> QED
      BY <1>9, <3>1, <3>3, <3>5
  <2> QED
    BY <1>1, <2>1, <2>2
<1>11. Hands'
  <2>1. ASSUME NEW u \in Threads, u # t, Hand(u)'
        PROVE  /\ ctx'[u] \in Contexts /\ ctx'[u] < next_pid'
               /\ \A v \in Threads : Hand(v)' /\ ctx'[v] = ctx'[u] => v = u
               /\ (pc'[u] = "remove") <=> (ctx'[u] \in active')
               /\ pc'[u] = "insert" => is_allocated'[ctx'[u]] /\ ref_count'[ctx'[u]] = 1
               /\ pc'[u] = "remove" => ref_count'[ctx'[u]] = 0
               /\ pc'[u] = "push_cas" => next_free'[ctx'[u]] = snap'[u]
    <3>1. Hand(u) /\ ctx'[u] = ctx[u] /\ pc'[u] = pc[u] /\ ctx[u] \in Contexts /\ ctx[u] # c
      BY <1>3, <1>4, <1>7, <2>1 DEF Hands
    <3>2. \A v \in Threads : Hand(v)' /\ ctx'[v] = ctx[u] => v = u
      BY <1>4, <1>5, <1>7, <3>1 DEF Hands
    <3> QED
      BY <1>1, <1>6, <3>1, <3>2 DEF Hands
  <2>2. ASSUME Hand(t)'
        PROVE  /\ ctx'[t] \in Contexts /\ ctx'[t] < next_pid' /\ pc'[t] = "remove"
               /\ \A v \in Threads : Hand(v)' /\ ctx'[v] = ctx'[t] => v = t
               /\ ctx'[t] \in active' /\ ref_count'[ctx'[t]] = 0
    <3>1. pc'[t] = "remove" /\ ~(ref_count[c] > 1)
      BY <1>5, <2>2 DEF Hand, HandLabels
    <3>2. c < next_pid
      BY <1>3 DEF TableOK
    <3>3. \A v \in Threads : Hand(v)' /\ ctx'[v] = c => v = t
      BY <1>3, <1>4, <1>7
    <3> QED
      BY <1>1, <1>3, <1>5, <1>6, <3>1, <3>2, <3>3
  <2> QED
    BY <2>1, <2>2 DEF Hands
<1>13. HoldersOK'
  BY <1>1, <1>3, <1>10 DEF HoldersOK
<1>14. TableOK'
  <2>1. ASSUME NEW x \in active
        PROVE  ref_count'[x] = Cardinality(Owners(x)') + Cardinality(Finders(x)')
    <3>1. x \in Contexts /\ ref_count[x] = Cardinality(Owners(x)) + Cardinality(Finders(x))
      BY DEF TableOK, Typed
    <3> QED
      BY <1>6, <1>10, <3>1
  <2>2. \A u \in Threads : pc[u] \in {"insert", "push"} => pc'[u] = pc[u] /\ ctx'[u] = ctx[u]
    BY <1>1, <1>4
  <2> QED
    BY <1>1, <2>1, <2>2 DEF TableOK
<1>15. ListOK'
  <2>n. PICK n \in Nat : \E l \in [1 .. n -> Contexts] : List(n, l)
    BY DEF ListOK
  <2>1. PICK l \in [1 .. n -> Contexts] : List(n, l)
    BY <2>n
  <2>2. \A i \in 1 .. n : l[i] # c
    BY <1>3, <2>1 DEF List
  <2>3. \A i \in 1 .. n : \A u \in Threads : Hand(u)' => ctx'[u] # l[i]
    BY <1>4, <1>5, <1>7, <2>1, <2>2 DEF List
  <2>4. List(n, l)'
    BY <1>1, <2>1, <2>3 DEF List
  <2> QED
    BY <2>4 DEF ListOK
<1> QED
  BY <1>11, <1>13, <1>14, <1>15

\* The context leaves the table; its count is zero, so nobody holds it.
LEMMA RemoveStep ==
    ASSUME Moving, Typed, NEW t \in Threads, RemoveActive(t) PROVE Moving'
<1> USE DEF Moving
<1> DEFINE c == ctx[t]
<1>1. /\ pc[t] = "remove"
      /\ active' = active \ {c}
      /\ currently_active' = currently_active - 1
      /\ pc' = [pc EXCEPT ![t] = "push"]
      /\ UNCHANGED <<stack, counts, next_pid, locals, held>>
  BY DEF RemoveActive, Goto
<1> USE DEF stack, counts, locals, held
<1>2. \A u \in Threads : u # t => pc'[u] = pc[u]
  BY <1>1 DEF Typed
<1>3. pc'[t] = "push"
  BY <1>1 DEF Typed
<1>4. Hand(t) /\ \A u \in Threads : Hand(u)' <=> Hand(u)
  BY <1>1, <1>2, <1>3 DEF Hand, HandLabels
<1>5. /\ c \in Contexts /\ c < next_pid /\ c \in active /\ ref_count[c] = 0
      /\ \A u \in Threads : Hand(u) /\ ctx[u] = c => u = t
  BY <1>1, <1>4 DEF Hands
<1>7. \A x : Owners(x)' = Owners(x) /\ Finders(x)' = Finders(x)
  BY <1>1 DEF Owners, Finders
<1>8. Owners(c) = {} /\ Finders(c) = {}
  <2>1. ASSUME NEW u \in Owners(c) \cup Finders(c) PROVE FALSE
    BY <1>5, HeldIs
  <2> QED
    BY <2>1
<1>c. ctx' = ctx
  BY <1>1
<1> HIDE DEF c
<1>9. Hands'
  <2>1. ASSUME NEW u \in Threads, u # t, Hand(u)' PROVE Hand(u) /\ ctx[u] # c /\ pc'[u] = pc[u]
    BY <1>2, <1>4, <1>5, <2>1
  <2>2. ASSUME NEW u \in Threads, u # t, Hand(u)'
        PROVE  /\ ctx'[u] \in Contexts /\ ctx'[u] < next_pid'
               /\ \A v \in Threads : Hand(v)' /\ ctx'[v] = ctx'[u] => v = u
               /\ (pc'[u] = "remove") <=> (ctx'[u] \in active')
               /\ pc'[u] = "insert" => is_allocated'[ctx'[u]] /\ ref_count'[ctx'[u]] = 1
               /\ pc'[u] = "remove" => ref_count'[ctx'[u]] = 0
               /\ pc'[u] = "push_cas" => next_free'[ctx'[u]] = snap'[u]
    BY <1>1, <1>4, <2>1, <2>2 DEF Hands
  <2>3. /\ ctx'[t] \in Contexts /\ ctx'[t] < next_pid' /\ ctx'[t] \notin active'
        /\ \A v \in Threads : Hand(v)' /\ ctx'[v] = ctx'[t] => v = t
    BY <1>1, <1>4, <1>5 DEF c
  <2> QED
    BY <1>3, <2>2, <2>3 DEF Hands
<1>11. HoldersOK'
  BY <1>1, <1>7, <1>8 DEF HoldersOK
<1>12. TableOK'
  <2>1. \A x \in active' :
          /\ x < next_pid' /\ is_allocated'[x]
          /\ ref_count'[x] = Cardinality(Owners(x)') + Cardinality(Finders(x)')
    BY <1>1, <1>7 DEF TableOK
  <2>2. currently_active' = Cardinality(active')
    <3>1. IsFiniteSet(active)
      BY ContextsFinite, FS_Subset DEF Typed
    <3>2. Cardinality(active \ {c}) = Cardinality(active) - 1
      BY <1>5, <3>1, FS_RemoveElement
    <3> QED
      BY <1>1, <3>2 DEF TableOK
  <2>3. ASSUME NEW x \in Contexts, is_allocated'[x]
        PROVE  x \in active' \/ \E u \in Threads : pc'[u] \in {"insert", "push"} /\ ctx'[u] = x
    <3>1. is_allocated[x]
      BY <1>1, <2>3
    <3>2. CASE x = c
      BY <1>3, <1>c, <3>2 DEF c
    <3>3. CASE x \in active /\ x # c
      BY <1>1, <3>3
    <3>4. CASE x \notin active
      <4>1. PICK u \in Threads : pc[u] \in {"insert", "push"} /\ ctx[u] = x
        BY <3>1, <3>4 DEF TableOK
      <4> QED
        BY <1>1, <1>2, <1>c, <4>1
    <3> QED
      BY <3>2, <3>3, <3>4
  <2> QED
    BY <2>1, <2>2, <2>3 DEF TableOK
<1>13. ListOK'
  <2>n. PICK n \in Nat : \E l \in [1 .. n -> Contexts] : List(n, l)
    BY DEF ListOK
  <2>1. PICK l \in [1 .. n -> Contexts] : List(n, l)
    BY <2>n
  <2>2. List(n, l)'
    BY <1>1, <1>4, <2>1 DEF List
  <2> QED
    BY <2>2 DEF ListOK
<1> QED
  BY <1>9, <1>11, <1>12, <1>13

-----------------------------------------------------------------------------
(* pid_allocator_push_free_list.                                           *)

\* The context is cleared, head is loaded.
LEMMA PushLoadStep ==
    ASSUME Moving, Typed, NEW t \in Threads, PushLoad(t) PROVE Moving'
<1> USE DEF Moving
<1> DEFINE c == ctx[t]
<1>1. /\ pc[t] = "push"
      /\ is_allocated' = [is_allocated EXCEPT ![c] = FALSE]
      /\ snap' = [snap EXCEPT ![t] = head]
      /\ pc' = [pc EXCEPT ![t] = "push_next"]
      /\ UNCHANGED <<stack, ref_count, table, next, ctx, held>>
  BY DEF PushLoad, Goto
<1> USE DEF stack, table, held
<1>2. \A u \in Threads : u # t => pc'[u] = pc[u] /\ snap'[u] = snap[u]
  BY <1>1 DEF Typed
<1>3. pc'[t] = "push_next"
  BY <1>1 DEF Typed
<1>4. Hand(t) /\ \A u \in Threads : Hand(u)' <=> Hand(u)
  BY <1>1, <1>2, <1>3 DEF Hand, HandLabels
<1>5. /\ c \in Contexts /\ c \notin active
      /\ \A u \in Threads : Hand(u) /\ ctx[u] = c => u = t
  BY <1>1, <1>4 DEF Hands
<1>7. /\ \A x \in Contexts : x # c => is_allocated'[x] = is_allocated[x]
      /\ ~is_allocated'[c]
  BY <1>1, <1>5 DEF Typed
<1>8. Hands'
  <2>1. ASSUME NEW u \in Threads, u # t, Hand(u)'
        PROVE  /\ ctx'[u] \in Contexts /\ ctx'[u] < next_pid'
               /\ \A v \in Threads : Hand(v)' /\ ctx'[v] = ctx'[u] => v = u
               /\ (pc'[u] = "remove") <=> (ctx'[u] \in active')
               /\ pc'[u] = "insert" => is_allocated'[ctx'[u]] /\ ref_count'[ctx'[u]] = 1
               /\ pc'[u] = "remove" => ref_count'[ctx'[u]] = 0
               /\ pc'[u] = "push_cas" => next_free'[ctx'[u]] = snap'[u]
    <3>1. Hand(u) /\ ctx[u] # c /\ ctx[u] \in Contexts /\ pc'[u] = pc[u] /\ snap'[u] = snap[u]
      BY <1>2, <1>4, <1>5, <2>1 DEF Hands
    <3> QED
      BY <1>1, <1>4, <1>7, <3>1 DEF Hands
  <2>2. /\ ctx'[t] \in Contexts /\ ctx'[t] < next_pid' /\ ctx'[t] \notin active'
        /\ \A v \in Threads : Hand(v)' /\ ctx'[v] = ctx'[t] => v = t
    BY <1>1, <1>4, <1>5 DEF Hands
  <2> QED
    BY <1>3, <2>1, <2>2 DEF Hands
<1>10. HoldersOK'
  BY <1>1 DEF HoldersOK, Owners, Finders
<1>11. TableOK'
  <2>1. \A x : Owners(x)' = Owners(x) /\ Finders(x)' = Finders(x)
    BY <1>1 DEF Owners, Finders
  <2>2. \A x \in active : x < next_pid /\ is_allocated'[x]
            /\ ref_count[x] = Cardinality(Owners(x)) + Cardinality(Finders(x))
    BY <1>5, <1>7 DEF TableOK, Typed
  <2>3. ASSUME NEW x \in Contexts, is_allocated'[x]
        PROVE  x \in active \/ \E u \in Threads : pc'[u] \in {"insert", "push"} /\ ctx[u] = x
    <3>1. x # c /\ is_allocated[x]
      BY <1>7, <2>3
    <3>2. CASE x \notin active
      <4>1. PICK u \in Threads : pc[u] \in {"insert", "push"} /\ ctx[u] = x
        BY <3>1, <3>2 DEF TableOK
      <4> QED
        BY <1>2, <3>1, <4>1
    <3> QED
      BY <3>2
  <2>4. /\ active' = active /\ next_pid' = next_pid /\ currently_active' = currently_active
        /\ ctx' = ctx /\ ref_count' = ref_count /\ currently_active = Cardinality(active)
    BY <1>1 DEF TableOK
  <2> QED
    BY <2>1, <2>2, <2>3, <2>4 DEF TableOK
<1>12. ListOK'
  <2>n. PICK n \in Nat : \E l \in [1 .. n -> Contexts] : List(n, l)
    BY DEF ListOK
  <2>1. PICK l \in [1 .. n -> Contexts] : List(n, l)
    BY <2>n
  <2>2. \A i \in 1 .. n : l[i] # c /\ l[i] \in Contexts
    BY <1>4, <2>1 DEF List
  <2>3. List(n, l)'
    BY <1>1, <1>2, <1>4, <1>7, <2>1, <2>2 DEF List
  <2> QED
    BY <2>3 DEF ListOK
<1> QED
  BY <1>8, <1>10, <1>11, <1>12

\* next_free of the context in hand, which is not on the list.
LEMMA PushNextStep ==
    ASSUME Moving, Typed, NEW t \in Threads, PushNext(t) PROVE Moving'
<1> USE DEF Moving
<1> DEFINE c == ctx[t]
<1>1. /\ pc[t] = "push_next"
      /\ next_free' = [next_free EXCEPT ![c] = snap[t]]
      /\ pc' = [pc EXCEPT ![t] = "push_cas"]
      /\ UNCHANGED <<head, size, counts, table, locals, held>>
  BY DEF PushNext, Goto
<1> USE DEF counts, table, locals, held
<1>2. \A u \in Threads : u # t => pc'[u] = pc[u]
  BY <1>1 DEF Typed
<1>3. pc'[t] = "push_cas"
  BY <1>1 DEF Typed
<1>4. Hand(t) /\ \A u \in Threads : Hand(u)' <=> Hand(u)
  BY <1>1, <1>2, <1>3 DEF Hand, HandLabels
<1>5. /\ c \in Contexts /\ c \notin active
      /\ \A u \in Threads : Hand(u) /\ ctx[u] = c => u = t
  BY <1>1, <1>4 DEF Hands
<1>7. /\ \A x \in Contexts : x # c => next_free'[x] = next_free[x]
      /\ next_free'[c] = snap[t]
  BY <1>1, <1>5 DEF Typed
<1>n. PICK n \in Nat : \E l \in [1 .. n -> Contexts] : List(n, l)
  BY DEF ListOK
<1>l. PICK l \in [1 .. n -> Contexts] : List(n, l)
  BY <1>n
<1>8. \A i \in 1 .. n : l[i] # c /\ l[i] \in Contexts
  BY <1>4, <1>l DEF List
<1>9. Hands'
  <2>1. ASSUME NEW u \in Threads, u # t, Hand(u)'
        PROVE  /\ ctx'[u] \in Contexts /\ ctx'[u] < next_pid'
               /\ \A v \in Threads : Hand(v)' /\ ctx'[v] = ctx'[u] => v = u
               /\ (pc'[u] = "remove") <=> (ctx'[u] \in active')
               /\ pc'[u] = "insert" => is_allocated'[ctx'[u]] /\ ref_count'[ctx'[u]] = 1
               /\ pc'[u] = "remove" => ref_count'[ctx'[u]] = 0
               /\ pc'[u] = "push_cas" => next_free'[ctx'[u]] = snap'[u]
    <3>1. Hand(u) /\ ctx[u] # c /\ ctx[u] \in Contexts /\ pc'[u] = pc[u]
      BY <1>2, <1>4, <1>5, <2>1 DEF Hands
    <3> QED
      BY <1>1, <1>4, <1>7, <3>1 DEF Hands
  <2>2. /\ ctx'[t] \in Contexts /\ ctx'[t] < next_pid' /\ ctx'[t] \notin active'
        /\ \A v \in Threads : Hand(v)' /\ ctx'[v] = ctx'[t] => v = t
        /\ next_free'[ctx'[t]] = snap'[t]
    BY <1>1, <1>4, <1>5, <1>7 DEF Hands
  <2> QED
    BY <1>3, <2>1, <2>2 DEF Hands
<1>11. HoldersOK'
  BY <1>1 DEF HoldersOK, Owners, Finders
<1>12. TableOK'
  <2>1. \A u \in Threads : pc[u] \in {"insert", "push"} => pc'[u] = pc[u]
    BY <1>1, <1>2
  <2>2. \A x : Owners(x)' = Owners(x) /\ Finders(x)' = Finders(x)
    BY <1>1 DEF Owners, Finders
  <2> QED
    BY <1>1, <2>1, <2>2 DEF TableOK
<1>13. ListOK'
  <2>1. List(n, l)'
    BY <1>1, <1>4, <1>7, <1>8, <1>l DEF List
  <2> QED
    BY <2>1 DEF ListOK
<1> QED
  BY <1>9, <1>11, <1>12, <1>13

\* The swap puts the context in front of the list; or it fails and the new head is
\* put into next_free.
LEMMA PushSwapStep ==
    ASSUME Moving, Typed, NEW t \in Threads, PushSwap(t) PROVE Moving'
<1> USE DEF Moving
<1> DEFINE c == ctx[t]
<1>n. PICK n \in Nat : \E l \in [1 .. n -> Contexts] : List(n, l)
  BY DEF ListOK
<1>l. PICK l \in [1 .. n -> Contexts] : List(n, l)
  BY <1>n
<1>1. /\ pc[t] = "push_cas"
      /\ UNCHANGED <<next_free, counts, table, next, ctx, held>>
  BY DEF PushSwap
<1> USE DEF counts, table, held
<1>2. Hand(t)
  BY <1>1 DEF Hand, HandLabels
<1>3. /\ c \in Contexts /\ c \notin active /\ c < next_pid /\ next_free[c] = snap[t]
      /\ \A u \in Threads : Hand(u) /\ ctx[u] = c => u = t
  BY <1>1, <1>2 DEF Hands
<1>4. HoldersOK'
  BY <1>1 DEF HoldersOK, Owners, Finders
<1>5. \A x : Owners(x)' = Owners(x) /\ Finders(x)' = Finders(x)
  BY <1>1 DEF Owners, Finders
<1>6. CASE head = snap[t]
  <2>1. /\ head' = c /\ size' = size + 1 /\ pc' = [pc EXCEPT ![t] = "idle"]
        /\ snap' = snap
    BY <1>6 DEF PushSwap, Goto
  <2>2. \A u \in Threads : u # t => pc'[u] = pc[u]
    BY <2>1 DEF Typed
  <2>3. pc'[t] = "idle"
    BY <2>1 DEF Typed
  <2>4. ~Hand(t)' /\ \A u \in Threads : u # t => (Hand(u)' <=> Hand(u))
    BY <2>2, <2>3 DEF Hand, HandLabels
  <2>6. Hands'
    <3>1. \A u \in Threads : Hand(u)' => u # t /\ Hand(u) /\ pc'[u] = pc[u]
      BY <2>2, <2>4
    <3> QED
      BY <1>1, <2>1, <3>1 DEF Hands
  <2>8. TableOK'
    <3>1. \A u \in Threads : pc[u] \in {"insert", "push"} => pc'[u] = pc[u]
      BY <1>1, <2>2
    <3> QED
      BY <1>1, <1>5, <3>1 DEF TableOK
  <2>9. ListOK'
    <3> DEFINE longer == [i \in 1 .. n + 1 |-> IF i = 1 THEN c ELSE l[i - 1]]
    <3>1. n + 1 \in Nat /\ longer \in [1 .. n + 1 -> Contexts]
      BY <1>3
    <3>k. PICK k \in [1 .. n + 1 -> Contexts] : k = longer
      BY <3>1
    <3>2. /\ k[1] = c
          /\ \A i \in 1 .. n + 1 : i = 1 \/ (i - 1 \in 1 .. n /\ k[i] = l[i - 1])
          /\ \A i \in 1 .. n : k[i + 1] = l[i]
      BY <3>k
    <3> HIDE DEF longer
    <3>3. \A i \in 1 .. n : l[i] # c
      BY <1>2, <1>l DEF List
    <3>4. ASSUME NEW i \in 1 .. n + 1, NEW j \in 1 .. n + 1, k[i] = k[j] PROVE i = j
      <4>1. CASE i = 1 \/ j = 1
        BY <3>2, <3>3, <3>4, <4>1
      <4>2. CASE i # 1 /\ j # 1
        <5>1. i - 1 = j - 1
          BY <1>l, <3>2, <3>4, <4>2 DEF List
        <5> QED
          BY <5>1
      <4> QED
        BY <4>1, <4>2
    <3>5. head' = IF n + 1 = 0 THEN NULL ELSE k[1]
      BY <2>1, <3>2
    <3>6. ASSUME NEW i \in 1 .. n + 1
          PROVE  next_free[k[i]] = IF i < n + 1 THEN k[i + 1] ELSE NULL
      <4>1. CASE i = 1
        <5>1. head = IF n = 0 THEN NULL ELSE l[1]
          BY <1>l DEF List
        <5>2. n # 0 => k[2] = l[1]
          <6>1. n # 0 => 1 \in 1 .. n
            OBVIOUS
          <6> QED
            BY <3>2, <6>1
        <5> QED
          BY <1>3, <1>6, <3>2, <4>1, <5>1, <5>2
      <4>2. CASE i # 1
        <5>1. i - 1 \in 1 .. n /\ k[i] = l[i - 1]
          BY <3>2, <4>2
        <5>2. next_free[l[i - 1]] = IF i - 1 < n THEN l[(i - 1) + 1] ELSE NULL
          BY <1>l, <5>1 DEF List
        <5>3. i < n + 1 => k[i + 1] = l[i]
          <6>1. i < n + 1 => i \in 1 .. n
            OBVIOUS
          <6> QED
            BY <3>2, <6>1
        <5>4. (i - 1) + 1 = i /\ (i - 1 < n <=> i < n + 1)
          OBVIOUS
        <5> QED
          BY <5>1, <5>2, <5>3, <5>4
      <4> QED
        BY <4>1, <4>2
    <3>7. size' = n + 1
      BY <1>l, <2>1 DEF List
    <3>8. ~is_allocated[c]
      <4>1. \A u \in Threads : pc[u] \in {"insert", "push"} => ctx[u] # c
        BY <1>1, <1>3 DEF Hand, HandLabels
      <4> QED
        BY <1>3, <4>1 DEF TableOK
    <3>9. \A i \in 1 .. n + 1 :
            k[i] < next_pid /\ k[i] \notin active /\ ~is_allocated[k[i]]
      BY <1>3, <1>l, <3>2, <3>8 DEF List
    <3>10. ASSUME NEW i \in 1 .. n + 1, NEW u \in Threads, Hand(u)' PROVE ctx[u] # k[i]
      <4>1. Hand(u) /\ ctx[u] # c
        BY <1>3, <2>4, <3>10
      <4> QED
        BY <1>l, <3>2, <4>1 DEF List
    <3>12. List(n + 1, k)'
      BY <1>1, <2>1, <3>4, <3>5, <3>6, <3>7, <3>9, <3>10 DEF List
    <3> QED
      BY <3>1, <3>12 DEF ListOK
  <2> QED
    BY <1>4, <2>6, <2>8, <2>9
<1>7. CASE head # snap[t]
  <2>1. /\ snap' = [snap EXCEPT ![t] = head] /\ pc' = [pc EXCEPT ![t] = "push_next"]
        /\ UNCHANGED <<head, size>>
    BY <1>7 DEF PushSwap, Goto
  <2>2. \A u \in Threads : u # t => pc'[u] = pc[u] /\ snap'[u] = snap[u]
    BY <2>1 DEF Typed
  <2>3. pc'[t] = "push_next"
    BY <2>1 DEF Typed
  <2>4. \A u \in Threads : Hand(u)' <=> Hand(u)
    BY <1>1, <2>2, <2>3 DEF Hand, HandLabels
  <2>6. Hands'
    <3>1. ASSUME NEW u \in Threads, u # t, Hand(u)'
          PROVE  /\ ctx'[u] \in Contexts /\ ctx'[u] < next_pid'
                 /\ \A v \in Threads : Hand(v)' /\ ctx'[v] = ctx'[u] => v = u
                 /\ (pc'[u] = "remove") <=> (ctx'[u] \in active')
                 /\ pc'[u] = "insert" => is_allocated'[ctx'[u]] /\ ref_count'[ctx'[u]] = 1
                 /\ pc'[u] = "remove" => ref_count'[ctx'[u]] = 0
                 /\ pc'[u] = "push_cas" => next_free'[ctx'[u]] = snap'[u]
      BY <1>1, <2>2, <2>4, <3>1 DEF Hands
    <3>2. /\ ctx'[t] \in Contexts /\ ctx'[t] < next_pid' /\ ctx'[t] \notin active'
          /\ \A v \in Threads : Hand(v)' /\ ctx'[v] = ctx'[t] => v = t
      BY <1>1, <1>3, <2>4
    <3> QED
      BY <2>3, <3>1, <3>2 DEF Hands
  <2>8. TableOK'
    <3>1. \A u \in Threads : pc[u] \in {"insert", "push"} => pc'[u] = pc[u]
      BY <1>1, <2>2
    <3> QED
      BY <1>1, <1>5, <3>1 DEF TableOK
  <2>9. ListOK'
    <3>1. List(n, l)'
      BY <1>1, <1>l, <2>1, <2>2, <2>4 DEF List
    <3> QED
      BY <3>1 DEF ListOK
  <2> QED
    BY <1>4, <2>6, <2>8, <2>9
<1> QED
  BY <1>6, <1>7

-----------------------------------------------------------------------------
(* The types and the gate.                                                 *)

\* What the step lemmas use of TypeOK.
LEMMA TypedFromTypeOK == TypeOK => Typed
  BY DEF TypeOK, Typed

\* pc stays a function to labels when one thread moves.
LEMMA GotoType ==
    ASSUME pc \in [Threads -> Labels], NEW t \in Threads, NEW label \in Labels,
           pc' = [pc EXCEPT ![t] = label]
    PROVE  pc' \in [Threads -> Labels]
  OBVIOUS

\* Every step of ios_pid_allocate keeps the types.
LEMMA AllocateTypes ==
    ASSUME PidInv, NEW t \in Threads,
           \/ Allocate(t) \/ WaitForCleanup(t) \/ PopLoad(t) \/ PopNext(t) \/ PopSwap(t)
           \/ Popped(t) \/ Create(t) \/ CreateBounded(t) \/ Insert(t)
    PROVE  TypeOK'
<1> USE PidAllocatorAssumption DEF NULL, stack, counts, table, locals, held, gate, history, Goto
<1>1. TypeOK /\ Pointed
  BY DEF PidInv
<1>2. /\ pc[t] = "pop_next" => snap[t] \in Contexts
      /\ pc[t] \in {"popped", "insert"} => ctx[t] \in Contexts
  BY <1>1 DEF Pointed, Hand, HandLabels, Popping
<1>3. CASE Allocate(t)
  BY <1>1, <1>3 DEF Allocate, TypeOK, Labels
<1>4. CASE WaitForCleanup(t)
  BY <1>1, <1>4 DEF WaitForCleanup, TypeOK, Labels
<1>5. CASE PopLoad(t)
  BY <1>1, <1>5 DEF PopLoad, TypeOK, Labels
<1>6. CASE PopNext(t)
  BY <1>1, <1>2, <1>6 DEF PopNext, TypeOK, Labels
<1>7. CASE PopSwap(t)
  <2>1. stale' \in BOOLEAN
    BY <1>1, <1>7, Zenon DEF PopSwap, TypeOK
  <2> QED
    BY <1>1, <1>7, <2>1 DEF PopSwap, TypeOK, Labels
<1>8. CASE Popped(t)
  <2>1. is_allocated' \in [Contexts -> BOOLEAN]
    BY <1>1, <1>2, <1>8, Zenon DEF Popped, TypeOK
  <2>2. next_free' \in [Contexts -> Contexts \cup {NULL}] /\ ref_count' \in [Contexts -> Int]
    BY <1>1, <1>2, <1>8 DEF Popped, TypeOK
  <2> QED
    BY <1>1, <1>8, <2>1, <2>2 DEF Popped, TypeOK, Labels
<1>9. CASE Create(t)
  <2>1. is_allocated' \in [Contexts -> BOOLEAN]
    BY <1>1, <1>9, Zenon DEF Create, TypeOK
  <2>2. next_pid' \in 1 .. MaxPids + 1
    BY <1>1, <1>9 DEF Create, TypeOK, Contexts
  <2>3. ctx' \in [Threads -> Contexts \cup {NULL}] /\ ref_count' \in [Contexts -> Int]
    BY <1>1, <1>9 DEF Create, TypeOK
  <2> QED
    BY <1>1, <1>9, <2>1, <2>2, <2>3 DEF Create, TypeOK, Labels
<1>10. CASE CreateBounded(t)
  BY <1>1, <1>10 DEF CreateBounded, TypeOK, Labels
<1>11. CASE Insert(t)
  BY <1>1, <1>2, <1>11 DEF Insert, TypeOK, Labels
<1> QED
  BY <1>3, <1>4, <1>5, <1>6, <1>7, <1>8, <1>9, <1>10, <1>11

\* Every other step keeps the types.
LEMMA OtherTypes ==
    ASSUME PidInv, NEW t \in Threads,
           \/ \E c \in Contexts : Lookup(t, c) \/ Release(t, c)
           \/ RemoveActive(t) \/ PushLoad(t) \/ PushNext(t) \/ PushSwap(t)
           \/ BeginCleanup(t) \/ EndCleanup(t)
    PROVE  TypeOK'
<1> USE PidAllocatorAssumption DEF NULL, stack, counts, table, locals, held, gate, history, Goto
<1>1. TypeOK /\ Pointed /\ GateOK
  BY DEF PidInv
<1>2. pc[t] \in {"remove", "push", "push_next", "push_cas"} => ctx[t] \in Contexts
  BY <1>1 DEF Pointed, Hand, HandLabels
<1>3. ASSUME NEW c \in Contexts, Lookup(t, c) PROVE TypeOK'
  BY <1>1, <1>3 DEF Lookup, TypeOK
<1>4. ASSUME NEW c \in Contexts, Release(t, c) PROVE TypeOK'
  <2>4. ref_count' \in [Contexts -> Int]
    BY <1>1, <1>4 DEF Release, TypeOK
  <2>5. own' \in [Threads -> SUBSET Contexts] /\ found' \in [Threads -> SUBSET Contexts]
    BY <1>1, <1>4 DEF Release, TypeOK
  <2> QED
    BY <1>1, <1>4, <2>4, <2>5 DEF Release, TypeOK, Labels
<1>5. CASE RemoveActive(t)
  BY <1>1, <1>5 DEF RemoveActive, TypeOK, Labels
<1>6. CASE PushLoad(t)
  <2>1. is_allocated' \in [Contexts -> BOOLEAN]
    BY <1>1, <1>2, <1>6, Zenon DEF PushLoad, TypeOK
  <2> QED
    BY <1>1, <1>6, <2>1 DEF PushLoad, TypeOK, Labels
<1>7. CASE PushNext(t)
  BY <1>1, <1>2, <1>7 DEF PushNext, TypeOK, Labels
<1>8. CASE PushSwap(t)
  BY <1>1, <1>2, <1>8 DEF PushSwap, TypeOK, Labels
<1>9. CASE BeginCleanup(t)
  BY <1>1, <1>9 DEF BeginCleanup, TypeOK
<1>10. CASE EndCleanup(t)
  <2>1. cleanup_counter # 0
    BY <1>1, <1>10, FS_EmptySet DEF EndCleanup, GateOK
  <2>2. cleanup_counter' \in Nat /\ cleaning' \subseteq Threads
    BY <1>1, <1>10, <2>1 DEF EndCleanup, TypeOK
  <2>3. pc' \in [Threads -> Labels]
    BY <1>1, <1>10 DEF EndCleanup, TypeOK, Labels
  <2> QED
    BY <1>1, <1>10, <2>2, <2>3 DEF EndCleanup, TypeOK
<1> QED
  BY <1>3, <1>4, <1>5, <1>6, <1>7, <1>8, <1>9, <1>10

\* The counter of the gate follows the cleanups that begin and end.
LEMMA GateStep == PidInv /\ Next => GateOK'
<1> SUFFICES ASSUME PidInv, Next PROVE GateOK'
  OBVIOUS
<1> USE DEF PidInv, GateOK
<1>1. ASSUME NEW t \in Threads, BeginCleanup(t) PROVE GateOK'
  <2>1. t \notin cleaning
    BY <1>1 DEF BeginCleanup
  <2>2. /\ IsFiniteSet(cleaning \cup {t})
        /\ Cardinality(cleaning \cup {t}) = Cardinality(cleaning) + 1
    BY <2>1, FS_AddElement
  <2> QED
    BY <1>1, <2>2 DEF BeginCleanup
<1>2. ASSUME NEW t \in Threads, EndCleanup(t) PROVE GateOK'
  <2>1. t \in cleaning
    BY <1>2 DEF EndCleanup
  <2>2. /\ IsFiniteSet(cleaning \ {t})
        /\ Cardinality(cleaning \ {t}) = Cardinality(cleaning) - 1
    BY <2>1, FS_RemoveElement
  <2> QED
    BY <1>2, <2>2 DEF EndCleanup
<1>3. ASSUME UNCHANGED gate PROVE GateOK'
  BY <1>3 DEF gate
<1>4. ASSUME NEW t \in Threads, Allocate(t) \/ Work(t) PROVE UNCHANGED gate
  BY <1>4 DEF Allocate, Work, WaitForCleanup, PopLoad, PopNext, PopSwap, Popped, Create,
              CreateBounded, Insert, RemoveActive, PushLoad, PushNext, PushSwap, gate
<1>5. ASSUME NEW t \in Threads, NEW c \in Contexts, Lookup(t, c) \/ Release(t, c)
      PROVE  UNCHANGED gate
  BY <1>5 DEF Lookup, Release, gate
<1>6. Finished => UNCHANGED gate
  BY DEF Finished, vars, gate
<1> QED
  BY <1>1, <1>2, <1>3, <1>4, <1>5, <1>6 DEF Next, Call, GiveBack

-----------------------------------------------------------------------------
(* The invariant.                                                          *)

\* Steps that leave every context where it is.
LEMMA QuietSteps ==
    ASSUME Moving, Typed, NEW t \in Threads,
           \/ Allocate(t) \/ WaitForCleanup(t) \/ CreateBounded(t)
           \/ BeginCleanup(t) \/ EndCleanup(t)
    PROVE  Moving'
<1> USE DEF Goto, HandLabels
<1>1. pc \in [Threads -> Labels]
  BY DEF Typed
<1>2. UNCHANGED <<stack, counts, table, locals, held>>
  BY DEF Allocate, WaitForCleanup, CreateBounded, BeginCleanup, EndCleanup
<1>3. ASSUME NEW u \in Threads
      PROVE  pc'[u] = pc[u] \/ (pc[u] \notin HandLabels /\ pc'[u] \notin HandLabels)
  <2>1. CASE Allocate(t) \/ WaitForCleanup(t) \/ CreateBounded(t)
    BY <1>1, <2>1 DEF Allocate, WaitForCleanup, CreateBounded
  <2>2. CASE BeginCleanup(t) \/ EndCleanup(t)
    BY <1>1, <2>2 DEF BeginCleanup, EndCleanup
  <2> QED
    BY <2>1, <2>2
<1> QED
  BY <1>1, <1>2, <1>3, QuietStep

\* What a step dereferences is a context.
LEMMA PointedStep ==
    ASSUME TypeOK, Pointed, [Next]_vars PROVE Pointed'
<1> USE DEF Goto, Hand, HandLabels, Popping
<1>1. /\ pc \in [Threads -> Labels] /\ snap \in [Threads -> Contexts \cup {NULL}]
      /\ ctx \in [Threads -> Contexts \cup {NULL}] /\ head \in Contexts \cup {NULL}
  BY DEF TypeOK
<1>2. ASSUME UNCHANGED <<snap, ctx>>,
             \A u \in Threads : pc'[u] = pc[u] \/ pc'[u] \notin HandLabels \cup Popping
      PROVE  Pointed'
  BY <1>2 DEF Pointed
<1>3. CASE UNCHANGED vars
  BY <1>2, <1>3 DEF vars
<1>4. CASE Finished
  BY <1>2, <1>4 DEF Finished, vars
<1>5. ASSUME NEW t \in Threads, Call(t) \/ Work(t) \/ GiveBack(t) PROVE Pointed'
  <2>1. CASE Allocate(t) \/ WaitForCleanup(t) \/ CreateBounded(t)
    BY <1>1, <1>2, <2>1 DEF Allocate, WaitForCleanup, CreateBounded, locals
  <2>2. CASE BeginCleanup(t) \/ EndCleanup(t)
    BY <1>1, <1>2, <2>2 DEF BeginCleanup, EndCleanup, locals
  <2>3. ASSUME NEW c \in Contexts, Lookup(t, c) PROVE Pointed'
    BY <1>2, <2>3 DEF Lookup, locals
  <2>4. ASSUME NEW c \in Contexts, Release(t, c) PROVE Pointed'
    BY <1>1, <2>4 DEF Release, Pointed
  <2>5. CASE PopLoad(t)
    BY <1>1, <2>5 DEF PopLoad, Pointed
  <2>6. CASE PopNext(t)
    BY <1>1, <2>6 DEF PopNext, Pointed
  <2>7. CASE PopSwap(t)
    BY <1>1, <2>7 DEF PopSwap, Pointed
  <2>8. CASE Popped(t) \/ Insert(t) \/ RemoveActive(t)
    BY <1>1, <2>8 DEF Popped, Insert, RemoveActive, Pointed, locals
  <2>9. CASE Create(t)
    BY <1>1, <2>9 DEF Create, Pointed, counts
  <2>10. CASE PushLoad(t) \/ PushNext(t)
    BY <1>1, <2>10 DEF PushLoad, PushNext, Pointed, locals
  <2>11. CASE PushSwap(t)
    BY <1>1, <2>11 DEF PushSwap, Pointed
  <2> QED
    BY <1>5, <2>1, <2>2, <2>3, <2>4, <2>5, <2>6, <2>7, <2>8, <2>9, <2>10, <2>11
       DEF Call, Work, GiveBack
<1> QED
  BY <1>3, <1>4, <1>5 DEF Next

\* A race that has happened stays in the history.
LEMMA SoundBefore == ASSUME [Next]_vars, Sound' PROVE Sound
<1> USE DEF Sound
<1>1. CASE UNCHANGED vars \/ Finished
  BY <1>1 DEF Finished, vars
<1>2. ASSUME NEW t \in Threads, PopSwap(t) PROVE Sound
  <2>1. revived' = revived
    BY <1>2 DEF PopSwap
  <2>2. stale => stale'
    <3>1. CASE head = snap[t]
      <4>1. stale' = (stale \/ next[t] # next_free[snap[t]])
        BY <1>2, <3>1 DEF PopSwap
      <4> QED
        BY <4>1
    <3>2. CASE head # snap[t]
      BY <1>2, <3>2 DEF PopSwap
    <3> QED
      BY <3>1, <3>2
  <2> QED
    BY <2>1, <2>2
<1>3. ASSUME NEW t \in Threads, NEW c \in Contexts, Lookup(t, c) PROVE Sound
  BY <1>3, Zenon DEF Lookup
<1>4. ASSUME UNCHANGED history PROVE Sound
  BY <1>4 DEF history
<1>5. ASSUME NEW t \in Threads,
             \/ Allocate(t) \/ WaitForCleanup(t) \/ PopLoad(t) \/ PopNext(t) \/ Popped(t)
             \/ Create(t) \/ CreateBounded(t) \/ Insert(t) \/ RemoveActive(t)
             \/ PushLoad(t) \/ PushNext(t) \/ PushSwap(t) \/ BeginCleanup(t) \/ EndCleanup(t)
             \/ \E c \in Contexts : Release(t, c)
      PROVE  UNCHANGED history
  BY <1>5 DEF Allocate, WaitForCleanup, PopLoad, PopNext, Popped, Create, CreateBounded,
              Insert, Release, RemoveActive, PushLoad, PushNext, PushSwap, BeginCleanup,
              EndCleanup, history
<1> QED
  BY <1>1, <1>2, <1>3, <1>4, <1>5 DEF Next, Call, Work, GiveBack

\* Every step keeps the invariant.
LEMMA PidInvStep ==
    ASSUME PidInv, [Next]_vars PROVE PidInv'
<1>1. Typed /\ TypeOK /\ Pointed
  BY TypedFromTypeOK DEF PidInv
<1>2. Pointed'
  BY <1>1, PointedStep
<1>3. GateOK'
  <2>1. CASE UNCHANGED vars
    BY <2>1 DEF PidInv, GateOK, vars
  <2> QED
    BY <2>1, GateStep
<1>4. TypeOK'
  <2>1. CASE UNCHANGED vars \/ Finished
    BY <1>1, <2>1 DEF TypeOK, vars, Finished
  <2>2. ASSUME NEW t \in Threads, Call(t) \/ Work(t) \/ GiveBack(t) PROVE TypeOK'
    BY <2>2, AllocateTypes, OtherTypes DEF Call, Work, GiveBack
  <2> QED
    BY <2>1, <2>2 DEF Next
<1>5. ASSUME Sound' PROVE Moving'
  <2>1. Moving
    BY <1>5, SoundBefore DEF PidInv
  <2>2. ~stale' /\ ~revived'
    BY <1>5 DEF Sound
  <2>3. CASE UNCHANGED vars \/ Finished
    <3>1. UNCHANGED <<stack, counts, table, locals, held>> /\ pc' = pc
      BY <2>3 DEF vars, Finished, stack, counts, table, locals, held
    <3> QED
      BY <2>1, <3>1, QuietStep
  <2>4. ASSUME NEW t \in Threads, Call(t) \/ Work(t) \/ GiveBack(t) PROVE Moving'
    <3>1. CASE \/ Allocate(t) \/ WaitForCleanup(t) \/ CreateBounded(t)
               \/ BeginCleanup(t) \/ EndCleanup(t)
      BY <1>1, <2>1, <3>1, QuietSteps
    <3>2. ASSUME NEW c \in Contexts, Lookup(t, c) PROVE Moving'
      BY <1>1, <2>1, <2>2, <3>2, LookupStep
    <3>3. ASSUME NEW c \in Contexts, Release(t, c) PROVE Moving'
      BY <1>1, <2>1, <3>3, ReleaseStep
    <3>4. CASE PopLoad(t)
      BY <1>1, <2>1, <3>4, PopLoadStep
    <3>5. CASE PopNext(t)
      BY <1>1, <2>1, <3>5, PopNextStep
    <3>6. CASE PopSwap(t)
      BY <1>1, <2>1, <2>2, <3>6, PopSwapStep
    <3>7. CASE Popped(t)
      BY <1>1, <2>1, <3>7, PoppedStep
    <3>8. CASE Create(t)
      BY <1>1, <2>1, <3>8, CreateStep
    <3>9. CASE Insert(t)
      BY <1>1, <2>1, <3>9, InsertStep
    <3>10. CASE RemoveActive(t)
      BY <1>1, <2>1, <3>10, RemoveStep
    <3>11. CASE PushLoad(t)
      BY <1>1, <2>1, <3>11, PushLoadStep
    <3>12. CASE PushNext(t)
      BY <1>1, <2>1, <3>12, PushNextStep
    <3>13. CASE PushSwap(t)
      BY <1>1, <2>1, <3>13, PushSwapStep
    <3> QED
      BY <2>4, <3>1, <3>2, <3>3, <3>4, <3>5, <3>6, <3>7, <3>8, <3>9, <3>10, <3>11, <3>12,
         <3>13 DEF Call, Work, GiveBack
  <2> QED
    BY <2>3, <2>4 DEF Next
<1> QED
  BY <1>2, <1>3, <1>4, <1>5 DEF PidInv

\* The invariant holds in every reachable state.
THEOREM PidInvAlways == Spec => []PidInv
  BY PidInvInit, PidInvStep, PTL DEF Spec

\* Two callers never have the same context from ios_pid_allocate, and it is in the table,
\* unless a pop swapped in a stale next_free or a lookup revived a context.
THEOREM OwnerIsUnique == Spec => []OwnersShareNothing
<1>1. PidInv => OwnersShareNothing
  <2> SUFFICES ASSUME PidInv, Sound, NEW t \in Threads, NEW c \in own[t]
               PROVE  c \in active /\ \A u \in Threads \ {t} : c \notin own[u]
    BY DEF OwnersShareNothing, UniqueOwner, Sound
  <2>1. c \in Contexts /\ HoldersOK
    BY DEF PidInv, TypeOK, Moving
  <2>2. t \in Owners(c)
    BY DEF Owners
  <2>3. c \in active
    BY <2>1, <2>2 DEF HoldersOK
  <2>4. ASSUME NEW u \in Threads, c \in own[u] PROVE u = t
    <3>1. u \in Owners(c)
      BY <2>4 DEF Owners
    <3> QED
      BY <2>1, <2>2, <3>1 DEF HoldersOK
  <2> QED
    BY <2>3, <2>4
<1> QED
  BY <1>1, PidInvAlways, PTL

\* The types are kept always, and a reference from ios_pid_lookup keeps its context in
\* the table, unless one of the two races happened.
THEOREM ReferencePins == Spec => []ReferencesCounted
<1>1. PidInv => ReferencesCounted
  <2> SUFFICES ASSUME PidInv, Sound, NEW t \in Threads, NEW c \in found[t]
               PROVE  c \in active /\ ref_count[c] > 0
    BY DEF ReferencesCounted, ReferenceKeepsContext, PidInv
  <2>1. Typed /\ Moving
    BY TypedFromTypeOK DEF PidInv
  <2>2. c \in Contexts /\ t \in Finders(c)
    BY <2>1 DEF Typed, Finders
  <2> QED
    BY <2>1, <2>2, HeldIs
<1> QED
  BY <1>1, PidInvAlways, PTL

-----------------------------------------------------------------------------
(* The free list of the model and the one of the invariant.                *)

\* Every set of numbers has a least one.
LEMMA NatMin ==
    ASSUME NEW T, T \subseteq Nat, T # {} PROVE \E x \in T : \A y \in T : x <= y
<1> DEFINE R == OpToRel(<, Nat)
<1>1. IsWellFoundedOn(R, Nat)
  BY NatLessThanWellFounded
<1>2. \A x, y \in Nat : <<x, y>> \in R <=> x < y
  BY DEF OpToRel
<1> HIDE DEF R
<1>3. PICK x \in T : \A y \in T : ~(<<y, x>> \in R)
  BY <1>1, WFMin
<1>4. ASSUME NEW y \in T PROVE x <= y
  <2>1. x \in Nat /\ y \in Nat
    OBVIOUS
  <2>2. ~(<<y, x>> \in R)
    BY <1>3
  <2>3. ~(y < x)
    BY <1>2, <2>1, <2>2
  <2> QED
    BY <2>1, <2>3
<1> QED
  BY <1>4

\* The equation that FreeListAt is defined by.
Follows(f) ==
    f = [k \in Nat |-> IF k = 0 THEN head
                       ELSE IF f[k - 1] = NULL THEN NULL ELSE next_free[f[k - 1]]]

\* The walk from the head visits the contexts of the list, then nothing.
LEMMA WalkIsList ==
    ASSUME NEW n \in Nat, NEW l \in [1 .. n -> Contexts], List(n, l)
    PROVE  \A k \in Nat : FreeListAt[k] = IF k < n THEN l[k + 1] ELSE NULL
<1> DEFINE g == [k \in Nat |-> IF k < n THEN l[k + 1] ELSE NULL]
<1>1. \A i \in 1 .. n : l[i] # NULL
  BY DEF Contexts, NULL
<1>2. /\ head = IF n = 0 THEN NULL ELSE l[1]
      /\ \A i \in 1 .. n : next_free[l[i]] = IF i < n THEN l[i + 1] ELSE NULL
  BY DEF List
<1>3. ASSUME NEW k \in Nat
      PROVE  g[k] = IF k = 0 THEN head
                    ELSE IF g[k - 1] = NULL THEN NULL ELSE next_free[g[k - 1]]
  <2>1. CASE k = 0
    BY <1>2, <2>1
  <2>2. CASE k # 0 /\ k - 1 < n
    <3>1. k \in 1 .. n /\ k - 1 \in Nat
      BY <2>2
    <3>2. g[k - 1] = l[k]
      BY <2>2, <3>1
    <3>3. next_free[l[k]] = g[k]
      BY <1>2, <3>1
    <3> QED
      BY <1>1, <2>2, <3>1, <3>2, <3>3
  <2>3. CASE k # 0 /\ ~(k - 1 < n)
    <3>1. k - 1 \in Nat /\ ~(k < n)
      BY <2>3
    <3> QED
      BY <2>3, <3>1
  <2> QED
    BY <2>1, <2>2, <2>3
<1>4. Follows(g)
  BY <1>3 DEF Follows
<1>g. \A k \in Nat : g[k] = IF k < n THEN l[k + 1] ELSE NULL
  OBVIOUS
<1> HIDE DEF g
<1>5. Follows(FreeListAt)
  <2>1. FreeListAt = CHOOSE f : Follows(f)
    BY DEF FreeListAt, Follows
  <2> QED
    BY <1>4, <2>1
<1>6. ASSUME NEW k \in Nat
      PROVE  FreeListAt[k] = IF k = 0 THEN head ELSE
                             IF FreeListAt[k - 1] = NULL THEN NULL
                             ELSE next_free[FreeListAt[k - 1]]
  BY <1>5 DEF Follows
<1>7. \A k \in Nat : FreeListAt[k] = g[k]
  <2> DEFINE bad == {k \in Nat : FreeListAt[k] # g[k]}
  <2>1. SUFFICES ASSUME bad # {} PROVE FALSE
    OBVIOUS
  <2>2. PICK k \in bad : \A j \in bad : k <= j
    BY <2>1, NatMin
  <2>3. k # 0
    BY <1>3, <1>6
  <2>4. k \in Nat /\ k - 1 \in Nat /\ FreeListAt[k] # g[k]
    BY <2>3
  <2>5. FreeListAt[k - 1] = g[k - 1]
    BY <2>2, <2>4
  <2> QED
    BY <1>3, <1>6, <2>3, <2>4, <2>5
<1> QED
  BY <1>7, <1>g

\* A list of different contexts is no longer than there are contexts.
LEMMA ListIsShort ==
    ASSUME NEW n \in Nat, NEW l \in [1 .. n -> Contexts], List(n, l) PROVE n <= MaxPids
<1>1. MaxPids \in Nat
  BY PidAllocatorAssumption
<1>2. IsFiniteSet(1 .. n) /\ Cardinality(1 .. n) = n
  BY FS_Interval
<1>3. \A i, j \in 1 .. n : l[i] = l[j] => i = j
  BY DEF List
<1>4. ~(Cardinality(Contexts) < Cardinality(1 .. n))
  BY <1>2, <1>3, ContextsFinite, FS_PigeonHole
<1> QED
  BY <1>1, <1>2, <1>4, ContextsFinite

\* The contexts that the walk finds are those of the list, and there are n of them.
LEMMA OnFreeListIs ==
    ASSUME NEW n \in Nat, NEW l \in [1 .. n -> Contexts], List(n, l)
    PROVE  /\ FreeListAt[MaxPids] = NULL
           /\ OnFreeList = {l[i] : i \in 1 .. n}
           /\ Cardinality(OnFreeList) = n
<1>1. MaxPids \in Nat /\ n <= MaxPids
  BY PidAllocatorAssumption, ListIsShort
<1>2. \A k \in Nat : FreeListAt[k] = IF k < n THEN l[k + 1] ELSE NULL
  BY WalkIsList
<1>3. FreeListAt[MaxPids] = NULL
  BY <1>1, <1>2
<1>4. \A i \in 1 .. n : l[i] # NULL
  BY DEF Contexts, NULL
<1>5. ASSUME NEW i \in 1 .. n PROVE l[i] \in OnFreeList
  <2>1. i - 1 \in 0 .. MaxPids /\ i - 1 < n /\ i - 1 \in Nat /\ (i - 1) + 1 = i
    BY <1>1
  <2>2. FreeListAt[i - 1] = l[i]
    BY <1>2, <2>1
  <2> QED
    BY <1>4, <2>1, <2>2 DEF OnFreeList
<1>6. ASSUME NEW c \in OnFreeList PROVE \E i \in 1 .. n : c = l[i]
  <2>1. PICK k \in 0 .. MaxPids : c = FreeListAt[k] /\ c # NULL
    BY DEF OnFreeList
  <2>2. k < n /\ c = l[k + 1]
    BY <1>1, <1>2, <2>1
  <2>3. k + 1 \in 1 .. n
    BY <1>1, <2>2
  <2> QED
    BY <2>2, <2>3
<1>7. OnFreeList = {l[i] : i \in 1 .. n}
  BY <1>5, <1>6
<1>8. IsFiniteSet(1 .. n) /\ Cardinality(1 .. n) = n
  BY FS_Interval
<1>9. l \in Bijection(1 .. n, OnFreeList)
  <2>1. l \in [1 .. n -> OnFreeList]
    BY <1>5
  <2>2. \A i, j \in 1 .. n : l[i] = l[j] => i = j
    BY DEF List
  <2>3. \A c \in OnFreeList : \E i \in 1 .. n : l[i] = c
    BY <1>6
  <2> QED
    BY <2>1, <2>2, <2>3 DEF Bijection, Injection, Surjection, IsInjective
<1>10. Cardinality(OnFreeList) = n
  <2>1. ExistsBijection(1 .. n, OnFreeList)
    BY <1>9 DEF ExistsBijection
  <2> QED
    BY <1>8, <2>1, FS_Bijection
<1> QED
  BY <1>3, <1>7, <1>10

\* When no call is under way the free list ends, it and the table share no context, the
\* two statistics count them, and nothing is marked allocated that is in neither, unless
\* one of the two races happened.
THEOREM NoContextIsLost == Spec => []NothingLost
<1>1. PidInv => NothingLost
  <2> SUFFICES ASSUME PidInv, Sound, \A t \in Threads : pc[t] = "idle"
               PROVE  /\ FreeListAt[MaxPids] = NULL
                      /\ size = Cardinality(OnFreeList)
                      /\ currently_active = Cardinality(active)
                      /\ OnFreeList \cap active = {}
                      /\ \A c \in OnFreeList : ~is_allocated[c]
                      /\ \A c \in Contexts : is_allocated[c] => c \in active
    BY DEF NothingLost
  <2>n. PICK n \in Nat : \E l \in [1 .. n -> Contexts] : List(n, l)
    BY DEF PidInv, Moving, ListOK
  <2>1. PICK l \in [1 .. n -> Contexts] : List(n, l)
    BY <2>n
  <2>2. /\ FreeListAt[MaxPids] = NULL
        /\ OnFreeList = {l[i] : i \in 1 .. n}
        /\ Cardinality(OnFreeList) = n
    BY <2>1, OnFreeListIs
  <2>3. /\ size = n
        /\ \A i \in 1 .. n : l[i] \notin active /\ ~is_allocated[l[i]]
    BY <2>1 DEF List
  <2>4. /\ currently_active = Cardinality(active)
        /\ \A c \in Contexts : is_allocated[c] => c \in active
    BY DEF PidInv, Moving, TableOK
  <2> QED
    BY <2>2, <2>3, <2>4
<1> QED
  BY <1>1, PidInvAlways, PTL

=============================================================================
