------------------------- MODULE SessionTableProofs -------------------------
(***************************************************************************)
(* Proofs about SessionTable, for every set of threads and ids and however *)
(* the calls overlap.  The invariant has four layers.                      *)
(*                                                                         *)
(* ListInv: only the first entry of an id may be open.                     *)
(* CountInv: the counts are exact, and what a reader of the bucket looks   *)
(* at stays in the table, because nothing is freed while there are readers.*)
(* OrphanInv, unless a delete was overtaken: a marked session without      *)
(* references has somebody who frees it, and a delete that does finds it   *)
(* first.                                                                  *)
(* PinInv, unless calls raced around a mark: there is only one who frees   *)
(* it, and only without references.                                        *)
(***************************************************************************)
EXTENDS SessionTable, FiniteSetTheorems, SequenceTheorems, WellFoundedInduction, TLAPS

InTable(s) == \E i \in 1 .. Len(bucket) : bucket[i] = s

Record == [id : Ids \cup {"none"}, ref_count : Int, is_destroying : BOOLEAN, freed : BOOLEAN]

\* TypeOK, but for counts that might be negative.
Types ==
    /\ bucket \in Seq(Sessions)
    /\ session \in [Sessions -> Record]
    /\ total_sessions \in Int /\ total_refs \in Int
    /\ readers \subseteq Threads
    /\ pc \in [Threads -> Labels]
    /\ call \in [Threads -> Ids \cup {"none"}]
    /\ entry \in [Threads -> Sessions \cup {0}]
    /\ ref \in [Threads -> Sessions \cup {0}]
    /\ prev_count \in [Threads -> Int]
    /\ ops \in 0 .. MaxOps

Created(s) == s \in Sessions /\ session[s].id # "none"

\* The list has created sessions, none of them twice, and only the first one of an id
\* may be open.
Listed ==
    /\ \A i \in 1 .. Len(bucket) : Created(bucket[i])
    /\ \A i, j \in 1 .. Len(bucket) : bucket[i] = bucket[j] => i = j
    /\ \A i, j \in 1 .. Len(bucket) :
         i < j /\ session[bucket[i]].id = session[bucket[j]].id
         => session[bucket[j]].is_destroying

\* What a call gets or has a reference to was created before.
CreatedFirst ==
    \A t \in Threads :
      /\ pc[t] \notin {"idle", "undefined"} => call[t] \in Ids
      /\ pc[t] \in {"get_ref", "get_total"} => Created(entry[t])
      /\ ref[t] # 0 => Created(ref[t])

ListInv == Types /\ Listed /\ CreatedFirst

\* A session is blank, in the table, or freed.
Lives ==
    \A s \in Sessions :
      /\ session[s].id = "none" => session[s] = Blank
      /\ InTable(s) <=> session[s].id # "none" /\ ~session[s].freed

Looking == {"get_ref", "get_total", "rel_total", "rel_wr", "del_refs", "del_wr"}
Reading == {"get_ref", "get_total", "del_refs"}
Deleting == {"del_refs", "del_wr"}

\* What a thread that is in a call looks at: a session of the id the call is about, in the
\* table while the thread holds the read lock, and marked when the thread means to free it.
Sees(t) ==
    /\ pc[t] \in Looking => entry[t] \in Sessions /\ session[entry[t]].id = call[t]
    /\ pc[t] \in {"get", "create", "create_wr", "get_ref", "get_total"} => ref[t] = 0
    /\ prev_count[t] \in Nat
    /\ pc[t] \in Reading => t \in readers /\ InTable(entry[t])
    /\ pc[t] \in Deleting \cup {"rel_wr"} => session[entry[t]].is_destroying

Holders(s) == {t \in Threads : ref[t] = s}
Getting(t, s) == pc[t] = "get_total" /\ entry[t] = s
Getters(s) == {t \in Threads : Getting(t, s)}

\* ref_count counts the references that are out or on their way.
SessionCounts ==
    \A s \in Sessions :
      /\ IsFiniteSet(Holders(s)) /\ IsFiniteSet(Getters(s))
      /\ InTable(s) =>
           session[s].ref_count = Cardinality(Holders(s)) + Cardinality(Getters(s))

AllHolders == {t \in Threads : ref[t] # 0}
Leavers == {t \in Threads : pc[t] = "rel_total"}

\* The totals count all of them.
TotalCounts ==
    /\ IsFiniteSet(AllHolders) /\ IsFiniteSet(Leavers)
    /\ total_refs = Cardinality(AllHolders) + Cardinality(Leavers)
    /\ total_sessions = Len(bucket)

CountInv == Lives /\ (\A t \in Threads : Sees(t)) /\ SessionCounts /\ TotalCounts

\* t gave up the last reference to a marked session, which it will free.
WillFree(t) ==
    \/ pc[t] = "rel_wr"
    \/ pc[t] = "rel_total" /\ prev_count[t] = 1 /\ session[entry[t]].is_destroying

\* t is one that frees s.
Tends(t, s) == entry[t] = s /\ (WillFree(t) \/ pc[t] \in Deleting)

\* A marked session without references has somebody who frees it.
Tended ==
    \A s \in Sessions :
      InTable(s) /\ session[s].is_destroying /\ session[s].ref_count = 0 =>
        \E t \in Threads : Tends(t, s)

\* The session t looks at is the first one of its id.
AtFirst(t) ==
    \E i \in 1 .. Len(bucket) :
      bucket[i] = entry[t] /\ \A j \in 1 .. i - 1 : session[bucket[j]].id # call[t]

\* A delete finds the session it marked, if nobody else freed it.
Finds(t) == pc[t] \in Deleting /\ InTable(entry[t]) => AtFirst(t)

OrphanInv == ~overtaken => Tended /\ \A t \in Threads : Finds(t)

\* What a thread relies on when no calls raced: that a session about to get a reference is
\* open; that one with a reference, or whose mark is yet to be read, is in the table; that
\* one about to be freed has no references.
LastRelease(t) == pc[t] = "rel_total" /\ prev_count[t] = 1
Relies(t) ==
    /\ pc[t] = "get_ref" => ~session[entry[t]].is_destroying
    /\ ref[t] # 0 => InTable(ref[t])
    /\ pc[t] \in Deleting \cup {"rel_wr"} \/ LastRelease(t) => InTable(entry[t])
    /\ pc[t] = "del_wr" \/ WillFree(t) => session[entry[t]].ref_count = 0

\* At most one thread frees a session.
OneTends ==
    \A t, u \in Threads : \A s \in Sessions : Tends(t, s) /\ Tends(u, s) => t = u

PinInv == ~raced => ~overtaken /\ OneTends /\ \A t \in Threads : Relies(t)

-----------------------------------------------------------------------------
(* The list and the records.                                               *)

\* Every set of numbers has a least one.
LEMMA NatMin ==
    ASSUME NEW T, T \subseteq Nat, T # {} PROVE \E x \in T : \A y \in T : x <= y
<1> DEFINE R == OpToRel(<, Nat)
<1>1. IsWellFoundedOn(R, Nat)
  BY NatLessThanWellFounded
<1>2. \A x, y \in Nat : <<x, y>> \in R <=> x < y
  BY DEF OpToRel
<1> HIDE DEF R
<1>3. PICK x \in T : \A y \in T : ~(<<y, x>> \in R)
  BY <1>1, WFMin
<1>4. ASSUME NEW y \in T PROVE x <= y
  <2>1. x \in Nat /\ y \in Nat
    OBVIOUS
  <2>2. ~(<<y, x>> \in R)
    BY <1>3
  <2>3. ~(y < x)
    BY <1>2, <2>1, <2>2
  <2> QED
    BY <2>1, <2>3
<1> QED
  BY <1>4

\* The positions of the list.
LEMMA BucketIs ==
    ASSUME Types
    PROVE  /\ Len(bucket) \in Nat /\ DOMAIN bucket = 1 .. Len(bucket)
           /\ \A i \in 1 .. Len(bucket) : bucket[i] \in Sessions
  BY DEF Types

\* session_table_lookup_locked returns the first entry with the id.
LEMMA FirstIs ==
    ASSUME Types, NEW id, Found(id)
    PROVE  /\ First(id) \in 1 .. Len(bucket) /\ session[Lookup(id)].id = id
           /\ Lookup(id) \in Sessions /\ Lookup(id) = bucket[First(id)]
           /\ \A j \in 1 .. First(id) - 1 : session[bucket[j]].id # id
<1> DEFINE T == {i \in 1 .. Len(bucket) : session[bucket[i]].id = id}
<1>1. Len(bucket) \in Nat /\ DOMAIN bucket = 1 .. Len(bucket)
  BY BucketIs
<1>2. T # {} /\ T \subseteq Nat
  BY <1>1 DEF Found
<1>3. PICK i \in T : \A j \in T : i <= j
  BY <1>2, NatMin
<1>4. \A j \in 1 .. i - 1 : j \notin T /\ j \in 1 .. Len(bucket)
  BY <1>1, <1>3
<1>5. /\ i \in DOMAIN bucket /\ session[bucket[i]].id = id
      /\ \A j \in 1 .. i - 1 : session[bucket[j]].id # id
  BY <1>1, <1>4
<1>6. /\ First(id) \in DOMAIN bucket /\ session[bucket[First(id)]].id = id
      /\ \A j \in 1 .. First(id) - 1 : session[bucket[j]].id # id
  BY <1>5 DEF First
<1> QED
  BY <1>1, <1>6, BucketIs DEF Lookup

\* A new entry goes to the head.
LEMMA InsertIs ==
    ASSUME Types, NEW s \in Sessions, bucket' = <<s>> \o bucket
    PROVE  /\ bucket' \in Seq(Sessions) /\ Len(bucket') = Len(bucket) + 1
           /\ bucket'[1] = s
           /\ \A i \in 1 .. Len(bucket) : bucket'[i + 1] = bucket[i]
           /\ \A i \in 1 .. Len(bucket') :
                i = 1 \/ (i - 1 \in 1 .. Len(bucket) /\ bucket'[i] = bucket[i - 1])
<1>1. bucket \in Seq(Sessions) /\ <<s>> \in Seq(Sessions) /\ Len(<<s>>) = 1 /\ <<s>>[1] = s
  BY DEF Types
<1>2. bucket' \in Seq(Sessions) /\ Len(bucket') = Len(bucket) + 1 /\ Len(bucket) \in Nat
  BY <1>1
<1>3. bucket'[1] = s
  BY <1>1, <1>2
<1>4. \A i \in 1 .. Len(bucket) : bucket'[i + 1] = bucket[i]
  BY <1>1, <1>2
<1>5. \A i \in 1 .. Len(bucket') :
        i = 1 \/ (i - 1 \in 1 .. Len(bucket) /\ bucket'[i] = bucket[i - 1])
  BY <1>1, <1>2
<1> QED
  BY <1>2, <1>3, <1>4, <1>5

\* The position that the j-th entry had before the i-th one was unlinked.
Before(i, j) == IF j < i THEN j ELSE j + 1

\* Unlinking an entry leaves the others in their order.
LEMMA RemoveIs ==
    ASSUME Types, NEW i \in 1 .. Len(bucket), bucket' = RemoveAt(bucket, i)
    PROVE  /\ bucket' \in Seq(Sessions) /\ Len(bucket') = Len(bucket) - 1
           /\ \A j \in 1 .. Len(bucket') :
                /\ Before(i, j) \in 1 .. Len(bucket) /\ Before(i, j) # i
                /\ bucket'[j] = bucket[Before(i, j)]
           /\ \A k \in 1 .. Len(bucket) : k # i =>
                \E j \in 1 .. Len(bucket') : k = Before(i, j)
<1> DEFINE a == SubSeq(bucket, 1, i - 1)
           b == SubSeq(bucket, i + 1, Len(bucket))
<1>1. bucket \in Seq(Sessions) /\ Len(bucket) \in Nat
  BY DEF Types
<1>2. a \in Seq(Sessions) /\ Len(a) = i - 1 /\ \A j \in 1 .. i - 1 : a[j] = bucket[j]
  BY <1>1
<1>3. b \in Seq(Sessions) /\ Len(b) = Len(bucket) - i
      /\ \A j \in 1 .. Len(bucket) - i : b[j] = bucket[i + j]
  BY <1>1
<1>4. bucket' = a \o b
  BY DEF RemoveAt
<1> HIDE DEF a, b
<1>5. bucket' \in Seq(Sessions) /\ Len(bucket') = Len(bucket) - 1
  BY <1>1, <1>2, <1>3, <1>4
<1>6. ASSUME NEW j \in 1 .. Len(bucket')
      PROVE  /\ Before(i, j) \in 1 .. Len(bucket) /\ Before(i, j) # i
             /\ bucket'[j] = bucket[Before(i, j)]
  <2>1. CASE j < i
    BY <1>1, <1>2, <1>3, <1>4, <1>5, <2>1 DEF Before
  <2>2. CASE ~(j < i)
    <3>1. j - (i - 1) \in 1 .. Len(bucket) - i /\ i + (j - (i - 1)) = j + 1
      BY <1>1, <1>5, <2>2
    <3>2. bucket'[j] = b[j - (i - 1)]
      BY <1>1, <1>2, <1>3, <1>4, <1>5, <2>2
    <3>3. b[j - (i - 1)] = bucket[j + 1]
      BY <1>3, <3>1
    <3> QED
      BY <1>1, <1>5, <2>2, <3>2, <3>3 DEF Before
  <2> QED
    BY <2>1, <2>2
<1>7. ASSUME NEW k \in 1 .. Len(bucket), k # i
      PROVE  \E j \in 1 .. Len(bucket') : k = Before(i, j)
  <2>1. CASE k < i
    BY <1>1, <1>5, <2>1 DEF Before
  <2>2. CASE ~(k < i)
    <3>1. k - 1 \in 1 .. Len(bucket') /\ ~(k - 1 < i) /\ k = (k - 1) + 1
      BY <1>1, <1>5, <1>7, <2>2
    <3> QED
      BY <3>1 DEF Before
  <2> QED
    BY <2>1, <2>2
<1> QED
  BY <1>5, <1>6, <1>7

\* A reference count changes.
LEMMA CountIs ==
    ASSUME Types, NEW s \in Sessions, NEW n \in Int,
           session' = [session EXCEPT ![s].ref_count = n]
    PROVE  /\ session' \in [Sessions -> Record]
           /\ \A x \in Sessions :
                /\ session'[x].id = session[x].id /\ session'[x].freed = session[x].freed
                /\ session'[x].is_destroying = session[x].is_destroying
                /\ session'[x].ref_count = IF x = s THEN n ELSE session[x].ref_count
  BY DEF Types, Record

\* A session is marked.
LEMMA MarkIs ==
    ASSUME Types, NEW s \in Sessions, session' = [session EXCEPT ![s].is_destroying = TRUE]
    PROVE  /\ session' \in [Sessions -> Record]
           /\ session'[s].is_destroying
           /\ \A x \in Sessions :
                /\ session'[x].id = session[x].id /\ session'[x].freed = session[x].freed
                /\ session'[x].ref_count = session[x].ref_count
                /\ x # s => session'[x] = session[x]
  BY DEF Types, Record

\* A session is freed.
LEMMA FreeIs ==
    ASSUME Types, NEW s \in Sessions, session' = [session EXCEPT ![s].freed = TRUE]
    PROVE  /\ session' \in [Sessions -> Record]
           /\ session'[s].freed
           /\ \A x \in Sessions :
                /\ session'[x].id = session[x].id
                /\ session'[x].is_destroying = session[x].is_destroying
                /\ session'[x].ref_count = session[x].ref_count
                /\ x # s => session'[x] = session[x]
  BY DEF Types, Record

\* A session is created.
LEMMA CreateIs ==
    ASSUME Types, NEW s \in Sessions, NEW id \in Ids,
           session' = [session EXCEPT ![s] = NewSession(id)]
    PROVE  /\ session' \in [Sessions -> Record]
           /\ session'[s].id = id /\ session'[s].ref_count = 1
           /\ ~session'[s].is_destroying /\ ~session'[s].freed
           /\ \A x \in Sessions : x # s => session'[x] = session[x]
<1>1. /\ NewSession(id).id = id /\ NewSession(id).ref_count = 1
      /\ ~NewSession(id).is_destroying /\ ~NewSession(id).freed
  BY DEF NewSession
<1>2. NewSession(id) \in Record
  BY DEF NewSession, Record
<1>3. session'[s] = NewSession(id) /\ \A x \in Sessions : x # s => session'[x] = session[x]
  BY DEF Types
<1>4. session' \in [Sessions -> Record]
  BY <1>2 DEF Types
<1> QED
  BY <1>1, <1>3, <1>4

-----------------------------------------------------------------------------
(* The list.                                                               *)

Same(u) ==
    /\ pc'[u] = pc[u] /\ call'[u] = call[u] /\ entry'[u] = entry[u]
    /\ ref'[u] = ref[u] /\ prev_count'[u] = prev_count[u]

\* A thread changes only what is its own.
LEMMA OthersSame ==
    ASSUME Types, NEW t \in Threads, Call(t) \/ Work(t)
    PROVE  \A u \in Threads \ {t} : Same(u)
<1> USE DEF Same, Goto
<1>0. /\ pc \in [Threads -> Labels] /\ call \in [Threads -> Ids \cup {"none"}]
      /\ entry \in [Threads -> Sessions \cup {0}] /\ ref \in [Threads -> Sessions \cup {0}]
      /\ prev_count \in [Threads -> Int]
  BY DEF Types
<1>1. CASE Call(t)
  BY <1>0, <1>1 DEF Call, Get, GetOrCreate, Delete, Begin
<1>2. CASE GetLookup(t)
  BY <1>0, <1>2 DEF GetLookup
<1>3. CASE GetRef(t) \/ GetUnlock(t)
  BY <1>0, <1>3 DEF GetRef, GetUnlock
<1>4. CASE CreateLocked(t)
  BY <1>0, <1>4 DEF CreateLocked
<1>5. CASE Release(t)
  BY <1>0, <1>5 DEF Release
<1>6. CASE ReleaseFreed(t) \/ ReleaseCheck(t) \/ ReleaseFree(t)
  BY <1>0, <1>6 DEF ReleaseFreed, ReleaseCheck, ReleaseFree
<1>7. CASE DeleteMark(t)
  BY <1>0, <1>7 DEF DeleteMark
<1>8. CASE DeleteRefs(t) \/ DeleteFree(t)
  BY <1>0, <1>8 DEF DeleteRefs, DeleteFree
<1> QED
  BY <1>1, <1>2, <1>3, <1>4, <1>5, <1>6, <1>7, <1>8 DEF Work

\* The list stays, and no id changes and no session is opened again.
LEMMA ListStays ==
    ASSUME Types, Listed, bucket' = bucket,
           \A x \in Sessions : /\ session'[x].id = session[x].id
                               /\ session[x].is_destroying => session'[x].is_destroying
    PROVE  Listed' /\ \A x : Created(x) => Created(x)'
<1>1. Len(bucket) \in Nat /\ \A i \in 1 .. Len(bucket) : bucket[i] \in Sessions
  BY BucketIs
<1>2. \A x : Created(x) => Created(x)'
  BY DEF Created
<1>3. \A i \in 1 .. Len(bucket') : Created(bucket[i])'
  BY DEF Listed, Created
<1> QED
  BY <1>1, <1>2, <1>3 DEF Listed

\* The thread that moved keeps CreatedFirst: so do the others.
LEMMA OthersCreated ==
    ASSUME CreatedFirst, NEW t \in Threads, \A u \in Threads \ {t} : Same(u),
           \A x : Created(x) => Created(x)',
           pc'[t] \notin {"idle", "undefined"} => call'[t] \in Ids,
           pc'[t] \in {"get_ref", "get_total"} => Created(entry[t])',
           ref'[t] # 0 => Created(ref[t])'
    PROVE  CreatedFirst'
<1>1. ASSUME NEW u \in Threads \ {t}
      PROVE  /\ pc'[u] \notin {"idle", "undefined"} => call'[u] \in Ids
             /\ pc'[u] \in {"get_ref", "get_total"} => Created(entry[u])'
             /\ ref'[u] # 0 => Created(ref[u])'
  BY DEF CreatedFirst, Same, Created
<1> QED
  BY <1>1 DEF CreatedFirst

\* A new session at the head: whatever else has its id is being destroyed.
LEMMA ListGrows ==
    ASSUME ListInv, NEW s \in Sessions, NEW id \in Ids, ~Usable(id), session[s] = Blank,
           session' = [session EXCEPT ![s] = NewSession(id)], bucket' = <<s>> \o bucket
    PROVE  /\ Listed' /\ Created(s)' /\ \A x : Created(x) => Created(x)'
           /\ \A i \in 1 .. Len(bucket) : bucket[i] # s
<1>0. Types /\ Listed
  BY DEF ListInv
<1>1. Len(bucket) \in Nat /\ DOMAIN bucket = 1 .. Len(bucket)
      /\ \A i \in 1 .. Len(bucket) : bucket[i] \in Sessions
  BY <1>0, BucketIs
<1>2. /\ session'[s].id = id /\ \A x \in Sessions : x # s => session'[x] = session[x]
  BY <1>0, CreateIs
<1>3. /\ Len(bucket') = Len(bucket) + 1 /\ bucket'[1] = s
      /\ \A i \in 1 .. Len(bucket') :
           i = 1 \/ (i - 1 \in 1 .. Len(bucket) /\ bucket'[i] = bucket[i - 1])
  BY <1>0, InsertIs
<1>4. session[s].id = "none" /\ id # "none"
  BY SessionTableAssumption DEF Blank
<1>5. \A i \in 1 .. Len(bucket) : bucket[i] # s /\ Created(bucket[i])
  BY <1>0, <1>4 DEF Listed, Created
<1>6. \A x : Created(x) => Created(x)'
  BY <1>2, <1>4 DEF Created
<1>7. Created(s)'
  BY <1>2, <1>4 DEF Created
<1>8. ASSUME NEW i \in 1 .. Len(bucket), session[bucket[i]].id = id
      PROVE  session[bucket[i]].is_destroying
  <2>1. Found(id)
    BY <1>1, <1>8 DEF Found
  <2>2. /\ First(id) \in 1 .. Len(bucket) /\ session[bucket[First(id)]].id = id
        /\ \A j \in 1 .. First(id) - 1 : session[bucket[j]].id # id
    BY <1>0, <2>1, FirstIs
  <2>3. session[bucket[First(id)]].is_destroying
    BY <2>1 DEF Usable, Lookup
  <2>4. First(id) = i \/ First(id) < i
    BY <1>1, <1>8, <2>2
  <2> QED
    BY <1>0, <1>8, <2>2, <2>3, <2>4 DEF Listed
<1>9. ASSUME NEW i \in 1 .. Len(bucket'), NEW j \in 1 .. Len(bucket')
      PROVE  /\ Created(bucket'[i]) \/ bucket'[i] = s
             /\ bucket'[i] = bucket'[j] => i = j
             /\ i < j /\ session'[bucket'[i]].id = session'[bucket'[j]].id
                => session'[bucket'[j]].is_destroying
  <2>1. i \in Int /\ j \in Int
    BY <1>1, <1>3
  <2>2. CASE i = 1 /\ j = 1
    BY <1>3, <2>2
  <2>3. CASE i = 1 /\ j # 1
    <3>1. j - 1 \in 1 .. Len(bucket) /\ bucket'[j] = bucket[j - 1] /\ bucket'[i] = s
      BY <1>3, <2>3
    <3>2. bucket[j - 1] # s /\ bucket[j - 1] \in Sessions
      BY <1>1, <1>5, <3>1
    <3>3. session'[bucket[j - 1]] = session[bucket[j - 1]]
      BY <1>2, <3>2
    <3> QED
      BY <1>2, <1>8, <3>1, <3>2, <3>3
  <2>4. CASE i # 1 /\ j = 1
    <3>1. i - 1 \in 1 .. Len(bucket) /\ bucket'[i] = bucket[i - 1] /\ bucket'[j] = s
      BY <1>3, <2>4
    <3>2. ~(i < j)
      BY <2>1, <2>4, <3>1, <1>1
    <3> QED
      BY <1>5, <3>1, <3>2
  <2>5. CASE i # 1 /\ j # 1
    <3>1. /\ i - 1 \in 1 .. Len(bucket) /\ bucket'[i] = bucket[i - 1]
          /\ j - 1 \in 1 .. Len(bucket) /\ bucket'[j] = bucket[j - 1]
      BY <1>3, <2>5
    <3>2. /\ session'[bucket[i - 1]] = session[bucket[i - 1]] /\ Created(bucket[i - 1])
          /\ session'[bucket[j - 1]] = session[bucket[j - 1]]
      BY <1>1, <1>2, <1>5, <3>1
    <3>3. bucket[i - 1] = bucket[j - 1] => i - 1 = j - 1
      BY <1>0, <3>1 DEF Listed
    <3>4. i < j => i - 1 < j - 1
      BY <2>1
    <3>5. i - 1 < j - 1 /\ session[bucket[i - 1]].id = session[bucket[j - 1]].id
          => session[bucket[j - 1]].is_destroying
      BY <1>0, <3>1 DEF Listed
    <3> QED
      BY <2>1, <3>1, <3>2, <3>3, <3>4, <3>5
  <2> QED
    BY <2>2, <2>3, <2>4, <2>5
<1>10. \A i \in 1 .. Len(bucket') : Created(bucket[i])'
  BY <1>6, <1>7, <1>9 DEF Created
<1> QED
  BY <1>5, <1>6, <1>7, <1>9, <1>10 DEF Listed

\* An entry is unlinked: the others keep their order.
LEMMA ListShrinks ==
    ASSUME ListInv, NEW i \in 1 .. Len(bucket), Free(i)
    PROVE  /\ Listed' /\ \A x : Created(x) => Created(x)'
           /\ \A x \in Sessions : InTable(x)' <=> InTable(x) /\ x # bucket[i]
<1>0. Types /\ Listed
  BY DEF ListInv
<1>1. Len(bucket) \in Nat /\ \A k \in 1 .. Len(bucket) : bucket[k] \in Sessions
  BY <1>0, BucketIs
<1>2. \A x \in Sessions : /\ session'[x].id = session[x].id
                          /\ session'[x].is_destroying = session[x].is_destroying
  BY <1>0, <1>1, FreeIs DEF Free
<1>3. /\ Len(bucket') = Len(bucket) - 1
      /\ \A j \in 1 .. Len(bucket') :
           /\ Before(i, j) \in 1 .. Len(bucket) /\ Before(i, j) # i
           /\ bucket'[j] = bucket[Before(i, j)]
      /\ \A k \in 1 .. Len(bucket) : k # i => \E j \in 1 .. Len(bucket') : k = Before(i, j)
  BY <1>0, RemoveIs DEF Free
<1>4. \A x : Created(x) => Created(x)'
  BY <1>2 DEF Created
<1>5. ASSUME NEW x \in Sessions PROVE InTable(x)' <=> InTable(x) /\ x # bucket[i]
  <2>1. ASSUME NEW j \in 1 .. Len(bucket'), bucket'[j] = x PROVE InTable(x) /\ x # bucket[i]
    BY <1>0, <1>3, <2>1 DEF InTable, Listed
  <2>2. ASSUME NEW k \in 1 .. Len(bucket), bucket[k] = x, x # bucket[i]
        PROVE  \E j \in 1 .. Len(bucket') : bucket'[j] = x
    BY <1>3, <2>2
  <2>3. InTable(x)' <=> \E j \in 1 .. Len(bucket') : bucket'[j] = x
    BY DEF InTable
  <2>4. InTable(x) <=> \E k \in 1 .. Len(bucket) : bucket[k] = x
    BY DEF InTable
  <2> QED
    BY <2>1, <2>2, <2>3, <2>4
<1>6. \A j, k \in 1 .. Len(bucket') : /\ j < k => Before(i, j) < Before(i, k)
                                      /\ Before(i, j) = Before(i, k) => j = k
  BY <1>1, <1>3 DEF Before
<1>7. ASSUME NEW j \in 1 .. Len(bucket') PROVE Created(bucket[j])'
  <2>1. PICK a \in 1 .. Len(bucket) : bucket'[j] = bucket[a]
    BY <1>3
  <2>2. Created(bucket[a])
    BY <1>0 DEF Listed
  <2> QED
    BY <1>2, <2>1, <2>2 DEF Created
<1>8. \A j, k \in 1 .. Len(bucket') : bucket'[j] = bucket'[k] => j = k
  BY <1>0, <1>3, <1>6 DEF Listed
<1>9. ASSUME NEW j \in 1 .. Len(bucket'), NEW k \in 1 .. Len(bucket'),
             j < k, session'[bucket'[j]].id = session'[bucket'[k]].id
      PROVE  session'[bucket'[k]].is_destroying
  <2>1. PICK a \in 1 .. Len(bucket) : a = Before(i, j) /\ bucket'[j] = bucket[a]
    BY <1>3
  <2>2. PICK b \in 1 .. Len(bucket) : b = Before(i, k) /\ bucket'[k] = bucket[b]
    BY <1>3
  <2>3. a < b
    BY <1>6, <1>9, <2>1, <2>2
  <2>4. session[bucket[a]].id = session[bucket[b]].id
    BY <1>1, <1>2, <1>9, <2>1, <2>2
  <2>5. session[bucket[b]].is_destroying
    BY <1>0, <2>3, <2>4 DEF Listed
  <2> QED
    BY <1>1, <1>2, <2>2, <2>5
<1> QED
  BY <1>4, <1>5, <1>7, <1>8, <1>9 DEF Listed

\* At the start the list is empty.
LEMMA ListInvInit == Init => ListInv
<1> SUFFICES ASSUME Init PROVE ListInv
  OBVIOUS
<1> USE SessionTableAssumption DEF Init
<1>1. bucket = <<>> /\ Len(bucket) = 0 /\ bucket \in Seq(Sessions)
  OBVIOUS
<1>2. Blank \in Record
  BY DEF Blank, Record
<1>3. session \in [Sessions -> Record]
  BY <1>2
<1>4. ops \in 0 .. MaxOps
  OBVIOUS
<1>5. pc \in [Threads -> Labels]
  BY DEF Labels
<1>6. Types
  BY <1>1, <1>3, <1>4, <1>5 DEF Types
<1>7. Listed
  BY <1>1 DEF Listed
<1>8. CreatedFirst
  BY DEF CreatedFirst
<1> QED
  BY <1>6, <1>7, <1>8 DEF ListInv

\* A call begins.
LEMMA ListBegin ==
    ASSUME ListInv, NEW t \in Threads, Call(t) PROVE ListInv'
<1>1. PICK id \in Ids, label \in {"get", "create", "del"} : Begin(t, id, label)
  BY DEF Call, Get, GetOrCreate, Delete
<1>2. Types'
  BY <1>1, SessionTableAssumption DEF ListInv, Types, Begin, Goto, Labels
<1>3. Listed' /\ \A x : Created(x) => Created(x)'
  BY <1>1, ListStays DEF ListInv, Begin
<1>4. \A u \in Threads \ {t} : Same(u)
  BY OthersSame DEF ListInv
<1>5. pc'[t] = label /\ call'[t] = id /\ ref' = ref /\ (ref[t] # 0 => Created(ref[t]))
  BY <1>1 DEF ListInv, Types, Begin, Goto, CreatedFirst
<1>6. ref'[t] # 0 => Created(ref[t])'
  BY <1>3, <1>5 DEF Created
<1>7. CreatedFirst'
  BY <1>1, <1>3, <1>4, <1>5, <1>6, OthersCreated DEF ListInv
<1> QED
  BY <1>2, <1>3, <1>7 DEF ListInv

\* The steps that change neither the list nor a session.
LEMMA ListQuiet ==
    ASSUME ListInv, NEW t \in Threads, UNCHANGED <<bucket, session>>,
           \/ GetLookup(t) \/ GetUnlock(t) \/ ReleaseFreed(t) \/ ReleaseCheck(t)
           \/ DeleteRefs(t)
    PROVE  ListInv'
<1>0. Types /\ Listed /\ CreatedFirst
  BY DEF ListInv
<1>1. Listed' /\ \A x : Created(x) => Created(x)'
  BY <1>0, ListStays
<1>2. \A u \in Threads \ {t} : Same(u)
  BY <1>0, OthersSame DEF Work
<1>3. call' = call /\ (pc[t] \notin {"idle", "undefined"} => call[t] \in Ids)
  BY <1>0 DEF CreatedFirst, GetLookup, GetUnlock, ReleaseFreed, ReleaseCheck, DeleteRefs
<1>4. CASE GetLookup(t)
  <2>0. call[t] \in Ids
    BY <1>3, <1>4 DEF GetLookup
  <2>1. ASSUME Usable(call[t]) PROVE Lookup(call[t]) \in Sessions /\ Created(Lookup(call[t]))
    BY <1>0, <2>0, <2>1, FirstIs, SessionTableAssumption DEF Usable, Created
  <2>2. Types'
    <3>1. pc' \in [Threads -> Labels]
      BY <1>0, <1>4 DEF Types, GetLookup, Goto, Labels
    <3>2. entry' \in [Threads -> Sessions \cup {0}] /\ readers' \subseteq Threads
      BY <1>0, <1>4, <2>1 DEF Types, GetLookup
    <3>3. UNCHANGED <<total_sessions, total_refs, call, ref, prev_count, ops>>
      BY <1>4 DEF GetLookup
    <3> QED
      BY <1>0, <3>1, <3>2, <3>3 DEF Types
  <2>3. pc'[t] \in {"get_ref", "get_total"} => Created(entry[t])'
    BY <1>0, <1>4, <2>1 DEF Types, GetLookup, Goto, Created
  <2>4. ref'[t] # 0 => Created(ref[t])'
    BY <1>0, <1>4 DEF CreatedFirst, GetLookup, Created
  <2> QED
    BY <1>0, <1>1, <1>2, <1>3, <2>0, <2>2, <2>3, <2>4, OthersCreated DEF ListInv
<1>5. CASE GetUnlock(t)
  <2>1. Created(entry[t]) /\ entry[t] \in Sessions
    BY <1>0, <1>5 DEF CreatedFirst, GetUnlock, Created
  <2>2. Types'
    BY <1>0, <1>5, <2>1 DEF Types, GetUnlock, Goto, Labels
  <2>3. pc'[t] = "idle" /\ ref'[t] = entry[t]
    BY <1>0, <1>5 DEF Types, GetUnlock, Goto
  <2> QED
    BY <1>0, <1>1, <1>2, <1>3, <2>1, <2>2, <2>3, OthersCreated DEF ListInv, Created
<1>6. CASE ReleaseFreed(t) \/ ReleaseCheck(t) \/ DeleteRefs(t)
  <2>0. /\ pc' \in [Threads -> Labels] /\ total_refs' \in Int /\ readers' \subseteq Threads
        /\ UNCHANGED <<total_sessions, call, entry, ref, prev_count, ops>>
        /\ pc'[t] \in {"idle", "undefined", "rel_wr", "del_wr"}
        /\ pc[t] = "idle" => pc'[t] = "undefined"
    <3>1. CASE ReleaseCheck(t)
      <4>1. PICK l \in {"idle", "undefined", "rel_wr"} : Goto(t, l)
        BY <3>1 DEF ReleaseCheck
      <4>2. pc' \in [Threads -> Labels] /\ pc'[t] = l
        BY <1>0, <4>1 DEF Types, Goto, Labels
      <4>3. total_refs' \in Int /\ readers' \subseteq Threads /\ pc[t] # "idle"
        BY <1>0, <3>1 DEF Types, ReleaseCheck
      <4> QED
        BY <3>1, <4>2, <4>3 DEF ReleaseCheck
    <3>2. CASE DeleteRefs(t)
      BY <1>0, <3>2 DEF Types, DeleteRefs, Goto, Labels
    <3>3. CASE ReleaseFreed(t)
      BY <1>0, <3>3 DEF Types, ReleaseFreed, Goto, Labels
    <3> QED
      BY <1>6, <3>1, <3>2, <3>3
  <2>1. Types'
    BY <1>0, <2>0 DEF Types
  <2>2. pc[t] # "undefined"
    BY <1>6 DEF ReleaseFreed, ReleaseCheck, DeleteRefs
  <2>3. ref'[t] # 0 => Created(ref[t])'
    BY <1>0, <2>0 DEF CreatedFirst, Created
  <2>4. /\ pc'[t] \notin {"idle", "undefined"} => call'[t] \in Ids
        /\ pc'[t] \in {"get_ref", "get_total"} => Created(entry[t])'
    BY <1>3, <2>0, <2>2
  <2> QED
    BY <1>0, <1>1, <1>2, <2>1, <2>3, <2>4, OthersCreated DEF ListInv
<1> QED
  BY <1>4, <1>5, <1>6

\* A reference count goes up or down.
LEMMA ListCount ==
    ASSUME ListInv, NEW t \in Threads,
           \/ GetRef(t) \/ Release(t) \/ (CreateLocked(t) /\ Usable(call[t]))
    PROVE  ListInv'
<1>0. Types /\ Listed /\ CreatedFirst
  BY DEF ListInv
<1>1. PICK s \in Sessions :
        /\ s = IF pc[t] = "get_ref" THEN entry[t]
               ELSE IF pc[t] = "idle" THEN ref[t] ELSE Lookup(call[t])
        /\ Created(s)
  <2>1. CASE GetRef(t)
    BY <1>0, <2>1 DEF CreatedFirst, GetRef, Created
  <2>2. CASE Release(t)
    BY <1>0, <2>2 DEF CreatedFirst, Release, Created
  <2>3. CASE CreateLocked(t) /\ Usable(call[t])
    <3>1. pc[t] = "create_wr" /\ call[t] \in Ids
      BY <1>0, <2>3 DEF CreatedFirst, CreateLocked
    <3>2. Lookup(call[t]) \in Sessions /\ session[Lookup(call[t])].id = call[t]
      BY <1>0, <2>3, FirstIs DEF Usable
    <3> QED
      BY <3>1, <3>2, SessionTableAssumption DEF Created
  <2> QED
    BY <2>1, <2>2, <2>3
<1>2. session[s].ref_count \in Int /\ session[s].id \in Ids
  BY <1>0, <1>1 DEF Types, Record, Created
<1>3. \E n \in Int : session' = [session EXCEPT ![s].ref_count = n]
  <2>1. CASE GetRef(t)
    <3>1. entry[t] = s
      BY <1>1, <2>1 DEF GetRef
    <3>2. session' = [session EXCEPT ![s].ref_count = session[s].ref_count + 1]
      BY <2>1, <3>1 DEF GetRef
    <3>3. session[s].ref_count + 1 \in Int
      BY <1>2
    <3> QED
      BY <3>2, <3>3, Zenon
  <2>2. CASE Release(t)
    <3>1. ref[t] = s
      BY <1>1, <2>2 DEF Release
    <3>2. session' = [session EXCEPT ![s].ref_count = session[s].ref_count - 1]
      BY <2>2, <3>1 DEF Release
    <3>3. session[s].ref_count - 1 \in Int
      BY <1>2
    <3> QED
      BY <3>2, <3>3, Zenon
  <2>3. CASE CreateLocked(t) /\ Usable(call[t])
    BY <1>1, <1>2, <2>3 DEF CreateLocked
  <2> QED
    BY <2>1, <2>2, <2>3
<1>4. /\ session' \in [Sessions -> Record]
      /\ \A x \in Sessions : /\ session'[x].id = session[x].id
                             /\ session'[x].is_destroying = session[x].is_destroying
  BY <1>0, <1>3, CountIs
<1>5. bucket' = bucket
  BY DEF GetRef, Release, CreateLocked
<1>6. Listed' /\ \A x : Created(x) => Created(x)'
  BY <1>0, <1>4, <1>5, ListStays
<1>7. \A u \in Threads \ {t} : Same(u)
  BY <1>0, OthersSame DEF Work
<1>8. CASE GetRef(t)
  <2>1. Types'
    BY <1>0, <1>4, <1>8 DEF Types, GetRef, Goto, Labels
  <2>2. /\ pc'[t] = "get_total" /\ call' = call /\ call[t] \in Ids
        /\ entry' = entry /\ ref' = ref /\ entry[t] = s /\ (ref[t] # 0 => Created(ref[t]))
    BY <1>0, <1>1, <1>8 DEF Types, GetRef, Goto, CreatedFirst
  <2>3. Created(entry[t])' /\ (ref'[t] # 0 => Created(ref[t])')
    BY <1>1, <1>6, <2>2 DEF Created
  <2> QED
    BY <1>0, <1>6, <1>7, <2>1, <2>2, <2>3, OthersCreated DEF ListInv
<1>9. CASE Release(t)
  <2>1. Types'
    BY <1>0, <1>1, <1>2, <1>4, <1>9 DEF Types, Release, Goto, Labels
  <2>2. pc'[t] = "rel_total" /\ call'[t] \in Ids /\ ref'[t] = 0
    BY <1>0, <1>1, <1>2, <1>9 DEF Types, Release, Goto
  <2> QED
    BY <1>0, <1>6, <1>7, <2>1, <2>2, OthersCreated DEF ListInv
<1>10. CASE CreateLocked(t) /\ Usable(call[t])
  <2>1. /\ pc' = [pc EXCEPT ![t] = "idle"] /\ ref' = [ref EXCEPT ![t] = s]
        /\ total_refs' = total_refs + 1 /\ pc[t] = "create_wr"
        /\ UNCHANGED <<total_sessions, readers, call, entry, prev_count, ops>>
    BY <1>1, <1>10 DEF CreateLocked, Goto
  <2>2. Types'
    BY <1>0, <1>4, <1>5, <2>1 DEF Types, Labels
  <2>3. pc'[t] = "idle" /\ ref'[t] = s
    BY <1>0, <2>1 DEF Types
  <2>4. Created(ref[t])'
    BY <1>1, <1>6, <2>3 DEF Created
  <2> QED
    BY <1>0, <1>6, <1>7, <2>2, <2>3, <2>4, OthersCreated DEF ListInv
<1> QED
  BY <1>8, <1>9, <1>10

\* A new session, or none for want of memory.
LEMMA ListCreate ==
    ASSUME ListInv, NEW t \in Threads, CreateLocked(t), ~Usable(call[t])
    PROVE  ListInv'
<1>0. Types /\ Listed /\ CreatedFirst
  BY DEF ListInv
<1>1. /\ pc[t] = "create_wr" /\ call[t] \in Ids
      /\ pc' = [pc EXCEPT ![t] = "idle"]
      /\ UNCHANGED <<readers, call, entry, prev_count, ops>>
  BY <1>0 DEF CreateLocked, CreatedFirst, Goto
<1>2. \A u \in Threads \ {t} : Same(u)
  BY <1>0, OthersSame DEF Work
<1>3. pc' \in [Threads -> Labels] /\ pc'[t] = "idle"
  BY <1>0, <1>1 DEF Types, Labels
<1>4. CASE UNCHANGED <<bucket, session, total_sessions, total_refs, ref>>
  <2>1. Types'
    BY <1>0, <1>1, <1>3, <1>4 DEF Types
  <2>2. Listed' /\ \A x : Created(x) => Created(x)'
    BY <1>0, <1>4, ListStays
  <2>3. ref'[t] # 0 => Created(ref[t])'
    BY <1>0, <1>4, <2>2 DEF CreatedFirst, Created
  <2> QED
    BY <1>0, <1>2, <1>3, <2>1, <2>2, <2>3, OthersCreated DEF ListInv
<1>5. ASSUME NEW s \in Sessions, session[s] = Blank, bucket' = <<s>> \o bucket,
             session' = [session EXCEPT ![s] = NewSession(call[t])],
             ref' = [ref EXCEPT ![t] = s],
             total_sessions' = total_sessions + 1, total_refs' = total_refs + 1
      PROVE  ListInv'
  <2>1. Listed' /\ Created(s)' /\ \A x : Created(x) => Created(x)'
    BY <1>1, <1>5, ListGrows
  <2>2. session' \in [Sessions -> Record] /\ bucket' \in Seq(Sessions)
    BY <1>0, <1>1, <1>5, CreateIs, InsertIs
  <2>3. Types'
    BY <1>0, <1>1, <1>3, <1>5, <2>2 DEF Types
  <2>4. ref'[t] = s
    BY <1>0, <1>5 DEF Types
  <2>5. Created(ref[t])'
    BY <2>1, <2>4 DEF Created
  <2> QED
    BY <1>0, <1>2, <1>3, <2>1, <2>3, <2>5, OthersCreated DEF ListInv
<1> QED
  BY <1>4, <1>5 DEF CreateLocked

\* A session is marked.
LEMMA ListMark ==
    ASSUME ListInv, NEW t \in Threads, DeleteMark(t)
    PROVE  ListInv'
<1>0. Types /\ Listed /\ CreatedFirst
  BY DEF ListInv
<1>1. /\ pc[t] = "del" /\ call[t] \in Ids
      /\ UNCHANGED <<bucket, total_sessions, total_refs, call, ref, prev_count, ops>>
  BY <1>0 DEF DeleteMark, CreatedFirst
<1>2. \A u \in Threads \ {t} : Same(u)
  BY <1>0, OthersSame DEF Work
<1>3. /\ pc' \in [Threads -> Labels] /\ pc'[t] \in {"idle", "del_refs"}
      /\ readers' \subseteq Threads
  BY <1>0 DEF DeleteMark, Types, Goto, Labels
<1>4. Found(call[t]) => Lookup(call[t]) \in Sessions
  BY <1>0, FirstIs
<1>5. entry' \in [Threads -> Sessions \cup {0}]
  BY <1>0, <1>4 DEF DeleteMark, Types
<1>6. /\ session' \in [Sessions -> Record]
      /\ \A x \in Sessions : /\ session'[x].id = session[x].id
                             /\ session[x].is_destroying => session'[x].is_destroying
  <2>1. CASE session' = session
    BY <1>0, <2>1 DEF Types
  <2>2. CASE Found(call[t]) /\ session' = [session EXCEPT ![Lookup(call[t])].is_destroying = TRUE]
    BY <1>0, <1>4, <2>2, MarkIs
  <2> QED
    BY <2>1, <2>2 DEF DeleteMark
<1>7. Listed' /\ \A x : Created(x) => Created(x)'
  BY <1>0, <1>1, <1>6, ListStays
<1>8. Types'
  BY <1>0, <1>1, <1>3, <1>5, <1>6 DEF Types
<1>9. ref'[t] # 0 => Created(ref[t])'
  BY <1>0, <1>1, <1>7 DEF CreatedFirst, Created
<1> QED
  BY <1>0, <1>1, <1>2, <1>3, <1>7, <1>8, <1>9, OthersCreated DEF ListInv

\* A session is freed, or is not found.
LEMMA ListFree ==
    ASSUME ListInv, NEW t \in Threads, ReleaseFree(t) \/ DeleteFree(t)
    PROVE  ListInv'
<1>0. Types /\ Listed /\ CreatedFirst
  BY DEF ListInv
<1>1. /\ pc' = [pc EXCEPT ![t] = "idle"]
      /\ UNCHANGED <<total_refs, readers, call, entry, ref, prev_count, ops>>
  BY DEF ReleaseFree, DeleteFree, Goto
<1>2. \A u \in Threads \ {t} : Same(u)
  BY <1>0, OthersSame DEF Work
<1>3. pc' \in [Threads -> Labels] /\ pc'[t] = "idle"
  BY <1>0, <1>1 DEF Types, Labels
<1>4. \/ UNCHANGED <<bucket, session, total_sessions>>
      \/ \E i \in 1 .. Len(bucket) : Free(i)
  <2>1. DOMAIN bucket = 1 .. Len(bucket)
    BY <1>0, BucketIs
  <2>2. Found(call[t]) => First(call[t]) \in 1 .. Len(bucket)
    BY <1>0, FirstIs
  <2> QED
    BY <2>1, <2>2 DEF ReleaseFree, DeleteFree
<1>5. /\ bucket' \in Seq(Sessions) /\ session' \in [Sessions -> Record]
      /\ total_sessions' \in Int /\ Listed' /\ \A x : Created(x) => Created(x)'
  <2>1. CASE UNCHANGED <<bucket, session, total_sessions>>
    <3>1. Listed' /\ \A x : Created(x) => Created(x)'
      BY <1>0, <2>1, ListStays
    <3> QED
      BY <1>0, <2>1, <3>1 DEF Types
  <2>2. ASSUME NEW i \in 1 .. Len(bucket), Free(i)
        PROVE  /\ bucket' \in Seq(Sessions) /\ session' \in [Sessions -> Record]
               /\ total_sessions' \in Int /\ Listed' /\ \A x : Created(x) => Created(x)'
    <3>1. bucket[i] \in Sessions
      BY <1>0, BucketIs
    <3>2. bucket' \in Seq(Sessions)
      BY <1>0, <2>2, RemoveIs DEF Free
    <3>3. session' \in [Sessions -> Record]
      BY <1>0, <2>2, <3>1, FreeIs DEF Free
    <3>4. total_sessions' \in Int
      BY <1>0, <2>2 DEF Types, Free
    <3> QED
      BY <2>2, <3>2, <3>3, <3>4, ListShrinks
  <2> QED
    BY <1>4, <2>1, <2>2
<1>6. Types'
  BY <1>0, <1>1, <1>3, <1>5 DEF Types
<1>7. ref'[t] # 0 => Created(ref[t])'
  BY <1>0, <1>1, <1>5 DEF CreatedFirst, Created
<1> QED
  BY <1>0, <1>2, <1>3, <1>5, <1>6, <1>7, OthersCreated DEF ListInv

\* Every step keeps the list in order.
LEMMA ListInvStep == ListInv /\ [Next]_vars => ListInv'
<1> SUFFICES ASSUME ListInv, [Next]_vars PROVE ListInv'
  OBVIOUS
<1>1. CASE UNCHANGED vars
  BY <1>1 DEF vars, ListInv, Types, Listed, CreatedFirst, Created
<1>2. ASSUME NEW t \in Threads, Call(t) \/ Work(t) PROVE ListInv'
  <2>1. CASE Call(t)
    BY <2>1, ListBegin
  <2>2. CASE \/ GetLookup(t) \/ GetUnlock(t) \/ ReleaseFreed(t) \/ ReleaseCheck(t)
             \/ DeleteRefs(t)
    <3>1. UNCHANGED <<bucket, session>>
      BY <2>2 DEF GetLookup, GetUnlock, ReleaseFreed, ReleaseCheck, DeleteRefs
    <3> QED
      BY <2>2, <3>1, ListQuiet
  <2>3. CASE GetRef(t) \/ Release(t) \/ (CreateLocked(t) /\ Usable(call[t]))
    BY <2>3, ListCount
  <2>4. CASE CreateLocked(t) /\ ~Usable(call[t])
    BY <2>4, ListCreate
  <2>5. CASE DeleteMark(t)
    BY <2>5, ListMark
  <2>6. CASE ReleaseFree(t) \/ DeleteFree(t)
    BY <2>6, ListFree
  <2>7. CASE CreateLocked(t)
    BY <2>3, <2>4, <2>7
  <2>8. \/ Call(t) \/ GetLookup(t) \/ GetRef(t) \/ GetUnlock(t) \/ CreateLocked(t)
        \/ Release(t) \/ ReleaseFreed(t) \/ ReleaseCheck(t) \/ ReleaseFree(t)
        \/ DeleteMark(t) \/ DeleteRefs(t) \/ DeleteFree(t)
    BY <1>2 DEF Work
  <2> QED
    BY <2>1, <2>2, <2>3, <2>5, <2>6, <2>7, <2>8
<1> QED
  BY <1>1, <1>2 DEF Next, Finished

\* Two threads that miss a session do not both create it, and an older session of the
\* id that waits for its last release is never taken for the new one: of the sessions
\* with an id that session_table_lookup_locked could meet at most one is open.  This
\* holds for every caller, also when deletes overlap with other calls.
THEOREM OneSessionOpen == Spec => []OneOpenSession
<1>1. ListInv => OneOpenSession
  <2> SUFFICES ASSUME ListInv, NEW i \in 1 .. Len(bucket), NEW j \in 1 .. Len(bucket),
                      session[bucket[i]].id = session[bucket[j]].id,
                      ~session[bucket[i]].is_destroying, ~session[bucket[j]].is_destroying
               PROVE  i = j
    BY BucketIs DEF ListInv, OneOpenSession
  <2>1. i \in Int /\ j \in Int
    BY BucketIs DEF ListInv
  <2> QED
    BY <2>1 DEF ListInv, Listed
<1> QED
  BY <1>1, ListInvInit, ListInvStep, PTL DEF Spec

-----------------------------------------------------------------------------
(* The counts.                                                             *)

One(b) == IF b THEN 1 ELSE 0

\* One element of a finite set may come or go.
LEMMA OneMoves ==
    ASSUME NEW A, NEW B, NEW t, IsFiniteSet(A), \A u : u # t => (u \in A <=> u \in B)
    PROVE  /\ IsFiniteSet(B) /\ Cardinality(A) \in Nat /\ Cardinality(B) \in Nat
           /\ Cardinality(B) = Cardinality(A) - One(t \in A) + One(t \in B)
<1>0. Cardinality(A) \in Nat
  BY FS_CardinalityType
<1>1. CASE t \in A <=> t \in B
  <2>1. A = B
    BY <1>1
  <2> QED
    BY <1>0, <2>1 DEF One
<1>2. CASE t \in A /\ t \notin B
  <2>1. B = A \ {t}
    BY <1>2
  <2>2. IsFiniteSet(B) /\ Cardinality(B) = Cardinality(A) - 1
    BY <1>2, <2>1, FS_RemoveElement
  <2>3. Cardinality(B) \in Nat
    BY <2>2, FS_CardinalityType
  <2> QED
    BY <1>0, <1>2, <2>2, <2>3 DEF One
<1>3. CASE t \notin A /\ t \in B
  <2>1. B = A \cup {t}
    BY <1>3
  <2>2. IsFiniteSet(B) /\ Cardinality(B) = Cardinality(A) + 1
    BY <1>3, <2>1, FS_AddElement
  <2> QED
    BY <1>0, <1>3, <2>2 DEF One
<1> QED
  BY <1>1, <1>2, <1>3

\* Only the thread that moves changes what is counted.
LEMMA CountsMove ==
    ASSUME SessionCounts, NEW t \in Threads, \A u \in Threads \ {t} : Same(u), NEW s \in Sessions
    PROVE  /\ IsFiniteSet(Holders(s)') /\ Cardinality(Holders(s)) \in Nat
           /\ Cardinality(Holders(s)') = Cardinality(Holders(s)) - One(ref[t] = s) + One(ref'[t] = s)
           /\ IsFiniteSet(Getters(s)') /\ Cardinality(Getters(s)) \in Nat
           /\ Cardinality(Getters(s)')
                = Cardinality(Getters(s)) - One(Getting(t, s)) + One(Getting(t, s)')
<1>1. IsFiniteSet(Holders(s)) /\ IsFiniteSet(Getters(s))
  BY DEF SessionCounts
<1>2. \A u : u # t => (u \in Holders(s) <=> u \in Holders(s)')
  BY DEF Holders, Same
<1>3. \A u : u # t => (u \in Getters(s) <=> u \in Getters(s)')
  BY DEF Getters, Getting, Same
<1>4. /\ (t \in Holders(s)) = (ref[t] = s) /\ (t \in Holders(s)') = (ref'[t] = s)
      /\ (t \in Getters(s)) = Getting(t, s) /\ (t \in Getters(s)') = Getting(t, s)'
  BY DEF Holders, Getters, Getting
<1>5. /\ IsFiniteSet(Holders(s)') /\ Cardinality(Holders(s)) \in Nat
      /\ Cardinality(Holders(s)')
           = Cardinality(Holders(s)) - One(t \in Holders(s)) + One(t \in Holders(s)')
  BY <1>1, <1>2, OneMoves
<1>6. /\ IsFiniteSet(Getters(s)') /\ Cardinality(Getters(s)) \in Nat
      /\ Cardinality(Getters(s)')
           = Cardinality(Getters(s)) - One(t \in Getters(s)) + One(t \in Getters(s)')
  BY <1>1, <1>3, OneMoves
<1> QED
  BY <1>4, <1>5, <1>6

\* So does what the totals count.
LEMMA TotalsMove ==
    ASSUME TotalCounts, NEW t \in Threads, \A u \in Threads \ {t} : Same(u)
    PROVE  /\ IsFiniteSet(AllHolders') /\ Cardinality(AllHolders) \in Nat
           /\ Cardinality(AllHolders')
                = Cardinality(AllHolders) - One(ref[t] # 0) + One(ref'[t] # 0)
           /\ IsFiniteSet(Leavers') /\ Cardinality(Leavers) \in Nat
           /\ Cardinality(Leavers')
                = Cardinality(Leavers) - One(pc[t] = "rel_total") + One(pc'[t] = "rel_total")
<1>1. IsFiniteSet(AllHolders) /\ IsFiniteSet(Leavers)
  BY DEF TotalCounts
<1>2. \A u : u # t => (u \in AllHolders <=> u \in AllHolders')
  BY DEF AllHolders, Same
<1>3. \A u : u # t => (u \in Leavers <=> u \in Leavers')
  BY DEF Leavers, Same
<1>4. /\ (t \in AllHolders) = (ref[t] # 0) /\ (t \in AllHolders') = (ref'[t] # 0)
      /\ (t \in Leavers) = (pc[t] = "rel_total") /\ (t \in Leavers') = (pc'[t] = "rel_total")
  BY DEF AllHolders, Leavers
<1>5. /\ IsFiniteSet(AllHolders') /\ Cardinality(AllHolders) \in Nat
      /\ Cardinality(AllHolders')
           = Cardinality(AllHolders) - One(t \in AllHolders) + One(t \in AllHolders')
  BY <1>1, <1>2, OneMoves
<1>6. /\ IsFiniteSet(Leavers') /\ Cardinality(Leavers) \in Nat
      /\ Cardinality(Leavers') = Cardinality(Leavers) - One(t \in Leavers) + One(t \in Leavers')
  BY <1>1, <1>3, OneMoves
<1> QED
  BY <1>4, <1>5, <1>6

\* total_refs follows the references and the releases of the thread that moves.
LEMMA TotalRefs ==
    ASSUME TotalCounts, NEW t \in Threads, \A u \in Threads \ {t} : Same(u),
           UNCHANGED <<bucket, total_sessions>>,
           total_refs' = total_refs - One(ref[t] # 0) + One(ref'[t] # 0)
                         - One(pc[t] = "rel_total") + One(pc'[t] = "rel_total")
    PROVE  TotalCounts'
<1>1. PICK a \in Int, b \in Int, c \in Int, d \in Int :
           /\ a = One(ref[t] # 0) /\ b = One(pc[t] = "rel_total")
           /\ c = One(ref'[t] # 0) /\ d = One(pc'[t] = "rel_total")
  BY DEF One
<1>2. /\ IsFiniteSet(AllHolders') /\ IsFiniteSet(Leavers')
      /\ Cardinality(AllHolders) \in Nat /\ Cardinality(Leavers) \in Nat
      /\ Cardinality(AllHolders') = Cardinality(AllHolders) - a + c
      /\ Cardinality(Leavers') = Cardinality(Leavers) - b + d
  BY <1>1, TotalsMove
<1>3. total_refs' = total_refs - a + c - b + d
  BY <1>1
<1>4. PICK h \in Nat, g \in Nat : h = Cardinality(AllHolders) /\ g = Cardinality(Leavers)
  BY <1>2
<1>5. (h - a + c) + (g - b + d) = (h + g) - a + c - b + d
  OBVIOUS
<1>6. total_refs' = Cardinality(AllHolders') + Cardinality(Leavers')
  BY <1>2, <1>3, <1>4, <1>5 DEF TotalCounts
<1> QED
  BY <1>2, <1>6 DEF TotalCounts

\* A session in the table has a count that is not negative.
LEMMA TableCount ==
    ASSUME SessionCounts, NEW s \in Sessions, InTable(s) PROVE session[s].ref_count \in Nat
<1>1. Cardinality(Holders(s)) \in Nat /\ Cardinality(Getters(s)) \in Nat
  BY FS_CardinalityType DEF SessionCounts
<1> QED
  BY <1>1 DEF SessionCounts

\* Somebody's reference is counted.
LEMMA HolderCounts ==
    ASSUME SessionCounts, NEW t \in Threads, NEW s \in Sessions, ref[t] = s, InTable(s)
    PROVE  session[s].ref_count \in Nat \ {0}
<1>1. /\ IsFiniteSet(Holders(s)) /\ t \in Holders(s)
      /\ Cardinality(Holders(s)) \in Nat /\ Cardinality(Getters(s)) \in Nat
  BY FS_CardinalityType DEF SessionCounts, Holders
<1>2. IsFiniteSet(Holders(s) \ {t}) /\ Cardinality(Holders(s) \ {t}) = Cardinality(Holders(s)) - 1
  BY <1>1, FS_RemoveElement
<1>3. Cardinality(Holders(s) \ {t}) \in Nat
  BY <1>2, FS_CardinalityType
<1> QED
  BY <1>1, <1>2, <1>3 DEF SessionCounts

\* A thread that does not move goes on seeing what it saw, unless the session it looks at
\* under the read lock is taken away.
LEMMA OthersSee ==
    ASSUME NEW u \in Threads, Sees(u), Same(u), u \in readers => u \in readers',
           pc[u] \in Looking =>
             /\ session'[entry[u]].id = session[entry[u]].id
             /\ session[entry[u]].is_destroying => session'[entry[u]].is_destroying,
           pc[u] \in Reading => InTable(entry[u])'
    PROVE  Sees(u)'
  BY DEF Sees, Same, Looking, Reading, Deleting

\* A step of t that leaves the list alone and changes counts with its references.
CountStep(t) ==
    /\ UNCHANGED <<bucket, total_sessions>> /\ Sees(t)'
    /\ \A u \in Threads \ {t} : Same(u) /\ (u \in readers => u \in readers')
    /\ \A x \in Sessions :
         /\ session'[x].id = session[x].id /\ session'[x].freed = session[x].freed
         /\ session[x].is_destroying => session'[x].is_destroying
         /\ session[x].id = "none" => session'[x] = session[x]
         /\ session'[x].ref_count = session[x].ref_count
              + (One(ref'[t] = x) + One(Getting(t, x)')) - (One(ref[t] = x) + One(Getting(t, x)))
    /\ total_refs' = total_refs - One(ref[t] # 0) + One(ref'[t] # 0)
                     - One(pc[t] = "rel_total") + One(pc'[t] = "rel_total")

\* Such a step keeps the counts exact.
LEMMA CountStays ==
    ASSUME ListInv, CountInv, NEW t \in Threads, CountStep(t) PROVE CountInv'
<1>a. UNCHANGED <<bucket, total_sessions>> /\ Sees(t)'
  BY DEF CountStep
<1>b. \A u \in Threads \ {t} : Same(u) /\ (u \in readers => u \in readers')
  BY DEF CountStep
<1>c. \A x \in Sessions :
        /\ session'[x].id = session[x].id /\ session'[x].freed = session[x].freed
        /\ session[x].is_destroying => session'[x].is_destroying
        /\ session[x].id = "none" => session'[x] = session[x]
  BY DEF CountStep
<1>d. \A x \in Sessions : session'[x].ref_count = session[x].ref_count
        + (One(ref'[t] = x) + One(Getting(t, x)')) - (One(ref[t] = x) + One(Getting(t, x)))
  BY DEF CountStep
<1>e. total_refs' = total_refs - One(ref[t] # 0) + One(ref'[t] # 0)
                    - One(pc[t] = "rel_total") + One(pc'[t] = "rel_total")
  BY DEF CountStep
<1>0. /\ Types /\ Lives /\ (\A u \in Threads : Sees(u)) /\ SessionCounts /\ TotalCounts
  BY DEF CountInv, ListInv
<1>1. \A x : InTable(x)' <=> InTable(x)
  BY <1>a DEF InTable
<1>2. Lives'
  BY <1>0, <1>1, <1>c DEF Lives
<1>3. ASSUME NEW u \in Threads \ {t} PROVE Sees(u)'
  <2>1. Same(u) /\ Sees(u) /\ (u \in readers => u \in readers')
    BY <1>0, <1>b
  <2>2. pc[u] \in Looking => entry[u] \in Sessions
    BY <2>1 DEF Sees
  <2>3. pc[u] \in Reading => InTable(entry[u])'
    BY <1>a, <2>1 DEF Sees, InTable, Same
  <2> QED
    BY <1>c, <2>1, <2>2, <2>3, OthersSee
<1>4. ASSUME NEW x \in Sessions
      PROVE  /\ IsFiniteSet(Holders(x)') /\ IsFiniteSet(Getters(x)')
             /\ InTable(x)' =>
                  session'[x].ref_count = Cardinality(Holders(x)') + Cardinality(Getters(x)')
  <2>1. PICK a \in Int, b \in Int, c \in Int, e \in Int :
             /\ a = One(ref[t] = x) /\ b = One(Getting(t, x))
             /\ c = One(ref'[t] = x) /\ e = One(Getting(t, x)')
    BY DEF One
  <2>2. /\ IsFiniteSet(Holders(x)') /\ IsFiniteSet(Getters(x)')
        /\ Cardinality(Holders(x)) \in Nat /\ Cardinality(Getters(x)) \in Nat
        /\ Cardinality(Holders(x)') = Cardinality(Holders(x)) - a + c
        /\ Cardinality(Getters(x)') = Cardinality(Getters(x)) - b + e
    BY <1>0, <1>b, <2>1, CountsMove
  <2>3. PICK h \in Nat, g \in Nat : h = Cardinality(Holders(x)) /\ g = Cardinality(Getters(x))
    BY <2>2
  <2>4. session'[x].ref_count = session[x].ref_count + (c + e) - (a + b)
    BY <1>d, <2>1
  <2>5. (h - a + c) + (g - b + e) = (h + g) + (c + e) - (a + b)
    OBVIOUS
  <2>6. InTable(x) => session[x].ref_count = h + g
    BY <1>0, <2>3 DEF SessionCounts
  <2> QED
    BY <1>1, <2>2, <2>3, <2>4, <2>5, <2>6
<1>5. SessionCounts'
  BY <1>4 DEF SessionCounts
<1>6. TotalCounts'
  BY <1>0, <1>a, <1>b, <1>e, TotalRefs
<1> QED
  BY <1>2, <1>3, <1>5, <1>6, <1>a DEF CountInv

\* A session is freed, which no reader of the bucket looks at.
LEMMA CountFree ==
    ASSUME ListInv, CountInv, NEW t \in Threads, NEW i \in 1 .. Len(bucket), Free(i),
           readers = {}, \A u \in Threads \ {t} : Same(u),
           pc[t] \in {"rel_wr", "del_wr"}, pc'[t] = "idle",
           UNCHANGED <<total_refs, readers, call, entry, ref, prev_count>>
    PROVE  CountInv'
<1>0. /\ Types /\ Lives /\ (\A u \in Threads : Sees(u)) /\ SessionCounts /\ TotalCounts
  BY DEF CountInv, ListInv
<1>1. PICK s \in Sessions : s = bucket[i] /\ InTable(s)
  BY <1>0, BucketIs DEF InTable
<1>2. /\ session'[s].freed
      /\ \A x \in Sessions :
           /\ session'[x].id = session[x].id
           /\ session'[x].is_destroying = session[x].is_destroying
           /\ session'[x].ref_count = session[x].ref_count
           /\ x # s => session'[x] = session[x]
  BY <1>0, <1>1, FreeIs DEF Free
<1>3. \A x \in Sessions : InTable(x)' <=> InTable(x) /\ x # s
  BY <1>1, ListShrinks
<1>4. Lives'
  <2>1. session[s].id # "none" /\ ~InTable(s)'
    BY <1>0, <1>1, <1>3 DEF Lives
  <2> QED
    BY <1>0, <1>1, <1>2, <1>3, <2>1 DEF Lives
<1>5. ASSUME NEW u \in Threads \ {t} PROVE Sees(u)'
  <2>1. Same(u) /\ Sees(u) /\ pc[u] \notin Reading
    BY <1>0 DEF Sees
  <2>2. pc[u] \in Looking => entry[u] \in Sessions
    BY <2>1 DEF Sees
  <2> QED
    BY <1>2, <2>1, <2>2, OthersSee
<1>6. Sees(t)'
  BY <1>0 DEF Sees, Looking, Reading, Deleting
<1>7. \A x : Holders(x)' = Holders(x)
  BY DEF Holders
<1>8. \A x : Getters(x)' = Getters(x)
  BY DEF Getters, Getting, Same
<1>9. SessionCounts'
  BY <1>0, <1>2, <1>3, <1>7, <1>8 DEF SessionCounts
<1>10. AllHolders' = AllHolders /\ Leavers' = Leavers
  BY DEF AllHolders, Leavers, Same
<1>11. total_sessions' = Len(bucket')
  <2>1. Len(bucket') = Len(bucket) - 1
    BY <1>0, RemoveIs DEF Free
  <2> QED
    BY <1>0, <2>1 DEF TotalCounts, Free
<1>12. TotalCounts'
  BY <1>0, <1>10, <1>11 DEF TotalCounts
<1> QED
  BY <1>4, <1>5, <1>6, <1>9, <1>12 DEF CountInv

\* A new session is created at the head of the list.
Inserts(t, s) ==
    /\ \A u \in Threads \ {t} : Same(u)
    /\ ~Usable(call[t]) /\ readers = {}
    /\ session[s] = Blank /\ bucket' = <<s>> \o bucket
    /\ session' = [session EXCEPT ![s] = NewSession(call[t])]
    /\ total_sessions' = total_sessions + 1 /\ total_refs' = total_refs + 1
    /\ pc[t] = "create_wr" /\ pc'[t] = "idle" /\ ref'[t] = s
    /\ UNCHANGED <<readers, call, entry, prev_count>>
    /\ overtaken' = (overtaken \/ Overtakes(t)) /\ raced' = (raced \/ Overtakes(t))

\* Nobody has looked at it, and the rest of the table is as it was.
LEMMA InsertKeeps ==
    ASSUME ListInv, CountInv, NEW t \in Threads, NEW s \in Sessions, Inserts(t, s)
    PROVE  /\ session'[s].id = call[t] /\ session'[s].ref_count = 1
           /\ ~session'[s].is_destroying /\ ~session'[s].freed
           /\ \A x \in Sessions : x # s => session'[x] = session[x]
           /\ \A x : InTable(x)' <=> InTable(x) \/ x = s
           /\ ref[t] = 0 /\ session[s].id = "none" /\ call[t] # "none"
           /\ \A u \in Threads : /\ ref[u] # s /\ pc[u] \notin Reading
                                 /\ pc[u] \in Looking => entry[u] # s /\ entry[u] \in Sessions
<1>0. /\ Types /\ Listed /\ CreatedFirst /\ \A u \in Threads : Sees(u)
  BY DEF CountInv, ListInv
<1>a. /\ session[s] = Blank /\ bucket' = <<s>> \o bucket /\ pc[t] = "create_wr" /\ readers = {}
      /\ session' = [session EXCEPT ![s] = NewSession(call[t])]
  BY DEF Inserts
<1>1. call[t] \in Ids /\ call[t] # "none" /\ ref[t] = 0 /\ session[s].id = "none"
  BY <1>0, <1>a, SessionTableAssumption DEF CreatedFirst, Sees, Blank
<1>2. /\ session'[s].id = call[t] /\ session'[s].ref_count = 1
      /\ ~session'[s].is_destroying /\ ~session'[s].freed
      /\ \A x \in Sessions : x # s => session'[x] = session[x]
  BY <1>0, <1>1, <1>a, CreateIs
<1>3. /\ Len(bucket') = Len(bucket) + 1 /\ Len(bucket) \in Nat /\ bucket'[1] = s
      /\ \A i \in 1 .. Len(bucket) : bucket'[i + 1] = bucket[i]
      /\ \A i \in 1 .. Len(bucket') :
           i = 1 \/ (i - 1 \in 1 .. Len(bucket) /\ bucket'[i] = bucket[i - 1])
  BY <1>0, <1>a, InsertIs, BucketIs
<1>4. ASSUME NEW x PROVE InTable(x)' <=> InTable(x) \/ x = s
  <2>1. InTable(x)' => InTable(x) \/ x = s
    BY <1>3 DEF InTable
  <2>2. InTable(x) => InTable(x)'
    <3> SUFFICES ASSUME NEW i \in 1 .. Len(bucket), bucket[i] = x PROVE InTable(x)'
      BY DEF InTable
    <3>1. i + 1 \in 1 .. Len(bucket') /\ bucket'[i + 1] = x
      BY <1>3
    <3> QED
      BY <3>1 DEF InTable
  <2>3. InTable(s)'
    BY <1>3 DEF InTable
  <2> QED
    BY <2>1, <2>2, <2>3
<1>5. ASSUME NEW u \in Threads
      PROVE  /\ ref[u] # s /\ pc[u] \notin Reading
             /\ pc[u] \in Looking => entry[u] # s /\ entry[u] \in Sessions
  <2>1. ref[u] # s
    BY <1>0, <1>1 DEF CreatedFirst, Created, Sessions
  <2>2. pc[u] \in Looking => call[u] # "none"
    BY <1>0, SessionTableAssumption DEF CreatedFirst, Looking
  <2>3. pc[u] \in Looking => entry[u] \in Sessions /\ session[entry[u]].id = call[u]
    BY <1>0 DEF Sees
  <2>4. pc[u] \notin Reading
    BY <1>0, <1>a DEF Sees
  <2> QED
    BY <1>1, <2>1, <2>2, <2>3, <2>4
<1> QED
  BY <1>1, <1>2, <1>4, <1>5

\* A new session has one reference, that of its creator.
LEMMA CountNew ==
    ASSUME ListInv, CountInv, NEW t \in Threads, NEW s \in Sessions, Inserts(t, s)
    PROVE  CountInv'
<1>0. /\ Types /\ Lives /\ (\A u \in Threads : Sees(u)) /\ SessionCounts /\ TotalCounts
  BY DEF CountInv, ListInv
<1>a. /\ \A u \in Threads \ {t} : Same(u)
      /\ total_sessions' = total_sessions + 1 /\ total_refs' = total_refs + 1
      /\ pc[t] = "create_wr" /\ pc'[t] = "idle" /\ ref'[t] = s
      /\ UNCHANGED <<readers, call, entry, prev_count>>
  BY DEF Inserts
<1>1. /\ session'[s].id = call[t] /\ session'[s].ref_count = 1
      /\ ~session'[s].is_destroying /\ ~session'[s].freed
      /\ \A x \in Sessions : x # s => session'[x] = session[x]
  BY InsertKeeps
<1>2. \A x : InTable(x)' <=> InTable(x) \/ x = s
  BY InsertKeeps
<1>3. /\ ref[t] = 0 /\ session[s].id = "none" /\ call[t] # "none"
      /\ \A u \in Threads : /\ ref[u] # s /\ pc[u] \notin Reading
                            /\ pc[u] \in Looking => entry[u] # s /\ entry[u] \in Sessions
  BY InsertKeeps
<1>4. Lives'
  BY <1>0, <1>1, <1>2, <1>3 DEF Lives
<1>5. \A u \in Threads \ {t} : Sees(u)'
  BY <1>0, <1>1, <1>3, <1>a, OthersSee
<1>6. Sees(t)'
  BY <1>0, <1>a DEF Sees, Looking, Reading, Deleting
<1>7. ASSUME NEW x \in Sessions
      PROVE  /\ IsFiniteSet(Holders(x)') /\ IsFiniteSet(Getters(x)')
             /\ InTable(x)' =>
                  session'[x].ref_count = Cardinality(Holders(x)') + Cardinality(Getters(x)')
  <2>1. 0 \notin Sessions /\ ~Getting(t, x) /\ ~Getting(t, x)'
    BY <1>a DEF Sessions, Getting
  <2>2. /\ IsFiniteSet(Holders(x)') /\ IsFiniteSet(Getters(x)')
        /\ Cardinality(Holders(x)) \in Nat /\ Cardinality(Getters(x)) \in Nat
        /\ Cardinality(Holders(x)') = Cardinality(Holders(x)) + One(s = x)
        /\ Cardinality(Getters(x)') = Cardinality(Getters(x))
    <3>1. /\ IsFiniteSet(Holders(x)') /\ Cardinality(Holders(x)) \in Nat
          /\ Cardinality(Holders(x)')
               = Cardinality(Holders(x)) - One(ref[t] = x) + One(ref'[t] = x)
          /\ IsFiniteSet(Getters(x)') /\ Cardinality(Getters(x)) \in Nat
          /\ Cardinality(Getters(x)')
               = Cardinality(Getters(x)) - One(Getting(t, x)) + One(Getting(t, x)')
      BY <1>0, <1>a, CountsMove
    <3>2. One(ref[t] = x) = 0 /\ One(Getting(t, x)) = 0 /\ One(Getting(t, x)') = 0
          /\ One(ref'[t] = x) = One(s = x) /\ One(s = x) \in Int
      BY <1>3, <1>a, <2>1 DEF One
    <3> QED
      BY <3>1, <3>2
  <2>3. CASE x = s
    <3>1. Holders(x) = {} /\ Getters(x) = {}
      BY <1>3, <2>3 DEF Holders, Getters, Getting, Looking
    <3>2. Cardinality(Holders(x)) = 0 /\ Cardinality(Getters(x)) = 0
      BY <3>1, FS_EmptySet
    <3> QED
      BY <1>1, <2>2, <2>3, <3>2 DEF One
  <2>4. CASE x # s
    BY <1>0, <1>1, <1>2, <2>2, <2>4 DEF One, SessionCounts
  <2> QED
    BY <2>3, <2>4
<1>8. SessionCounts'
  BY <1>7 DEF SessionCounts
<1>9. TotalCounts'
  <2>1. s # 0
    BY DEF Sessions
  <2>2. /\ IsFiniteSet(AllHolders') /\ IsFiniteSet(Leavers')
        /\ Cardinality(AllHolders) \in Nat /\ Cardinality(Leavers) \in Nat
        /\ Cardinality(AllHolders') = Cardinality(AllHolders) + 1
        /\ Cardinality(Leavers') = Cardinality(Leavers)
    BY <1>0, <1>3, <1>a, <2>1, TotalsMove DEF One
  <2>3. total_refs' = Cardinality(AllHolders') + Cardinality(Leavers')
    BY <1>0, <1>a, <2>2 DEF TotalCounts
  <2>4. Len(bucket') = Len(bucket) + 1
    BY <1>0, InsertIs DEF Inserts
  <2> QED
    BY <1>0, <1>a, <2>2, <2>3, <2>4 DEF TotalCounts
<1> QED
  BY <1>4, <1>5, <1>6, <1>8, <1>9 DEF CountInv

-----------------------------------------------------------------------------
(* Who frees a session.                                                    *)

\* A thread that does not move still tends a session while marks only appear, and finds it
\* first while the list and the ids stay.
LEMMA OthersTend ==
    ASSUME ListInv, NEW u \in Threads, Same(u), bucket' = bucket,
           \A x \in Sessions : /\ session'[x].id = session[x].id
                               /\ session[x].is_destroying => session'[x].is_destroying
    PROVE  /\ \A x \in Sessions : Tends(u, x) => Tends(u, x)'
           /\ Finds(u) => Finds(u)'
<1>1. \A x \in Sessions : Tends(u, x) => Tends(u, x)'
  BY DEF Tends, WillFree, Same
<1>2. Finds(u) => Finds(u)'
  <2> SUFFICES ASSUME Finds(u), pc'[u] \in Deleting, InTable(entry[u])' PROVE AtFirst(u)'
    BY DEF Finds
  <2>1. InTable(entry[u]) /\ pc[u] \in Deleting
    BY DEF InTable, Same
  <2>2. PICK i \in 1 .. Len(bucket) :
          bucket[i] = entry[u] /\ \A j \in 1 .. i - 1 : session[bucket[j]].id # call[u]
    BY <2>1 DEF Finds, AtFirst
  <2>3. \A j \in 1 .. i - 1 : j \in 1 .. Len(bucket) /\ bucket[j] \in Sessions
    BY BucketIs DEF ListInv
  <2>4. \A j \in 1 .. i - 1 : session'[bucket[j]].id # call[u]
    BY <2>2, <2>3
  <2> QED
    BY <2>2, <2>4 DEF AtFirst, Same
<1> QED
  BY <1>1, <1>2

\* The list stays: a session that becomes marked or unreferenced is tended by the thread
\* that moved, and that thread gives up no session without references.
LEMMA OrphanStays ==
    ASSUME ListInv, OrphanInv, NEW t \in Threads, \A u \in Threads \ {t} : Same(u),
           bucket' = bucket, overtaken' = overtaken,
           \A x \in Sessions : /\ session'[x].id = session[x].id
                               /\ session[x].is_destroying => session'[x].is_destroying,
           ~overtaken => Finds(t)',
           \A x \in Sessions :
             InTable(x) /\ session'[x].is_destroying /\ session'[x].ref_count = 0 =>
               \/ Tends(t, x)'
               \/ session[x].is_destroying /\ session[x].ref_count = 0 /\ ~Tends(t, x)
    PROVE  OrphanInv'
<1> SUFFICES ASSUME ~overtaken PROVE Tended' /\ \A u \in Threads : Finds(u)'
  BY DEF OrphanInv
<1>0. Tended /\ \A u \in Threads : Finds(u)
  BY DEF OrphanInv
<1>1. \A u \in Threads \ {t} : (\A x \in Sessions : Tends(u, x) => Tends(u, x)') /\ Finds(u)'
  BY <1>0, OthersTend
<1>2. ASSUME NEW x \in Sessions,
             InTable(x)', session'[x].is_destroying, session'[x].ref_count = 0
      PROVE  \E u \in Threads : Tends(u, x)'
  <2>1. InTable(x)
    BY <1>2 DEF InTable
  <2>2. CASE Tends(t, x)'
    BY <2>2
  <2>3. CASE session[x].is_destroying /\ session[x].ref_count = 0 /\ ~Tends(t, x)
    <3>1. PICK u \in Threads : Tends(u, x)
      BY <1>0, <2>1, <2>3 DEF Tended
    <3>2. u # t
      BY <2>3, <3>1
    <3> QED
      BY <1>1, <3>1, <3>2
  <2> QED
    BY <1>2, <2>1, <2>2, <2>3
<1>3. Tended'
  BY <1>2 DEF Tended
<1> QED
  BY <1>1, <1>3

\* A session is freed: a thread that tended another one still does, and finds it first.
LEMMA OrphanFree ==
    ASSUME ListInv, OrphanInv, NEW t \in Threads, NEW i \in 1 .. Len(bucket), Free(i),
           \A u \in Threads \ {t} : Same(u), pc'[t] = "idle", overtaken' = overtaken,
           ~overtaken => ~InTable(entry[t]) \/ bucket[i] = entry[t]
    PROVE  OrphanInv'
<1> SUFFICES ASSUME ~overtaken PROVE Tended' /\ \A u \in Threads : Finds(u)'
  BY DEF OrphanInv
<1>0. Types /\ Tended /\ \A u \in Threads : Finds(u)
  BY DEF ListInv, OrphanInv
<1>1. PICK s \in Sessions : s = bucket[i]
  BY <1>0, BucketIs
<1>2. \A x \in Sessions :
        /\ session'[x].id = session[x].id
        /\ session'[x].is_destroying = session[x].is_destroying
        /\ session'[x].ref_count = session[x].ref_count
  BY <1>0, <1>1, FreeIs DEF Free
<1>3. \A x \in Sessions : InTable(x)' <=> InTable(x) /\ x # s
  BY <1>1, ListShrinks
<1>4. ASSUME NEW x \in Sessions,
             InTable(x)', session'[x].is_destroying, session'[x].ref_count = 0
      PROVE  \E u \in Threads : Tends(u, x)'
  <2>1. x # s /\ InTable(x) /\ session[x].is_destroying /\ session[x].ref_count = 0
    BY <1>2, <1>3, <1>4
  <2>2. PICK u \in Threads : Tends(u, x)
    BY <1>0, <2>1 DEF Tended
  <2>3. u # t
    BY <1>1, <2>1, <2>2 DEF Tends
  <2>4. Tends(u, x)'
    BY <1>2, <2>2, <2>3 DEF Tends, WillFree, Same
  <2> QED
    BY <2>4
<1>5. ASSUME NEW u \in Threads \ {t} PROVE Finds(u)'
  <2> SUFFICES ASSUME pc'[u] \in Deleting, InTable(entry[u])' PROVE AtFirst(u)'
    BY DEF Finds
  <2>0. Same(u) /\ pc[u] \in Deleting
    BY DEF Same
  <2>1. /\ Len(bucket') = Len(bucket) - 1
        /\ \A j \in 1 .. Len(bucket') :
             /\ Before(i, j) \in 1 .. Len(bucket) /\ Before(i, j) # i
             /\ bucket'[j] = bucket[Before(i, j)]
        /\ \A m \in 1 .. Len(bucket) : m # i => \E j \in 1 .. Len(bucket') : m = Before(i, j)
    BY <1>0, RemoveIs DEF Free
  <2>2. Len(bucket) \in Nat /\ \A k \in 1 .. Len(bucket) : bucket[k] \in Sessions
    BY <1>0, BucketIs
  <2>3. InTable(entry[u]) /\ entry[u] # s
    <3>1. PICK j \in 1 .. Len(bucket') : bucket'[j] = entry'[u]
      BY DEF InTable
    <3>2. entry'[u] = entry[u] /\ entry[u] \in Sessions
      BY <2>0, <2>1, <2>2, <3>1 DEF Same
    <3>3. \A x \in Sessions : x = entry[u] => (InTable(entry[u])' => InTable(x)')
      BY <3>2 DEF InTable
    <3> QED
      BY <1>3, <3>2, <3>3
  <2>4. PICK k \in 1 .. Len(bucket) :
          bucket[k] = entry[u] /\ \A j \in 1 .. k - 1 : session[bucket[j]].id # call[u]
    BY <1>0, <2>0, <2>3 DEF Finds, AtFirst
  <2>5. k # i
    BY <1>1, <2>3, <2>4
  <2>6. PICK m \in 1 .. Len(bucket') : k = Before(i, m)
    BY <2>1, <2>5
  <2>7. ASSUME NEW j \in 1 .. m - 1 PROVE session'[bucket'[j]].id # call[u]
    <3>1. j \in 1 .. Len(bucket')
      BY <2>1, <2>2
    <3>2. Before(i, j) \in 1 .. k - 1
      BY <2>1, <2>2, <2>6, <3>1 DEF Before
    <3>3. bucket'[j] = bucket[Before(i, j)] /\ bucket'[j] \in Sessions
      BY <2>1, <2>2, <3>1
    <3> QED
      BY <1>2, <2>4, <3>2, <3>3
  <2>8. bucket'[m] = entry[u]
    BY <2>1, <2>4, <2>6
  <2> QED
    BY <2>0, <2>7, <2>8 DEF AtFirst, Same
<1>6. Finds(t)'
  BY DEF Finds, Deleting
<1> QED
  BY <1>4, <1>5, <1>6 DEF Tended

\* A new session: a delete of its id that would now find it first was overtaken.
LEMMA OrphanNew ==
    ASSUME ListInv, CountInv, OrphanInv, NEW t \in Threads, NEW s \in Sessions, Inserts(t, s)
    PROVE  OrphanInv'
<1>a. /\ \A u \in Threads \ {t} : Same(u)
      /\ pc[t] = "create_wr" /\ pc'[t] = "idle" /\ bucket' = <<s>> \o bucket
      /\ overtaken' = (overtaken \/ Overtakes(t))
  BY DEF Inserts
<1> SUFFICES ASSUME ~overtaken' PROVE Tended' /\ \A u \in Threads : Finds(u)'
  BY DEF OrphanInv
<1>0. Types /\ Tended /\ (\A u \in Threads : Finds(u)) /\ ~Overtakes(t)
  BY <1>a DEF ListInv, OrphanInv
<1>1. /\ session'[s].id = call[t] /\ ~session'[s].is_destroying
      /\ \A x \in Sessions : x # s => session'[x] = session[x]
  BY InsertKeeps
<1>2. \A x : InTable(x)' <=> InTable(x) \/ x = s
  BY InsertKeeps
<1>3. \A u \in Threads : /\ pc[u] \notin Reading
                         /\ pc[u] \in Looking => entry[u] # s /\ entry[u] \in Sessions
  BY InsertKeeps
<1>4. ASSUME NEW x \in Sessions,
             InTable(x)', session'[x].is_destroying, session'[x].ref_count = 0
      PROVE  \E u \in Threads : Tends(u, x)'
  <2>1. x # s /\ InTable(x) /\ session[x].is_destroying /\ session[x].ref_count = 0
    BY <1>1, <1>2, <1>4
  <2>2. PICK u \in Threads : Tends(u, x)
    BY <1>0, <2>1 DEF Tended
  <2>3. u # t
    BY <1>a, <2>2 DEF Tends, WillFree, Deleting
  <2>4. Tends(u, x)'
    BY <1>1, <1>a, <2>1, <2>2, <2>3 DEF Tends, WillFree, Same
  <2> QED
    BY <2>4
<1>5. ASSUME NEW u \in Threads \ {t} PROVE Finds(u)'
  <2> SUFFICES ASSUME pc'[u] \in Deleting, InTable(entry[u])' PROVE AtFirst(u)'
    BY DEF Finds
  <2>0. Same(u) /\ pc[u] = "del_wr" /\ entry[u] # s /\ call[u] # call[t]
    BY <1>0, <1>3, <1>a DEF Same, Deleting, Reading, Looking, Overtakes
  <2>1. /\ Len(bucket') = Len(bucket) + 1 /\ Len(bucket) \in Nat /\ bucket'[1] = s
        /\ \A i \in 1 .. Len(bucket) : bucket'[i + 1] = bucket[i] /\ bucket[i] \in Sessions
        /\ \A i \in 1 .. Len(bucket') :
             i = 1 \/ (i - 1 \in 1 .. Len(bucket) /\ bucket'[i] = bucket[i - 1])
    BY <1>0, <1>a, InsertIs, BucketIs
  <2>2. InTable(entry[u])
    <3>1. \A x : x = entry[u] => (InTable(entry[u])' => InTable(x)')
      BY <2>0 DEF InTable, Same
    <3> QED
      BY <1>2, <2>0, <3>1
  <2>3. PICK k \in 1 .. Len(bucket) :
          bucket[k] = entry[u] /\ \A j \in 1 .. k - 1 : session[bucket[j]].id # call[u]
    BY <1>0, <2>0, <2>2 DEF Finds, AtFirst, Deleting
  <2>4. PICK m \in 1 .. Len(bucket') : m = k + 1 /\ bucket'[m] = entry[u]
    <3>1. k + 1 \in 1 .. Len(bucket')
      BY <2>1
    <3>2. bucket'[k + 1] = entry[u]
      BY <2>1, <2>3
    <3> QED
      BY <3>1, <3>2, Zenon
  <2>5. ASSUME NEW j \in 1 .. m - 1 PROVE session'[bucket'[j]].id # call[u]
    <3>1. CASE j = 1
      BY <1>1, <2>0, <2>1, <3>1
    <3>2. CASE j # 1
      <4>1. j - 1 \in 1 .. k - 1 /\ j - 1 \in 1 .. Len(bucket) /\ j \in 1 .. Len(bucket')
        BY <2>1, <2>4, <3>2
      <4>2. bucket'[j] = bucket[j - 1] /\ bucket[j - 1] \in Sessions
        BY <2>1, <3>2, <4>1
      <4>3. session[bucket[j - 1]].id # call[u]
        BY <2>3, <4>1
      <4> QED
        BY <1>1, <2>0, <4>2, <4>3
    <3> QED
      BY <3>1, <3>2
  <2>6. entry'[u] = entry[u] /\ call'[u] = call[u]
    BY <2>0 DEF Same
  <2> QED
    BY ONLY <2>4, <2>5, <2>6, m \in 1 .. Len(bucket') DEF AtFirst
<1>6. Finds(t)'
  BY <1>a DEF Finds, Deleting
<1> QED
  BY <1>4, <1>5, <1>6 DEF Tended

-----------------------------------------------------------------------------
(* What a thread relies on.                                                *)

\* The list stays: a thread that does not move keeps what it relies on, when nobody marks
\* the session while it is between two steps on it or takes a reference to what it frees.
LEMMA PinStays ==
    ASSUME CountInv, PinInv, NEW t \in Threads, \A u \in Threads \ {t} : Same(u),
           bucket' = bucket, overtaken' = overtaken,
           ~raced' =>
             /\ ~raced /\ Relies(t)'
             /\ \A u \in Threads \ {t} : UsesMark(u, entry[u]) =>
                  session'[entry[u]].is_destroying = session[entry[u]].is_destroying
             /\ \A u \in Threads \ {t} : pc[u] = "del_wr" \/ WillFree(u) =>
                  session'[entry[u]].ref_count = session[entry[u]].ref_count
             /\ \A x \in Sessions : Tends(t, x)' =>
                  Tends(t, x) \/ \A u \in Threads \ {t} : ~Tends(u, x)
    PROVE  PinInv'
<1> SUFFICES ASSUME ~raced' PROVE ~overtaken' /\ OneTends' /\ \A u \in Threads : Relies(u)'
  BY DEF PinInv
<1>0. ~overtaken /\ OneTends /\ \A u \in Threads : Relies(u)
  BY DEF PinInv
<1>1. ASSUME NEW u \in Threads \ {t} PROVE Relies(u)' /\ \A x : Tends(u, x)' <=> Tends(u, x)
  <2>0. Same(u) /\ Relies(u)
    BY <1>0
  <2>1. pc[u] \in Deleting \cup {"rel_wr", "get_ref"} \/ LastRelease(u) =>
          session'[entry[u]].is_destroying = session[entry[u]].is_destroying
    BY DEF UsesMark, Deleting, LastRelease
  <2>2. WillFree(u)' <=> WillFree(u)
    BY <2>0, <2>1 DEF WillFree, Same, LastRelease
  <2>3. pc[u] = "del_wr" \/ WillFree(u) =>
          session'[entry[u]].ref_count = session[entry[u]].ref_count
    OBVIOUS
  <2>4. ref[u] # 0 => InTable(ref[u])'
    BY <2>0 DEF Relies, InTable, Same
  <2>5. pc[u] \in Deleting \cup {"rel_wr"} \/ LastRelease(u) => InTable(entry[u])'
    BY <2>0 DEF Relies, InTable, Same
  <2>6. LastRelease(u)' <=> LastRelease(u)
    BY <2>0 DEF LastRelease, Same
  <2>7. Relies(u)'
    BY <2>0, <2>1, <2>2, <2>3, <2>4, <2>5, <2>6 DEF Relies, Same
  <2> QED
    BY <2>0, <2>2, <2>7 DEF Tends, Same
<1>2. ASSUME NEW v \in Threads, NEW u \in Threads, NEW x \in Sessions,
             Tends(v, x)', Tends(u, x)', v # u
      PROVE  FALSE
  <2>1. CASE v = t
    BY <1>0, <1>1, <1>2, <2>1 DEF OneTends
  <2>2. CASE u = t
    BY <1>0, <1>1, <1>2, <2>2 DEF OneTends
  <2>3. CASE v # t /\ u # t
    BY <1>0, <1>1, <1>2, <2>3 DEF OneTends
  <2> QED
    BY <2>1, <2>2, <2>3
<1> QED
  BY <1>0, <1>1, <1>2 DEF OneTends

\* A session is freed by the only one who does: nobody relies on it any longer.
LEMMA PinFree ==
    ASSUME ListInv, CountInv, PinInv, NEW t \in Threads, NEW i \in 1 .. Len(bucket), Free(i),
           \A u \in Threads \ {t} : Same(u), pc[t] \in {"rel_wr", "del_wr"}, pc'[t] = "idle",
           UNCHANGED <<call, entry, ref, prev_count, overtaken, raced>>,
           ~raced => bucket[i] = entry[t]
    PROVE  PinInv'
<1> SUFFICES ASSUME ~raced PROVE ~overtaken' /\ OneTends' /\ \A u \in Threads : Relies(u)'
  BY DEF PinInv
<1>0. /\ Types /\ CreatedFirst /\ SessionCounts /\ (\A u \in Threads : Sees(u))
      /\ ~overtaken /\ OneTends /\ \A u \in Threads : Relies(u)
  BY DEF PinInv, CountInv, ListInv
<1>1. PICK s \in Sessions : s = bucket[i] /\ s = entry[t] /\ InTable(s)
  BY <1>0, BucketIs DEF InTable
<1>2. \A x \in Sessions :
        /\ session'[x].is_destroying = session[x].is_destroying
        /\ session'[x].ref_count = session[x].ref_count
  BY <1>0, <1>1, FreeIs DEF Free
<1>3. \A x \in Sessions : InTable(x)' <=> InTable(x) /\ x # s
  BY <1>1, ListShrinks
<1>4. Tends(t, s) /\ session[s].is_destroying /\ session[s].ref_count = 0
  BY <1>0, <1>1 DEF Tends, WillFree, Sees, Relies, Deleting
<1>5. ASSUME NEW u \in Threads
      PROVE  /\ ref[u] # 0 => ref[u] \in Sessions /\ ref[u] # s
             /\ ref'[u] # 0 => InTable(ref[u])'
  <2>1. ref[u] # 0 => ref[u] \in Sessions /\ InTable(ref[u])
    BY <1>0 DEF CreatedFirst, Created, Relies
  <2>2. ref[u] # s
    <3> SUFFICES ASSUME ref[u] = s PROVE FALSE
      OBVIOUS
    <3>1. session[s].ref_count \in Nat \ {0}
      BY <1>0, <1>1, HolderCounts
    <3> QED
      BY <1>4, <3>1
  <2>3. ref'[u] = ref[u]
    OBVIOUS
  <2>4. \A x \in Sessions : x = ref[u] => (InTable(x)' => InTable(ref[u])')
    BY <2>3 DEF InTable
  <2> QED
    BY <1>3, <2>1, <2>2, <2>3, <2>4
<1>6. ASSUME NEW u \in Threads \ {t} PROVE Relies(u)' /\ \A x : Tends(u, x)' <=> Tends(u, x)
  <2>0. Same(u) /\ Relies(u) /\ Sees(u)
    BY <1>0
  <2>1. pc[u] \in Looking => entry[u] \in Sessions
    BY <2>0 DEF Sees
  <2>2. pc[u] \in Deleting \cup {"rel_wr", "get_ref"} \/ LastRelease(u) => pc[u] \in Looking
    BY DEF Deleting, Looking, LastRelease
  <2>3. /\ LastRelease(u)' <=> LastRelease(u)
        /\ WillFree(u)' <=> WillFree(u)
    BY <1>2, <2>0, <2>1 DEF LastRelease, WillFree, Same, Looking
  <2>4. WillFree(u) => LastRelease(u) \/ pc[u] = "rel_wr"
    BY DEF WillFree, LastRelease
  <2>5. pc[u] \in Deleting \cup {"rel_wr"} \/ LastRelease(u) => entry[u] # s
    <3> SUFFICES ASSUME pc[u] \in Deleting \cup {"rel_wr"} \/ LastRelease(u), entry[u] = s
                 PROVE  FALSE
      OBVIOUS
    <3>1. Tends(u, s)
      BY <1>4 DEF Tends, WillFree, LastRelease
    <3> QED
      BY <1>0, <1>4, <3>1 DEF OneTends
  <2>6. pc[u] \in Deleting \cup {"rel_wr"} \/ LastRelease(u) => InTable(entry[u])'
    <3>1. \A x \in Sessions : x = entry[u] => (InTable(x)' => InTable(entry[u])')
      BY <2>0 DEF InTable, Same
    <3> QED
      BY <1>3, <2>0, <2>1, <2>2, <2>5, <3>1 DEF Relies
  <2>7. pc[u] = "get_ref" => ~session'[entry[u]].is_destroying
    BY <1>2, <2>0, <2>1, <2>2 DEF Relies
  <2>8. pc[u] = "del_wr" \/ WillFree(u) => session'[entry[u]].ref_count = 0
    BY <1>2, <2>0, <2>1, <2>2, <2>4 DEF Relies, Deleting
  <2>9. Relies(u)'
    BY <1>5, <2>0, <2>3, <2>6, <2>7, <2>8 DEF Relies, Same
  <2> QED
    BY <2>0, <2>3, <2>9 DEF Tends, Same
<1>7. Relies(t)' /\ \A x : ~Tends(t, x)'
  BY <1>5 DEF Relies, Tends, WillFree, Deleting, LastRelease
<1>8. OneTends'
  BY <1>0, <1>6, <1>7 DEF OneTends
<1> QED
  BY <1>0, <1>6, <1>7, <1>8

\* A new session takes nothing from anybody.
LEMMA PinNew ==
    ASSUME ListInv, CountInv, PinInv, NEW t \in Threads, NEW s \in Sessions, Inserts(t, s)
    PROVE  PinInv'
<1>a. /\ \A u \in Threads \ {t} : Same(u)
      /\ pc[t] = "create_wr" /\ pc'[t] = "idle" /\ ref'[t] = s
      /\ overtaken' = (overtaken \/ Overtakes(t)) /\ raced' = (raced \/ Overtakes(t))
  BY DEF Inserts
<1> SUFFICES ASSUME ~raced' PROVE ~overtaken' /\ OneTends' /\ \A u \in Threads : Relies(u)'
  BY DEF PinInv
<1>0. /\ (\A u \in Threads : Sees(u)) /\ ~overtaken' /\ OneTends /\ \A u \in Threads : Relies(u)
  BY <1>a DEF PinInv, CountInv
<1>1. \A x \in Sessions : x # s => session'[x] = session[x]
  BY InsertKeeps
<1>2. \A x : InTable(x)' <=> InTable(x) \/ x = s
  BY InsertKeeps
<1>3. \A u \in Threads : pc[u] \in Looking => entry[u] # s /\ entry[u] \in Sessions
  BY InsertKeeps
<1>4. ASSUME NEW u \in Threads \ {t} PROVE Relies(u)' /\ \A x : Tends(u, x)' <=> Tends(u, x)
  <2>0. Same(u) /\ Relies(u)
    BY <1>0, <1>a
  <2>1. pc[u] \in Looking => session'[entry[u]] = session[entry[u]]
    BY <1>1, <1>3
  <2>2. pc[u] \in Deleting \cup {"rel_wr", "get_ref", "rel_total"} => pc[u] \in Looking
    BY DEF Deleting, Looking
  <2>3. /\ LastRelease(u)' <=> LastRelease(u)
        /\ WillFree(u)' <=> WillFree(u)
    BY <2>0, <2>1, <2>2 DEF LastRelease, WillFree, Same
  <2>4. WillFree(u) => LastRelease(u) \/ pc[u] = "rel_wr"
    BY DEF WillFree, LastRelease
  <2>5. ref[u] # 0 => InTable(ref[u])'
    <3>1. \A x : x = ref[u] => (InTable(x)' => InTable(ref[u])')
      BY <2>0 DEF InTable, Same
    <3> QED
      BY <1>2, <2>0, <3>1 DEF Relies
  <2>6. pc[u] \in Deleting \cup {"rel_wr"} \/ LastRelease(u) => InTable(entry[u])'
    <3>1. \A x : x = entry[u] => (InTable(x)' => InTable(entry[u])')
      BY <2>0 DEF InTable, Same
    <3> QED
      BY <1>2, <2>0, <3>1 DEF Relies
  <2>7. pc[u] = "get_ref" => ~session'[entry[u]].is_destroying
    BY <2>0, <2>1, <2>2 DEF Relies
  <2>8. pc[u] = "del_wr" \/ WillFree(u) => session'[entry[u]].ref_count = 0
    BY <2>0, <2>1, <2>2, <2>4 DEF Relies, Deleting, LastRelease
  <2>9. Relies(u)'
    BY <2>0, <2>3, <2>5, <2>6, <2>7, <2>8 DEF Relies, Same
  <2> QED
    BY <2>0, <2>3, <2>9 DEF Tends, Same
<1>5. InTable(ref[t])'
  BY <1>2, <1>a DEF InTable
<1>6. Relies(t)' /\ \A x : ~Tends(t, x)'
  BY <1>5, <1>a DEF Relies, Tends, WillFree, Deleting, LastRelease
<1>7. OneTends'
  BY <1>0, <1>4, <1>6 DEF OneTends
<1> QED
  BY <1>0, <1>4, <1>6, <1>7

-----------------------------------------------------------------------------
(* The steps.                                                              *)

SessionInv == CountInv /\ OrphanInv /\ PinInv

\* A step that changes neither the list nor a session.
LEMMA QuietStep ==
    ASSUME ListInv, SessionInv, NEW t \in Threads,
           \A u \in Threads \ {t} : Same(u) /\ (u \in readers => u \in readers'),
           UNCHANGED <<bucket, session, total_sessions, overtaken, raced>>, Sees(t)',
           \A x \in Sessions : One(ref[t] = x) + One(Getting(t, x))
                               = One(ref'[t] = x) + One(Getting(t, x)'),
           total_refs' = total_refs - One(ref[t] # 0) + One(ref'[t] # 0)
                         - One(pc[t] = "rel_total") + One(pc'[t] = "rel_total"),
           ~overtaken => Finds(t)', ~raced => Relies(t)',
           \A x \in Sessions : InTable(x) /\ Tends(t, x) => Tends(t, x)' \/ session[x].ref_count # 0,
           \A x \in Sessions : Tends(t, x)' => Tends(t, x)
    PROVE  SessionInv'
<1>0. Types /\ CountInv /\ OrphanInv /\ PinInv
  BY DEF SessionInv, ListInv
<1>1. ASSUME NEW x \in Sessions
      PROVE  session'[x].ref_count = session[x].ref_count
               + (One(ref'[t] = x) + One(Getting(t, x)')) - (One(ref[t] = x) + One(Getting(t, x)))
  <2>1. session[x].ref_count \in Int /\ One(ref[t] = x) + One(Getting(t, x)) \in Int
    BY <1>0 DEF Types, Record, One
  <2> QED
    BY <2>1
<1>2. CountStep(t)
  BY <1>1 DEF CountStep
<1>3. CountInv'
  BY <1>0, <1>2, CountStays
<1>4. OrphanInv'
  BY <1>0, OrphanStays
<1>5. PinInv'
  BY <1>0, PinStays
<1> QED
  BY <1>3, <1>4, <1>5 DEF SessionInv

\* A step that neither begins nor ends with anything the thread looks at.
LEMMA PlainStep ==
    ASSUME ListInv, SessionInv, NEW t \in Threads,
           \A u \in Threads \ {t} : Same(u) /\ (u \in readers => u \in readers'),
           UNCHANGED <<bucket, session, total_sessions, total_refs, entry, ref, prev_count,
                       overtaken, raced>>,
           pc[t] \notin Looking, pc'[t] \notin Looking,
           pc'[t] \in {"get", "create", "create_wr"} => ref[t] = 0
    PROVE  SessionInv'
<1>0. Types /\ Sees(t) /\ (~raced => Relies(t))
  BY DEF ListInv, SessionInv, CountInv, PinInv
<1>1. /\ pc[t] \notin Deleting \cup {"get_ref", "get_total", "rel_total", "rel_wr"}
      /\ pc'[t] \notin Deleting \cup {"get_ref", "get_total", "rel_total", "rel_wr"}
      /\ pc'[t] \notin Reading
  BY DEF Looking, Deleting, Reading
<1>2. \A x : ~Tends(t, x) /\ ~Tends(t, x)' /\ ~Getting(t, x) /\ ~Getting(t, x)'
  BY <1>1 DEF Tends, WillFree, Getting
<1>3. Sees(t)'
  BY <1>0, <1>1 DEF Sees
<1>4. \A x \in Sessions : One(ref[t] = x) + One(Getting(t, x))
                          = One(ref'[t] = x) + One(Getting(t, x)')
  BY <1>2 DEF One
<1>5. total_refs' = total_refs - One(ref[t] # 0) + One(ref'[t] # 0)
                    - One(pc[t] = "rel_total") + One(pc'[t] = "rel_total")
  BY <1>0, <1>1 DEF One, Types
<1>6. Finds(t)'
  BY <1>1 DEF Finds
<1>7. ~raced => Relies(t)'
  <2>1. ~raced /\ ref'[t] # 0 => InTable(ref[t])'
    BY <1>0 DEF Relies, InTable
  <2> QED
    BY <1>0, <1>1, <2>1 DEF Relies, LastRelease, WillFree, Deleting
<1> QED
  BY <1>2, <1>3, <1>4, <1>5, <1>6, <1>7, QuietStep

\* A call begins.
LEMMA SessionBegin ==
    ASSUME ListInv, SessionInv, NEW t \in Threads, Call(t) PROVE SessionInv'
<1>0. Types
  BY DEF ListInv
<1>1. PICK id \in Ids, label \in {"get", "create", "del"} :
        Begin(t, id, label) /\ (label = "del" \/ ref[t] = 0)
  BY DEF Call, Get, GetOrCreate, Delete
<1>2. /\ pc[t] = "idle" /\ pc'[t] = label
      /\ UNCHANGED <<bucket, session, total_sessions, total_refs, readers, entry, ref,
                     prev_count, overtaken, raced>>
  BY <1>0, <1>1 DEF Types, Begin, Goto
<1>3. \A u \in Threads \ {t} : Same(u)
  BY <1>0, OthersSame
<1>4. pc[t] \notin Looking /\ pc'[t] \notin Looking
  BY <1>2 DEF Looking
<1> QED
  BY <1>1, <1>2, <1>3, <1>4, PlainStep

\* The session that is found is open, and is in the table while the lock is held.
LEMMA SessionGetLookup ==
    ASSUME ListInv, SessionInv, NEW t \in Threads, GetLookup(t) PROVE SessionInv'
<1>0. Types /\ Sees(t) /\ (~raced => Relies(t))
  BY DEF ListInv, SessionInv, CountInv, PinInv
<1>1. \A u \in Threads \ {t} : Same(u)
  BY <1>0, OthersSame DEF Work
<1>2. CASE ~Usable(call[t])
  <2>1. /\ pc[t] \in {"get", "create"} /\ pc'[t] \in {"idle", "create_wr"}
        /\ UNCHANGED <<bucket, session, total_sessions, total_refs, readers, entry, ref,
                       prev_count, overtaken, raced>>
    BY <1>0, <1>2 DEF GetLookup, Goto, Types
  <2>2. ref[t] = 0 /\ pc[t] \notin Looking /\ pc'[t] \notin Looking
    BY <1>0, <2>1 DEF Sees, Looking
  <2> QED
    BY <1>1, <2>1, <2>2, PlainStep
<1>3. CASE Usable(call[t])
  <2>1. /\ pc[t] \in {"get", "create"} /\ pc'[t] = "get_ref" /\ entry'[t] = Lookup(call[t])
        /\ readers' = readers \cup {t}
        /\ UNCHANGED <<bucket, session, total_sessions, total_refs, call, ref, prev_count,
                       overtaken, raced>>
    BY <1>0, <1>3 DEF GetLookup, Goto, Types
  <2>2. /\ Lookup(call[t]) \in Sessions /\ session[Lookup(call[t])].id = call[t]
        /\ ~session[Lookup(call[t])].is_destroying /\ InTable(Lookup(call[t]))
    BY <1>0, <1>3, FirstIs DEF Usable, InTable
  <2>3. InTable(entry[t])'
    BY <2>1, <2>2 DEF InTable
  <2>4. Sees(t)'
    BY <1>0, <2>1, <2>2, <2>3 DEF Sees, Looking, Reading, Deleting
  <2>5. \A x : ~Tends(t, x) /\ ~Tends(t, x)' /\ ~Getting(t, x) /\ ~Getting(t, x)'
    BY <2>1 DEF Tends, WillFree, Getting, Deleting
  <2>6. total_refs' = total_refs - One(ref[t] # 0) + One(ref'[t] # 0)
                      - One(pc[t] = "rel_total") + One(pc'[t] = "rel_total")
    BY <1>0, <2>1 DEF One, Types
  <2>7. \A x \in Sessions : One(ref[t] = x) + One(Getting(t, x))
                            = One(ref'[t] = x) + One(Getting(t, x)')
    BY <2>1, <2>5 DEF One
  <2>8. Finds(t)' /\ ref'[t] = 0
    BY <1>0, <2>1 DEF Finds, Deleting, Sees
  <2>9. Relies(t)'
    BY <2>1, <2>2, <2>8 DEF Relies, LastRelease, WillFree, Deleting
  <2> QED
    BY <1>1, <2>1, <2>4, <2>5, <2>6, <2>7, <2>8, <2>9, QuietStep
<1> QED
  BY <1>2, <1>3

\* The reference that is on its way is out.
LEMMA SessionGetUnlock ==
    ASSUME ListInv, SessionInv, NEW t \in Threads, GetUnlock(t) PROVE SessionInv'
<1>0. Types /\ Sees(t)
  BY DEF ListInv, SessionInv, CountInv
<1>1. \A u \in Threads \ {t} : Same(u)
  BY <1>0, OthersSame DEF Work
<1>2. /\ pc[t] = "get_total" /\ pc'[t] = "idle" /\ ref'[t] = entry[t]
      /\ total_refs' = total_refs + 1 /\ readers' = readers \ {t}
      /\ UNCHANGED <<bucket, session, total_sessions, call, entry, prev_count, overtaken, raced>>
  BY <1>0 DEF GetUnlock, Goto, Types
<1>3. entry[t] \in Sessions /\ ref[t] = 0 /\ InTable(entry[t])
  BY <1>0, <1>2 DEF Sees, Looking, Reading
<1>4. InTable(ref[t])'
  BY <1>2, <1>3 DEF InTable
<1>5. Sees(t)' /\ Relies(t)' /\ Finds(t)'
  BY <1>0, <1>2, <1>4 DEF Sees, Relies, Finds, Looking, Reading, Deleting, LastRelease, WillFree
<1>6. \A x : ~Tends(t, x) /\ ~Tends(t, x)'
  BY <1>2 DEF Tends, WillFree, Deleting
<1>7. 0 \notin Sessions
  BY DEF Sessions
<1>8. total_refs' = total_refs - One(ref[t] # 0) + One(ref'[t] # 0)
                    - One(pc[t] = "rel_total") + One(pc'[t] = "rel_total")
  BY <1>0, <1>2, <1>3, <1>7 DEF One, Types
<1>9. \A x \in Sessions : One(ref[t] = x) + One(Getting(t, x))
                          = One(ref'[t] = x) + One(Getting(t, x)')
  BY <1>2, <1>3, <1>7 DEF One, Getting
<1> QED
  BY <1>1, <1>2, <1>5, <1>6, <1>8, <1>9, QuietStep

\* The last release of a marked session goes on to free it; it does not read the mark of
\* a freed one, unless calls raced.
LEMMA SessionReleaseCheck ==
    ASSUME ListInv, SessionInv, NEW t \in Threads, ReleaseCheck(t) PROVE SessionInv'
<1>0. Types /\ Lives /\ Sees(t) /\ (~raced => Relies(t))
  BY DEF ListInv, SessionInv, CountInv, PinInv
<1>1. \A u \in Threads \ {t} : Same(u)
  BY <1>0, OthersSame DEF Work
<1>2. /\ pc[t] = "rel_total" /\ total_refs' = total_refs - 1
      /\ pc'[t] \in {"idle", "rel_wr", "undefined"}
      /\ pc'[t] = "rel_wr" => prev_count[t] = 1 /\ session[entry[t]].is_destroying
      /\ prev_count[t] = 1 /\ session[entry[t]].is_destroying /\ ~session[entry[t]].freed
         => pc'[t] = "rel_wr"
      /\ UNCHANGED <<bucket, session, total_sessions, readers, call, entry, ref, prev_count,
                     overtaken, raced>>
  BY <1>0 DEF ReleaseCheck, Goto, Types
<1>3. WillFree(t)' => WillFree(t)
  BY <1>2 DEF WillFree
<1>4. entry[t] \in Sessions /\ session[entry[t]].id = call[t]
  BY <1>0, <1>2 DEF Sees, Looking
<1>5. InTable(entry[t]) /\ WillFree(t) => WillFree(t)'
  BY <1>0, <1>2, <1>4 DEF WillFree, Lives
<1>6. Sees(t)'
  BY <1>0, <1>2, <1>4 DEF Sees, Looking, Reading, Deleting
<1>7. ~raced => Relies(t)'
  <2>1. ~raced => /\ ref'[t] # 0 => InTable(ref[t])'
                  /\ pc'[t] = "rel_wr" => InTable(entry[t])'
    BY <1>0, <1>2 DEF Relies, InTable, LastRelease
  <2> QED
    BY <1>0, <1>2, <1>3, <2>1 DEF Relies, LastRelease, Deleting
<1>8. /\ \A x : /\ InTable(x) /\ Tends(t, x) => Tends(t, x)'
                /\ Tends(t, x)' => Tends(t, x)
                /\ ~Getting(t, x) /\ ~Getting(t, x)'
      /\ Finds(t)'
  BY <1>2, <1>3, <1>5 DEF Tends, Getting, Finds, Deleting
<1>9. total_refs' = total_refs - One(ref[t] # 0) + One(ref'[t] # 0)
                    - One(pc[t] = "rel_total") + One(pc'[t] = "rel_total")
  BY <1>0, <1>2 DEF One, Types
<1>10. \A x \in Sessions : One(ref[t] = x) + One(Getting(t, x))
                           = One(ref'[t] = x) + One(Getting(t, x)')
  BY <1>2, <1>8 DEF One
<1> QED
  BY <1>1, <1>2, <1>6, <1>7, <1>8, <1>9, <1>10, QuietStep

\* The delete leaves a session with references to the last release.
LEMMA SessionDeleteRefs ==
    ASSUME ListInv, SessionInv, NEW t \in Threads, DeleteRefs(t) PROVE SessionInv'
<1>0. /\ Types /\ Sees(t) /\ SessionCounts
      /\ (~raced => Relies(t)) /\ (~overtaken => Finds(t))
  BY DEF ListInv, SessionInv, CountInv, PinInv, OrphanInv
<1>1. \A u \in Threads \ {t} : Same(u)
  BY <1>0, OthersSame DEF Work
<1>2. /\ pc[t] = "del_refs" /\ readers' = readers \ {t}
      /\ pc'[t] = IF session[entry[t]].ref_count > 0 THEN "idle" ELSE "del_wr"
      /\ UNCHANGED <<bucket, session, total_sessions, total_refs, call, entry, ref, prev_count,
                     overtaken, raced>>
  BY <1>0 DEF DeleteRefs, Goto, Types
<1>3. /\ entry[t] \in Sessions /\ session[entry[t]].id = call[t] /\ InTable(entry[t])
      /\ session[entry[t]].is_destroying
  BY <1>0, <1>2 DEF Sees, Looking, Reading, Deleting
<1>4. session[entry[t]].ref_count \in Nat
  BY <1>0, <1>3, TableCount
<1>5. pc'[t] = "del_wr" => session[entry[t]].ref_count = 0
  BY <1>2, <1>4
<1>6. Sees(t)'
  BY <1>0, <1>2, <1>3 DEF Sees, Looking, Reading, Deleting
<1>7. ~overtaken => Finds(t)'
  BY <1>0, <1>2, <1>3 DEF Finds, AtFirst, InTable, Deleting
<1>8. ~raced => Relies(t)'
  <2>1. ~raced => /\ ref'[t] # 0 => InTable(ref[t])'
                  /\ InTable(entry[t])'
    BY <1>0, <1>2, <1>3 DEF Relies, InTable
  <2> QED
    BY <1>0, <1>2, <1>5, <2>1 DEF Relies, LastRelease, Deleting, WillFree
<1>9. \A x : /\ Tends(t, x) => Tends(t, x)' \/ session[x].ref_count # 0
             /\ Tends(t, x)' => Tends(t, x)
             /\ ~Getting(t, x) /\ ~Getting(t, x)'
  BY <1>2, <1>4 DEF Tends, Getting, WillFree, Deleting
<1>10. total_refs' = total_refs - One(ref[t] # 0) + One(ref'[t] # 0)
                     - One(pc[t] = "rel_total") + One(pc'[t] = "rel_total")
  BY <1>0, <1>2 DEF One, Types
<1>11. \A x \in Sessions : One(ref[t] = x) + One(Getting(t, x))
                           = One(ref'[t] = x) + One(Getting(t, x)')
  BY <1>2, <1>9 DEF One
<1> QED
  BY <1>1, <1>2, <1>6, <1>7, <1>8, <1>9, <1>10, <1>11, QuietStep

\* The reference count of s goes up by one, with the references of t.
CountUp(t, s) ==
    /\ InTable(s) /\ session' = [session EXCEPT ![s].ref_count = session[s].ref_count + 1]
    /\ UNCHANGED <<bucket, total_sessions, overtaken, raced>>
    /\ \A u \in Threads \ {t} : Same(u) /\ (u \in readers => u \in readers')
    /\ pc[t] \in {"get_ref", "create_wr"} /\ pc'[t] \in {"get_total", "idle"}
    /\ Sees(t)' /\ (ref'[t] # 0 => InTable(ref[t])')
    /\ \A x \in Sessions : One(ref'[t] = x) + One(Getting(t, x)')
                            = One(ref[t] = x) + One(Getting(t, x)) + One(x = s)
    /\ total_refs' = total_refs - One(ref[t] # 0) + One(ref'[t] # 0)
                     - One(pc[t] = "rel_total") + One(pc'[t] = "rel_total")
    /\ ~raced => ~session[s].is_destroying

\* A session that is not marked is freed by nobody; a marked one gets a reference only
\* when calls raced.
LEMMA UpStep ==
    ASSUME ListInv, SessionInv, NEW t \in Threads, NEW s \in Sessions, CountUp(t, s)
    PROVE  SessionInv'
<1>a. /\ InTable(s) /\ session' = [session EXCEPT ![s].ref_count = session[s].ref_count + 1]
      /\ UNCHANGED <<bucket, total_sessions, overtaken, raced>>
      /\ pc[t] \in {"get_ref", "create_wr"} /\ pc'[t] \in {"get_total", "idle"}
  BY DEF CountUp
<1>b. \A u \in Threads \ {t} : Same(u) /\ (u \in readers => u \in readers')
  BY DEF CountUp
<1>c. /\ Sees(t)' /\ (ref'[t] # 0 => InTable(ref[t])') /\ (~raced => ~session[s].is_destroying)
      /\ total_refs' = total_refs - One(ref[t] # 0) + One(ref'[t] # 0)
                       - One(pc[t] = "rel_total") + One(pc'[t] = "rel_total")
  BY DEF CountUp
<1>d. \A x \in Sessions : One(ref'[t] = x) + One(Getting(t, x)')
                          = One(ref[t] = x) + One(Getting(t, x)) + One(x = s)
  BY DEF CountUp
<1>0. /\ Types /\ Lives /\ SessionCounts /\ CountInv /\ OrphanInv /\ PinInv
      /\ \A u \in Threads : Sees(u)
  BY DEF SessionInv, ListInv, CountInv
<1>1. session[s].ref_count \in Nat /\ session[s].id # "none"
  BY <1>0, <1>a, TableCount DEF Lives
<1>2. \A x \in Sessions :
        /\ session'[x].id = session[x].id /\ session'[x].freed = session[x].freed
        /\ session'[x].is_destroying = session[x].is_destroying
        /\ session'[x].ref_count = IF x = s THEN session[s].ref_count + 1 ELSE session[x].ref_count
  <2>1. PICK n \in Int : n = session[s].ref_count + 1
    BY <1>1
  <2>2. session' = [session EXCEPT ![s].ref_count = n]
    BY <1>a, <2>1
  <2>3. \A x \in Sessions :
          /\ session'[x].id = session[x].id /\ session'[x].freed = session[x].freed
          /\ session'[x].is_destroying = session[x].is_destroying
          /\ session'[x].ref_count = IF x = s THEN n ELSE session[x].ref_count
    BY <1>0, <2>2, CountIs
  <2> QED
    BY <2>1, <2>3
<1>3. \A x \in Sessions : x # s => session'[x] = session[x]
  BY <1>0, <1>a DEF Types
<1>4. ASSUME NEW x \in Sessions
      PROVE  session'[x].ref_count = session[x].ref_count
               + (One(ref'[t] = x) + One(Getting(t, x)')) - (One(ref[t] = x) + One(Getting(t, x)))
  <2>1. PICK a \in Int, b \in Int :
          a = One(ref[t] = x) + One(Getting(t, x)) /\ b = One(ref'[t] = x) + One(Getting(t, x)')
    BY DEF One
  <2>2. session[x].ref_count \in Int /\ b = a + One(x = s)
    BY <1>0, <1>d, <2>1 DEF Types, Record
  <2>3. CASE x = s
    BY <1>2, <2>1, <2>2, <2>3 DEF One
  <2>4. CASE x # s
    BY <1>2, <2>1, <2>2, <2>4 DEF One
  <2> QED
    BY <2>3, <2>4
<1>5. CountStep(t)
  BY <1>1, <1>2, <1>3, <1>4, <1>a, <1>b, <1>c DEF CountStep
<1>6. CountInv'
  BY <1>0, <1>5, CountStays
<1>7. Finds(t)' /\ \A x : ~Tends(t, x) /\ ~Tends(t, x)'
  BY <1>a DEF Finds, Tends, WillFree, Deleting
<1>8. OrphanInv'
  <2>1. \A x \in Sessions :
          InTable(x) /\ session'[x].is_destroying /\ session'[x].ref_count = 0 =>
            session[x].is_destroying /\ session[x].ref_count = 0
    BY <1>1, <1>2
  <2> QED
    BY <1>0, <1>2, <1>7, <1>a, <1>b, <2>1, OrphanStays
<1>9. PinInv'
  <2>1. Relies(t)'
    BY <1>a, <1>c DEF Relies, WillFree, LastRelease, Deleting
  <2>2. \A u \in Threads \ {t} : UsesMark(u, entry[u]) =>
          session'[entry[u]].is_destroying = session[entry[u]].is_destroying
    BY <1>0, <1>2 DEF UsesMark, Sees, Looking
  <2>3. ASSUME ~raced, NEW u \in Threads \ {t}, pc[u] = "del_wr" \/ WillFree(u)
        PROVE  session'[entry[u]].ref_count = session[entry[u]].ref_count
    <3>1. entry[u] \in Sessions /\ session[entry[u]].is_destroying
      BY <1>0, <2>3 DEF Sees, Looking, WillFree, Deleting
    <3> QED
      BY <1>2, <1>c, <2>3, <3>1
  <2> QED
    BY <1>0, <1>7, <1>a, <1>b, <2>1, <2>2, <2>3, PinStays
<1> QED
  BY <1>6, <1>8, <1>9 DEF SessionInv

\* ios_session_get counts its reference under the read lock.
LEMMA SessionGetRef ==
    ASSUME ListInv, SessionInv, NEW t \in Threads, GetRef(t) PROVE SessionInv'
<1>0. Types /\ Sees(t) /\ (~raced => Relies(t))
  BY DEF ListInv, SessionInv, CountInv, PinInv
<1>1. \A u \in Threads \ {t} : Same(u)
  BY <1>0, OthersSame DEF Work
<1>2. PICK s \in Sessions : s = entry[t] /\ InTable(s) /\ session[s].id = call[t]
  BY <1>0 DEF GetRef, Sees, Looking, Reading
<1>3. /\ pc[t] = "get_ref" /\ pc'[t] = "get_total" /\ ref[t] = 0 /\ t \in readers
      /\ session' = [session EXCEPT ![s].ref_count = session[s].ref_count + 1]
      /\ UNCHANGED <<bucket, total_sessions, total_refs, readers, call, entry, ref, prev_count,
                     overtaken, raced>>
  BY <1>0, <1>2 DEF GetRef, Goto, Types, Sees, Reading
<1>4. session'[s].id = session[s].id
  BY <1>0, <1>3 DEF Types, Record
<1>5. InTable(entry[t])'
  BY <1>2, <1>3 DEF InTable
<1>6. Sees(t)'
  BY <1>0, <1>2, <1>3, <1>4, <1>5 DEF Sees, Looking, Reading, Deleting
<1>7. 0 \notin Sessions
  BY DEF Sessions
<1>8. \A x \in Sessions : One(ref'[t] = x) + One(Getting(t, x)')
                          = One(ref[t] = x) + One(Getting(t, x)) + One(x = s)
  BY <1>2, <1>3, <1>7 DEF One, Getting
<1>9. total_refs' = total_refs - One(ref[t] # 0) + One(ref'[t] # 0)
                    - One(pc[t] = "rel_total") + One(pc'[t] = "rel_total")
  BY <1>0, <1>3 DEF One, Types
<1>10. ~raced => ~session[s].is_destroying
  BY <1>0, <1>2, <1>3 DEF Relies
<1>11. CountUp(t, s)
  BY <1>1, <1>2, <1>3, <1>6, <1>8, <1>9, <1>10 DEF CountUp
<1> QED
  BY <1>11, UpStep

\* The second lookup found the session that another thread created.
LEMMA SessionCreateFound ==
    ASSUME ListInv, SessionInv, NEW t \in Threads, CreateLocked(t), Usable(call[t])
    PROVE  SessionInv'
<1>0. Types /\ Sees(t)
  BY DEF ListInv, SessionInv, CountInv
<1>1. \A u \in Threads \ {t} : Same(u)
  BY <1>0, OthersSame DEF Work
<1>2. PICK s \in Sessions : s = Lookup(call[t]) /\ ~session[s].is_destroying /\ InTable(s)
  BY <1>0, FirstIs DEF Usable, InTable
<1>3. /\ pc[t] = "create_wr" /\ pc'[t] = "idle" /\ ref[t] = 0 /\ ref'[t] = s
      /\ session' = [session EXCEPT ![s].ref_count = session[s].ref_count + 1]
      /\ total_refs' = total_refs + 1
      /\ UNCHANGED <<bucket, total_sessions, readers, call, entry, prev_count, overtaken, raced>>
  BY <1>0, <1>2 DEF CreateLocked, Goto, Types, Sees
<1>4. InTable(ref[t])'
  BY <1>2, <1>3 DEF InTable
<1>5. Sees(t)'
  BY <1>0, <1>3 DEF Sees, Looking, Reading, Deleting
<1>6. 0 \notin Sessions
  BY DEF Sessions
<1>7. \A x \in Sessions : One(ref'[t] = x) + One(Getting(t, x)')
                          = One(ref[t] = x) + One(Getting(t, x)) + One(x = s)
  BY <1>2, <1>3, <1>6 DEF One, Getting
<1>8. total_refs' = total_refs - One(ref[t] # 0) + One(ref'[t] # 0)
                    - One(pc[t] = "rel_total") + One(pc'[t] = "rel_total")
  BY <1>0, <1>3, <1>6 DEF One, Types
<1>9. CountUp(t, s)
  BY <1>1, <1>2, <1>3, <1>4, <1>5, <1>7, <1>8 DEF CountUp
<1> QED
  BY <1>9, UpStep

\* The last release of a marked session takes it upon itself to free it, alone unless it
\* falls between the two steps of a delete.
LEMMA SessionRelease ==
    ASSUME ListInv, SessionInv, NEW t \in Threads, Release(t) PROVE SessionInv'
<1>0. /\ Types /\ CreatedFirst /\ Lives /\ SessionCounts /\ CountInv /\ OrphanInv /\ PinInv
      /\ (\A u \in Threads : Sees(u)) /\ (~raced => \A u \in Threads : Relies(u))
  BY DEF ListInv, SessionInv, CountInv, PinInv
<1>1. \A u \in Threads \ {t} : Same(u)
  BY <1>0, OthersSame DEF Work
<1>2. PICK s \in Sessions : s = ref[t] /\ InTable(s) /\ session[s].id # "none"
  BY <1>0 DEF Release, CreatedFirst, Created, Lives
<1>3. /\ pc[t] = "idle" /\ pc'[t] = "rel_total" /\ call'[t] = session[s].id
      /\ entry'[t] = s /\ ref'[t] = 0 /\ prev_count'[t] = session[s].ref_count
      /\ session' = [session EXCEPT ![s].ref_count = session[s].ref_count - 1]
      /\ UNCHANGED <<bucket, total_sessions, total_refs, readers, overtaken>>
      /\ raced' = (raced \/ ReleasesInDelete(s))
  BY <1>0, <1>2 DEF Release, Goto, Types
<1>4. session[s].ref_count \in Nat \ {0}
  BY <1>0, <1>2, HolderCounts
<1>5. \A x \in Sessions :
        /\ session'[x].id = session[x].id /\ session'[x].freed = session[x].freed
        /\ session'[x].is_destroying = session[x].is_destroying
        /\ session'[x].ref_count = IF x = s THEN session[s].ref_count - 1 ELSE session[x].ref_count
  <2>1. PICK n \in Int : n = session[s].ref_count - 1
    BY <1>4
  <2>2. session' = [session EXCEPT ![s].ref_count = n]
    BY <1>3, <2>1
  <2>3. \A x \in Sessions :
          /\ session'[x].id = session[x].id /\ session'[x].freed = session[x].freed
          /\ session'[x].is_destroying = session[x].is_destroying
          /\ session'[x].ref_count = IF x = s THEN n ELSE session[x].ref_count
    BY <1>0, <2>2, CountIs
  <2> QED
    BY <2>1, <2>3
<1>6. \A x \in Sessions : x # s => session'[x] = session[x]
  BY <1>0, <1>3 DEF Types
<1>7. Sees(t)'
  BY <1>3, <1>4, <1>5 DEF Sees, Looking, Reading, Deleting
<1>8. 0 \notin Sessions
  BY DEF Sessions
<1>9. total_refs' = total_refs - One(ref[t] # 0) + One(ref'[t] # 0)
                    - One(pc[t] = "rel_total") + One(pc'[t] = "rel_total")
  BY <1>0, <1>2, <1>3, <1>8 DEF One, Types
<1>10. ASSUME NEW x \in Sessions
       PROVE  session'[x].ref_count = session[x].ref_count
                + (One(ref'[t] = x) + One(Getting(t, x)')) - (One(ref[t] = x) + One(Getting(t, x)))
  <2>1. /\ One(ref'[t] = x) = 0 /\ One(Getting(t, x)') = 0 /\ One(Getting(t, x)) = 0
        /\ One(ref[t] = x) = IF x = s THEN 1 ELSE 0
    BY <1>2, <1>3, <1>8 DEF One, Getting
  <2>2. session[x].ref_count \in Int
    BY <1>0 DEF Types, Record
  <2> QED
    BY <1>5, <2>1, <2>2
<1>11. CountStep(t)
  BY <1>1, <1>2, <1>3, <1>5, <1>6, <1>7, <1>9, <1>10 DEF CountStep
<1>12. CountInv'
  BY <1>0, <1>11, CountStays
<1>13. WillFree(t)' <=> session[s].is_destroying /\ session[s].ref_count = 1
  BY <1>3, <1>4, <1>5 DEF WillFree
<1>14. Finds(t)' /\ (\A x : ~Tends(t, x)) /\ (WillFree(t)' => Tends(t, s)')
  BY <1>3 DEF Finds, Tends, WillFree, Deleting
<1>15. OrphanInv'
  <2>1. ASSUME NEW x \in Sessions,
               InTable(x), session'[x].is_destroying, session'[x].ref_count = 0
        PROVE  Tends(t, x)' \/ (session[x].is_destroying /\ session[x].ref_count = 0)
    BY <1>4, <1>5, <1>13, <1>14, <2>1
  <2> QED
    BY <1>0, <1>1, <1>3, <1>5, <1>14, <2>1, OrphanStays
<1>16. PinInv'
  <2> SUFFICES ASSUME ~raced'
               PROVE  /\ ~raced /\ Relies(t)'
                      /\ \A u \in Threads \ {t} : UsesMark(u, entry[u]) =>
                           session'[entry[u]].is_destroying = session[entry[u]].is_destroying
                      /\ \A u \in Threads \ {t} : pc[u] = "del_wr" \/ WillFree(u) =>
                           session'[entry[u]].ref_count = session[entry[u]].ref_count
                      /\ \A x \in Sessions : Tends(t, x)' =>
                           Tends(t, x) \/ \A u \in Threads \ {t} : ~Tends(u, x)
    BY <1>0, <1>1, <1>3, PinStays
  <2>1. ~raced /\ ~ReleasesInDelete(s) /\ \A u \in Threads : Relies(u)
    BY <1>0, <1>3
  <2>2. InTable(entry[t])'
    BY <1>2, <1>3 DEF InTable
  <2>3. WillFree(t)' => session'[entry'[t]].ref_count = 0
    BY <1>3, <1>5, <1>13
  <2>4. Relies(t)'
    BY <1>3, <2>2, <2>3 DEF Relies, Deleting
  <2>5. \A u \in Threads \ {t} : UsesMark(u, entry[u]) =>
          session'[entry[u]].is_destroying = session[entry[u]].is_destroying
    BY <1>0, <1>5 DEF UsesMark, Sees, Looking
  <2>6. ASSUME NEW u \in Threads \ {t}, pc[u] = "del_wr" \/ WillFree(u)
        PROVE  /\ session'[entry[u]].ref_count = session[entry[u]].ref_count
               /\ entry[u] # s
    <3>1. entry[u] \in Sessions /\ session[entry[u]].ref_count = 0
      BY <1>0, <2>1, <2>6 DEF Sees, Looking, WillFree, Relies
    <3> QED
      BY <1>4, <1>5, <3>1
  <2>7. ASSUME NEW x \in Sessions, Tends(t, x)', NEW u \in Threads \ {t}, Tends(u, x)
        PROVE  FALSE
    <3>1. x = s /\ session[s].ref_count = 1
      BY <1>3, <1>13, <2>7 DEF Tends, Deleting
    <3>2. pc[u] = "del_refs" /\ entry[u] = s
      BY <2>6, <2>7, <3>1 DEF Tends, Deleting
    <3> QED
      BY <2>1, <3>1, <3>2 DEF ReleasesInDelete
  <2> QED
    BY <2>1, <2>4, <2>5, <2>6, <2>7
<1> QED
  BY <1>12, <1>15, <1>16 DEF SessionInv

\* A release of a freed session goes nowhere.
LEMMA SessionReleaseFreed ==
    ASSUME ListInv, SessionInv, NEW t \in Threads, ReleaseFreed(t) PROVE SessionInv'
<1>0. Types
  BY DEF ListInv
<1>1. \A u \in Threads \ {t} : Same(u)
  BY <1>0, OthersSame DEF Work
<1>2. /\ pc[t] = "idle" /\ pc'[t] = "undefined"
      /\ UNCHANGED <<bucket, session, total_sessions, total_refs, readers, entry, ref,
                     prev_count, overtaken, raced>>
  BY <1>0 DEF ReleaseFreed, Goto, Types
<1> QED
  BY <1>1, <1>2, PlainStep DEF Looking

\* A delete marks the first session of its id, which it now tends; that races with a call
\* that looked at the mark before.
LEMMA SessionMark ==
    ASSUME ListInv, SessionInv, NEW t \in Threads, DeleteMark(t) PROVE SessionInv'
<1>0. /\ Types /\ CountInv /\ OrphanInv /\ PinInv
      /\ (\A u \in Threads : Sees(u)) /\ (~raced => Relies(t))
  BY DEF ListInv, SessionInv, CountInv, PinInv
<1>1. \A u \in Threads \ {t} : Same(u)
  BY <1>0, OthersSame DEF Work
<1>2. /\ pc[t] = "del" /\ UNCHANGED <<bucket, total_sessions, total_refs, call, ref, prev_count,
                                      overtaken>>
  BY DEF DeleteMark
<1>3. CASE ~Found(call[t])
  <2>1. pc'[t] = "idle" /\ UNCHANGED <<entry, session, readers, raced>>
    BY <1>0, <1>3 DEF DeleteMark, Goto, Types
  <2> QED
    BY <1>1, <1>2, <2>1, PlainStep DEF Looking
<1>4. CASE Found(call[t])
  <2>1. PICK s \in Sessions : s = Lookup(call[t]) /\ session[s].id = call[t]
    BY <1>0, <1>4, FirstIs
  <2>2. /\ pc'[t] = "del_refs" /\ entry'[t] = s /\ readers' = readers \cup {t}
        /\ session' = [session EXCEPT ![s].is_destroying = TRUE]
        /\ raced' = (raced \/ MarksInUse(t, s))
    BY <1>0, <1>4, <2>1 DEF DeleteMark, Goto, Types
  <2>3. /\ session'[s].is_destroying
        /\ \A x \in Sessions :
             /\ session'[x].id = session[x].id /\ session'[x].freed = session[x].freed
             /\ session'[x].ref_count = session[x].ref_count
             /\ x # s => session'[x] = session[x]
    BY <1>0, <2>2, MarkIs
  <2>4. PICK i \in 1 .. Len(bucket) :
          bucket[i] = s /\ \A j \in 1 .. i - 1 : session[bucket[j]].id # call[t]
    BY <1>0, <1>4, <2>1, FirstIs
  <2>5. \A j \in 1 .. i - 1 : j \in 1 .. Len(bucket) /\ bucket[j] \in Sessions
    BY <1>0, BucketIs
  <2>6. InTable(s) /\ InTable(entry[t])' /\ AtFirst(t)'
    BY <1>2, <2>2, <2>3, <2>4, <2>5 DEF InTable, AtFirst
  <2>7. Sees(t)'
    BY <1>0, <1>2, <2>1, <2>2, <2>3, <2>6 DEF Sees, Looking, Reading, Deleting
  <2>8. \A x : /\ ~Tends(t, x) /\ ~Getting(t, x) /\ ~Getting(t, x)'
               /\ Tends(t, x)' <=> x = s
    BY <1>2, <2>2 DEF Tends, Getting, WillFree, Deleting
  <2>9. ASSUME NEW x \in Sessions
        PROVE  session'[x].ref_count = session[x].ref_count
                 + (One(ref'[t] = x) + One(Getting(t, x)')) - (One(ref[t] = x) + One(Getting(t, x)))
    <3>1. session[x].ref_count \in Int /\ session'[x].ref_count = session[x].ref_count
      BY <1>0, <2>3 DEF Types, Record
    <3> QED
      BY <1>2, <2>8, <3>1 DEF One
  <2>10. total_refs' = total_refs - One(ref[t] # 0) + One(ref'[t] # 0)
                       - One(pc[t] = "rel_total") + One(pc'[t] = "rel_total")
    BY <1>0, <1>2, <2>2 DEF One, Types
  <2>11. \A x \in Sessions : /\ session[x].is_destroying => session'[x].is_destroying
                             /\ session[x].id = "none" => session'[x] = session[x]
    <3>1. session[s].id # "none"
      BY <2>4, <2>6 DEF ListInv, Listed, Created
    <3> QED
      BY <2>3, <3>1
  <2>12. CountStep(t)
    BY <1>1, <1>2, <2>2, <2>3, <2>7, <2>9, <2>10, <2>11 DEF CountStep
  <2>13. CountInv'
    BY <1>0, <2>12, CountStays
  <2>14. OrphanInv'
    <3>1. Finds(t)'
      BY <2>6 DEF Finds
    <3> QED
      BY <1>0, <1>1, <1>2, <2>3, <2>8, <2>11, <3>1, OrphanStays
  <2>15. PinInv'
    <3> SUFFICES ASSUME ~raced'
                 PROVE  /\ ~raced /\ Relies(t)'
                        /\ \A u \in Threads \ {t} : UsesMark(u, entry[u]) =>
                             session'[entry[u]].is_destroying = session[entry[u]].is_destroying
                        /\ \A u \in Threads \ {t} : pc[u] = "del_wr" \/ WillFree(u) =>
                             session'[entry[u]].ref_count = session[entry[u]].ref_count
                        /\ \A x \in Sessions : Tends(t, x)' =>
                             Tends(t, x) \/ \A u \in Threads \ {t} : ~Tends(u, x)
      BY <1>0, <1>1, <1>2, PinStays
    <3>1. ~raced /\ \A u \in Threads \ {t} : ~UsesMark(u, s)
      BY <2>2 DEF MarksInUse
    <3>2. ref'[t] # 0 => InTable(ref[t])'
      BY <1>0, <1>2, <3>1 DEF Relies, InTable
    <3>3. Relies(t)'
      BY <2>2, <2>6, <3>2 DEF Relies, LastRelease, WillFree
    <3>4. ASSUME NEW u \in Threads \ {t}, UsesMark(u, entry[u])
          PROVE  session'[entry[u]].is_destroying = session[entry[u]].is_destroying
      <4>1. entry[u] \in Sessions /\ entry[u] # s
        BY <1>0, <3>1, <3>4 DEF UsesMark, Sees, Looking
      <4> QED
        BY <2>3, <4>1
    <3>5. \A u \in Threads \ {t} : pc[u] = "del_wr" \/ WillFree(u) =>
            session'[entry[u]].ref_count = session[entry[u]].ref_count
      BY <1>0, <2>3 DEF WillFree, Sees, Looking
    <3>6. \A u \in Threads \ {t} : ~Tends(u, s)
      BY <3>1 DEF Tends, UsesMark, WillFree, Deleting
    <3> QED
      BY <2>8, <3>1, <3>3, <3>4, <3>5, <3>6
  <2> QED
    BY <2>13, <2>14, <2>15 DEF SessionInv
<1> QED
  BY <1>3, <1>4

\* A thread that is about to free a session finds it gone.
LEMMA FreeNothing ==
    ASSUME ListInv, SessionInv, NEW t \in Threads, \A u \in Threads \ {t} : Same(u),
           pc[t] \in {"rel_wr", "del_wr"}, pc'[t] = "idle", ~InTable(entry[t]),
           UNCHANGED <<bucket, session, total_sessions, total_refs, readers, call, entry, ref,
                       prev_count, overtaken, raced>>
    PROVE  SessionInv'
<1>0. Types /\ Sees(t) /\ (~raced => Relies(t))
  BY DEF ListInv, SessionInv, CountInv, PinInv
<1>1. Sees(t)'
  BY <1>0 DEF Sees, Looking, Reading, Deleting
<1>2. \A x \in Sessions : /\ ~Tends(t, x)' /\ ~Getting(t, x) /\ ~Getting(t, x)'
                          /\ ~(InTable(x) /\ Tends(t, x))
  BY DEF Tends, Getting, WillFree, Deleting
<1>3. Finds(t)'
  BY DEF Finds, Deleting
<1>4. ~raced => Relies(t)'
  <2>1. ~raced /\ ref'[t] # 0 => InTable(ref[t])'
    BY <1>0 DEF Relies, InTable
  <2> QED
    BY <2>1 DEF Relies, LastRelease, WillFree, Deleting
<1>5. \A x \in Sessions : One(ref[t] = x) + One(Getting(t, x))
                          = One(ref'[t] = x) + One(Getting(t, x)')
  BY <1>2 DEF One
<1>6. total_refs' = total_refs - One(ref[t] # 0) + One(ref'[t] # 0)
                    - One(pc[t] = "rel_total") + One(pc'[t] = "rel_total")
  BY <1>0 DEF One, Types
<1> QED
  BY <1>1, <1>2, <1>3, <1>4, <1>5, <1>6, QuietStep

\* The last release frees the session it gave up, if it is still there.
LEMMA SessionReleaseFree ==
    ASSUME ListInv, SessionInv, NEW t \in Threads, ReleaseFree(t) PROVE SessionInv'
<1>0. Types /\ CountInv /\ OrphanInv /\ PinInv
  BY DEF ListInv, SessionInv
<1>1. \A u \in Threads \ {t} : Same(u)
  BY <1>0, OthersSame DEF Work
<1>2. /\ pc[t] = "rel_wr" /\ pc'[t] = "idle" /\ readers = {}
      /\ UNCHANGED <<total_refs, readers, call, entry, ref, prev_count, overtaken, raced>>
  BY <1>0 DEF ReleaseFree, Goto, Types
<1>3. DOMAIN bucket = 1 .. Len(bucket)
  BY <1>0, BucketIs
<1>4. ASSUME NEW i \in 1 .. Len(bucket), bucket[i] = entry[t], Free(i) PROVE SessionInv'
  <2>1. CountInv'
    BY <1>0, <1>1, <1>2, <1>4, CountFree
  <2>2. OrphanInv'
    BY <1>0, <1>1, <1>2, <1>4, OrphanFree
  <2>3. PinInv'
    BY <1>0, <1>1, <1>2, <1>4, PinFree
  <2> QED
    BY <2>1, <2>2, <2>3 DEF SessionInv
<1>5. CASE entry[t] \notin ToSet(bucket) /\ UNCHANGED <<bucket, session, total_sessions>>
  <2>1. ~InTable(entry[t])
    BY <1>3, <1>5 DEF InTable, ToSet
  <2> QED
    BY <1>1, <1>2, <1>5, <2>1, FreeNothing
<1> QED
  BY <1>3, <1>4, <1>5 DEF ReleaseFree

\* The delete frees the first session of its id: the one it marked, unless it was overtaken
\* or that one is gone.
LEMMA SessionDeleteFree ==
    ASSUME ListInv, SessionInv, NEW t \in Threads, DeleteFree(t) PROVE SessionInv'
<1>0. /\ Types /\ CountInv /\ OrphanInv /\ PinInv /\ Sees(t)
      /\ (~overtaken => Finds(t)) /\ (~raced => ~overtaken /\ Relies(t))
  BY DEF ListInv, SessionInv, CountInv, OrphanInv, PinInv
<1>1. \A u \in Threads \ {t} : Same(u)
  BY <1>0, OthersSame DEF Work
<1>2. /\ pc[t] = "del_wr" /\ pc'[t] = "idle" /\ readers = {}
      /\ UNCHANGED <<total_refs, readers, call, entry, ref, prev_count, overtaken, raced>>
  BY <1>0 DEF DeleteFree, Goto, Types
<1>3. session[entry[t]].id = call[t] /\ (~raced => InTable(entry[t]))
  BY <1>0, <1>2 DEF Sees, Looking, Relies, Deleting
<1>4. Len(bucket) \in Nat /\ DOMAIN bucket = 1 .. Len(bucket)
  BY <1>0, BucketIs
<1>5. CASE Found(call[t]) /\ Free(First(call[t]))
  <2>1. PICK f \in 1 .. Len(bucket) :
          /\ f = First(call[t]) /\ session[bucket[f]].id = call[t]
          /\ \A j \in 1 .. f - 1 : session[bucket[j]].id # call[t]
    BY <1>0, <1>5, FirstIs
  <2>2. ASSUME ~overtaken, InTable(entry[t]) PROVE bucket[f] = entry[t]
    <3>1. AtFirst(t)
      BY <1>0, <1>2, <2>2 DEF Finds, Deleting
    <3>2. PICK i \in 1 .. Len(bucket) :
            bucket[i] = entry[t] /\ \A j \in 1 .. i - 1 : session[bucket[j]].id # call[t]
      BY <3>1 DEF AtFirst
    <3>3. ~(f < i) /\ ~(i < f)
      BY <1>3, <1>4, <2>1, <3>2
    <3>4. f = i
      BY <1>4, <3>3
    <3> QED
      BY <3>2, <3>4
  <2>3. ~raced => bucket[f] = entry[t]
    BY <1>0, <1>3, <2>2
  <2>4. Free(f)
    BY <1>5, <2>1
  <2>5. CountInv'
    BY <1>0, <1>1, <1>2, <2>4, CountFree
  <2>6. OrphanInv'
    BY <1>0, <1>1, <1>2, <2>2, <2>4, OrphanFree
  <2>7. PinInv'
    BY <1>0, <1>1, <1>2, <2>3, <2>4, PinFree
  <2> QED
    BY <2>5, <2>6, <2>7 DEF SessionInv
<1>6. CASE ~Found(call[t]) /\ UNCHANGED <<bucket, session, total_sessions>>
  <2>1. ~InTable(entry[t])
    BY <1>3, <1>4, <1>6 DEF InTable, Found
  <2> QED
    BY <1>1, <1>2, <1>6, <2>1, FreeNothing
<1> QED
  BY <1>5, <1>6 DEF DeleteFree

\* ios_session_get_or_create makes a session under the write lock, or finds no memory.
LEMMA SessionCreate ==
    ASSUME ListInv, SessionInv, NEW t \in Threads, CreateLocked(t), ~Usable(call[t])
    PROVE  SessionInv'
<1>0. Types /\ CountInv /\ OrphanInv /\ PinInv
  BY DEF ListInv, SessionInv
<1>1. \A u \in Threads \ {t} : Same(u)
  BY <1>0, OthersSame DEF Work
<1>2. /\ pc[t] = "create_wr" /\ pc'[t] = "idle" /\ readers = {}
      /\ UNCHANGED <<readers, call, entry, prev_count>>
  BY <1>0 DEF CreateLocked, Goto, Types
<1>3. CASE UNCHANGED <<bucket, session, total_sessions, total_refs, ref, overtaken, raced>>
  BY <1>1, <1>2, <1>3, PlainStep DEF Looking
<1>4. ASSUME NEW s \in Sessions, session[s] = Blank, bucket' = <<s>> \o bucket,
             session' = [session EXCEPT ![s] = NewSession(call[t])],
             ref' = [ref EXCEPT ![t] = s],
             total_sessions' = total_sessions + 1, total_refs' = total_refs + 1,
             overtaken' = (overtaken \/ Overtakes(t)), raced' = (raced \/ Overtakes(t))
      PROVE  SessionInv'
  <2>1. ref'[t] = s
    BY <1>0, <1>4 DEF Types
  <2>2. Inserts(t, s)
    BY <1>1, <1>2, <1>4, <2>1 DEF Inserts
  <2> QED
    BY <1>0, <2>2, CountNew, OrphanNew, PinNew DEF SessionInv
<1> QED
  BY <1>3, <1>4 DEF CreateLocked

\* At the start there is no session and no reference.
LEMMA SessionInvInit == Init => SessionInv
<1> SUFFICES ASSUME Init PROVE SessionInv
  OBVIOUS
<1> USE DEF Init
<1>1. Len(bucket) = 0 /\ \A x : ~InTable(x)
  BY DEF InTable
<1>2. Lives
  BY <1>1 DEF Lives, Blank
<1>3. \A t \in Threads : pc[t] = "idle" /\ ref[t] = 0 /\ prev_count[t] = 0
  OBVIOUS
<1>4. \A t \in Threads : /\ Sees(t) /\ Relies(t) /\ Finds(t)
                         /\ \A x \in Sessions : ~Tends(t, x)
  BY <1>3 DEF Sees, Relies, Finds, Tends, WillFree, LastRelease, Looking, Reading, Deleting
<1>5. OrphanInv /\ PinInv
  BY <1>1, <1>4 DEF OrphanInv, PinInv, Tended, OneTends
<1>6. IsFiniteSet({}) /\ Cardinality({}) = 0
  BY FS_EmptySet
<1>7. ASSUME NEW s \in Sessions PROVE Holders(s) = {} /\ Getters(s) = {}
  BY <1>3 DEF Holders, Getters, Getting, Sessions
<1>8. SessionCounts
  BY <1>1, <1>6, <1>7 DEF SessionCounts
<1>9. AllHolders = {} /\ Leavers = {}
  BY <1>3 DEF AllHolders, Leavers
<1>10. TotalCounts
  BY <1>1, <1>6, <1>9 DEF TotalCounts
<1> QED
  BY <1>2, <1>4, <1>5, <1>8, <1>10 DEF SessionInv, CountInv

\* A step that changes nothing.
LEMMA SessionStutter == SessionInv /\ UNCHANGED vars => SessionInv'
<1> SUFFICES ASSUME SessionInv, UNCHANGED vars PROVE SessionInv'
  OBVIOUS
<1>1. \A x : InTable(x)' <=> InTable(x)
  BY DEF vars, InTable
<1>2. \A t : WillFree(t)' <=> WillFree(t)
  BY DEF vars, WillFree
<1>3. \A t, x : Tends(t, x)' <=> Tends(t, x)
  BY <1>2 DEF vars, Tends
<1>4. \A t \in Threads : /\ Sees(t) => Sees(t)'
                         /\ Relies(t) => Relies(t)'
                         /\ Finds(t) => Finds(t)'
  BY <1>1, <1>2 DEF vars, Sees, Relies, LastRelease, Finds, AtFirst
<1>5. Lives' /\ SessionCounts' /\ TotalCounts'
  BY <1>1 DEF vars, SessionInv, CountInv, Lives, SessionCounts, TotalCounts, Holders, Getters,
              Getting, AllHolders, Leavers
<1>6. OrphanInv'
  BY <1>1, <1>3, <1>4 DEF vars, SessionInv, OrphanInv, Tended
<1>7. PinInv'
  BY <1>3, <1>4 DEF vars, SessionInv, PinInv, OneTends
<1> QED
  BY <1>4, <1>5, <1>6, <1>7 DEF SessionInv, CountInv

\* Every step keeps the invariant.
LEMMA SessionInvStep == ListInv /\ SessionInv /\ [Next]_vars => SessionInv'
<1> SUFFICES ASSUME ListInv, SessionInv, [Next]_vars PROVE SessionInv'
  OBVIOUS
<1>1. CASE UNCHANGED vars
  BY <1>1, SessionStutter
<1>2. ASSUME NEW t \in Threads, Call(t) \/ Work(t) PROVE SessionInv'
  <2>1. CASE Call(t)
    BY <2>1, SessionBegin
  <2>2. CASE GetLookup(t)
    BY <2>2, SessionGetLookup
  <2>3. CASE GetRef(t)
    BY <2>3, SessionGetRef
  <2>4. CASE GetUnlock(t)
    BY <2>4, SessionGetUnlock
  <2>5. CASE CreateLocked(t)
    BY <2>5, SessionCreateFound, SessionCreate
  <2>6. CASE Release(t)
    BY <2>6, SessionRelease
  <2>7. CASE ReleaseFreed(t)
    BY <2>7, SessionReleaseFreed
  <2>8. CASE ReleaseCheck(t)
    BY <2>8, SessionReleaseCheck
  <2>9. CASE ReleaseFree(t)
    BY <2>9, SessionReleaseFree
  <2>10. CASE DeleteMark(t)
    BY <2>10, SessionMark
  <2>11. CASE DeleteRefs(t)
    BY <2>11, SessionDeleteRefs
  <2>12. CASE DeleteFree(t)
    BY <2>12, SessionDeleteFree
  <2> QED
    BY <1>2, <2>1, <2>2, <2>3, <2>4, <2>5, <2>6, <2>7, <2>8, <2>9, <2>10, <2>11, <2>12 DEF Work
<1> QED
  BY <1>1, <1>2 DEF Next, Finished

\* The counts of sessions that are no longer in the table stay as they were; and the type
\* of the history variables.
Kept ==
    /\ \A s \in Sessions : session[s].ref_count \in Nat
    /\ overtaken \in BOOLEAN /\ raced \in BOOLEAN

\* A count changes only while the session is in the table.
LEMMA KeptStep ==
    ListInv /\ SessionInv /\ Kept /\ [Next]_vars /\ SessionInv' => Kept'
<1> SUFFICES ASSUME ListInv, SessionInv, Kept, [Next]_vars, SessionInv' PROVE Kept'
  OBVIOUS
<1>0. /\ Types /\ CreatedFirst /\ Lives /\ (\A u \in Threads : Sees(u)) /\ SessionCounts'
  BY DEF ListInv, SessionInv, CountInv
<1>1. overtaken' \in BOOLEAN /\ raced' \in BOOLEAN
  <2>0. overtaken \in BOOLEAN /\ raced \in BOOLEAN
    BY DEF Kept
  <2>1. ASSUME NEW t \in Threads, Call(t) PROVE UNCHANGED <<overtaken, raced>>
    BY <2>1 DEF Call, Get, GetOrCreate, Delete, Begin
  <2>2. ASSUME NEW t \in Threads,
               \/ GetLookup(t) \/ GetRef(t) \/ GetUnlock(t) \/ ReleaseFreed(t)
               \/ ReleaseCheck(t) \/ ReleaseFree(t) \/ DeleteRefs(t) \/ DeleteFree(t)
        PROVE  UNCHANGED <<overtaken, raced>>
    BY <2>2 DEF GetLookup, GetRef, GetUnlock, ReleaseFreed, ReleaseCheck, ReleaseFree,
                DeleteRefs, DeleteFree
  <2>3. ASSUME NEW t \in Threads, CreateLocked(t)
        PROVE  overtaken' \in BOOLEAN /\ raced' \in BOOLEAN
    BY <2>0, <2>3 DEF CreateLocked
  <2>4. ASSUME NEW t \in Threads, Release(t)
        PROVE  overtaken' \in BOOLEAN /\ raced' \in BOOLEAN
    BY <2>0, <2>4 DEF Release
  <2>5. ASSUME NEW t \in Threads, DeleteMark(t)
        PROVE  overtaken' \in BOOLEAN /\ raced' \in BOOLEAN
    BY <2>0, <2>5 DEF DeleteMark
  <2>6. CASE UNCHANGED vars
    BY <2>0, <2>6 DEF vars
  <2>7. ASSUME NEW t \in Threads, Work(t)
        PROVE  overtaken' \in BOOLEAN /\ raced' \in BOOLEAN
    BY <2>0, <2>2, <2>3, <2>4, <2>5, <2>7 DEF Work
  <2> QED
    BY <2>0, <2>1, <2>6, <2>7 DEF Next, Finished
<1>2. ASSUME NEW s \in Sessions
      PROVE  session'[s].ref_count = session[s].ref_count \/ InTable(s)'
  <2>1. CASE session' = session
    BY <2>1
  <2>2. ASSUME NEW x \in Sessions, NEW n, session' = [session EXCEPT ![x].ref_count = n],
               InTable(x)'
        PROVE  session'[s].ref_count = session[s].ref_count \/ InTable(s)'
    BY <1>0, <2>2 DEF Types
  <2>3. ASSUME NEW t \in Threads, GetRef(t)
        PROVE  session'[s].ref_count = session[s].ref_count \/ InTable(s)'
    <3>1. entry[t] \in Sessions /\ InTable(entry[t])
      BY <1>0, <2>3 DEF GetRef, Sees, Looking, Reading
    <3>2. /\ session' = [session EXCEPT ![entry[t]].ref_count = session[entry[t]].ref_count + 1]
          /\ bucket' = bucket
      BY <1>0, <2>3 DEF GetRef, Types
    <3> QED
      BY <2>2, <3>1, <3>2 DEF InTable
  <2>4. ASSUME NEW t \in Threads, Release(t)
        PROVE  session'[s].ref_count = session[s].ref_count \/ InTable(s)'
    <3>1. ref[t] \in Sessions /\ InTable(ref[t])
      BY <1>0, <2>4 DEF Release, CreatedFirst, Created, Lives
    <3>2. /\ session' = [session EXCEPT ![ref[t]].ref_count = session[ref[t]].ref_count - 1]
          /\ bucket' = bucket
      BY <1>0, <2>4 DEF Release, Types
    <3> QED
      BY <2>2, <3>1, <3>2 DEF InTable
  <2>5. ASSUME NEW t \in Threads, CreateLocked(t)
        PROVE  session'[s].ref_count = session[s].ref_count \/ InTable(s)'
    <3>1. CASE Usable(call[t])
      <4>1. PICK x \in Sessions : x = Lookup(call[t]) /\ InTable(x)
        BY <1>0, <3>1, FirstIs DEF Usable, InTable
      <4>2. /\ session' = [session EXCEPT ![x].ref_count = session[x].ref_count + 1]
            /\ bucket' = bucket
        BY <1>0, <2>5, <3>1, <4>1 DEF CreateLocked, Types
      <4> QED
        BY <2>2, <4>1, <4>2 DEF InTable
    <3>2. ASSUME NEW x \in Sessions, bucket' = <<x>> \o bucket,
                 session' = [session EXCEPT ![x] = NewSession(call[t])]
          PROVE  session'[s].ref_count = session[s].ref_count \/ InTable(s)'
      <4>1. bucket'[1] = x /\ 1 \in 1 .. Len(bucket')
        BY <1>0, <3>2, InsertIs DEF Types
      <4> QED
        BY <1>0, <3>2, <4>1 DEF Types, InTable
    <3> QED
      BY <2>1, <2>5, <3>1, <3>2 DEF CreateLocked
  <2>6. ASSUME NEW t \in Threads, DeleteMark(t)
        PROVE  session'[s].ref_count = session[s].ref_count \/ InTable(s)'
    BY <1>0, <2>6, FirstIs, MarkIs DEF DeleteMark
  <2>7. ASSUME NEW i \in 1 .. Len(bucket), Free(i)
        PROVE  session'[s].ref_count = session[s].ref_count \/ InTable(s)'
    <3>1. bucket[i] \in Sessions
      BY <1>0, BucketIs
    <3> QED
      BY <1>0, <2>7, <3>1, FreeIs DEF Free
  <2>8. ASSUME NEW t \in Threads, ReleaseFree(t) \/ DeleteFree(t)
        PROVE  session'[s].ref_count = session[s].ref_count \/ InTable(s)'
    <3>1. DOMAIN bucket = 1 .. Len(bucket)
      BY <1>0, BucketIs
    <3>2. Found(call[t]) => First(call[t]) \in 1 .. Len(bucket)
      BY <1>0, FirstIs
    <3> QED
      BY <2>1, <2>7, <2>8, <3>1, <3>2 DEF ReleaseFree, DeleteFree
  <2>9. ASSUME NEW t \in Threads,
               \/ Call(t) \/ GetLookup(t) \/ GetUnlock(t) \/ ReleaseFreed(t) \/ ReleaseCheck(t)
               \/ DeleteRefs(t)
        PROVE  session' = session
    BY <2>9 DEF Call, Get, GetOrCreate, Delete, Begin, GetLookup, GetUnlock, ReleaseFreed,
                ReleaseCheck, DeleteRefs
  <2>10. CASE UNCHANGED vars
    BY <2>1, <2>10 DEF vars
  <2> QED
    BY <2>1, <2>3, <2>4, <2>5, <2>6, <2>8, <2>9, <2>10 DEF Next, Work, Finished
<1>3. ASSUME NEW s \in Sessions, InTable(s)' PROVE session'[s].ref_count \in Nat
  <2>1. Cardinality(Holders(s)') \in Nat /\ Cardinality(Getters(s)') \in Nat
    BY <1>0, FS_CardinalityType DEF SessionCounts
  <2> QED
    BY <1>0, <1>3, <2>1 DEF SessionCounts
<1> QED
  BY <1>1, <1>2, <1>3 DEF Kept

\* The inductive invariant of the reference counting.
LEMMA SessionInvAlways == Spec => [](ListInv /\ SessionInv /\ Kept)
<1>0. ASSUME Init PROVE Kept
  BY <1>0 DEF Init, Kept, Blank
<1>1. Init => ListInv /\ SessionInv /\ Kept
  BY <1>0, ListInvInit, SessionInvInit
<1>2. ListInv /\ SessionInv /\ Kept /\ [Next]_vars => (ListInv /\ SessionInv /\ Kept)'
  BY ListInvStep, SessionInvStep, KeptStep
<1> QED
  BY <1>1, <1>2, PTL DEF Spec

\* A session somebody has a reference to is in the table and is not freed, and neither is
\* one that a call will still look at, as the release that gave up the last reference
\* does, unless a delete raced with another call on the session in one of the three ways
\* that raced remembers.  No count is ever negative, whatever raced.
THEOREM SessionIsPinned == Spec => []PinnedUnlessRaced
<1> SUFFICES ListInv /\ SessionInv /\ Kept => PinnedUnlessRaced
  BY SessionInvAlways, PTL
<1> SUFFICES ASSUME ListInv, SessionInv, Kept PROVE PinnedUnlessRaced
  OBVIOUS
<1>0. /\ Types /\ CreatedFirst /\ Lives /\ SessionCounts /\ TotalCounts
      /\ (\A t \in Threads : Sees(t)) /\ (~raced => \A t \in Threads : Relies(t))
  BY DEF ListInv, SessionInv, CountInv, PinInv
<1>1. Len(bucket) \in Nat /\ DOMAIN bucket = 1 .. Len(bucket)
  BY <1>0, BucketIs
<1>2. session \in [Sessions -> [id : Ids \cup {"none"}, ref_count : Nat,
                                is_destroying : BOOLEAN, freed : BOOLEAN]]
  BY <1>0 DEF Types, Record, Kept
<1>3. prev_count \in [Threads -> Nat] /\ total_sessions \in Nat
  BY <1>0, <1>1 DEF Types, Sees, TotalCounts
<1>4. TypeOK
  BY <1>0, <1>2, <1>3 DEF Types, TypeOK, Kept
<1>5. ASSUME ~raced, NEW t \in Threads, ref[t] # 0
      PROVE  ~session[ref[t]].freed /\ ref[t] \in ToSet(bucket)
  <2>1. ref[t] \in Sessions /\ InTable(ref[t])
    BY <1>0, <1>5 DEF CreatedFirst, Created, Relies
  <2> QED
    BY <1>0, <1>1, <2>1 DEF Lives, InTable, ToSet
<1>6. ASSUME ~raced, NEW t \in Threads,
             \/ pc[t] \in {"get_ref", "get_total", "del_refs"}
             \/ pc[t] = "rel_total" /\ prev_count[t] = 1
      PROVE  ~session[entry[t]].freed
  <2>1. entry[t] \in Sessions /\ InTable(entry[t])
    BY <1>0, <1>6 DEF Sees, Relies, Looking, Reading, LastRelease
  <2> QED
    BY <1>0, <2>1 DEF Lives
<1> QED
  BY <1>4, <1>5, <1>6 DEF PinnedUnlessRaced, ReferencePinsSession

\* ref_count counts the references to a session in the table that are out, and total_refs
\* and total_sessions those of the whole table, whatever steps lie between the updates and
\* however deletes overlap with other calls.
THEOREM CountsAreExact == Spec => []CountsAgree
<1> SUFFICES ListInv /\ SessionInv => CountsAgree
  BY SessionInvAlways, PTL
<1> SUFFICES ASSUME ListInv, SessionInv PROVE CountsAgree
  OBVIOUS
<1>0. SessionCounts /\ TotalCounts
  BY DEF SessionInv, CountInv
<1>1. DOMAIN bucket = 1 .. Len(bucket) /\ \A i \in 1 .. Len(bucket) : bucket[i] \in Sessions
  BY BucketIs DEF ListInv
<1>2. \A s \in ToSet(bucket) : s \in Sessions /\ InTable(s)
  BY <1>1 DEF ToSet, InTable
<1>3. \A s \in ToSet(bucket) :
        session[s].ref_count = Cardinality({t \in Threads : ref[t] = s})
          + Cardinality({t \in Threads : pc[t] = "get_total" /\ entry[t] = s})
  BY <1>0, <1>2 DEF SessionCounts, Holders, Getters, Getting
<1> QED
  BY <1>0, <1>3 DEF TotalCounts, AllHolders, Leavers, CountsAgree

\* When no call is under way, no deleted session is left in the table without a
\* reference: one of the delete and the last release has freed it, unless a delete was
\* overtaken by the creation of a successor.
THEOREM NoSessionIsOrphaned == Spec => []NoOrphanUnlessOvertaken
<1> SUFFICES ListInv /\ SessionInv => NoOrphanUnlessOvertaken
  BY SessionInvAlways, PTL
<1> SUFFICES ASSUME ListInv, SessionInv, ~overtaken, \A t \in Threads : pc[t] = "idle",
                    NEW s \in ToSet(bucket), session[s].is_destroying
             PROVE  session[s].ref_count > 0
  BY DEF NoOrphanUnlessOvertaken, NoOrphan
<1>0. SessionCounts /\ Tended
  BY DEF SessionInv, CountInv, OrphanInv
<1>1. DOMAIN bucket = 1 .. Len(bucket) /\ \A i \in 1 .. Len(bucket) : bucket[i] \in Sessions
  BY BucketIs DEF ListInv
<1>2. s \in Sessions /\ InTable(s)
  BY <1>1 DEF ToSet, InTable
<1>3. session[s].ref_count \in Nat
  BY <1>0, <1>2, TableCount
<1>4. session[s].ref_count # 0
  BY <1>0, <1>2 DEF Tended, Tends, WillFree, Deleting
<1> QED
  BY <1>3, <1>4

=============================================================================
