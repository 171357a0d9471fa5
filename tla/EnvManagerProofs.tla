-------------------------- MODULE EnvManagerProofs --------------------------
(***************************************************************************)
(* Proofs about EnvManager, for every set of thread ids, every number of   *)
(* variables and values and every bound on the calls.                      *)
(*                                                                         *)
(* Two things make the properties inductive.  An environment that is not   *)
(* registered yet is known to its maker only, which is why the maker fills *)
(* it without a lock.  And the entries of the registry are allocated and   *)
(* distinct, the first one with a thread's id being the thread's own, so   *)
(* that a raw exit takes out exactly what it frees.                        *)
(***************************************************************************)
EXTENDS EnvManager, SequenceTheorems, FiniteSetTheorems, WellFoundedInduction, TLAPS

Labels == {"idle", "parent_lock", "read_lock", "write_lock", "copy", "publish"}

\* t fills or is about to register an environment of its own.
New(t) ==
    pc[t] \in {"parent_lock", "publish"} \/ (pc[t] = "copy" /\ writer[dst[t]] = {})

\* What a thread points to in the middle of a call, and nothing outside.
Pointers ==
    \A t \in Tids :
      /\ src[t] <= made /\ dst[t] <= made
      /\ (pc[t] = "idle") <=> (dst[t] = 0)
      /\ pc[t] \in {"idle", "publish"} => src[t] = 0
      /\ pc[t] \in {"parent_lock", "read_lock", "write_lock"} => src[t] # 0
      /\ pc[t] # "copy" => at[t] = 1

\* Who holds a lock: a reader the one of its source, a writer the one of its destination,
\* and a copy of registered environments both.
ReadersAre ==
    \A e \in Envs : \A t \in readers[e] : e = src[t] /\ pc[t] \in {"write_lock", "copy"}

WritersAre ==
    \A e \in Envs : \A t \in writer[e] : e = dst[t] /\ pc[t] = "copy"

CopiersHold ==
    \A t \in Tids :
      /\ pc[t] \in {"write_lock", "copy"} /\ src[t] # 0 => t \in readers[src[t]]
      /\ pc[t] = "copy" => writer[dst[t]] \subseteq {t}

Exclusive == \A e \in Envs : readers[e] = {} \/ writer[e] = {}

LocksHeld == ReadersAre /\ WritersAre /\ CopiersHold /\ Exclusive

Registered(e) == \E i \in DOMAIN registry : registry[i].env = e

\* Nobody but its maker has a pointer to a new environment.
NewIsPrivate ==
    \A t \in Tids : New(t) =>
      /\ key[t] = 0 /\ frees[dst[t]] = 0 /\ ~Registered(dst[t]) /\ writer[dst[t]] = {}
      /\ \A u \in Tids : key[u] # dst[t] /\ src[u] # dst[t] /\ (u # t => dst[u] # dst[t])

\* Every entry is allocated and entered once, and what is freed is freed once.
RegistryInv ==
    /\ \A i \in DOMAIN registry :
         registry[i].env <= made /\ frees[registry[i].env] = 0
    /\ \A i, j \in DOMAIN registry : registry[i].env = registry[j].env => i = j
    /\ \A e \in Envs : frees[e] <= 1 /\ (e > made => frees[e] = 0)

\* The first entry with a thread's id is the thread's own environment.
KeysFirst ==
    \A t \in Tids : key[t] # 0 =>
      /\ initialized
      /\ \E i \in DOMAIN registry :
           /\ registry[i].tid = t /\ registry[i].env = key[t]
           /\ \A j \in DOMAIN registry : registry[j].tid = t => i <= j

\* The part of a copy that is done.
CopiedSoFar ==
    \A t \in Tids : pc[t] = "copy" /\ src[t] # 0 /\ ~Undefined =>
      \A n \in Names : n < at[t] => vars_of[dst[t]][n] = vars_of[src[t]][n]

EnvInv ==
    /\ TypeOK /\ Pointers /\ LocksHeld /\ NewIsPrivate /\ RegistryInv /\ KeysFirst
    /\ CopiedSoFar

-----------------------------------------------------------------------------
(* The registry's sequence.                                                *)

\* Every set of numbers has a least one.
LEMMA NatMin ==
    ASSUME NEW T, T \subseteq Nat, T # {} PROVE \E x \in T : \A y \in T : x <= y
<1> DEFINE R == OpToRel(<, Nat)
<1>1. IsWellFoundedOn(R, Nat)
  BY NatLessThanWellFounded
<1>2. \A x, y \in Nat : <<x, y>> \in R <=> x < y
  BY DEF OpToRel
<1> HIDE DEF R
<1>3. PICK x \in T : \A y \in T : ~(<<y, x>> \in R)
  BY <1>1, WFMin
<1>4. ASSUME NEW y \in T PROVE x <= y
  <2>1. x \in Nat /\ y \in Nat
    OBVIOUS
  <2>2. ~(<<y, x>> \in R)
    BY <1>3
  <2>3. ~(y < x)
    BY <1>2, <2>1, <2>2
  <2> QED
    BY <2>1, <2>3
<1> QED
  BY <1>4

\* The registry as a sequence of entries.
LEMMA RegistryIs ==
    ASSUME TypeOK
    PROVE  /\ registry \in Seq([tid : Tids, env : Envs]) /\ Len(registry) \in Nat
           /\ DOMAIN registry = 1 .. Len(registry)
           /\ \A i \in DOMAIN registry :
                registry[i].tid \in Tids /\ registry[i].env \in Envs
<1>1. registry \in Seq([tid : Tids, env : Envs])
  BY DEF TypeOK
<1>2. \A i \in DOMAIN registry : registry[i] \in [tid : Tids, env : Envs]
  BY <1>1, ElementOfSeq, LenProperties
<1> QED
  BY <1>1, <1>2, LenProperties

\* The first match of a bucket's chain is a match, and comes before the others.
LEMMA FirstMatch ==
    ASSUME TypeOK, NEW tid, Matches(tid) # {}
    PROVE  /\ First(Matches(tid)) \in Matches(tid)
           /\ \A j \in Matches(tid) : First(Matches(tid)) <= j
<1>1. Matches(tid) \subseteq Nat
  BY RegistryIs DEF Matches
<1>2. \E i \in Matches(tid) : \A j \in Matches(tid) : i <= j
  BY <1>1, NatMin
<1> QED
  BY <1>2 DEF First

\* What env_lookup_by_tid finds is in the registry.
LEMMA LookupFinds ==
    ASSUME TypeOK, NEW tid
    PROVE  /\ Lookup(tid) \in 0 .. MaxEnvs
           /\ Lookup(tid) # 0 => Registered(Lookup(tid))
<1>1. CASE Matches(tid) = {}
  BY <1>1, EnvManagerAssumption DEF Lookup
<1>2. CASE Matches(tid) # {}
  <2> DEFINE i == First(Matches(tid))
  <2>1. i \in DOMAIN registry
    BY <1>2, FirstMatch DEF Matches
  <2>2. Lookup(tid) = registry[i].env
    BY <1>2 DEF Lookup
  <2> HIDE DEF i
  <2>4. registry[i].env \in Envs
    BY <2>1, RegistryIs
  <2>5. \A e \in Envs : e \in 0 .. MaxEnvs
    BY EnvManagerAssumption DEF Envs
  <2> QED
    BY <2>1, <2>2, <2>4, <2>5 DEF Registered
<1> QED
  BY <1>1, <1>2

\* A thread with an environment is found with it.
LEMMA LookupOwn ==
    ASSUME TypeOK, KeysFirst, NEW t \in Tids, key[t] # 0
    PROVE  /\ Matches(t) # {} /\ registry[First(Matches(t))].env = key[t]
           /\ Lookup(t) = key[t]
<1>1. PICK i \in DOMAIN registry :
        /\ registry[i].tid = t /\ registry[i].env = key[t]
        /\ \A j \in DOMAIN registry : registry[j].tid = t => i <= j
  BY DEF KeysFirst
<1>2. i \in Matches(t) /\ \A j \in Matches(t) : i <= j
  BY <1>1 DEF Matches
<1>3. /\ First(Matches(t)) \in Matches(t) /\ First(Matches(t)) <= i
      /\ i <= First(Matches(t))
  BY <1>2, FirstMatch
<1>4. First(Matches(t)) = i
  <2>1. \A j \in Matches(t) : j \in Int
    BY RegistryIs DEF Matches
  <2> QED
    BY <1>2, <1>3, <2>1
<1> QED
  BY <1>1, <1>2, <1>4 DEF Lookup

\* env_hash_insert: the new entry first, the others behind it.
LEMMA WithEntryIs ==
    ASSUME TypeOK, NEW t \in Tids, NEW e \in Envs
    PROVE  /\ WithEntry(t, e) \in Seq([tid : Tids, env : Envs])
           /\ DOMAIN WithEntry(t, e) = 1 .. Len(registry) + 1
           /\ WithEntry(t, e)[1] = [tid |-> t, env |-> e]
           /\ \A i \in DOMAIN registry : WithEntry(t, e)[i + 1] = registry[i]
           /\ \A i \in DOMAIN WithEntry(t, e) : i = 1 \/ (i - 1 \in DOMAIN registry
                  /\ WithEntry(t, e)[i] = registry[i - 1])
<1> DEFINE E == [tid : Tids, env : Envs]
           x == <<[tid |-> t, env |-> e]>>
<1>1. /\ registry \in Seq(E) /\ Len(registry) \in Nat
      /\ DOMAIN registry = 1 .. Len(registry)
  BY RegistryIs
<1>2. x \in Seq(E) /\ Len(x) = 1 /\ x[1] = [tid |-> t, env |-> e]
  OBVIOUS
<1> HIDE DEF E, x
<1>3. /\ x \o registry \in Seq(E) /\ Len(x \o registry) = Len(registry) + 1
      /\ \A i \in 1 .. 1 + Len(registry) :
           (x \o registry)[i] = IF i <= 1 THEN x[i] ELSE registry[i - 1]
  <2>1. /\ x \o registry \in Seq(E) /\ Len(x \o registry) = Len(x) + Len(registry)
        /\ \A i \in 1 .. Len(x) + Len(registry) :
             (x \o registry)[i] = IF i <= Len(x) THEN x[i] ELSE registry[i - Len(x)]
    BY <1>1, <1>2, ConcatProperties
  <2> QED
    BY <1>1, <1>2, <2>1
<1>4. DOMAIN (x \o registry) = 1 .. Len(registry) + 1
  BY <1>3, LenProperties
<1>5. WithEntry(t, e) = x \o registry
  BY DEF WithEntry, x
<1> QED
  BY <1>1, <1>2, <1>3, <1>4, <1>5 DEF E

\* env_hash_remove: the first match is gone, the others move up.
LEMMA WithoutEntryIs ==
    ASSUME TypeOK, NEW t, NEW m, Matches(t) # {}, m = First(Matches(t))
    PROVE  /\ WithoutEntry(t) \in Seq([tid : Tids, env : Envs])
           /\ m \in DOMAIN registry
           /\ DOMAIN WithoutEntry(t) = 1 .. Len(registry) - 1
           /\ \A i \in 1 .. Len(registry) - 1 :
                WithoutEntry(t)[i] = registry[IF i < m THEN i ELSE i + 1]
<1> DEFINE E == [tid : Tids, env : Envs]
           a == SubSeq(registry, 1, m - 1)
           b == SubSeq(registry, m + 1, Len(registry))
<1>1. /\ registry \in Seq(E) /\ Len(registry) \in Nat
      /\ DOMAIN registry = 1 .. Len(registry)
  BY RegistryIs
<1>2. m \in 1 .. Len(registry)
  BY <1>1, FirstMatch DEF Matches
<1> HIDE DEF E
<1>3. /\ a \in Seq(E) /\ Len(a) = m - 1
      /\ \A i \in 1 .. m - 1 : a[i] = registry[i]
  BY <1>1, <1>2
<1>4. /\ b \in Seq(E) /\ Len(b) = Len(registry) - m
      /\ \A i \in 1 .. Len(registry) - m : b[i] = registry[m + i]
  BY <1>1, <1>2, SMTT(30)
<1>5. WithoutEntry(t) = a \o b
  BY DEF WithoutEntry
<1> HIDE DEF a, b
<1>6. /\ a \o b \in Seq(E) /\ Len(a \o b) = Len(a) + Len(b)
      /\ \A i \in 1 .. Len(a) + Len(b) :
           (a \o b)[i] = IF i <= Len(a) THEN a[i] ELSE b[i - Len(a)]
  BY <1>3, <1>4, ConcatProperties
<1>7. DOMAIN (a \o b) = 1 .. Len(registry) - 1
  <2>1. Len(a) + Len(b) = Len(registry) - 1
    BY <1>1, <1>2, <1>3, <1>4
  <2> QED
    BY <1>6, <2>1, LenProperties
<1>8. ASSUME NEW i \in 1 .. Len(registry) - 1
      PROVE  (a \o b)[i] = registry[IF i < m THEN i ELSE i + 1]
  <2>1. (a \o b)[i] = IF i <= m - 1 THEN a[i] ELSE b[i - (m - 1)]
    <3>1. Len(a) = m - 1 /\ Len(a) + Len(b) = Len(registry) - 1
      BY <1>1, <1>2, <1>3, <1>4
    <3> QED
      BY <1>6, <3>1
  <2>2. CASE i < m
    BY <1>1, <1>2, <1>3, <2>1, <2>2
  <2>3. CASE ~(i < m)
    <3>1. i - (m - 1) \in 1 .. Len(registry) - m
      BY <1>1, <1>2, <2>3
    <3>2. b[i - (m - 1)] = registry[m + (i - (m - 1))]
      BY <1>4, <3>1
    <3>3. m + (i - (m - 1)) = i + 1
      BY <1>1, <1>2
    <3> QED
      BY <1>1, <1>2, <2>1, <2>3, <3>2, <3>3
  <2> QED
    BY <2>2, <2>3
<1> QED
  BY <1>1, <1>2, <1>5, <1>6, <1>7, <1>8 DEF E

-----------------------------------------------------------------------------
(* The inductive invariant.                                                *)

\* Nothing is made yet.
LEMMA EnvInvInit == Init => EnvInv
<1> SUFFICES ASSUME Init PROVE EnvInv
  OBVIOUS
<1> USE EnvManagerAssumption DEF Init
<1>1. /\ NumNames \in Nat \ {0} /\ NumValues \in Nat \ {0}
      /\ MaxEnvs \in Nat \ {0} /\ MaxCalls \in Nat \ {0}
  OBVIOUS
<1>2. Empty \in [Names -> Values]
  BY <1>1 DEF Empty, Absent, Values
<1>3. initialized \in BOOLEAN /\ misused \in BOOLEAN
  BY Zenon
<1>4. TypeOK
  BY <1>1, <1>2, <1>3 DEF TypeOK
<1>5. Pointers /\ LocksHeld
  BY <1>1 DEF Pointers, LocksHeld, ReadersAre, WritersAre, CopiersHold, Exclusive
<1>6. NewIsPrivate /\ KeysFirst /\ CopiedSoFar
  BY DEF NewIsPrivate, New, KeysFirst, CopiedSoFar
<1>7. RegistryInv
  BY DEF RegistryInv
<1> QED
  BY <1>4, <1>5, <1>6, <1>7 DEF EnvInv

\* Every step preserves the invariant.
LEMMA EnvInvStep == EnvInv /\ [Next]_vars => EnvInv'
<1> SUFFICES ASSUME EnvInv, [Next]_vars PROVE EnvInv'
  OBVIOUS
<1>t. /\ vars_of \in [Envs -> [Names -> Values]] /\ process \in [Names -> Values]
      /\ made \in 0 .. MaxEnvs /\ calls \in 0 .. MaxCalls
      /\ readers \in [Envs -> SUBSET Tids] /\ writer \in [Envs -> SUBSET Tids]
      /\ frees \in [Envs -> 0 .. 1] /\ key \in [Tids -> 0 .. MaxEnvs]
      /\ pc \in [Tids -> Labels]
      /\ src \in [Tids -> 0 .. MaxEnvs] /\ dst \in [Tids -> 0 .. MaxEnvs]
      /\ at \in [Tids -> 1 .. (NumNames + 1)]
      /\ NumNames \in Nat \ {0} /\ NumValues \in Nat /\ MaxEnvs \in Nat /\ MaxCalls \in Nat
  <2>1. frees \in [Envs -> 0 .. 1]
    BY DEF EnvInv, TypeOK, RegistryInv
  <2> QED
    BY <2>1, EnvManagerAssumption DEF EnvInv, TypeOK, Labels
<1>r. /\ registry \in Seq([tid : Tids, env : Envs]) /\ Len(registry) \in Nat
      /\ DOMAIN registry = 1 .. Len(registry)
      /\ \A i \in DOMAIN registry : registry[i].tid \in Tids /\ registry[i].env \in Envs
  BY RegistryIs DEF EnvInv
<1>e. \A e \in 0 .. MaxEnvs : e # 0 => e \in Envs
  BY <1>t DEF Envs
<1> USE DEF EnvInv, Goto, lifetime, locks, copying
<1>1. ASSUME NEW t \in Tids, ~Undefined, ReadLock(t) PROVE EnvInv'
  <2>1. /\ src[t] \in Envs /\ src[t] # 0 /\ at[t] = 1 /\ writer[src[t]] = {}
        /\ pc[t] \in {"parent_lock", "read_lock"}
        /\ readers' = [readers EXCEPT ![src[t]] = @ \cup {t}]
        /\ pc' = [pc EXCEPT ![t] = IF pc[t] = "parent_lock" THEN "copy" ELSE "write_lock"]
        /\ UNCHANGED <<lifetime, writer, copying, process, vars_of, calls>>
    BY <1>1, <1>t, <1>e DEF ReadLock, Pointers
  <2>2. TypeOK'
    BY <2>1, <1>t DEF TypeOK, Labels
  <2>3. Pointers'
    BY <2>1, <1>t DEF Pointers
  <2>4. ReadersAre'
    BY <2>1, <1>t DEF LocksHeld, ReadersAre
  <2>5. WritersAre'
    BY <2>1, <1>t DEF LocksHeld, WritersAre
  <2>6. CopiersHold'
    BY <2>1, <1>t DEF LocksHeld, CopiersHold, NewIsPrivate, New
  <2>7. Exclusive'
    BY <2>1, <1>t DEF LocksHeld, Exclusive
  <2>8. NewIsPrivate'
    <3>1. \A u \in Tids : New(u)' => New(u)
      BY <2>1, <1>t DEF New, NewIsPrivate
    <3> QED
      BY <2>1, <3>1 DEF NewIsPrivate, Registered
  <2>9. RegistryInv' /\ KeysFirst'
    BY <2>1 DEF RegistryInv, KeysFirst
  <2>11. CopiedSoFar'
    BY <1>1, <2>1, <1>t DEF CopiedSoFar, Names
  <2> QED
    BY <2>2, <2>3, <2>4, <2>5, <2>6, <2>7, <2>8, <2>9, <2>11 DEF LocksHeld
<1>2. ASSUME NEW t \in Tids, ~Undefined, WriteLock(t) PROVE EnvInv'
  <2>1. /\ dst[t] \in Envs /\ at[t] = 1 /\ writer[dst[t]] = {} /\ readers[dst[t]] = {}
        /\ pc[t] = "write_lock"
        /\ writer' = [writer EXCEPT ![dst[t]] = {t}]
        /\ pc' = [pc EXCEPT ![t] = "copy"]
        /\ UNCHANGED <<lifetime, readers, copying, process, vars_of, calls>>
    BY <1>2, <1>t, <1>e DEF WriteLock, WriteLockable, Pointers
  <2>2. TypeOK'
    BY <2>1, <1>t DEF TypeOK, Labels
  <2>3. Pointers'
    BY <2>1, <1>t DEF Pointers
  <2>4. ReadersAre'
    BY <2>1, <1>t DEF LocksHeld, ReadersAre
  <2>5. WritersAre'
    BY <2>1, <1>t DEF LocksHeld, WritersAre
  <2>6. CopiersHold'
    <3>1. \A u \in Tids : pc[u] = "copy" => dst[u] # dst[t]
      BY <2>1, <1>t DEF NewIsPrivate, New
    <3> QED
      BY <2>1, <3>1, <1>t, <1>e DEF LocksHeld, CopiersHold
  <2>7. Exclusive'
    BY <2>1, <1>t DEF LocksHeld, Exclusive
  <2>8. NewIsPrivate'
    <3>1. ASSUME NEW u \in Tids, New(u)' PROVE New(u) /\ u # t
      <4>1. dst'[u] = dst[u] /\ (pc[u] = "copy" => dst[u] \in Envs)
        BY <2>1, <1>t, <1>e DEF Pointers
      <4> QED
        BY <2>1, <3>1, <4>1, <1>t DEF New
    <3>2. \A u \in Tids : New(u)' => dst[u] # dst[t]
      BY <2>1, <3>1 DEF NewIsPrivate
    <3> QED
      BY <2>1, <3>1, <3>2, <1>t DEF NewIsPrivate, Registered
  <2>9. RegistryInv' /\ KeysFirst'
    BY <2>1 DEF RegistryInv, KeysFirst
  <2>11. CopiedSoFar'
    BY <1>2, <2>1, <1>t DEF CopiedSoFar, Names
  <2> QED
    BY <2>2, <2>3, <2>4, <2>5, <2>6, <2>7, <2>8, <2>9, <2>11 DEF LocksHeld
<1>3. ASSUME NEW t \in Tids, ~Undefined, CopyVariable(t) PROVE EnvInv'
  <2>1. /\ pc[t] = "copy" /\ at[t] \in Names /\ dst[t] \in Envs
        /\ at' = [at EXCEPT ![t] = @ + 1]
        /\ vars_of' = [vars_of EXCEPT ![dst[t]][at[t]] = Source(t)[at[t]]]
        /\ UNCHANGED <<lifetime, locks, src, dst, process, pc, calls>>
    BY <1>3, <1>t, <1>e DEF CopyVariable, Pointers
  <2>2. TypeOK'
    <3>1. Source(t)[at[t]] \in Values
      BY <2>1, <1>t, <1>e DEF Source
    <3>2. vars_of' \in [Envs -> [Names -> Values]]
      BY <2>1, <3>1, <1>t
    <3>3. at' \in [Tids -> 1 .. (NumNames + 1)]
      BY <2>1, <1>t DEF Names
    <3> QED
      BY <2>1, <3>2, <3>3 DEF TypeOK
  <2>3. Pointers'
    BY <2>1, <1>t DEF Pointers
  <2>4. LocksHeld'
    BY <2>1 DEF LocksHeld, ReadersAre, WritersAre, CopiersHold, Exclusive
  <2>5. NewIsPrivate'
    BY <2>1 DEF NewIsPrivate, New, Registered
  <2>6. RegistryInv' /\ KeysFirst'
    BY <2>1 DEF RegistryInv, KeysFirst
  <2>8. CopiedSoFar'
    <3> SUFFICES ASSUME NEW u \in Tids, pc[u] = "copy", src[u] # 0,
                        NEW n \in Names, n < at'[u]
                 PROVE  vars_of'[dst[u]][n] = vars_of'[src[u]][n]
      BY <2>1 DEF CopiedSoFar
    <3>1. src[u] \in Envs /\ dst[u] \in Envs
      BY <1>t, <1>e DEF Pointers
    <3>2. CASE u = t
      <4>1. Source(t) = vars_of[src[t]]
        BY <3>2 DEF Source
      <4>2. n < at[t] => vars_of[dst[t]][n] = vars_of[src[t]][n]
        BY <1>3, <3>2 DEF CopiedSoFar
      <4>3. n < at[t] \/ n = at[t]
        BY <2>1, <3>2, <1>t DEF Names
      <4> QED
        BY <2>1, <3>1, <3>2, <4>1, <4>2, <4>3, <1>t
    <3>3. CASE u # t
      <4>1. vars_of[dst[u]][n] = vars_of[src[u]][n]
        BY <1>3, <2>1, <3>3, <1>t DEF CopiedSoFar
      <4>2. dst[u] # dst[t]
        BY <2>1, <3>3 DEF NewIsPrivate, New, LocksHeld, CopiersHold
      <4>3. src[u] # dst[t]
        BY <2>1, <3>1 DEF NewIsPrivate, New, LocksHeld, CopiersHold, Exclusive
      <4> QED
        BY <2>1, <3>1, <4>1, <4>2, <4>3, <1>t
    <3> QED
      BY <3>2, <3>3
  <2> QED
    BY <2>2, <2>3, <2>4, <2>5, <2>6, <2>8
<1>4. ASSUME NEW t \in Tids, ~Undefined, CopyDone(t) PROVE EnvInv'
  <2>1. /\ pc[t] = "copy" /\ dst[t] \in Envs
        /\ readers' = [e \in Envs |-> readers[e] \ {t}]
        /\ writer' = [e \in Envs |-> writer[e] \ {t}]
        /\ pc' = [pc EXCEPT ![t] = IF writer[dst[t]] = {} THEN "publish" ELSE "idle"]
        /\ src' = [src EXCEPT ![t] = 0]
        /\ dst' = [dst EXCEPT ![t] = IF writer[dst[t]] = {} THEN @ ELSE 0]
        /\ at' = [at EXCEPT ![t] = 1]
        /\ UNCHANGED <<lifetime, process, vars_of, calls>>
    BY <1>4, <1>t, <1>e DEF CopyDone, Released, IsNew, Pointers
  <2>2. TypeOK'
    <3>1. readers' \in [Envs -> SUBSET Tids] /\ writer' \in [Envs -> SUBSET Tids]
      BY <2>1, <1>t
    <3>2. /\ pc' \in [Tids -> Labels] /\ at' \in [Tids -> 1 .. (NumNames + 1)]
          /\ src' \in [Tids -> 0 .. MaxEnvs] /\ dst' \in [Tids -> 0 .. MaxEnvs]
      BY <2>1, <1>t DEF Labels
    <3> QED
      BY <2>1, <3>1, <3>2 DEF TypeOK, Labels
  <2>3. Pointers'
    BY <2>1, <1>t DEF Pointers
  <2>4. ReadersAre' /\ WritersAre'
    BY <2>1, <1>t DEF LocksHeld, ReadersAre, WritersAre
  <2>5. CopiersHold'
    <3>1. ASSUME NEW u \in Tids, pc'[u] \in {"write_lock", "copy"}
          PROVE  u # t /\ pc'[u] = pc[u] /\ src'[u] = src[u] /\ dst'[u] = dst[u]
      BY <2>1, <3>1, <1>t
    <3>2. ASSUME NEW u \in Tids, pc'[u] \in {"write_lock", "copy"}, src'[u] # 0
          PROVE  u \in readers'[src'[u]]
      <4>1. src[u] \in Envs /\ u \in readers[src[u]]
        BY <3>1, <3>2, <1>t, <1>e DEF LocksHeld, CopiersHold
      <4> QED
        BY <2>1, <3>1, <3>2, <4>1
    <3>3. ASSUME NEW u \in Tids, pc'[u] = "copy" PROVE writer'[dst'[u]] \subseteq {u}
      <4>1. dst[u] \in Envs /\ writer[dst[u]] \subseteq {u}
        BY <3>1, <3>3, <1>t, <1>e DEF LocksHeld, CopiersHold, Pointers
      <4> QED
        BY <2>1, <3>1, <3>3, <4>1
    <3> QED
      BY <3>2, <3>3 DEF CopiersHold
  <2>6. Exclusive'
    BY <2>1, <1>t DEF LocksHeld, Exclusive
  <2>7. NewIsPrivate'
    <3>1. ASSUME NEW u \in Tids, New(u)' PROVE New(u) /\ dst'[u] = dst[u] /\ dst[u] \in Envs
      <4>1. CASE u = t
        BY <2>1, <3>1, <4>1, <1>t DEF New
      <4>2. CASE u # t
        <5>1. pc[u] # "idle" /\ dst'[u] = dst[u] /\ pc'[u] = pc[u]
          BY <2>1, <3>1, <4>2, <1>t DEF New
        <5>2. dst[u] \in Envs
          BY <5>1, <1>t, <1>e DEF Pointers
        <5>3. pc[u] = "copy" => writer[dst[u]] \subseteq {u}
          BY DEF LocksHeld, CopiersHold
        <5> QED
          BY <2>1, <3>1, <4>2, <5>1, <5>2, <5>3, <1>t DEF New
      <4> QED
        BY <4>1, <4>2
    <3>2. \A v \in Tids : (src'[v] = src[v] \/ src'[v] = 0) /\ (dst'[v] = dst[v] \/ dst'[v] = 0)
      BY <2>1, <1>t
    <3>3. \A e \in Envs : e # 0
      BY <1>t DEF Envs
    <3>4. \A e \in Envs : writer[e] = {} => writer'[e] = {}
      BY <2>1
    <3>5. ASSUME NEW u \in Tids, New(u)'
          PROVE  /\ key'[u] = 0 /\ frees'[dst'[u]] = 0 /\ ~Registered(dst[u])'
                 /\ writer'[dst'[u]] = {}
      <4>1. /\ key[u] = 0 /\ frees[dst[u]] = 0 /\ ~Registered(dst[u])
            /\ writer[dst[u]] = {} /\ dst[u] \in Envs /\ dst'[u] = dst[u]
        BY <3>1, <3>5 DEF NewIsPrivate
      <4>2. key' = key /\ frees' = frees /\ registry' = registry
        BY <2>1
      <4> QED
        BY <3>4, <4>1, <4>2 DEF Registered
    <3>6. ASSUME NEW u \in Tids, New(u)', NEW v \in Tids
          PROVE  /\ key'[v] # dst'[u] /\ src'[v] # dst'[u]
                 /\ v # u => dst'[v] # dst'[u]
      BY <2>1, <3>1, <3>2, <3>3, <3>6 DEF NewIsPrivate
    <3> QED
      BY <3>5, <3>6 DEF NewIsPrivate
  <2>8. RegistryInv' /\ KeysFirst'
    BY <2>1 DEF RegistryInv, KeysFirst
  <2>10. CopiedSoFar'
    BY <1>4, <2>1, <1>t DEF CopiedSoFar
  <2> QED
    BY <2>2, <2>3, <2>4, <2>5, <2>6, <2>7, <2>8, <2>10 DEF LocksHeld
<1>5. ASSUME NEW t \in Tids, ~Undefined, Publish(t) PROVE EnvInv'
  <2>1. /\ pc[t] = "publish" /\ dst[t] \in Envs /\ initialized
        /\ key' = [key EXCEPT ![t] = dst[t]]
        /\ registry' = WithEntry(t, dst[t])
        /\ dst' = [dst EXCEPT ![t] = 0]
        /\ pc' = [pc EXCEPT ![t] = "idle"]
        /\ UNCHANGED <<initialized, made, frees, misused, locks, src, at, process, vars_of,
                       calls>>
    BY <1>5, <1>t, <1>e DEF Publish, Pointers
  <2>2. /\ registry' \in Seq([tid : Tids, env : Envs])
        /\ DOMAIN registry' = 1 .. Len(registry) + 1
        /\ registry'[1].tid = t /\ registry'[1].env = dst[t]
        /\ \A i \in DOMAIN registry : registry'[i + 1] = registry[i]
        /\ \A i \in DOMAIN registry' :
             i = 1 \/ (i - 1 \in DOMAIN registry /\ registry'[i] = registry[i - 1])
    <3>1. /\ WithEntry(t, dst[t]) \in Seq([tid : Tids, env : Envs])
          /\ DOMAIN WithEntry(t, dst[t]) = 1 .. Len(registry) + 1
          /\ WithEntry(t, dst[t])[1] = [tid |-> t, env |-> dst[t]]
          /\ \A i \in DOMAIN registry : WithEntry(t, dst[t])[i + 1] = registry[i]
          /\ \A i \in DOMAIN WithEntry(t, dst[t]) : i = 1 \/ (i - 1 \in DOMAIN registry
                 /\ WithEntry(t, dst[t])[i] = registry[i - 1])
      BY <2>1, WithEntryIs
    <3>2. registry' = WithEntry(t, dst[t])
      BY <2>1
    <3> HIDE DEF EnvInv
    <3> QED
      BY <3>1, <3>2
  <2>3. New(t)
    BY <2>1 DEF New
  <2>4. TypeOK'
    <3>1. key' \in [Tids -> 0 .. MaxEnvs] /\ dst' \in [Tids -> 0 .. MaxEnvs]
      BY <2>1, <1>t
    <3>2. pc' \in [Tids -> Labels]
      BY <2>1, <1>t DEF Labels
    <3> QED
      BY <2>1, <2>2, <3>1, <3>2 DEF TypeOK, Labels
  <2>5. Pointers'
    BY <2>1, <1>t DEF Pointers
  <2>6. ReadersAre' /\ WritersAre'
    BY <2>1, <1>t DEF LocksHeld, ReadersAre, WritersAre
  <2>7. CopiersHold' /\ Exclusive'
    BY <2>1, <1>t DEF LocksHeld, CopiersHold, Exclusive
  <2>8. NewIsPrivate'
    <3>1. ASSUME NEW u \in Tids, New(u)'
          PROVE  New(u) /\ u # t /\ dst'[u] = dst[u] /\ dst[u] \in Envs
      <4>1. u # t /\ dst'[u] = dst[u] /\ pc'[u] = pc[u] /\ pc[u] # "idle"
        BY <2>1, <3>1, <1>t DEF New
      <4> QED
        BY <2>1, <3>1, <4>1, <1>t, <1>e DEF New, Pointers
    <3>2. \A u \in Tids : u # t => dst[u] # dst[t]
      BY <2>3 DEF NewIsPrivate
    <3>3. \A e : Registered(e)' => Registered(e) \/ e = dst[t]
      BY <2>2 DEF Registered
    <3>4. \A u \in Tids : dst'[u] = IF u = t THEN 0 ELSE dst[u]
      BY <2>1, <1>t
    <3>5. \A u \in Tids : key'[u] = IF u = t THEN dst[t] ELSE key[u]
      BY <2>1, <1>t
    <3>6. \A e \in Envs : e # 0
      BY <1>t DEF Envs
    <3> QED
      BY <2>1, <3>1, <3>2, <3>3, <3>4, <3>5, <3>6 DEF NewIsPrivate
  <2>9. RegistryInv'
    <3>1. \A i \in DOMAIN registry : registry[i].env # dst[t]
      BY <2>3 DEF NewIsPrivate, Registered
    <3>2. dst[t] <= made /\ frees[dst[t]] = 0
      BY <2>3 DEF NewIsPrivate, Pointers
    <3>3. \A i \in DOMAIN registry' : registry'[i].env <= made /\ frees[registry'[i].env] = 0
      BY <2>2, <3>2 DEF RegistryInv
    <3>4. ASSUME NEW i \in DOMAIN registry', NEW j \in DOMAIN registry',
                 registry'[i].env = registry'[j].env
          PROVE  i = j
      BY <2>2, <3>1, <3>4, <1>r DEF RegistryInv
    <3> QED
      BY <2>1, <3>3, <3>4 DEF RegistryInv
  <2>10. KeysFirst'
    <3> SUFFICES ASSUME NEW u \in Tids, key'[u] # 0
                 PROVE  \E i \in DOMAIN registry' :
                          /\ registry'[i].tid = u /\ registry'[i].env = key'[u]
                          /\ \A j \in DOMAIN registry' : registry'[j].tid = u => i <= j
      BY <2>1 DEF KeysFirst
    <3>1. CASE u = t
      <4>1. 1 \in DOMAIN registry' /\ \A j \in DOMAIN registry' : 1 <= j
        BY <2>2, <1>r
      <4> QED
        BY <2>1, <2>2, <3>1, <4>1, <1>t
    <3>2. CASE u # t
      <4>1. PICK i \in DOMAIN registry :
              /\ registry[i].tid = u /\ registry[i].env = key[u]
              /\ \A j \in DOMAIN registry : registry[j].tid = u => i <= j
        BY <2>1, <3>2, <1>t DEF KeysFirst
      <4>2. /\ i + 1 \in DOMAIN registry' /\ registry'[i + 1] = registry[i]
            /\ key'[u] = key[u]
        <5>1. key'[u] = key[u]
          BY <2>1, <3>2, <1>t
        <5>2. i + 1 \in 1 .. Len(registry) + 1
          BY <1>r
        <5> QED
          BY <2>2, <5>1, <5>2
      <4>3. ASSUME NEW j \in DOMAIN registry', registry'[j].tid = u PROVE i + 1 <= j
        <5>1. j # 1
          BY <2>2, <3>2, <4>3
        <5>2. j - 1 \in DOMAIN registry /\ registry'[j] = registry[j - 1]
          BY <2>2, <5>1
        <5>3. i <= j - 1
          BY <4>1, <4>3, <5>2
        <5>4. i \in Nat /\ j \in Nat
          BY <2>2, <1>r
        <5> HIDE DEF EnvInv
        <5> QED
          BY <5>3, <5>4
      <4> QED
        BY <4>1, <4>2, <4>3
    <3> QED
      BY <3>1, <3>2
  <2>12. CopiedSoFar'
    BY <1>5, <2>1, <1>t DEF CopiedSoFar
  <2> QED
    BY <2>4, <2>5, <2>6, <2>7, <2>8, <2>9, <2>10, <2>12 DEF LocksHeld
<1>6. ASSUME NEW t \in Tids, ~Undefined, Cleanup(t) PROVE EnvInv'
  <2>1. /\ key' = [key EXCEPT ![t] = 0]
        /\ UNCHANGED <<initialized, made, frees, registry, misused, locks, copying, process,
                       vars_of, pc, calls>>
    BY <1>6 DEF Cleanup, CleanedUp
  <2>2. TypeOK'
    BY <2>1, <1>t DEF TypeOK, Labels
  <2>3. Pointers' /\ RegistryInv'
    BY <2>1 DEF Pointers, RegistryInv
  <2>4. LocksHeld'
    BY <2>1 DEF LocksHeld, ReadersAre, WritersAre, CopiersHold, Exclusive
  <2>5. NewIsPrivate'
    <3>1. \A u \in Tids : New(u) => dst[u] # 0
      BY <1>t DEF New, Pointers
    <3>2. \A u \in Tids : New(u)' <=> New(u)
      BY <2>1 DEF New
    <3> QED
      BY <2>1, <3>1, <3>2, <1>t DEF NewIsPrivate, Registered
  <2>6. KeysFirst'
    BY <2>1, <1>t DEF KeysFirst
  <2>7. CopiedSoFar'
    BY <1>6, <2>1 DEF CopiedSoFar
  <2> QED
    BY <2>2, <2>3, <2>4, <2>5, <2>6, <2>7
<1>7. ASSUME NEW t \in Tids, ~Undefined, ExitRaw(t) PROVE EnvInv'
  <2> DEFINE m == First(Matches(t))
  <2>1. /\ key[t] \in Envs /\ pc[t] = "idle"
        /\ registry' = WithoutEntry(t)
        /\ frees' = [frees EXCEPT ![key[t]] = @ + 1]
        /\ vars_of' = [vars_of EXCEPT ![key[t]] = Empty]
        /\ key' = [key EXCEPT ![t] = 0]
        /\ UNCHANGED <<initialized, made, misused, locks, copying, process, pc, calls>>
    BY <1>7, <1>t, <1>e DEF ExitRaw, Current
  <2>2. Matches(t) # {} /\ registry[m].env = key[t]
    <3>1. key[t] # 0
      BY <1>7 DEF ExitRaw, Current
    <3> QED
      BY <3>1, LookupOwn
  <2>3. /\ m \in DOMAIN registry /\ registry[m].tid = t
        /\ \A j \in DOMAIN registry : registry[j].tid = t => m <= j
    BY <2>2, FirstMatch DEF Matches
  <2>4. /\ registry' \in Seq([tid : Tids, env : Envs])
        /\ DOMAIN registry' = 1 .. Len(registry) - 1
        /\ \A i \in 1 .. Len(registry) - 1 :
             registry'[i] = registry[IF i < m THEN i ELSE i + 1]
    <3>1. /\ WithoutEntry(t) \in Seq([tid : Tids, env : Envs])
          /\ DOMAIN WithoutEntry(t) = 1 .. Len(registry) - 1
          /\ \A i \in 1 .. Len(registry) - 1 :
               WithoutEntry(t)[i] = registry[IF i < m THEN i ELSE i + 1]
      BY <2>2, WithoutEntryIs
    <3>2. registry' = WithoutEntry(t)
      BY <2>1
    <3> HIDE DEF EnvInv, m
    <3> QED
      BY <3>1, <3>2
  <2> HIDE DEF m
  <2> DEFINE old(i) == IF i < m THEN i ELSE i + 1
  <2>5. ASSUME NEW i \in DOMAIN registry'
        PROVE  /\ old(i) \in DOMAIN registry /\ old(i) # m
               /\ registry'[i] = registry[old(i)]
    BY <2>3, <2>4, <1>r
  <2>6. ASSUME NEW i \in DOMAIN registry', NEW j \in DOMAIN registry', old(i) = old(j)
        PROVE  i = j
    BY <2>3, <2>4, <2>6, <1>r
  <2>7. ASSUME NEW k \in DOMAIN registry, k # m
        PROVE  \E i \in DOMAIN registry' : old(i) = k
    <3>1. CASE k < m
      <4>1. k \in DOMAIN registry'
        BY <2>3, <2>4, <3>1, <1>r
      <4> QED
        BY <3>1, <4>1
    <3>2. CASE ~(k < m)
      <4>1. k - 1 \in DOMAIN registry' /\ ~(k - 1 < m) /\ (k - 1) + 1 = k
        BY <2>3, <2>4, <2>7, <3>2, <1>r
      <4> QED
        BY <4>1
    <3> QED
      BY <3>1, <3>2
  <2>8. ASSUME NEW i \in DOMAIN registry', NEW j \in DOMAIN registry'
        PROVE  (old(i) <= old(j)) => i <= j
    BY <2>3, <2>4, <1>r
  <2> HIDE DEF old
  <2>9. frees[key[t]] = 0
    BY <2>2, <2>3 DEF RegistryInv
  <2>10. TypeOK'
    <3>1. Empty \in [Names -> Values]
      BY <1>t DEF Empty, Values, Absent
    <3>2. vars_of' \in [Envs -> [Names -> Values]]
      BY <2>1, <3>1, <1>t
    <3>3. frees' \in [Envs -> 0 .. 1] /\ key' \in [Tids -> 0 .. MaxEnvs]
      BY <2>1, <2>9, <1>t
    <3> QED
      BY <2>1, <2>4, <3>2, <3>3 DEF TypeOK
  <2>11. Pointers'
    BY <2>1 DEF Pointers
  <2>12. LocksHeld'
    BY <2>1 DEF LocksHeld, ReadersAre, WritersAre, CopiersHold, Exclusive
  <2>13. NewIsPrivate'
    <3>1. \A u \in Tids : (New(u)' <=> New(u)) /\ (New(u) => dst[u] # 0 /\ dst[u] \in Envs)
      BY <2>1, <1>t, <1>e DEF New, Pointers
    <3>2. \A e : Registered(e)' => Registered(e)
      BY <2>5 DEF Registered
    <3>3. ASSUME NEW u \in Tids, New(u)
          PROVE  key'[u] = 0 /\ frees'[dst[u]] = 0 /\ \A v \in Tids : key'[v] # dst[u]
      BY <2>1, <3>1, <3>3, <1>t DEF NewIsPrivate
    <3>4. dst' = dst /\ src' = src /\ writer' = writer
      BY <2>1
    <3> QED
      BY <3>1, <3>2, <3>3, <3>4 DEF NewIsPrivate
  <2>14. RegistryInv'
    <3>1. \A i \in DOMAIN registry : i # m => registry[i].env # key[t]
      BY <2>2, <2>3 DEF RegistryInv
    <3>2. ASSUME NEW i \in DOMAIN registry'
          PROVE  registry'[i].env <= made /\ frees'[registry'[i].env] = 0
      <4>1. /\ registry'[i].env <= made /\ frees[registry'[i].env] = 0
            /\ registry'[i].env # key[t] /\ registry'[i].env \in Envs
        BY <2>5, <3>1, <1>r DEF RegistryInv
      <4> QED
        BY <2>1, <4>1, <1>t
    <3>3. ASSUME NEW i \in DOMAIN registry', NEW j \in DOMAIN registry',
                 registry'[i].env = registry'[j].env
          PROVE  i = j
      BY <2>5, <2>6, <3>3 DEF RegistryInv
    <3>4. ASSUME NEW e \in Envs, e > made PROVE frees'[e] = 0
      <4>1. key[t] <= made
        BY <2>2, <2>3 DEF RegistryInv
      <4>2. e # key[t]
        BY <3>4, <4>1, <1>t DEF Envs
      <4> QED
        BY <2>1, <3>4, <4>2, <1>t DEF RegistryInv
    <3>5. made' = made
      BY <2>1
    <3>6. \A e \in Envs : frees'[e] <= 1
      <4>1. frees[key[t]] = 0
        BY <2>2, <2>3 DEF RegistryInv
      <4> QED
        BY <2>1, <4>1, <1>t
    <3> QED
      BY <3>2, <3>3, <3>4, <3>5, <3>6 DEF RegistryInv
  <2>15. KeysFirst'
    <3> SUFFICES ASSUME NEW u \in Tids, key'[u] # 0
                 PROVE  \E i \in DOMAIN registry' :
                          /\ registry'[i].tid = u /\ registry'[i].env = key'[u]
                          /\ \A j \in DOMAIN registry' : registry'[j].tid = u => i <= j
      BY <1>7, <2>1 DEF KeysFirst, ExitRaw, Current
    <3>1. u # t /\ key'[u] = key[u]
      BY <2>1, <1>t
    <3>2. PICK k \in DOMAIN registry :
            /\ registry[k].tid = u /\ registry[k].env = key[u]
            /\ \A j \in DOMAIN registry : registry[j].tid = u => k <= j
      BY <3>1 DEF KeysFirst
    <3>3. k # m
      BY <2>3, <3>1, <3>2
    <3>4. PICK i \in DOMAIN registry' : old(i) = k
      BY <2>7, <3>3
    <3>5. registry'[i].tid = u /\ registry'[i].env = key'[u]
      BY <2>5, <3>1, <3>2, <3>4
    <3>6. ASSUME NEW j \in DOMAIN registry', registry'[j].tid = u PROVE i <= j
      BY <2>5, <2>8, <3>2, <3>4, <3>6
    <3> QED
      BY <3>5, <3>6
  <2>17. CopiedSoFar'
    <3> SUFFICES ASSUME NEW u \in Tids, pc[u] = "copy", src[u] # 0, ~Undefined',
                        NEW n \in Names, n < at[u]
                 PROVE  vars_of'[dst[u]][n] = vars_of'[src[u]][n]
      BY <2>1 DEF CopiedSoFar
    <3>1. src[u] \in Envs /\ dst[u] \in Envs /\ dst[u] # 0
      BY <1>t, <1>e DEF Pointers
    <3>2. ~(frees'[src[u]] > 0) /\ ~(frees'[dst[u]] > 0)
      <4>1. frees'[src[u]] = 0 /\ frees'[dst[u]] = 0
        BY <2>1, <3>1 DEF Undefined, PointsToAllocated
      <4> QED
        BY <4>1
    <3>3. src[u] # key[t] /\ dst[u] # key[t]
      BY <2>1, <2>9, <3>2, <1>t
    <3>4. vars_of[dst[u]][n] = vars_of[src[u]][n]
      BY <1>7 DEF CopiedSoFar
    <3> QED
      BY <2>1, <3>1, <3>3, <3>4, <1>t
  <2> QED
    BY <2>10, <2>11, <2>12, <2>13, <2>14, <2>15, <2>17
<1>8. ASSUME NEW t \in Tids, ~Undefined, NEW parent \in Tids \cup {0}, InitThread(t, parent)
      PROVE  EnvInv'
  <2> DEFINE d == made + 1
             L == IF parent = 0 THEN 0 ELSE Lookup(parent)
             label == CASE parent = 0 -> "copy"
                        [] parent # 0 /\ Lookup(parent) = 0 -> "publish"
                        [] OTHER -> "parent_lock"
  <2>1. /\ pc[t] = "idle" /\ key[t] = 0
        /\ made' = d
        /\ dst' = [dst EXCEPT ![t] = d]
        /\ src' = [src EXCEPT ![t] = L]
        /\ pc' = [pc EXCEPT ![t] = label]
        /\ UNCHANGED <<initialized, frees, registry, key, misused, locks, at, process, vars_of,
                       calls>>
    BY <1>8 DEF InitThread, Current, KeysFirst
  <2>2. d \in Envs /\ d # 0 /\ d \in 0 .. MaxEnvs
    BY <1>8, <1>t DEF InitThread, Envs
  <2>3. /\ L \in 0 .. MaxEnvs
        /\ L # 0 => L \in Envs /\ Registered(L) /\ L <= made /\ frees[L] = 0
    <3>1. /\ Lookup(parent) \in 0 .. MaxEnvs
          /\ Lookup(parent) # 0 => Registered(Lookup(parent))
      BY LookupFinds
    <3>2. L \in 0 .. MaxEnvs /\ (L # 0 => Registered(L))
      BY <3>1, <1>t
    <3> QED
      BY <3>2, <1>e DEF RegistryInv, Registered
  <2>4. /\ label \in {"copy", "publish", "parent_lock"}
        /\ label \in {"copy", "publish"} => L = 0
        /\ label = "parent_lock" => L # 0
    <3>1. CASE parent = 0
      BY <3>1
    <3>2. CASE parent # 0 /\ Lookup(parent) = 0
      BY <3>2
    <3>3. CASE parent # 0 /\ Lookup(parent) # 0
      BY <3>3
    <3> QED
      BY <3>1, <3>2, <3>3
  <2> HIDE DEF L, label
  <2>5. /\ frees[d] = 0 /\ ~Registered(d)
        /\ \A u \in Tids : key[u] # d /\ src[u] # d /\ dst[u] # d
    <3>1. frees[d] = 0
      BY <2>2, <1>t DEF RegistryInv
    <3>2. ASSUME NEW e, Registered(e) PROVE e # d
      <4>1. e \in Envs /\ e <= made
        BY <3>2, <1>r DEF Registered, RegistryInv
      <4> QED
        BY <4>1, <1>t DEF Envs
    <3>3. \A u \in Tids : key[u] # 0 => Registered(key[u])
      BY DEF KeysFirst, Registered
    <3>4. \A u \in Tids : src[u] # d /\ dst[u] # d
      BY <1>t DEF Pointers
    <3> QED
      BY <2>2, <3>1, <3>2, <3>3, <3>4
  <2>6. writer[d] = {}
    BY <2>2, <2>5, <1>t DEF LocksHeld, WritersAre
  <2>7. \A u \in Tids : /\ u # t => pc'[u] = pc[u] /\ src'[u] = src[u] /\ dst'[u] = dst[u]
                        /\ u = t => pc'[u] = label /\ src'[u] = L /\ dst'[u] = d
    BY <2>1, <1>t
  <2>8. L # d
    BY <2>2, <2>3, <2>5
  <2>9. TypeOK'
    <3>1. /\ made' \in 0 .. MaxEnvs /\ dst' \in [Tids -> 0 .. MaxEnvs]
          /\ src' \in [Tids -> 0 .. MaxEnvs]
      BY <2>1, <2>2, <2>3, <1>t
    <3>2. pc' \in [Tids -> Labels]
      BY <2>1, <2>4, <1>t DEF Labels
    <3> QED
      BY <2>1, <3>1, <3>2 DEF TypeOK, Labels
  <2> HIDE DEF d
  <2>10. Pointers'
    <3>1. d = made + 1
      BY DEF d
    <3>2. ASSUME NEW u \in Tids, u # t
          PROVE  src'[u] <= made' /\ dst'[u] <= made'
      BY <2>1, <2>7, <3>1, <3>2, <1>t DEF Pointers
    <3>3. L <= d
      BY <2>2, <2>3, <3>1, <1>t
    <3>4. at[t] = 1 /\ at' = at
      BY <2>1, <1>t DEF Pointers
    <3>5. d <= d
      BY <3>1, <1>t
    <3>6. ASSUME NEW u \in Tids, u # t
          PROVE  /\ (pc'[u] = "idle") <=> (dst'[u] = 0)
                 /\ pc'[u] \in {"idle", "publish"} => src'[u] = 0
                 /\ pc'[u] \in {"parent_lock", "read_lock", "write_lock"} => src'[u] # 0
                 /\ pc'[u] # "copy" => at'[u] = 1
      BY <2>1, <2>7, <3>4, <3>6 DEF Pointers
    <3>7. /\ src'[t] <= made' /\ dst'[t] <= made'
          /\ (pc'[t] = "idle") <=> (dst'[t] = 0)
          /\ pc'[t] \in {"idle", "publish"} => src'[t] = 0
          /\ pc'[t] \in {"parent_lock", "read_lock", "write_lock"} => src'[t] # 0
          /\ pc'[t] # "copy" => at'[t] = 1
      BY <2>1, <2>2, <2>4, <2>7, <3>3, <3>4, <3>5
    <3> QED
      BY <3>2, <3>6, <3>7 DEF Pointers
  <2>11. LocksHeld'
    <3>1. readers' = readers /\ writer' = writer
      BY <2>1
    <3>2. \A e \in Envs : t \notin readers[e] /\ t \notin writer[e]
      BY <2>1 DEF LocksHeld, ReadersAre, WritersAre
    <3>3. ReadersAre'
      BY <2>7, <3>1, <3>2, <1>t DEF LocksHeld, ReadersAre
    <3>4. WritersAre'
      BY <2>7, <3>1, <3>2, <1>t DEF LocksHeld, WritersAre
    <3>5. CopiersHold'
      BY <2>4, <2>6, <2>7, <3>1 DEF LocksHeld, CopiersHold
    <3> QED
      BY <3>1, <3>3, <3>4, <3>5 DEF LocksHeld, Exclusive
  <2>12. NewIsPrivate'
    <3>1. \A u \in Tids : u # t => (New(u)' <=> New(u))
      BY <2>1, <2>7 DEF New
    <3>2. \A e : Registered(e)' <=> Registered(e)
      BY <2>1 DEF Registered
    <3>3. ASSUME NEW u \in Tids, u # t, New(u)
          PROVE  \A v \in Tids : src'[v] # dst[u] /\ (v # u => dst'[v] # dst[u])
      BY <2>3, <2>5, <2>7, <3>3, <1>t DEF NewIsPrivate, Pointers, New
    <3>4. key' = key /\ frees' = frees /\ writer' = writer
      BY <2>1
    <3>5. ASSUME NEW u \in Tids, u # t, New(u)'
          PROVE  /\ key'[u] = 0 /\ frees'[dst'[u]] = 0 /\ ~Registered(dst[u])'
                 /\ writer'[dst'[u]] = {}
                 /\ \A v \in Tids : key'[v] # dst'[u] /\ src'[v] # dst'[u]
                                      /\ (v # u => dst'[v] # dst'[u])
      BY <2>7, <3>1, <3>2, <3>3, <3>4, <3>5 DEF NewIsPrivate
    <3>6. /\ key'[t] = 0 /\ frees'[dst'[t]] = 0 /\ ~Registered(dst[t])'
          /\ writer'[dst'[t]] = {}
          /\ \A v \in Tids : key'[v] # dst'[t] /\ src'[v] # dst'[t]
                               /\ (v # t => dst'[v] # dst'[t])
      BY <2>1, <2>5, <2>6, <2>7, <2>8, <3>2, <3>4
    <3> QED
      BY <3>5, <3>6 DEF NewIsPrivate
  <2>13. RegistryInv'
    <3>1. made' = made + 1 /\ frees' = frees /\ registry' = registry
      BY <2>1 DEF d
    <3>2. ASSUME NEW i \in DOMAIN registry PROVE registry[i].env <= made + 1
      <4>1. registry[i].env \in Envs /\ registry[i].env <= made
        BY <1>r DEF RegistryInv
      <4> QED
        BY <4>1, <1>t DEF Envs
    <3>3. \A e \in Envs : e > made + 1 => frees[e] = 0
      BY <1>t DEF RegistryInv, Envs
    <3> QED
      BY <3>1, <3>2, <3>3 DEF RegistryInv
  <2>14. KeysFirst'
    BY <2>1 DEF KeysFirst
  <2>16. CopiedSoFar'
    BY <1>8, <2>1, <2>4, <2>7 DEF CopiedSoFar
  <2> QED
    BY <2>9, <2>10, <2>11, <2>12, <2>13, <2>14, <2>16
<1>9. ASSUME NEW t \in Tids, ~Undefined, NEW source \in Tids, NEW dest \in Tids,
             CopyFromThread(t, source, dest)
      PROVE  EnvInv'
  <2> DEFINE S == Lookup(source)
             D == Lookup(dest)
  <2>1. /\ pc[t] = "idle" /\ initialized /\ S # 0 /\ D # 0
        /\ calls < MaxCalls /\ calls' = calls + 1
        /\ src' = [src EXCEPT ![t] = S]
        /\ dst' = [dst EXCEPT ![t] = D]
        /\ pc' = [pc EXCEPT ![t] = "read_lock"]
        /\ UNCHANGED <<lifetime, locks, at, process, vars_of>>
    BY <1>9 DEF CopyFromThread, Call
  <2>2. /\ S \in 0 .. MaxEnvs /\ Registered(S) /\ D \in 0 .. MaxEnvs /\ Registered(D)
    BY <2>1, LookupFinds
  <2>3. /\ S <= made /\ frees[S] = 0 /\ D <= made /\ frees[D] = 0
    BY <2>2 DEF RegistryInv, Registered
  <2> HIDE DEF S, D
  <2>4. \A u \in Tids : /\ u # t => pc'[u] = pc[u] /\ src'[u] = src[u] /\ dst'[u] = dst[u]
                        /\ u = t => pc'[u] = "read_lock" /\ src'[u] = S /\ dst'[u] = D
    BY <2>1, <1>t
  <2>5. TypeOK'
    <3>1. /\ calls' \in 0 .. MaxCalls /\ dst' \in [Tids -> 0 .. MaxEnvs]
          /\ src' \in [Tids -> 0 .. MaxEnvs]
      BY <2>1, <2>2, <1>t
    <3>2. pc' \in [Tids -> Labels]
      BY <2>1, <1>t DEF Labels
    <3> QED
      BY <2>1, <3>1, <3>2 DEF TypeOK, Labels
  <2>6. Pointers'
    BY <2>1, <2>3, <2>4 DEF Pointers
  <2>7. LocksHeld'
    <3>1. readers' = readers /\ writer' = writer
      BY <2>1
    <3>2. \A e \in Envs : t \notin readers[e] /\ t \notin writer[e]
      BY <2>1 DEF LocksHeld, ReadersAre, WritersAre
    <3>3. ReadersAre'
      BY <2>4, <3>1, <3>2, <1>t DEF LocksHeld, ReadersAre
    <3>4. WritersAre'
      BY <2>4, <3>1, <3>2, <1>t DEF LocksHeld, WritersAre
    <3>5. CopiersHold'
      BY <2>4, <3>1 DEF LocksHeld, CopiersHold
    <3> QED
      BY <3>1, <3>3, <3>4, <3>5 DEF LocksHeld, Exclusive
  <2>8. NewIsPrivate'
    <3>1. \A u \in Tids : New(u)' => u # t /\ New(u)
      BY <2>1, <2>4 DEF New
    <3>2. \A e : Registered(e)' <=> Registered(e)
      BY <2>1 DEF Registered
    <3>3. key' = key /\ frees' = frees /\ writer' = writer
      BY <2>1
    <3>4. ASSUME NEW u \in Tids, New(u)'
          PROVE  /\ key'[u] = 0 /\ frees'[dst'[u]] = 0 /\ ~Registered(dst[u])'
                 /\ writer'[dst'[u]] = {}
                 /\ \A v \in Tids : key'[v] # dst'[u]
      BY <2>4, <3>1, <3>2, <3>3, <3>4 DEF NewIsPrivate
    <3>5. ASSUME NEW u \in Tids, New(u)', NEW v \in Tids
          PROVE  src'[v] # dst'[u] /\ (v # u => dst'[v] # dst'[u])
      <4>1. u # t /\ New(u) /\ ~Registered(dst[u]) /\ dst'[u] = dst[u]
        BY <2>4, <3>1, <3>5 DEF NewIsPrivate
      <4> QED
        BY <2>2, <2>4, <4>1 DEF NewIsPrivate
    <3> QED
      BY <3>4, <3>5 DEF NewIsPrivate
  <2>9. RegistryInv' /\ KeysFirst'
    BY <2>1 DEF RegistryInv, KeysFirst
  <2>11. CopiedSoFar'
    BY <1>9, <2>1, <2>4 DEF CopiedSoFar
  <2> QED
    BY <2>5, <2>6, <2>7, <2>8, <2>9, <2>11
<1>10. ASSUME NEW t \in Tids, ~Undefined, NEW n \in Names, NEW v \in Values, pc[t] = "idle",
              Call, Change(t, n, v), UNCHANGED <<lifetime, locks, copying, pc>>
       PROVE  EnvInv'
  <2>1. /\ vars_of' \in [Envs -> [Names -> Values]] /\ process' \in [Names -> Values]
        /\ calls' \in 0 .. MaxCalls
    <3>1. CASE Current(t) # 0
      <4>1. /\ vars_of' = [vars_of EXCEPT ![key[t]][n] = v] /\ process' = process
            /\ key[t] \in Envs
        BY <1>10, <3>1, <1>t, <1>e DEF Change, Current
      <4>2. calls' \in 0 .. MaxCalls
        BY <1>10, <1>t DEF Call
      <4> QED
        BY <4>1, <4>2, <1>t
    <3>2. CASE Current(t) = 0
      BY <1>10, <3>2, <1>t DEF Change, Call
    <3> QED
      BY <3>1, <3>2
  <2>2. TypeOK'
    BY <1>10, <2>1 DEF TypeOK
  <2>3. Pointers' /\ RegistryInv' /\ KeysFirst'
    BY <1>10 DEF Pointers, RegistryInv, KeysFirst
  <2>4. LocksHeld'
    BY <1>10 DEF LocksHeld, ReadersAre, WritersAre, CopiersHold, Exclusive
  <2>5. NewIsPrivate'
    BY <1>10 DEF NewIsPrivate, New, Registered
  <2>6. CopiedSoFar'
    <3> SUFFICES ASSUME NEW u \in Tids, pc[u] = "copy", src[u] # 0,
                        NEW x \in Names, x < at[u]
                 PROVE  vars_of'[dst[u]][x] = vars_of'[src[u]][x]
      BY <1>10 DEF CopiedSoFar
    <3>1. vars_of[dst[u]][x] = vars_of[src[u]][x]
      BY <1>10 DEF CopiedSoFar
    <3>2. CASE Current(t) = 0
      BY <1>10, <3>1, <3>2 DEF Change
    <3>3. CASE Current(t) # 0
      <4>1. /\ readers[key[t]] = {} /\ writer[key[t]] = {}
            /\ vars_of' = [vars_of EXCEPT ![key[t]][n] = v]
        BY <1>10, <3>3 DEF Change, WriteLockable
      <4>2. src[u] \in Envs /\ dst[u] \in Envs
        BY <1>t, <1>e DEF Pointers
      <4>3. src[u] # key[t]
        BY <4>1 DEF LocksHeld, CopiersHold
      <4>4. dst[u] # key[t]
        BY <4>1 DEF NewIsPrivate, New
      <4> QED
        BY <3>1, <4>1, <4>2, <4>3, <4>4, <1>t
    <3> QED
      BY <3>2, <3>3
  <2> QED
    BY <2>2, <2>3, <2>4, <2>5, <2>6
<1>11. ASSUME Shutdown PROVE EnvInv'
  <2> DEFINE S(e) == {i \in DOMAIN registry : registry[i].env = e}
  <2>1. /\ initialized' = FALSE
        /\ frees' = [e \in Envs |-> frees[e] + Cardinality(S(e))]
        /\ registry' = <<>>
        /\ key' = [t \in Tids |-> 0]
        /\ UNCHANGED <<made, misused, locks, copying, process, vars_of, pc, calls>>
    BY <1>11 DEF Shutdown
  <2>2. ASSUME NEW e \in Envs
        PROVE  frees'[e] \in 0 .. 1 /\ (e > made => frees'[e] = 0)
    <3>1. frees'[e] = frees[e] + Cardinality(S(e))
      BY <2>1
    <3>2. CASE S(e) = {}
      <4>1. Cardinality(S(e)) = 0
        BY <3>2, FS_EmptySet
      <4> QED
        BY <3>1, <4>1, <1>t DEF RegistryInv
    <3>3. CASE S(e) # {}
      <4>1. PICK i \in DOMAIN registry : registry[i].env = e
        BY <3>3
      <4>2. S(e) = {i}
        BY <4>1 DEF RegistryInv
      <4>3. Cardinality(S(e)) = 1
        BY <4>2, FS_Singleton
      <4>4. frees[e] = 0 /\ e <= made
        BY <4>1 DEF RegistryInv
      <4> HIDE DEF S
      <4> QED
        BY <3>1, <4>3, <4>4, <1>t DEF Envs
    <3> QED
      BY <3>2, <3>3
  <2>9. \A e \in Envs : frees[e] <= frees'[e]
    <3>1. ASSUME NEW e \in Envs PROVE frees[e] <= frees'[e]
      <4>1. S(e) \subseteq 1 .. Len(registry) /\ IsFiniteSet(1 .. Len(registry))
        BY <1>r, FS_Interval
      <4>2. Cardinality(S(e)) \in Nat
        BY <4>1, FS_Subset, FS_CardinalityType
      <4>3. frees'[e] = frees[e] + Cardinality(S(e))
        BY <2>1
      <4>4. frees[e] \in Nat
        BY <1>t
      <4> HIDE DEF S, EnvInv
      <4> QED
        BY <4>2, <4>3, <4>4
    <3> QED
      BY <3>1
  <2>3. TypeOK'
    <3>2. key' \in [Tids -> 0 .. MaxEnvs]
      BY <2>1, <1>t
    <3>3. frees' \in [Envs -> 0 .. 1]
      <4>1. frees' = [e \in Envs |-> frees'[e]]
        BY <2>1
      <4> QED
        BY <2>2, <4>1
    <3>4. registry' \in Seq([tid : Tids, env : Envs])
      BY <2>1
    <3>5. initialized' \in BOOLEAN
      BY <2>1, Zenon
    <3>6. frees' \in [Envs -> Nat]
      BY <3>3
    <3> HIDE DEF S
    <3> QED
      BY <2>1, <3>2, <3>4, <3>5, <3>6 DEF TypeOK
  <2>4. Pointers' /\ CopiedSoFar'
    <3>1. Undefined => Undefined'
      <4>1. \A e \in Envs : frees[e] # 0 => frees'[e] # 0
        <5>1. \A e \in Envs : frees[e] \in Nat /\ frees'[e] \in Nat
          BY <2>2, <1>t
        <5> HIDE DEF EnvInv
        <5> QED
          BY <2>9, <5>1
      <4>2. \A t \in Tids : \A e \in {src[t], dst[t]} \ {0} : e \in Envs
        BY <1>t, <1>e
      <4>3. src' = src /\ dst' = dst /\ misused' = misused
        BY <2>1
      <4> HIDE DEF EnvInv
      <4> QED
        BY <4>1, <4>2, <4>3 DEF Undefined, PointsToAllocated
    <3> QED
      BY <2>1, <3>1 DEF Pointers, CopiedSoFar
  <2>8. NewIsPrivate'
    <3>1. ASSUME NEW t \in Tids, New(t)
          PROVE  dst[t] # 0 /\ frees'[dst[t]] = 0
      <4>1. dst[t] \in Envs /\ dst[t] # 0
        BY <3>1, <1>t, <1>e DEF New, Pointers
      <4>2. S(dst[t]) = {} /\ frees[dst[t]] = 0
        BY <3>1 DEF NewIsPrivate, Registered
      <4>3. Cardinality(S(dst[t])) = 0
        BY <4>2, FS_EmptySet
      <4> QED
        BY <2>1, <4>1, <4>2, <4>3
    <3>2. \A t \in Tids : New(t)' <=> New(t)
      BY <2>1 DEF New
    <3>3. /\ \A t \in Tids : key'[t] = 0
          /\ dst' = dst /\ src' = src /\ writer' = writer
          /\ \A e : ~Registered(e)'
      BY <2>1 DEF Registered
    <3> QED
      BY <3>1, <3>2, <3>3 DEF NewIsPrivate
  <2>5. LocksHeld'
    BY <2>1 DEF LocksHeld, ReadersAre, WritersAre, CopiersHold, Exclusive
  <2>6. RegistryInv'
    BY <2>1, <2>2 DEF RegistryInv
  <2>7. KeysFirst'
    BY <2>1 DEF KeysFirst
  <2> QED
    BY <2>3, <2>4, <2>5, <2>6, <2>7, <2>8
<1>12. CASE UNCHANGED vars
  <2>1. TypeOK' /\ Pointers' /\ RegistryInv' /\ KeysFirst'
    BY <1>12 DEF vars, TypeOK, Pointers, RegistryInv, KeysFirst
  <2>2. LocksHeld'
    BY <1>12 DEF vars, LocksHeld, ReadersAre, WritersAre, CopiersHold, Exclusive
  <2>3. NewIsPrivate' /\ CopiedSoFar'
    BY <1>12 DEF vars, NewIsPrivate, New, Registered, CopiedSoFar, Undefined,
                     PointsToAllocated
  <2> QED
    BY <2>1, <2>2, <2>3
<1>15. ASSUME NEW t \in Tids, NEW label, ~Undefined, LockDestroyed(t, label) PROVE EnvInv'
  <2>1. /\ misused' = TRUE
        /\ UNCHANGED <<initialized, made, frees, registry, key, locks, copying, process,
                       vars_of, pc, calls>>
    BY <1>15 DEF LockDestroyed
  <2>2. TypeOK'
    <3>1. misused' \in BOOLEAN
      BY <2>1, Zenon
    <3> QED
      BY <2>1, <3>1 DEF TypeOK
  <2>3. Pointers' /\ RegistryInv' /\ KeysFirst'
    BY <2>1 DEF Pointers, RegistryInv, KeysFirst
  <2>4. LocksHeld'
    BY <2>1 DEF LocksHeld, ReadersAre, WritersAre, CopiersHold, Exclusive
  <2>5. NewIsPrivate' /\ CopiedSoFar'
    BY <1>15, <2>1 DEF NewIsPrivate, New, Registered, CopiedSoFar
  <2> QED
    BY <2>2, <2>3, <2>4, <2>5
<1>13. ASSUME NEW t \in Tids, Continue(t) PROVE EnvInv'
  BY <1>1, <1>2, <1>3, <1>4, <1>5, <1>13, <1>15 DEF Continue
<1>14. ASSUME NEW t \in Tids, Begin(t) PROVE EnvInv'
  <2>1. ASSUME NEW n \in Names, NEW v \in Values \ {Absent}, NEW o \in BOOLEAN,
               Setenv(t, n, v, o)
        PROVE  EnvInv'
    BY <1>10, <1>14, <2>1 DEF Begin, Setenv
  <2>2. ASSUME NEW n \in Names, Unsetenv(t, n) PROVE EnvInv'
    <3>1. Absent \in Values
      BY <1>t DEF Absent, Values
    <3> QED
      BY <1>10, <1>14, <2>2, <3>1 DEF Begin, Unsetenv
  <2> QED
    BY <1>6, <1>7, <1>8, <1>9, <1>14, <1>15, <2>1, <2>2 DEF Begin
<1> QED
  BY <1>11, <1>12, <1>13, <1>14 DEF Next

\* The invariant holds in every reachable state.
THEOREM EnvInvAlways == Spec => []EnvInv
<1> QED
  BY EnvInvInit, EnvInvStep, PTL DEF Spec

-----------------------------------------------------------------------------
(* The properties.                                                         *)

\* ios_env_init_thread and ios_env_copy_from_thread: a finished copy is the source as it
\* was at one instant.  The reader's lock keeps every setenv of the source's thread out,
\* and nobody else writes the destination: the writer's lock is held, or the destination
\* is known to its maker only.
THEOREM CopyIsExact == Spec => []CopyIsSnapshot
<1>1. EnvInv => CopyIsSnapshot
  <2> SUFFICES ASSUME EnvInv, NEW t \in Tids, pc[t] = "copy", at[t] \notin Names,
                      src[t] # 0, ~Undefined
               PROVE  vars_of[dst[t]] = vars_of[src[t]]
    BY DEF CopyIsSnapshot
  <2>1. /\ vars_of \in [Envs -> [Names -> Values]] /\ at[t] \in 1 .. (NumNames + 1)
        /\ src[t] \in Envs /\ dst[t] \in Envs /\ NumNames \in Nat
    BY EnvManagerAssumption DEF EnvInv, TypeOK, Pointers, Envs
  <2>2. \A n \in Names : n < at[t]
    BY <2>1 DEF Names
  <2>3. \A n \in Names : vars_of[dst[t]][n] = vars_of[src[t]][n]
    BY <2>2 DEF EnvInv, CopiedSoFar
  <2>4. vars_of[dst[t]] \in [Names -> Values] /\ vars_of[src[t]] \in [Names -> Values]
    BY <2>1
  <2> QED
    BY <2>3, <2>4
<1> QED
  BY <1>1, EnvInvAlways, PTL

\* env_lookup_by_tid: a thread is found with the environment it has now, whatever earlier
\* threads with the same id left in the registry, and after any raw exits.
THEOREM ThreadIsFound == Spec => []FoundByItsThread
<1>1. EnvInv => FoundByItsThread
  <2> SUFFICES ASSUME EnvInv, NEW t \in Tids, Current(t) # 0 PROVE Lookup(t) = key[t]
    BY DEF FoundByItsThread
  <2>1. key[t] # 0
    BY DEF Current
  <2> QED
    BY <2>1, LookupOwn DEF EnvInv
<1> QED
  BY <1>1, EnvInvAlways, PTL

\* No environment is freed twice, neither by env_thread_destructor nor by
\* ios_env_manager_shutdown, and none under the thread whose own it is: a raw exit takes
\* out of the registry exactly what it frees, though earlier threads with its id left
\* their entries behind.
THEOREM FreedAtMostOnce == Spec => []FreedOnce
<1>1. EnvInv => FreedOnce
  <2> SUFFICES ASSUME EnvInv PROVE FreedOnce
    OBVIOUS
  <2>1. TypeOK /\ \A e \in Envs : frees[e] <= 1
    BY DEF EnvInv, RegistryInv
  <2>2. ASSUME NEW t \in Tids, Current(t) # 0 PROVE frees[key[t]] = 0
    <3>1. key[t] # 0
      BY <2>2 DEF Current
    <3> QED
      BY <3>1 DEF EnvInv, KeysFirst, RegistryInv
  <2> QED
    BY <2>1, <2>2 DEF FreedOnce
<1> QED
  BY <1>1, EnvInvAlways, PTL
=============================================================================
