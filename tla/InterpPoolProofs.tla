-------------------------- MODULE InterpPoolProofs --------------------------
(***************************************************************************)
(* Proofs about InterpPool, for every number of agents, every pool size    *)
(* and every bound on the number of calls.                                 *)
(*                                                                         *)
(* TypeInv makes the type invariant inductive: a compare-and-swap is only  *)
(* attempted from a snapshot in which the wanted slot is free, and nobody  *)
(* is past the check before the pool is initialized.  PoolInv adds the     *)
(* accounting: the semaphore and the admitted agents make up the pool, and *)
(* the bitmap is exactly the set of slots held.                            *)
(***************************************************************************)
EXTENDS InterpPool, FiniteSetTheorems, TLAPS

Outside == {"idle", "check", "init", "configure"}

NobodyInside ==
    ~initialized /\ ~disturbed => \A a \in Agents : pc[a] \in Outside

SnapshotHasWanted ==
    \A a \in Agents : pc[a] = "try_cas" => want[a] \in Slots \ snap[a]

ConfiguredSize ==
    \A a \in Agents : pc[a] = "configure" => want[a] \in 1 .. WordBits

TypeInv ==
    TypeOK /\ NobodyInside /\ SnapshotHasWanted /\ ConfiguredSize

HandlePlaces ==
    \A a \in Agents :
      /\ pc[a] \in {"rel_cas", "rel_signal"} => handle[a] # -1
      /\ handle[a] # -1 => pc[a] \in {"idle", "rel_cas", "rel_signal"}
      /\ handle[a] # -1 => handle[a] \in Slots

BitmapIsHeld == slot_bitmap = {handle[a] : a \in Holders}

HeldOnce == \A a, b \in Holders : handle[a] = handle[b] => a = b

Accounts ==
    /\ initialized => semaphore + Cardinality(Admitted) = max_slots
    /\ ~initialized => max_slots = 0 /\ \A a \in Agents : handle[a] = -1

NoDisturbance == \A a \in Agents : pc[a] \notin {"no_free_slot", "force"}

Core ==
    HandlePlaces /\ BitmapIsHeld /\ HeldOnce /\ Accounts /\ NoDisturbance

PoolInv == TypeInv /\ (~disturbed => Core)

-----------------------------------------------------------------------------
(* Type correctness.                                                       *)

\* The initial state of a pool: nothing initialized, nobody inside.
LEMMA TypeInvInit == Init => TypeInv
<1> SUFFICES ASSUME Init PROVE TypeInv
  OBVIOUS
<1> USE InterpPoolAssumption DEF Init
<1>1. TypeOK
  <2>1. /\ max_slots \in 0 .. WordBits /\ semaphore \in Nat /\ wait_count \in Int
        /\ ops \in 0 .. MaxOps
    OBVIOUS
  <2>2. /\ pc \in [Agents -> Labels]
        /\ timeout \in [Agents -> {"bounded", "forever"}]
    BY DEF Labels
  <2>3. /\ want \in [Agents -> -1 .. WordBits]
        /\ handle \in [Agents -> -1 .. WordBits - 1]
        /\ todo \in [Agents -> 0 .. WordBits]
    OBVIOUS
  <2>4. slot_bitmap \subseteq Bits /\ snap \in [Agents -> SUBSET Bits]
    OBVIOUS
  <2>5. initialized \in BOOLEAN /\ disturbed \in BOOLEAN
    OBVIOUS
  <2> QED
    BY <2>1, <2>2, <2>3, <2>4, <2>5 DEF TypeOK
<1>2. NobodyInside
  BY DEF NobodyInside, Outside
<1>3. SnapshotHasWanted /\ ConfiguredSize
  BY DEF SnapshotHasWanted, ConfiguredSize
<1> QED
  BY <1>1, <1>2, <1>3 DEF TypeInv

\* Every action of ios_interpreter_pool.c preserves the types.
LEMMA TypeInvStep == TypeInv /\ [Next]_vars => TypeInv'
<1> SUFFICES ASSUME TypeInv, [Next]_vars PROVE TypeInv'
  OBVIOUS
<1> USE InterpPoolAssumption
        DEF TypeInv, TypeOK, NobodyInside, SnapshotHasWanted, ConfiguredSize,
            Labels, Outside, Bits, Slots, Goto, pool, args, Shut, LockDestroyed
<1>1. ASSUME NEW a \in Agents, Acquire(a) PROVE TypeInv'
  BY <1>1 DEF Acquire
<1>2. ASSUME NEW a \in Agents, TryAcquireSlot(a) PROVE TypeInv'
  BY <1>2 DEF TryAcquireSlot
<1>3. ASSUME NEW a \in Agents, Configure(a) PROVE TypeInv'
  BY <1>3 DEF Configure
<1>4. ASSUME NEW a \in Agents, ForceReleaseAll(a) PROVE TypeInv'
  BY <1>4 DEF ForceReleaseAll
<1>5. ASSUME NEW a \in Agents, CheckInitialized(a) PROVE TypeInv'
  BY <1>5 DEF CheckInitialized
<1>6. ASSUME NEW a \in Agents, LazyInit(a) PROVE TypeInv'
  <2>1. CASE ~initialized /\ ~disturbed
    <3>1. semaphore' \in Nat /\ max_slots' \in 0 .. WordBits
      BY <1>6, <2>1 DEF LazyInit, InitType
    <3>2. slot_bitmap' \subseteq Bits
      BY <1>6, <2>1 DEF LazyInit, InitType
    <3>3. initialized' \in BOOLEAN
      BY <1>6, <2>1 DEF LazyInit, InitType
    <3>4. TypeOK'
      BY <1>6, <3>1, <3>2, <3>3 DEF LazyInit
    <3>5. NobodyInside' /\ SnapshotHasWanted' /\ ConfiguredSize'
      BY <1>6, <2>1 DEF LazyInit, InitType
    <3> QED
      BY <3>4, <3>5
  <2>2. CASE initialized
    BY <1>6, <2>2 DEF LazyInit, InitType
  <2>3. CASE Shut
    BY <1>6, <2>3 DEF LazyInit, InitType
  <2> QED
    BY <2>1, <2>2, <2>3
<1>7. ASSUME NEW a \in Agents, ConfigureInit(a) PROVE TypeInv'
  <2>1. CASE ~initialized /\ ~disturbed
    <3>1. semaphore' \in Nat /\ max_slots' \in 0 .. WordBits
      BY <1>7, <2>1 DEF ConfigureInit, InitType
    <3>2. slot_bitmap' \subseteq Bits
      BY <1>7, <2>1 DEF ConfigureInit, InitType
    <3>3. initialized' \in BOOLEAN
      BY <1>7, <2>1 DEF ConfigureInit, InitType
    <3>4. TypeOK'
      BY <1>7, <3>1, <3>2, <3>3 DEF ConfigureInit
    <3>5. NobodyInside' /\ SnapshotHasWanted' /\ ConfiguredSize'
      BY <1>7, <2>1 DEF ConfigureInit, InitType
    <3> QED
      BY <3>4, <3>5
  <2>2. CASE initialized
    BY <1>7, <2>2 DEF ConfigureInit, InitType
  <2>3. CASE Shut
    BY <1>7, <2>3 DEF ConfigureInit, InitType
  <2> QED
    BY <2>1, <2>2, <2>3
<1>8. ASSUME NEW a \in Agents, ConfigureReturns(a) PROVE TypeInv'
  BY <1>8 DEF ConfigureReturns
<1>9. ASSUME NEW a \in Agents, EnterWait(a) PROVE TypeInv'
  BY <1>9 DEF EnterWait
<1>10. ASSUME NEW a \in Agents, SemaphorePass(a) PROVE TypeInv'
  BY <1>10 DEF SemaphorePass
<1>11. ASSUME NEW a \in Agents, SemaphoreTimeout(a) PROVE TypeInv'
  BY <1>11 DEF SemaphoreTimeout
<1>12. ASSUME NEW a \in Agents, LeaveWait(a) PROVE TypeInv'
  BY <1>12 DEF LeaveWait
<1>13. ASSUME NEW a \in Agents, SignalBack(a) PROVE TypeInv'
  BY <1>13 DEF SignalBack
<1>14. ASSUME NEW a \in Agents, FindLoad(a) PROVE TypeInv'
  BY <1>14 DEF FindLoad
<1>15. ASSUME NEW a \in Agents, FindSwap(a) PROVE TypeInv'
  <2>1. CASE slot_bitmap = snap[a]
    BY <1>15, <2>1 DEF FindSwap
  <2>2. CASE slot_bitmap # snap[a]
    BY <1>15, <2>2 DEF FindSwap
  <2> QED
    BY <2>1, <2>2
<1>16. ASSUME NEW a \in Agents, TryLoad(a) PROVE TypeInv'
  BY <1>16 DEF TryLoad
<1>17. ASSUME NEW a \in Agents, TrySwap(a) PROVE TypeInv'
  <2>1. CASE slot_bitmap = snap[a]
    BY <1>17, <2>1 DEF TrySwap
  <2>2. CASE slot_bitmap # snap[a]
    BY <1>17, <2>2 DEF TrySwap
  <2> QED
    BY <2>1, <2>2
<1>18. ASSUME NEW a \in Agents, ReleaseLoad(a) PROVE TypeInv'
  <2>1. CASE initialized
    BY <1>18, <2>1 DEF ReleaseLoad
  <2>2. CASE ~initialized
    BY <1>18, <2>2 DEF ReleaseLoad
  <2> QED
    BY <2>1, <2>2
<1>19. ASSUME NEW a \in Agents, ReleaseSwap(a) PROVE TypeInv'
  BY <1>19 DEF ReleaseSwap
<1>20. ASSUME NEW a \in Agents, ReleaseSignal(a) PROVE TypeInv'
  BY <1>20 DEF ReleaseSignal
<1>21. ASSUME NEW a \in Agents, ForceSignal(a) PROVE TypeInv'
  BY <1>21 DEF ForceSignal
<1>22. CASE Shutdown
  BY <1>22 DEF Shutdown
<1>23. CASE UNCHANGED vars
  BY <1>23 DEF vars
<1> QED
  BY <1>1, <1>2, <1>3, <1>4, <1>5, <1>6, <1>7, <1>8, <1>9, <1>10, <1>11, <1>12,
     <1>13, <1>14, <1>15, <1>16, <1>17, <1>18, <1>19, <1>20, <1>21, <1>22, <1>23
  DEF Next, Call, Work, Finished

\* Type correctness of the pool, after force_release_all and shutdown too: no
\* counter goes below zero and every handle names a bit of the bitmap.
THEOREM TypeCorrect == Spec => []TypeOK
<1>1. Init => TypeInv
  BY TypeInvInit
<1>2. TypeInv /\ [Next]_vars => TypeInv'
  BY TypeInvStep
<1>3. TypeInv => TypeOK
  BY DEF TypeInv
<1> QED
  BY <1>1, <1>2, <1>3, PTL DEF Spec

-----------------------------------------------------------------------------
(* Mutual exclusion and conservation of slots.                             *)

\* The admitted agents are finitely many.
LEMMA AdmittedFinite ==
    IsFiniteSet(Admitted) /\ Cardinality(Admitted) \in Nat
  BY InterpPoolAssumption, FS_Subset, FS_CardinalityType DEF Admitted

\* The semaphore's guarantee: when everything adds up, an agent that was
\* admitted and holds no slot finds a free bit (pigeonhole: there are fewer
\* holders than slots).
LEMMA FreeSlotForAdmitted ==
    ASSUME TypeInv, Core, initialized,
           NEW a \in Admitted, a \notin Holders
    PROVE  ~(Slots \subseteq slot_bitmap)
<1> SUFFICES ASSUME Slots \subseteq slot_bitmap PROVE FALSE
  OBVIOUS
<1>1. /\ IsFiniteSet(Admitted \ {a})
      /\ Cardinality(Admitted \ {a}) = Cardinality(Admitted) - 1
  BY AdmittedFinite, FS_RemoveElement
<1>2. Holders \subseteq Admitted \ {a}
  BY DEF Holders, Admitted
<1>3. IsFiniteSet(Holders) /\ Cardinality(Holders) <= Cardinality(Admitted) - 1
  BY <1>1, <1>2, FS_Subset
<1>4. max_slots \in Nat /\ semaphore \in Nat
  BY InterpPoolAssumption DEF TypeInv, TypeOK
<1>5. IsFiniteSet(Slots) /\ Cardinality(Slots) = max_slots
  BY <1>4, FS_Interval DEF Slots
<1>6. semaphore + Cardinality(Admitted) = max_slots
  BY DEF Core, Accounts
<1>7. Cardinality(Holders) \in Nat
  BY <1>3, FS_CardinalityType
<1>8. Cardinality(Holders) < Cardinality(Slots)
  BY <1>3, <1>4, <1>5, <1>6, <1>7, AdmittedFinite
<1> DEFINE f == [s \in Slots |-> CHOOSE b \in Holders : handle[b] = s]
<1>9. \A s \in Slots : f[s] \in Holders /\ handle[f[s]] = s
  BY DEF Core, BitmapIsHeld
<1>10. f \in [Slots -> Holders]
  BY <1>9
<1>11. \E x, y \in Slots : x # y /\ f[x] = f[y]
  <2> HIDE DEF f
  <2> QED
    BY <1>3, <1>5, <1>8, <1>10, FS_PigeonHole
<1> QED
  BY <1>9, <1>11

\* A step that moves nobody in or out of the pool keeps the accounts.
LEMMA QuietStep ==
    ASSUME Core, HandlePlaces', NoDisturbance', Admitted' = Admitted,
           Holders' = Holders,
           UNCHANGED <<handle, slot_bitmap, semaphore, max_slots, initialized>>
    PROVE  Core'
<1>1. BitmapIsHeld' /\ HeldOnce'
  BY DEF Core, BitmapIsHeld, HeldOnce
<1>2. Accounts'
  BY DEF Core, Accounts
<1> QED
  BY <1>1, <1>2 DEF Core

\* An empty pool satisfies the accounts.
LEMMA PoolInvInit == Init => PoolInv
<1> SUFFICES ASSUME Init PROVE PoolInv
  OBVIOUS
<1>1. TypeInv
  BY TypeInvInit
<1>2. Holders = {}
  BY DEF Init, Holders
<1>3. HandlePlaces /\ NoDisturbance /\ Accounts
  BY DEF Init, HandlePlaces, NoDisturbance, Accounts
<1>4. BitmapIsHeld /\ HeldOnce
  BY <1>2 DEF Init, BitmapIsHeld, HeldOnce
<1> QED
  BY <1>1, <1>3, <1>4 DEF PoolInv, Core

\* Every action preserves the accounts, until force_release_all or shutdown.
LEMMA PoolInvStep == PoolInv /\ [Next]_vars => PoolInv'
<1> SUFFICES ASSUME PoolInv, [Next]_vars, ~disturbed' PROVE Core'
  BY TypeInvStep DEF PoolInv
<1> USE InterpPoolAssumption DEF Goto, pool, args, Shut, LockDestroyed
<1>a. TypeInv /\ TypeInv'
  BY TypeInvStep DEF PoolInv
<1>b. ~disturbed
  BY DEF Next, Call, Work, Shutdown, Finished, vars, Acquire, TryAcquireSlot,
         Configure, ForceReleaseAll, CheckInitialized, LazyInit, ConfigureInit,
         ConfigureReturns, EnterWait, SemaphorePass, SemaphoreTimeout, LeaveWait,
         SignalBack, FindLoad, FindSwap, TryLoad, TrySwap, ReleaseLoad,
         ReleaseSwap, ReleaseSignal, ForceSignal
<1>c. Core
  BY <1>b DEF PoolInv
<1>d. /\ pc \in [Agents -> Labels] /\ handle \in [Agents -> -1 .. WordBits - 1]
      /\ max_slots \in 0 .. WordBits /\ semaphore \in Nat
  BY <1>a DEF TypeInv, TypeOK
<1>1. ASSUME NEW a \in Agents, Acquire(a) PROVE Core'
  <2>1. Admitted' = Admitted /\ Holders' = Holders
    BY <1>1, <1>c, <1>d DEF Acquire, Admitted, Holders, Core, HandlePlaces, NoDisturbance
  <2>2. HandlePlaces' /\ NoDisturbance'
    BY <1>1, <1>c, <1>d DEF Acquire, Core, HandlePlaces, NoDisturbance, Slots
  <2> QED
    BY <1>1, <1>c, <2>1, <2>2, QuietStep DEF Acquire
<1>2. ASSUME NEW a \in Agents, TryAcquireSlot(a) PROVE Core'
  <2>1. Admitted' = Admitted /\ Holders' = Holders
    BY <1>2, <1>c, <1>d DEF TryAcquireSlot, Admitted, Holders, Core, HandlePlaces, NoDisturbance
  <2>2. HandlePlaces' /\ NoDisturbance'
    BY <1>2, <1>c, <1>d DEF TryAcquireSlot, Core, HandlePlaces, NoDisturbance, Slots
  <2> QED
    BY <1>2, <1>c, <2>1, <2>2, QuietStep DEF TryAcquireSlot
<1>3. ASSUME NEW a \in Agents, Configure(a) PROVE Core'
  <2>1. Admitted' = Admitted /\ Holders' = Holders
    BY <1>3, <1>c, <1>d DEF Configure, Admitted, Holders, Core, HandlePlaces, NoDisturbance
  <2>2. HandlePlaces' /\ NoDisturbance'
    BY <1>3, <1>c, <1>d DEF Configure, Core, HandlePlaces, NoDisturbance, Slots
  <2> QED
    BY <1>3, <1>c, <2>1, <2>2, QuietStep DEF Configure
<1>4. ASSUME NEW a \in Agents, CheckInitialized(a) PROVE Core'
  <2>1. Admitted' = Admitted /\ Holders' = Holders
    BY <1>4, <1>c, <1>d DEF CheckInitialized, Admitted, Holders, Core, HandlePlaces, NoDisturbance
  <2>2. HandlePlaces' /\ NoDisturbance'
    BY <1>4, <1>c, <1>d DEF CheckInitialized, Core, HandlePlaces, NoDisturbance, Slots
  <2> QED
    BY <1>4, <1>c, <2>1, <2>2, QuietStep DEF CheckInitialized
<1>5. ASSUME NEW a \in Agents, ConfigureReturns(a) PROVE Core'
  <2>1. Admitted' = Admitted /\ Holders' = Holders
    BY <1>5, <1>c, <1>d DEF ConfigureReturns, Admitted, Holders, Core, HandlePlaces, NoDisturbance
  <2>2. HandlePlaces' /\ NoDisturbance'
    BY <1>5, <1>c, <1>d DEF ConfigureReturns, Core, HandlePlaces, NoDisturbance, Slots
  <2> QED
    BY <1>5, <1>c, <2>1, <2>2, QuietStep DEF ConfigureReturns
<1>6. ASSUME NEW a \in Agents, EnterWait(a) PROVE Core'
  <2>1. Admitted' = Admitted /\ Holders' = Holders
    BY <1>6, <1>c, <1>d DEF EnterWait, Admitted, Holders, Core, HandlePlaces, NoDisturbance
  <2>2. HandlePlaces' /\ NoDisturbance'
    BY <1>6, <1>c, <1>d DEF EnterWait, Core, HandlePlaces, NoDisturbance, Slots
  <2> QED
    BY <1>6, <1>c, <2>1, <2>2, QuietStep DEF EnterWait
<1>7. ASSUME NEW a \in Agents, SemaphoreTimeout(a) PROVE Core'
  <2>1. Admitted' = Admitted /\ Holders' = Holders
    BY <1>7, <1>c, <1>d DEF SemaphoreTimeout, Admitted, Holders, Core, HandlePlaces, NoDisturbance
  <2>2. HandlePlaces' /\ NoDisturbance'
    BY <1>7, <1>c, <1>d DEF SemaphoreTimeout, Core, HandlePlaces, NoDisturbance, Slots
  <2> QED
    BY <1>7, <1>c, <2>1, <2>2, QuietStep DEF SemaphoreTimeout
<1>8. ASSUME NEW a \in Agents, LeaveWait(a) PROVE Core'
  <2>1. Admitted' = Admitted /\ Holders' = Holders
    BY <1>8, <1>c, <1>d DEF LeaveWait, Admitted, Holders, Core, HandlePlaces, NoDisturbance
  <2>2. HandlePlaces' /\ NoDisturbance'
    BY <1>8, <1>c, <1>d DEF LeaveWait, Core, HandlePlaces, NoDisturbance, Slots
  <2> QED
    BY <1>8, <1>c, <2>1, <2>2, QuietStep DEF LeaveWait
<1>9. ASSUME NEW a \in Agents, TryLoad(a) PROVE Core'
  <2>1. Admitted' = Admitted /\ Holders' = Holders
    BY <1>9, <1>c, <1>d DEF TryLoad, Admitted, Holders, Core, HandlePlaces, NoDisturbance
  <2>2. HandlePlaces' /\ NoDisturbance'
    BY <1>9, <1>c, <1>d DEF TryLoad, Core, HandlePlaces, NoDisturbance, Slots
  <2> QED
    BY <1>9, <1>c, <2>1, <2>2, QuietStep DEF TryLoad
<1>10. ASSUME NEW a \in Agents, LazyInit(a) PROVE Core'
  <2>1. CASE initialized
    <3>1. Admitted' = Admitted /\ Holders' = Holders
      BY <1>10, <1>d, <2>1 DEF LazyInit, Admitted, Holders
    <3>2. HandlePlaces' /\ NoDisturbance'
      BY <1>10, <1>c, <1>d, <2>1 DEF LazyInit, InitType, Core, HandlePlaces, NoDisturbance, Slots
    <3> QED
      BY <1>10, <1>c, <2>1, <3>1, <3>2, QuietStep DEF LazyInit, InitType
  <2>2. CASE ~initialized
    <3>1. \A b \in Agents : pc[b] \in Outside /\ handle[b] = -1
      BY <1>a, <1>b, <1>c, <2>2 DEF TypeInv, NobodyInside, Core, Accounts
    <3>2. Admitted' = {} /\ Holders' = {}
      BY <1>10, <1>d, <3>1 DEF LazyInit, Admitted, Holders, Outside
    <3>3. DefaultSize \in 1 .. WordBits
      BY <1>10, <1>a DEF LazyInit, TypeInv, ConfiguredSize
    <3>4. initialized' /\ semaphore' = max_slots' /\ slot_bitmap' = {}
      BY <1>10, <2>2 DEF LazyInit, InitType
    <3>5. max_slots' \in Nat
      BY <1>10, <2>2, <3>3 DEF LazyInit, InitType
    <3>6. HandlePlaces' /\ NoDisturbance'
      BY <1>10, <1>d, <3>1 DEF LazyInit, HandlePlaces, NoDisturbance, Outside
    <3>7. Accounts'
      BY <3>2, <3>4, <3>5, FS_EmptySet DEF Accounts
    <3>8. BitmapIsHeld' /\ HeldOnce'
      BY <3>2, <3>4 DEF BitmapIsHeld, HeldOnce
    <3> QED
      BY <3>6, <3>7, <3>8 DEF Core
  <2> QED
    BY <2>1, <2>2
<1>11. ASSUME NEW a \in Agents, ConfigureInit(a) PROVE Core'
  <2>1. CASE initialized
    <3>1. Admitted' = Admitted /\ Holders' = Holders
      BY <1>11, <1>d, <2>1 DEF ConfigureInit, Admitted, Holders
    <3>2. HandlePlaces' /\ NoDisturbance'
      BY <1>11, <1>c, <1>d, <2>1 DEF ConfigureInit, InitType, Core, HandlePlaces, NoDisturbance, Slots
    <3> QED
      BY <1>11, <1>c, <2>1, <3>1, <3>2, QuietStep DEF ConfigureInit, InitType
  <2>2. CASE ~initialized
    <3>1. \A b \in Agents : pc[b] \in Outside /\ handle[b] = -1
      BY <1>a, <1>b, <1>c, <2>2 DEF TypeInv, NobodyInside, Core, Accounts
    <3>2. Admitted' = {} /\ Holders' = {}
      BY <1>11, <1>d, <3>1 DEF ConfigureInit, Admitted, Holders, Outside
    <3>3. want[a] \in 1 .. WordBits
      BY <1>11, <1>a DEF ConfigureInit, TypeInv, ConfiguredSize
    <3>4. initialized' /\ semaphore' = max_slots' /\ slot_bitmap' = {}
      BY <1>11, <2>2 DEF ConfigureInit, InitType
    <3>5. max_slots' \in Nat
      BY <1>11, <2>2, <3>3 DEF ConfigureInit, InitType
    <3>6. HandlePlaces' /\ NoDisturbance'
      BY <1>11, <1>d, <3>1 DEF ConfigureInit, HandlePlaces, NoDisturbance, Outside
    <3>7. Accounts'
      BY <3>2, <3>4, <3>5, FS_EmptySet DEF Accounts
    <3>8. BitmapIsHeld' /\ HeldOnce'
      BY <3>2, <3>4 DEF BitmapIsHeld, HeldOnce
    <3> QED
      BY <3>6, <3>7, <3>8 DEF Core
  <2> QED
    BY <2>1, <2>2
<1>12. ASSUME NEW a \in Agents, SemaphorePass(a) PROVE Core'
  <2>1. Admitted' = Admitted \cup {a} /\ a \notin Admitted
    BY <1>12, <1>c, <1>d DEF SemaphorePass, Admitted, Core, HandlePlaces, NoDisturbance
  <2>2. Holders' = Holders /\ \A b \in Holders : handle'[b] = handle[b]
    BY <1>12, <1>c, <1>d DEF SemaphorePass, Holders, Core, HandlePlaces, NoDisturbance
  <2>3. HandlePlaces' /\ NoDisturbance'
    BY <1>12, <1>c, <1>d DEF SemaphorePass, Core, HandlePlaces, NoDisturbance, Slots
  <2>4. initialized /\ initialized'
    BY <1>12, <1>a, <1>c DEF SemaphorePass, TypeInv, NobodyInside, Outside, Core, Accounts,
       HandlePlaces
  <2>5. Accounts'
    <3>1. Cardinality(Admitted') = Cardinality(Admitted) + 1
      BY <2>1, AdmittedFinite, FS_AddElement
    <3>2. semaphore' = semaphore - 1 /\ max_slots' = max_slots
      BY <1>12 DEF SemaphorePass
    <3>3. semaphore + Cardinality(Admitted) = max_slots
      BY <1>c, <2>4 DEF Core, Accounts
    <3>4. semaphore' + Cardinality(Admitted') = max_slots'
      BY <1>d, <3>1, <3>2, <3>3, AdmittedFinite
    <3> QED
      BY <2>4, <3>4 DEF Accounts
  <2>6. BitmapIsHeld' /\ HeldOnce'
    BY <1>12, <1>c, <2>2 DEF SemaphorePass, Core, BitmapIsHeld, HeldOnce
  <2> QED
    BY <2>3, <2>5, <2>6 DEF Core
<1>13. ASSUME NEW a \in Agents, SignalBack(a) PROVE Core'
  <2>1. Admitted' = Admitted \ {a} /\ a \in Admitted
    BY <1>13, <1>c, <1>d DEF SignalBack, Admitted, Core, HandlePlaces, NoDisturbance
  <2>2. Holders' = Holders /\ \A b \in Holders : handle'[b] = handle[b]
    BY <1>13, <1>c, <1>d DEF SignalBack, Holders, Core, HandlePlaces, NoDisturbance
  <2>3. HandlePlaces' /\ NoDisturbance'
    BY <1>13, <1>c, <1>d DEF SignalBack, Core, HandlePlaces, NoDisturbance, Slots
  <2>4. initialized /\ initialized'
    BY <1>13, <1>a, <1>c DEF SignalBack, TypeInv, NobodyInside, Outside, Core, Accounts,
       HandlePlaces
  <2>5. Accounts'
    <3>1. Cardinality(Admitted') = Cardinality(Admitted) - 1
      BY <2>1, AdmittedFinite, FS_RemoveElement
    <3>2. semaphore' = semaphore + 1 /\ max_slots' = max_slots
      BY <1>13 DEF SignalBack
    <3>3. semaphore + Cardinality(Admitted) = max_slots
      BY <1>c, <2>4 DEF Core, Accounts
    <3>4. semaphore' + Cardinality(Admitted') = max_slots'
      BY <1>d, <3>1, <3>2, <3>3, AdmittedFinite
    <3> QED
      BY <2>4, <3>4 DEF Accounts
  <2>6. BitmapIsHeld' /\ HeldOnce'
    BY <1>13, <1>c, <2>2 DEF SignalBack, Core, BitmapIsHeld, HeldOnce
  <2> QED
    BY <2>3, <2>5, <2>6 DEF Core
<1>14. ASSUME NEW a \in Agents, FindLoad(a) PROVE Core'
  <2>1. initialized /\ a \in Admitted /\ a \notin Holders
    BY <1>14, <1>a DEF FindLoad, TypeInv, NobodyInside, Outside, Admitted, Holders
  <2>2. ~(Slots \subseteq slot_bitmap)
    BY <1>a, <1>c, <2>1, FreeSlotForAdmitted
  <2>3. Admitted' = Admitted /\ Holders' = Holders
    BY <1>14, <1>d, <2>2 DEF FindLoad, Admitted, Holders
  <2>4. HandlePlaces' /\ NoDisturbance'
    BY <1>14, <1>c, <1>d, <2>2 DEF FindLoad, Core, HandlePlaces, NoDisturbance, Slots
  <2> QED
    BY <1>14, <1>c, <2>3, <2>4, QuietStep DEF FindLoad
<1>15. ASSUME NEW a \in Agents, FindSwap(a) PROVE Core'
  <2>1. CASE slot_bitmap = snap[a]
    <3>1. PICK s \in Slots \ snap[a] :
                /\ slot_bitmap' = slot_bitmap \cup {s}
                /\ handle' = [handle EXCEPT ![a] = s]
      BY <1>15, <2>1 DEF FindSwap
    <3>2. s \in Int /\ s # -1 /\ s \notin slot_bitmap
      BY <1>d, <2>1 DEF Slots
    <3>3. UNCHANGED <<initialized, max_slots, semaphore>>
          /\ pc' = [pc EXCEPT ![a] = "idle"] /\ handle[a] = -1
      BY <1>15, <1>c, <2>1 DEF FindSwap, Core, HandlePlaces
    <3>4. Admitted' = Admitted
      BY <1>15, <1>c, <1>d, <3>1, <3>2, <3>3 DEF FindSwap, Admitted, Core, HandlePlaces
    <3>5. Holders' = Holders \cup {a} /\ a \notin Holders
      BY <1>c, <1>d, <3>1, <3>2, <3>3 DEF Holders, Core, HandlePlaces
    <3>6. handle'[a] = s /\ \A b \in Holders : handle'[b] = handle[b]
      BY <1>d, <3>1, <3>5 DEF Holders
    <3>7. HandlePlaces' /\ NoDisturbance'
      BY <1>c, <1>d, <3>1, <3>2, <3>3 DEF Core, HandlePlaces, NoDisturbance, Slots
    <3>8. Accounts'
      <4>1. initialized
        BY <1>15, <1>a DEF FindSwap, TypeInv, NobodyInside, Outside
      <4> QED
        BY <1>c, <3>3, <3>4, <4>1 DEF Core, Accounts
    <3>9. BitmapIsHeld'
      BY <1>c, <3>1, <3>5, <3>6 DEF Core, BitmapIsHeld
    <3>10. HeldOnce'
      BY <1>c, <3>2, <3>5, <3>6 DEF Core, BitmapIsHeld, HeldOnce
    <3> QED
      BY <3>7, <3>8, <3>9, <3>10 DEF Core
  <2>2. CASE slot_bitmap # snap[a]
    <3>1. Admitted' = Admitted /\ Holders' = Holders
      BY <1>15, <1>c, <1>d, <2>2 DEF FindSwap, Admitted, Holders, Core, HandlePlaces, NoDisturbance
    <3>2. HandlePlaces' /\ NoDisturbance'
      BY <1>15, <1>c, <1>d, <2>2 DEF FindSwap, Core, HandlePlaces, NoDisturbance, Slots
    <3> QED
      BY <1>15, <1>c, <2>2, <3>1, <3>2, QuietStep DEF FindSwap
  <2> QED
    BY <2>1, <2>2
<1>16. ASSUME NEW a \in Agents, TrySwap(a) PROVE Core'
  <2>1. CASE slot_bitmap = snap[a]
    <3>1. PICK s \in Slots \ snap[a] :
                /\ slot_bitmap' = slot_bitmap \cup {s}
                /\ handle' = [handle EXCEPT ![a] = s]
      BY <1>16, <1>a, <2>1 DEF TrySwap, TypeInv, SnapshotHasWanted
    <3>2. s \in Int /\ s # -1 /\ s \notin slot_bitmap
      BY <1>d, <2>1 DEF Slots
    <3>3. UNCHANGED <<initialized, max_slots, semaphore>>
          /\ pc' = [pc EXCEPT ![a] = "idle"] /\ handle[a] = -1
      BY <1>16, <1>c, <2>1 DEF TrySwap, Core, HandlePlaces
    <3>4. Admitted' = Admitted
      BY <1>16, <1>c, <1>d, <3>1, <3>2, <3>3 DEF TrySwap, Admitted, Core, HandlePlaces
    <3>5. Holders' = Holders \cup {a} /\ a \notin Holders
      BY <1>c, <1>d, <3>1, <3>2, <3>3 DEF Holders, Core, HandlePlaces
    <3>6. handle'[a] = s /\ \A b \in Holders : handle'[b] = handle[b]
      BY <1>d, <3>1, <3>5 DEF Holders
    <3>7. HandlePlaces' /\ NoDisturbance'
      BY <1>c, <1>d, <3>1, <3>2, <3>3 DEF Core, HandlePlaces, NoDisturbance, Slots
    <3>8. Accounts'
      <4>1. initialized
        BY <1>16, <1>a DEF TrySwap, TypeInv, NobodyInside, Outside
      <4> QED
        BY <1>c, <3>3, <3>4, <4>1 DEF Core, Accounts
    <3>9. BitmapIsHeld'
      BY <1>c, <3>1, <3>5, <3>6 DEF Core, BitmapIsHeld
    <3>10. HeldOnce'
      BY <1>c, <3>2, <3>5, <3>6 DEF Core, BitmapIsHeld, HeldOnce
    <3> QED
      BY <3>7, <3>8, <3>9, <3>10 DEF Core
  <2>2. CASE slot_bitmap # snap[a]
    <3>1. Admitted' = Admitted /\ Holders' = Holders
      BY <1>16, <1>c, <1>d, <2>2 DEF TrySwap, Admitted, Holders, Core, HandlePlaces, NoDisturbance
    <3>2. HandlePlaces' /\ NoDisturbance'
      BY <1>16, <1>c, <1>d, <2>2 DEF TrySwap, Core, HandlePlaces, NoDisturbance, Slots
    <3> QED
      BY <1>16, <1>c, <2>2, <3>1, <3>2, QuietStep DEF TrySwap
  <2> QED
    BY <2>1, <2>2
<1>17. ASSUME NEW a \in Agents, ReleaseLoad(a) PROVE Core'
  <2>1. initialized
    BY <1>17, <1>c DEF ReleaseLoad, Core, Accounts
  <2>2. Admitted' = Admitted /\ Holders' = Holders
    BY <1>17, <1>d, <2>1 DEF ReleaseLoad, Admitted, Holders
  <2>3. HandlePlaces' /\ NoDisturbance'
    BY <1>17, <1>c, <1>d, <2>1 DEF ReleaseLoad, Core, HandlePlaces, NoDisturbance, Slots
  <2> QED
    BY <1>17, <1>c, <2>1, <2>2, <2>3, QuietStep DEF ReleaseLoad
<1>18. ASSUME NEW a \in Agents, ReleaseSwap(a) PROVE Core'
  <2>1. Admitted' = Admitted
    BY <1>18, <1>d DEF ReleaseSwap, Admitted
  <2>2. HandlePlaces' /\ NoDisturbance'
    BY <1>18, <1>c, <1>d DEF ReleaseSwap, Core, HandlePlaces, NoDisturbance, Slots
  <2>3. CASE slot_bitmap = snap[a]
    <3>1. Holders' = Holders \ {a} /\ a \in Holders
      BY <1>18, <1>c, <1>d, <2>3 DEF ReleaseSwap, Holders, Core, HandlePlaces
    <3>2. slot_bitmap' = slot_bitmap \ {handle[a]} /\ UNCHANGED handle
      BY <1>18, <2>3 DEF ReleaseSwap
    <3>3. BitmapIsHeld' /\ HeldOnce'
      BY <1>c, <3>1, <3>2 DEF Core, BitmapIsHeld, HeldOnce
    <3>4. Accounts'
      BY <1>18, <1>c, <2>1 DEF ReleaseSwap, Core, Accounts
    <3> QED
      BY <2>2, <3>3, <3>4 DEF Core
  <2>4. CASE slot_bitmap # snap[a]
    <3>1. Holders' = Holders
      BY <1>18, <2>4 DEF ReleaseSwap, Holders
    <3> QED
      BY <1>18, <1>c, <2>1, <2>2, <2>4, <3>1, QuietStep DEF ReleaseSwap
  <2> QED
    BY <2>3, <2>4
<1>19. ASSUME NEW a \in Agents, ReleaseSignal(a) PROVE Core'
  <2>1. Admitted' = Admitted \ {a} /\ a \in Admitted
    BY <1>19, <1>c, <1>d DEF ReleaseSignal, Admitted, Core, HandlePlaces, NoDisturbance
  <2>2. Holders' = Holders /\ \A b \in Holders : handle'[b] = handle[b]
    BY <1>19, <1>c, <1>d DEF ReleaseSignal, Holders, Core, HandlePlaces, NoDisturbance
  <2>3. HandlePlaces' /\ NoDisturbance'
    BY <1>19, <1>c, <1>d DEF ReleaseSignal, Core, HandlePlaces, NoDisturbance, Slots
  <2>4. initialized /\ initialized'
    BY <1>19, <1>a, <1>c DEF ReleaseSignal, TypeInv, NobodyInside, Outside, Core, Accounts,
       HandlePlaces
  <2>5. Accounts'
    <3>1. Cardinality(Admitted') = Cardinality(Admitted) - 1
      BY <2>1, AdmittedFinite, FS_RemoveElement
    <3>2. semaphore' = semaphore + 1 /\ max_slots' = max_slots
      BY <1>19 DEF ReleaseSignal
    <3>3. semaphore + Cardinality(Admitted) = max_slots
      BY <1>c, <2>4 DEF Core, Accounts
    <3>4. semaphore' + Cardinality(Admitted') = max_slots'
      BY <1>d, <3>1, <3>2, <3>3, AdmittedFinite
    <3> QED
      BY <2>4, <3>4 DEF Accounts
  <2>6. BitmapIsHeld' /\ HeldOnce'
    BY <1>19, <1>c, <2>2 DEF ReleaseSignal, Core, BitmapIsHeld, HeldOnce
  <2> QED
    BY <2>3, <2>5, <2>6 DEF Core
<1>20. ASSUME NEW a \in Agents, ForceReleaseAll(a) PROVE Core'
  BY <1>20 DEF ForceReleaseAll
<1>21. ASSUME NEW a \in Agents, ForceSignal(a) PROVE Core'
  BY <1>21, <1>c DEF ForceSignal, Core, NoDisturbance
<1>22. CASE Shutdown
  BY <1>22 DEF Shutdown
<1>23. CASE UNCHANGED vars
  <2>1. Admitted' = Admitted /\ Holders' = Holders
    BY <1>23 DEF vars, Admitted, Holders
  <2>2. HandlePlaces' /\ NoDisturbance'
    BY <1>23, <1>c DEF vars, Core, HandlePlaces, NoDisturbance, Slots
  <2> QED
    BY <1>23, <1>c, <2>1, <2>2, QuietStep DEF vars
<1> QED
  BY <1>1, <1>2, <1>3, <1>4, <1>5, <1>6, <1>7, <1>8, <1>9, <1>10, <1>11, <1>12,
     <1>13, <1>14, <1>15, <1>16, <1>17, <1>18, <1>19, <1>20, <1>21, <1>22, <1>23
  DEF Next, Call, Work, Finished

\* The accounts hold in every reachable state of the pool.
LEMMA PoolInvariant == Spec => []PoolInv
<1>1. Init => PoolInv
  BY PoolInvInit
<1>2. PoolInv /\ [Next]_vars => PoolInv'
  BY PoolInvStep
<1> QED
  BY <1>1, <1>2, PTL DEF Spec

\* Two agents never own the same interpreter slot, for every number of agents
\* and every pool size, until the pool is reset by force or shut down.
THEOREM SlotsAreExclusive == Spec => []MutualExclusion
<1>1. PoolInv => MutualExclusion
  BY DEF PoolInv, Core, HeldOnce, MutualExclusion
<1> QED
  BY <1>1, PoolInvariant, PTL

\* The branch of ios_interp_acquire that "should never happen" never does.
THEOREM SemaphoreGuarantee == Spec => []AdmittedFindsSlot
<1>1. PoolInv => AdmittedFindsSlot
  BY DEF PoolInv, Core, NoDisturbance, AdmittedFindsSlot
<1> QED
  BY <1>1, PoolInvariant, PTL

\* The semaphore and the admitted agents always account for the whole pool.
THEOREM CapacityIsConserved == Spec => []CapacityConserved
<1>1. PoolInv => CapacityConserved
  BY DEF PoolInv, Core, Accounts, CapacityConserved
<1> QED
  BY <1>1, PoolInvariant, PTL

-----------------------------------------------------------------------------
(* Refinement: the pool implements SlotPool.                               *)

grantBar == [a \in Agents |-> IF a \in Holders THEN handle[a] ELSE -1]

\* Nothing changes for the agents: a stuttering step of SlotPool.
LEMMA StutterStep ==
    ASSUME Holders' = Holders, \A b \in Holders : handle'[b] = handle[b],
           max_slots' = max_slots
    PROVE  UNCHANGED <<max_slots, grantBar>>
  BY DEF grantBar

\* The step in which a pool gets its size.
LEMMA SizeStep ==
    ASSUME Core, ~initialized, NobodyInside, NEW n \in 1 .. WordBits,
           max_slots' = n, UNCHANGED handle, Holders' = {}
    PROVE  Abstract!SetSize
<1>1. max_slots = 0 /\ \A a \in Agents : handle[a] = -1
  BY DEF Core, Accounts
<1>2. grantBar = [a \in Agents |-> -1] /\ grantBar' = [a \in Agents |-> -1]
  BY <1>1 DEF grantBar, Holders
<1> QED
  BY <1>1, <1>2 DEF Abstract!SetSize, grantBar

\* The step in which a compare-and-swap claims a slot.
LEMMA GrantStep ==
    ASSUME TypeInv, Core, NEW a \in Agents, a \notin Holders,
           NEW s \in Slots, s \notin slot_bitmap,
           Holders' = Holders \cup {a}, handle' = [handle EXCEPT ![a] = s],
           max_slots' = max_slots
    PROVE  Abstract!Grant(a)
<1>1. handle \in [Agents -> -1 .. WordBits - 1] /\ s # -1
  BY InterpPoolAssumption DEF TypeInv, TypeOK, Slots
<1>2. \A b \in Holders : handle[b] # s
  BY DEF Core, BitmapIsHeld
<1>3. grantBar[a] = -1 /\ \A b \in Agents : grantBar[b] # s
  BY <1>1, <1>2 DEF grantBar
<1>4. grantBar' = [grantBar EXCEPT ![a] = s]
  BY <1>1 DEF grantBar
<1> QED
  BY <1>3, <1>4 DEF Abstract!Grant, grantBar, Slots

\* The step in which a compare-and-swap gives a slot back.
LEMMA ReturnStep ==
    ASSUME NEW a \in Holders, handle[a] # -1, Holders' = Holders \ {a},
           UNCHANGED <<handle, max_slots>>
    PROVE  Abstract!Return(a)
<1>1. a \in Agents
  BY DEF Holders
<1>2. grantBar[a] # -1 /\ grantBar' = [grantBar EXCEPT ![a] = -1]
  BY <1>1 DEF grantBar
<1> QED
  BY <1>2 DEF Abstract!Return, grantBar

\* Every step of an undisturbed pool is a step of SlotPool or changes nothing
\* SlotPool can see.
LEMMA RefinementStep ==
    ASSUME PoolInv, [Next]_vars, ~disturbed, ~disturbed'
    PROVE  [Abstract!Step]_<<max_slots, grantBar>>
<1> USE InterpPoolAssumption DEF Goto, pool, args, Shut, LockDestroyed
<1>a. TypeInv /\ Core
  BY DEF PoolInv
<1>b. /\ pc \in [Agents -> Labels] /\ handle \in [Agents -> -1 .. WordBits - 1]
      /\ max_slots \in 0 .. WordBits
  BY <1>a DEF TypeInv, TypeOK
<1> DEFINE Goal == [Abstract!Step]_<<max_slots, grantBar>>
<1>1. ASSUME NEW a \in Agents, Acquire(a) PROVE Goal
  <2>1. Holders' = Holders /\ \A b \in Holders : handle'[b] = handle[b]
    BY <1>1, <1>a, <1>b DEF Acquire, Holders, Core, HandlePlaces, NoDisturbance
  <2> QED
    BY <1>1, <2>1, StutterStep DEF Acquire
<1>2. ASSUME NEW a \in Agents, TryAcquireSlot(a) PROVE Goal
  <2>1. Holders' = Holders /\ \A b \in Holders : handle'[b] = handle[b]
    BY <1>2, <1>a, <1>b DEF TryAcquireSlot, Holders, Core, HandlePlaces, NoDisturbance
  <2> QED
    BY <1>2, <2>1, StutterStep DEF TryAcquireSlot
<1>3. ASSUME NEW a \in Agents, Configure(a) PROVE Goal
  <2>1. Holders' = Holders /\ \A b \in Holders : handle'[b] = handle[b]
    BY <1>3, <1>a, <1>b DEF Configure, Holders, Core, HandlePlaces, NoDisturbance
  <2> QED
    BY <1>3, <2>1, StutterStep DEF Configure
<1>4. ASSUME NEW a \in Agents, CheckInitialized(a) PROVE Goal
  <2>1. Holders' = Holders /\ \A b \in Holders : handle'[b] = handle[b]
    BY <1>4, <1>a, <1>b DEF CheckInitialized, Holders, Core, HandlePlaces, NoDisturbance
  <2> QED
    BY <1>4, <2>1, StutterStep DEF CheckInitialized
<1>5. ASSUME NEW a \in Agents, ConfigureReturns(a) PROVE Goal
  <2>1. Holders' = Holders /\ \A b \in Holders : handle'[b] = handle[b]
    BY <1>5, <1>a, <1>b DEF ConfigureReturns, Holders, Core, HandlePlaces, NoDisturbance
  <2> QED
    BY <1>5, <2>1, StutterStep DEF ConfigureReturns
<1>6. ASSUME NEW a \in Agents, EnterWait(a) PROVE Goal
  <2>1. Holders' = Holders /\ \A b \in Holders : handle'[b] = handle[b]
    BY <1>6, <1>a, <1>b DEF EnterWait, Holders, Core, HandlePlaces, NoDisturbance
  <2> QED
    BY <1>6, <2>1, StutterStep DEF EnterWait
<1>7. ASSUME NEW a \in Agents, SemaphorePass(a) PROVE Goal
  <2>1. Holders' = Holders /\ \A b \in Holders : handle'[b] = handle[b]
    BY <1>7, <1>a, <1>b DEF SemaphorePass, Holders, Core, HandlePlaces, NoDisturbance
  <2> QED
    BY <1>7, <2>1, StutterStep DEF SemaphorePass
<1>8. ASSUME NEW a \in Agents, SemaphoreTimeout(a) PROVE Goal
  <2>1. Holders' = Holders /\ \A b \in Holders : handle'[b] = handle[b]
    BY <1>8, <1>a, <1>b DEF SemaphoreTimeout, Holders, Core, HandlePlaces, NoDisturbance
  <2> QED
    BY <1>8, <2>1, StutterStep DEF SemaphoreTimeout
<1>9. ASSUME NEW a \in Agents, LeaveWait(a) PROVE Goal
  <2>1. Holders' = Holders /\ \A b \in Holders : handle'[b] = handle[b]
    BY <1>9, <1>a, <1>b DEF LeaveWait, Holders, Core, HandlePlaces, NoDisturbance
  <2> QED
    BY <1>9, <2>1, StutterStep DEF LeaveWait
<1>10. ASSUME NEW a \in Agents, SignalBack(a) PROVE Goal
  <2>1. Holders' = Holders /\ \A b \in Holders : handle'[b] = handle[b]
    BY <1>10, <1>a, <1>b DEF SignalBack, Holders, Core, HandlePlaces, NoDisturbance
  <2> QED
    BY <1>10, <2>1, StutterStep DEF SignalBack
<1>11. ASSUME NEW a \in Agents, FindLoad(a) PROVE Goal
  <2>1. Holders' = Holders /\ \A b \in Holders : handle'[b] = handle[b]
    BY <1>11, <1>a, <1>b DEF FindLoad, Holders, Core, HandlePlaces, NoDisturbance
  <2> QED
    BY <1>11, <2>1, StutterStep DEF FindLoad
<1>12. ASSUME NEW a \in Agents, TryLoad(a) PROVE Goal
  <2>1. Holders' = Holders /\ \A b \in Holders : handle'[b] = handle[b]
    BY <1>12, <1>a, <1>b DEF TryLoad, Holders, Core, HandlePlaces, NoDisturbance
  <2> QED
    BY <1>12, <2>1, StutterStep DEF TryLoad
<1>13. ASSUME NEW a \in Agents, ReleaseSignal(a) PROVE Goal
  <2>1. Holders' = Holders /\ \A b \in Holders : handle'[b] = handle[b]
    BY <1>13, <1>a, <1>b DEF ReleaseSignal, Holders, Core, HandlePlaces, NoDisturbance
  <2> QED
    BY <1>13, <2>1, StutterStep DEF ReleaseSignal
<1>14. ASSUME NEW a \in Agents, LazyInit(a) PROVE Goal
  <2>1. CASE initialized
    <3>1. Holders' = Holders /\ UNCHANGED <<handle, max_slots>>
      BY <1>14, <1>b, <2>1 DEF LazyInit, InitType, Holders
    <3> QED
      BY <3>1, StutterStep
  <2>2. CASE ~initialized
    <3>1. NobodyInside /\ \A b \in Agents : handle[b] = -1
      BY <1>a, <2>2 DEF TypeInv, Core, Accounts
    <3>2. Holders' = {} /\ UNCHANGED handle
      BY <1>14, <3>1 DEF LazyInit, Holders
    <3>3. DefaultSize \in 1 .. WordBits /\ max_slots' = DefaultSize
      BY <1>14, <1>a, <2>2 DEF LazyInit, InitType, TypeInv, ConfiguredSize
    <3>4. Abstract!SetSize
      BY <1>a, <2>2, <3>1, <3>2, <3>3, SizeStep
    <3> QED
      BY <3>4 DEF Abstract!Step
  <2> QED
    BY <2>1, <2>2
<1>15. ASSUME NEW a \in Agents, ConfigureInit(a) PROVE Goal
  <2>1. CASE initialized
    <3>1. Holders' = Holders /\ UNCHANGED <<handle, max_slots>>
      BY <1>15, <1>b, <2>1 DEF ConfigureInit, InitType, Holders
    <3> QED
      BY <3>1, StutterStep
  <2>2. CASE ~initialized
    <3>1. NobodyInside /\ \A b \in Agents : handle[b] = -1
      BY <1>a, <2>2 DEF TypeInv, Core, Accounts
    <3>2. Holders' = {} /\ UNCHANGED handle
      BY <1>15, <3>1 DEF ConfigureInit, Holders
    <3>3. want[a] \in 1 .. WordBits /\ max_slots' = want[a]
      BY <1>15, <1>a, <2>2 DEF ConfigureInit, InitType, TypeInv, ConfiguredSize
    <3>4. Abstract!SetSize
      BY <1>a, <2>2, <3>1, <3>2, <3>3, SizeStep
    <3> QED
      BY <3>4 DEF Abstract!Step
  <2> QED
    BY <2>1, <2>2
<1>16. ASSUME NEW a \in Agents, FindSwap(a) PROVE Goal
  <2>1. CASE slot_bitmap = snap[a]
    <3>1. PICK s \in Slots \ snap[a] : handle' = [handle EXCEPT ![a] = s]
      BY <1>16, <1>a, <2>1 DEF FindSwap
    <3>2. s # -1 /\ pc' = [pc EXCEPT ![a] = "idle"] /\ max_slots' = max_slots
      BY <1>16, <1>b, <2>1 DEF FindSwap, Slots
    <3>3. Holders' = Holders \cup {a} /\ a \notin Holders
      BY <1>16, <1>a, <1>b, <3>1, <3>2 DEF FindSwap, Holders, Core, HandlePlaces
    <3>4. Abstract!Grant(a)
      BY <1>a, <2>1, <3>1, <3>2, <3>3, GrantStep
    <3> QED
      BY <3>4 DEF Abstract!Step
  <2>2. CASE slot_bitmap # snap[a]
    <3>1. Holders' = Holders /\ UNCHANGED <<handle, max_slots>>
      BY <1>16, <1>b, <2>2 DEF FindSwap, Holders
    <3> QED
      BY <3>1, StutterStep
  <2> QED
    BY <2>1, <2>2
<1>17. ASSUME NEW a \in Agents, TrySwap(a) PROVE Goal
  <2>1. CASE slot_bitmap = snap[a]
    <3>1. PICK s \in Slots \ snap[a] : handle' = [handle EXCEPT ![a] = s]
      BY <1>17, <1>a, <2>1 DEF TrySwap, TypeInv, SnapshotHasWanted
    <3>2. s # -1 /\ pc' = [pc EXCEPT ![a] = "idle"] /\ max_slots' = max_slots
      BY <1>17, <1>b, <2>1 DEF TrySwap, Slots
    <3>3. Holders' = Holders \cup {a} /\ a \notin Holders
      BY <1>17, <1>a, <1>b, <3>1, <3>2 DEF TrySwap, Holders, Core, HandlePlaces
    <3>4. Abstract!Grant(a)
      BY <1>a, <2>1, <3>1, <3>2, <3>3, GrantStep
    <3> QED
      BY <3>4 DEF Abstract!Step
  <2>2. CASE slot_bitmap # snap[a]
    <3>1. Holders' = Holders /\ UNCHANGED <<handle, max_slots>>
      BY <1>17, <1>b, <2>2 DEF TrySwap, Holders
    <3> QED
      BY <3>1, StutterStep
  <2> QED
    BY <2>1, <2>2
<1>18. ASSUME NEW a \in Agents, ReleaseLoad(a) PROVE Goal
  <2>1. initialized
    BY <1>18, <1>a DEF ReleaseLoad, Core, Accounts
  <2>2. Holders' = Holders /\ UNCHANGED <<handle, max_slots>>
    BY <1>18, <1>b, <2>1 DEF ReleaseLoad, Holders
  <2> QED
    BY <2>2, StutterStep
<1>19. ASSUME NEW a \in Agents, ReleaseSwap(a) PROVE Goal
  <2>1. CASE slot_bitmap = snap[a]
    <3>1. Holders' = Holders \ {a} /\ a \in Holders /\ handle[a] # -1
      BY <1>19, <1>a, <1>b, <2>1 DEF ReleaseSwap, Holders, Core, HandlePlaces
    <3>2. Abstract!Return(a)
      BY <1>19, <3>1, ReturnStep DEF ReleaseSwap
    <3> QED
      BY <3>2 DEF Abstract!Step
  <2>2. CASE slot_bitmap # snap[a]
    <3>1. Holders' = Holders /\ UNCHANGED <<handle, max_slots>>
      BY <1>19, <2>2 DEF ReleaseSwap, Holders
    <3> QED
      BY <3>1, StutterStep
  <2> QED
    BY <2>1, <2>2
<1>20. ASSUME NEW a \in Agents, ForceReleaseAll(a) \/ ForceSignal(a) PROVE Goal
  BY <1>20, <1>a DEF ForceReleaseAll, ForceSignal, Core, NoDisturbance
<1>21. CASE Shutdown
  BY <1>21 DEF Shutdown
<1>22. CASE UNCHANGED vars
  <2>1. Holders' = Holders /\ UNCHANGED <<handle, max_slots>>
    BY <1>22 DEF vars, Holders
  <2> QED
    BY <2>1, StutterStep
<1> QED
  BY <1>1, <1>2, <1>3, <1>4, <1>5, <1>6, <1>7, <1>8, <1>9, <1>10, <1>11,
     <1>12, <1>13, <1>14, <1>15, <1>16, <1>17, <1>18, <1>19, <1>20,
     <1>21, <1>22
  DEF Next, Call, Work, Finished

\* Whatever force_release_all and shutdown do, a disturbed pool stays disturbed.
LEMMA DisturbedForGood == disturbed /\ [Next]_vars => disturbed'
  BY DEF Next, Call, Work, Shutdown, Finished, vars, args, Acquire, TryAcquireSlot,
         Configure, ForceReleaseAll, CheckInitialized, LazyInit, ConfigureInit,
         ConfigureReturns, EnterWait, SemaphorePass, SemaphoreTimeout, LeaveWait,
         SignalBack, FindLoad, FindSwap, TryLoad, TrySwap, ReleaseLoad,
         ReleaseSwap, ReleaseSignal, ForceSignal

\* Until force_release_all or shutdown is called, ios_interpreter_pool.c implements
\* a pool that grants each slot to one agent at a time.
THEOREM PoolImplementsSlotPool == Spec => ImplementsSlotPool
<1>1. Init => Abstract!Init
  BY DEF Init, Abstract!Init, Holders
<1>2. ASSUME PoolInv, [Next]_vars PROVE [Abstract!Next]_(Abstract!vars)
  <2>1. disturbed \in BOOLEAN /\ disturbed' \in BOOLEAN
    BY <1>2, TypeInvStep DEF PoolInv, TypeInv, TypeOK
  <2>2. CASE disturbed'
    BY <2>2 DEF Abstract!Next
  <2>3. CASE ~disturbed'
    <3>1. ~disturbed
      BY <1>2, <2>3, DisturbedForGood
    <3>2. [Abstract!Step]_<<max_slots, grantBar>>
      BY <1>2, <2>3, <3>1, RefinementStep
    <3>3. UNCHANGED disturbed
      BY <2>1, <2>3, <3>1
    <3> QED
      BY <3>2, <3>3 DEF Abstract!Next, Abstract!vars, grantBar
  <2> QED
    BY <2>2, <2>3
<1> QED
  BY <1>1, <1>2, PoolInvariant, PTL DEF Spec, ImplementsSlotPool, Abstract!Spec

=============================================================================
