--------------------------- MODULE PidTableProofs ---------------------------
(***************************************************************************)
(* Proofs about PidTable.  Calls nest, so the argument is about claims: a  *)
(* slot in flight belongs to one frame of one thread's stack, to a fork    *)
(* under way or to a command thread that has not stored its id yet, and    *)
(* is handed on from one to the next.                                      *)
(***************************************************************************)
EXTENDS PidTable, TLAPS, SequenceTheorems, FiniteSetTheorems

\* A thread with one of these labels is inside an ios_system call.
InCall ==
    {"fork_spin", "fork_lock", "fork_scan", "fork_getwd", "sys_lock", "sys",
     "sys_relock", "seq_entry", "seq", "create", "join", "ret", "rid_lock", "rid_chdir"}

\* Where the innermost call has its slot and has not yet given it on.
HoldLabels == {"sys_lock", "sys", "sys_relock", "seq_entry", "create"}

CleanupLabels == {"drain_chdir", "drain_pid", "release", "restore", "cleanup_exit"}

\* The commands inside cleanup_function.
Cleaning == {w \in Commands : pc[w] \in CleanupLabels}

CounterExact == IsFiniteSet(Cleaning) /\ cleanup_counter = Cardinality(Cleaning)

\* In ios_releaseThreadId, after the wait.
LateLabels == {"rid_lock", "rid_chdir"}

\* A thread has frames exactly while it is in a call, only the outermost one is a
\* user's, and only a user calls ios_releaseThreadId.
Calls ==
    \A t \in Threads :
      /\ stack[t] # <<>> <=> pc[t] \in InCall
      /\ \A i \in 1 .. Len(stack[t]) : stack[t][i].kind = "user" <=> i = 1
      /\ pc[t] \in LateLabels => Len(stack[t]) = 1

TypeInv == TypeOK /\ CounterExact /\ Calls

\* A frame under a capture keeps its slot; one under a part of a sequence gave it back;
\* one of a call without a fork never had any.
Holds(t, i) ==
    /\ stack[t][i].pid # 0
    /\ IF i < Len(stack[t]) THEN stack[t][i + 1].kind = "capture" ELSE pc[t] \in HoldLabels

\* The claims of a thread: 0 stands for a fork or a start under way, i for frame i.
HasClaim(t, i) ==
    IF i = 0 THEN \/ pc[t] = "fork_getwd"
                  \/ pc[t] = "start" /\ t \in Commands /\ job[t].fork # 0
             ELSE Holds(t, i)

ClaimOf(t, i) ==
    IF i = 0 THEN IF pc[t] = "start" THEN job[t].fork ELSE current_pid[t]
             ELSE stack[t][i].pid

Claims(t) == {i \in 0 .. Len(stack[t]) : HasClaim(t, i)}

\* What is claimed is in flight.
ClaimsInFlight ==
    \A t \in Threads : \A i \in Claims(t) : thread_ids[ClaimOf(t, i)] = "inflight"

\* Nothing is claimed twice.
ClaimsDiffer ==
    \A t, u \in Threads : \A i \in Claims(t), j \in Claims(u) :
      ClaimOf(t, i) = ClaimOf(u, j) => t = u /\ i = j

\* current_pid is the slot the innermost call forked, or what a capture will make of it.
CurrentIsTop ==
    \A t \in Threads :
      /\ pc[t] \in HoldLabels /\ Top(t).pid # 0 => current_pid[t] = Top(t).pid
      /\ \A i \in 1 .. Len(stack[t]) - 1 :
           stack[t][i + 1].kind = "capture" /\ stack[t][i].pid # 0 =>
             stack[t][i + 1].saved = stack[t][i].pid

\* A command thread has the slot of the fork it was started for until it frees it.
WorkersHold ==
    \A w \in Commands : pc[w] \in BeforeRelease /\ job[w].fork # 0 =>
      /\ job[w].pid = job[w].fork
      /\ pc[w] # "start" => thread_ids[job[w].fork] = w

SlotInv == ClaimsInFlight /\ ClaimsDiffer /\ CurrentIsTop /\ WorkersHold

Released == {"restore", "cleanup_exit", "none", "ended"}

\* A command whose starter's wait has returned has freed its slot.
ReapedReleased == \A w \in reaped : pc[w] \in Released

\* Who is past the guard of chdir has no command that restores the directory.
ChdirAfterRestore ==
    \A t \in Threads : pc[t] \in {"cd_lock", "cd_locked"} =>
      \A w \in reaped : job[w].by = t => pc[w] # "restore"

ReapInv == ReapedReleased /\ ChdirAfterRestore

PidHolders == {"fork_scan", "fork_getwd", "rid_chdir", "restore"}

\* Who holds which mutex, read off where the threads are.
LocksHeld ==
    \A t \in Threads :
      /\ pid_mtx = t <=> pc[t] \in PidHolders
      /\ chdir_mtx = t <=> pc[t] = "cd_locked"
      /\ ios_system_mutex = t <=> pc[t] = "sys"

\* No two commands that were forked have the same slot, from the pthread_create to the
\* release, as long as nobody changed the slot of another's fork.
SlotsDiffer ==
    ~strayed =>
      \A v, w \in Commands :
        /\ pc[v] \in BeforeRelease /\ pc[w] \in BeforeRelease
        /\ job[v].fork # 0 /\ job[w].fork # 0
        /\ job[v].pid = job[w].pid
        => v = w

-----------------------------------------------------------------------------
(* What the operations on a stack leave of it.                             *)

LEMMA PushFacts ==
    ASSUME stack \in [Threads -> Seq(Frame)], NEW t \in Threads, NEW f \in Frame,
           stack' = Push(t, f)
    PROVE  /\ stack' \in [Threads -> Seq(Frame)]
           /\ \A u \in Threads : u # t => stack'[u] = stack[u]
           /\ Len(stack[t]) \in Nat /\ Len(stack'[t]) = Len(stack[t]) + 1
           /\ stack'[t] # <<>>
           /\ \A i \in 1 .. Len(stack[t]) : stack'[t][i] = stack[t][i]
           /\ stack'[t][Len(stack[t]) + 1] = f
<1> HIDE DEF Frame
<1>1. stack[t] \in Seq(Frame)
  OBVIOUS
<1>2. stack'[t] = Append(stack[t], f)
  BY DEF Push
<1>3. /\ Append(stack[t], f) \in Seq(Frame)
      /\ Len(Append(stack[t], f)) = Len(stack[t]) + 1
      /\ \A i \in 1 .. Len(stack[t]) : Append(stack[t], f)[i] = stack[t][i]
      /\ Append(stack[t], f)[Len(stack[t]) + 1] = f
  BY <1>1, AppendProperties
<1>4. stack' \in [Threads -> Seq(Frame)]
  BY <1>3 DEF Push
<1>5. Len(stack[t]) \in Nat
  BY <1>1
<1>6. stack'[t] # <<>>
  BY <1>2, <1>3, <1>5
<1>7. \A u \in Threads : u # t => stack'[u] = stack[u]
  BY DEF Push
<1> QED
  BY <1>2, <1>3, <1>4, <1>5, <1>6, <1>7

LEMMA PopFacts ==
    ASSUME stack \in [Threads -> Seq(Frame)], NEW t \in Threads, stack[t] # <<>>,
           stack' = Pop(t)
    PROVE  /\ stack' \in [Threads -> Seq(Frame)]
           /\ \A u \in Threads : u # t => stack'[u] = stack[u]
           /\ Len(stack[t]) \in Nat \ {0} /\ Len(stack'[t]) = Len(stack[t]) - 1
           /\ stack'[t] = <<>> <=> Len(stack[t]) = 1
           /\ \A i \in 1 .. Len(stack[t]) - 1 : stack'[t][i] = stack[t][i]
<1> HIDE DEF Frame
<1>1. stack[t] \in Seq(Frame) /\ Len(stack[t]) \in Nat
  OBVIOUS
<1>2. Len(stack[t]) \in Nat \ {0}
  BY <1>1, EmptySeq
<1>3. stack'[t] = SubSeq(stack[t], 1, Len(stack[t]) - 1)
  BY DEF Pop
<1>4. SubSeq(stack[t], 1, Len(stack[t]) - 1) \in Seq(Frame)
  BY <1>1, <1>2
<1>5. Len(SubSeq(stack[t], 1, Len(stack[t]) - 1)) = Len(stack[t]) - 1
  <2> DEFINE r == Len(SubSeq(stack[t], 1, Len(stack[t]) - 1))
             n == Len(stack[t]) - 1
  <2>1. n \in Nat /\ \A i \in 1 .. n : stack[t][i] \in Frame
    BY <1>1, <1>2
  <2>2. r = IF 1 <= n THEN n - 1 + 1 ELSE 0
    BY <2>1, SubSeqProperties
  <2> HIDE DEF r, n
  <2>3. r = n
    BY <2>1, <2>2
  <2> QED
    BY <2>3 DEF r, n
<1>6. \A i \in 1 .. Len(stack[t]) - 1 :
        SubSeq(stack[t], 1, Len(stack[t]) - 1)[i] = stack[t][i]
  BY <1>1, <1>2
<1>7. stack' \in [Threads -> Seq(Frame)]
  BY <1>4 DEF Pop
<1>8. stack'[t] = <<>> <=> Len(stack[t]) = 1
  <2>1. stack'[t] = <<>> <=> Len(stack'[t]) = 0
    BY <1>3, <1>4, EmptySeq
  <2> QED
    BY <1>2, <1>3, <1>5, <2>1
<1>9. \A u \in Threads : u # t => stack'[u] = stack[u]
  BY DEF Pop
<1> QED
  BY <1>2, <1>3, <1>5, <1>6, <1>7, <1>8, <1>9

LEMMA SetPrev ==
    ASSUME stack \in [Threads -> Seq(Frame)], NEW t \in Threads, stack[t] # <<>>,
           NEW v \in Slots, stack' = SetTop(t, "prev", v)
    PROVE  /\ stack' \in [Threads -> Seq(Frame)]
           /\ \A u \in Threads : u # t => stack'[u] = stack[u]
           /\ Len(stack[t]) \in Nat \ {0} /\ Len(stack'[t]) = Len(stack[t])
           /\ stack'[t] # <<>>
           /\ \A i \in 1 .. Len(stack[t]) :
                /\ stack'[t][i].kind = stack[t][i].kind
                /\ stack'[t][i].saved = stack[t][i].saved
                /\ stack'[t][i].pid = stack[t][i].pid
<1> DEFINE n == Len(stack[t])
           f == [stack[t][n] EXCEPT !["prev"] = v]
<1>1. stack[t] \in Seq(Frame) /\ n \in Nat
  OBVIOUS
<1>2. n \in Nat \ {0}
  BY <1>1, EmptySeq
<1>3. stack'[t] = [stack[t] EXCEPT ![n] = f]
  BY DEF SetTop
<1>4. stack[t][n] \in Frame
  BY <1>1, <1>2
<1>5. f \in Frame /\ f.kind = stack[t][n].kind /\ f.saved = stack[t][n].saved
      /\ f.pid = stack[t][n].pid
  BY <1>4 DEF Frame
<1> HIDE DEF f, n
<1>6. [stack[t] EXCEPT ![n] = f] \in Seq(Frame)
      /\ Len([stack[t] EXCEPT ![n] = f]) = Len(stack[t])
  BY <1>1, <1>2, <1>5, ExceptSeq DEF n
<1>7. stack' \in [Threads -> Seq(Frame)]
  BY <1>3, <1>6 DEF SetTop
<1>8. \A i \in 1 .. n : stack'[t][i] = IF i = n THEN f ELSE stack[t][i]
  BY <1>1, <1>3 DEF n
<1>9. stack'[t] # <<>>
  BY <1>2, <1>3, <1>6 DEF n
<1>10. \A u \in Threads : u # t => stack'[u] = stack[u]
  BY DEF SetTop
<1> QED
  BY <1>2, <1>3, <1>5, <1>6, <1>7, <1>8, <1>9, <1>10 DEF n

LEMMA SetPid ==
    ASSUME stack \in [Threads -> Seq(Frame)], NEW t \in Threads, stack[t] # <<>>,
           NEW v \in Slots, stack' = SetTop(t, "pid", v)
    PROVE  /\ stack' \in [Threads -> Seq(Frame)]
           /\ \A u \in Threads : u # t => stack'[u] = stack[u]
           /\ Len(stack[t]) \in Nat \ {0} /\ Len(stack'[t]) = Len(stack[t])
           /\ stack'[t] # <<>>
           /\ \A i \in 1 .. Len(stack[t]) :
                /\ stack'[t][i].kind = stack[t][i].kind
                /\ stack'[t][i].saved = stack[t][i].saved
                /\ stack'[t][i].pid = IF i = Len(stack[t]) THEN v ELSE stack[t][i].pid
<1> DEFINE n == Len(stack[t])
           f == [stack[t][n] EXCEPT !["pid"] = v]
<1>1. stack[t] \in Seq(Frame) /\ n \in Nat
  OBVIOUS
<1>2. n \in Nat \ {0}
  BY <1>1, EmptySeq
<1>3. stack'[t] = [stack[t] EXCEPT ![n] = f]
  BY DEF SetTop
<1>4. stack[t][n] \in Frame
  BY <1>1, <1>2
<1>5. f \in Frame /\ f.kind = stack[t][n].kind /\ f.saved = stack[t][n].saved
      /\ f.pid = v
  BY <1>4 DEF Frame
<1> HIDE DEF f, n
<1>6. [stack[t] EXCEPT ![n] = f] \in Seq(Frame)
      /\ Len([stack[t] EXCEPT ![n] = f]) = Len(stack[t])
  BY <1>1, <1>2, <1>5, ExceptSeq DEF n
<1>7. stack' \in [Threads -> Seq(Frame)]
  BY <1>3, <1>6 DEF SetTop
<1>8. \A i \in 1 .. n : stack'[t][i] = IF i = n THEN f ELSE stack[t][i]
  BY <1>1, <1>3 DEF n
<1>9. stack'[t] # <<>>
  BY <1>2, <1>3, <1>6 DEF n
<1>10. \A u \in Threads : u # t => stack'[u] = stack[u]
  BY DEF SetTop
<1> QED
  BY <1>2, <1>3, <1>5, <1>6, <1>7, <1>8, <1>9, <1>10 DEF n

-----------------------------------------------------------------------------
(* Types, the counter of the cleanups and the shape of the stacks.         *)

LEMMA TypeFacts ==
    /\ 0 \in Slots /\ 1 \in Slots
    /\ \A n \in Slots : n \in Nat
    /\ last_allocated_pid \in Slots => NextSlot \in Slots
    /\ Home \in Dirs /\ MaxOps \in Nat
    /\ {"none", "user", "fork_spin", "fork_lock", "fork_scan", "fork_getwd",
        "sys_lock", "sys", "sys_relock", "seq_entry", "seq", "create", "join",
        "ret", "rid_lock", "rid_chdir", "start", "drain_chdir", "drain_pid", "release",
        "restore", "cleanup_exit", "ended", "cd_spin", "cd_lock", "cd_locked",
        "cd_record"}
         \subseteq Labels
BY PidTableAssumption DEF Slots, NextSlot, Labels

\* A step of one thread that enters or leaves neither a call nor the cleanup.
LEMMA PlainMove ==
    ASSUME TypeInv, NEW t \in Threads, NEW l \in Labels, pc' = [pc EXCEPT ![t] = l],
           stack' = stack, cleanup_counter' = cleanup_counter,
           pc[t] \in CleanupLabels <=> l \in CleanupLabels,
           pc[t] \in InCall <=> l \in InCall,
           l \in LateLabels => Len(stack[t]) = 1
    PROVE  CounterExact' /\ Calls'
<1>1. Cleaning' = Cleaning
  BY DEF TypeInv, TypeOK, Cleaning, Threads
<1>2. Calls'
  BY DEF TypeInv, TypeOK, Calls
<1> QED
  BY <1>1, <1>2 DEF TypeInv, CounterExact

\* The innermost frame of a thread in a call.
LEMMA TopType ==
    ASSUME TypeInv, NEW t \in Threads, pc[t] \in InCall
    PROVE  /\ stack[t] # <<>> /\ Len(stack[t]) \in Nat \ {0}
           /\ Top(t) = stack[t][Len(stack[t])]
           /\ Top(t) \in Frame /\ Top(t).pid \in Slots /\ Top(t).saved \in Slots
           /\ Top(t).prev \in Slots /\ Top(t).kind \in {"user", "seq", "capture"}
<1>1. stack[t] # <<>> /\ stack[t] \in Seq(Frame)
  BY DEF TypeInv, TypeOK, Calls
<1>2. Len(stack[t]) \in Nat \ {0}
  BY <1>1, EmptySeq
<1>3. Top(t) \in Frame
  BY <1>1, <1>2 DEF Top
<1> QED
  BY <1>1, <1>2, <1>3 DEF Top, Frame

LEMMA StoreZeroTypes ==
    ASSUME TypeInv, NEW t \in Threads, StoreZero(t)
    PROVE  /\ thread_ids' \in [Slots -> Threads \cup {"free", "inflight"}]
           /\ current_pid' \in [Threads -> Slots] /\ strayed' \in BOOLEAN
<1>1. current_pid[t] \in Slots /\ previousPid[current_pid[t]] \in Slots
  BY DEF TypeInv, TypeOK
<1>2. strayed' \in BOOLEAN
  BY DEF StoreZero, TypeInv, TypeOK
<1>3. CASE /\ current_pid' = [current_pid EXCEPT ![t] = previousPid[current_pid[t]]]
           /\ thread_ids' = [thread_ids EXCEPT ![current_pid[t]] = "free"]
  BY <1>1, <1>2, <1>3 DEF TypeInv, TypeOK
<1>4. CASE UNCHANGED <<current_pid, thread_ids>>
  BY <1>2, <1>4 DEF TypeInv, TypeOK
<1> QED
  BY <1>3, <1>4 DEF StoreZero

LEMMA LibraryTypes ==
    ASSUME TypeInv, NEW t \in Threads,
              \/ StartChdir(t) \/ ForkSpin(t) \/ SysLock(t) \/ SysEarlyReturn(t)
              \/ SysComposite(t) \/ SeqEntry(t) \/ SeqDone(t) \/ SysDispatch(t)
              \/ CreateFails(t) \/ ChangeDirectory(t) \/ RecordDirectory(t)
              \/ ChdirSpin(t) \/ ChdirLock(t) \/ ChdirCommit(t)
    PROVE  TypeInv'
<1> USE DEF TypeInv
<1>1. CASE StartChdir(t)
  <2>1. TypeOK'
    BY <1>1, TypeFacts DEF TypeOK, StartChdir, Goto, table, locks, Mutex
  <2>2. CounterExact' /\ Calls'
    BY <1>1, PlainMove, TypeFacts DEF TypeOK, StartChdir, Goto, InCall, LateLabels, CleanupLabels
  <2> QED
    BY <2>1, <2>2
<1>2. CASE ForkSpin(t)
  <2>1. TypeOK'
    BY <1>2, TypeFacts DEF TypeOK, ForkSpin, Goto, table, locks, Mutex
  <2>2. CounterExact' /\ Calls'
    BY <1>2, PlainMove, TypeFacts DEF TypeOK, ForkSpin, Goto, InCall, LateLabels, CleanupLabels
  <2> QED
    BY <2>1, <2>2
<1>3. CASE SysLock(t)
  <2>1. TypeOK'
    BY <1>3, TypeFacts DEF TypeOK, SysLock, Goto, table, locks, Mutex
  <2>2. CounterExact' /\ Calls'
    BY <1>3, PlainMove, TypeFacts DEF TypeOK, SysLock, Goto, InCall, LateLabels, CleanupLabels
  <2> QED
    BY <2>1, <2>2
<1>4. CASE SysEarlyReturn(t)
  <2>1. TypeOK'
    BY <1>4, StoreZeroTypes, TypeFacts DEF TypeOK, SysEarlyReturn, Goto, locks, Mutex
  <2>2. CounterExact' /\ Calls'
    BY <1>4, PlainMove, TypeFacts DEF TypeOK, SysEarlyReturn, Goto, InCall, LateLabels, CleanupLabels
  <2> QED
    BY <2>1, <2>2
<1>5. CASE SysComposite(t)
  <2>1. TypeOK'
    BY <1>5, TypeFacts DEF TypeOK, SysComposite, Goto, table, locks, Mutex
  <2>2. CounterExact' /\ Calls'
    BY <1>5, PlainMove, TypeFacts DEF TypeOK, SysComposite, Goto, InCall, LateLabels, CleanupLabels
  <2> QED
    BY <2>1, <2>2
<1>6. CASE SeqEntry(t)
  <2>1. TypeOK'
    BY <1>6, StoreZeroTypes, TypeFacts DEF TypeOK, SeqEntry, Goto, locks, Mutex
  <2>2. CounterExact' /\ Calls'
    BY <1>6, PlainMove, TypeFacts DEF TypeOK, SeqEntry, Goto, InCall, LateLabels, CleanupLabels
  <2> QED
    BY <2>1, <2>2
<1>7. CASE SeqDone(t)
  <2>1. TypeOK'
    BY <1>7, TypeFacts DEF TypeOK, SeqDone, Goto, table, locks, Mutex
  <2>2. CounterExact' /\ Calls'
    BY <1>7, PlainMove, TypeFacts DEF TypeOK, SeqDone, Goto, InCall, LateLabels, CleanupLabels
  <2> QED
    BY <2>1, <2>2
<1>8. CASE SysDispatch(t)
  <2>1. TypeOK'
    BY <1>8, TypeFacts DEF TypeOK, SysDispatch, Goto, table, locks, Mutex
  <2>2. CounterExact' /\ Calls'
    BY <1>8, PlainMove, TypeFacts DEF TypeOK, SysDispatch, Goto, InCall, LateLabels, CleanupLabels
  <2> QED
    BY <2>1, <2>2
<1>9. CASE CreateFails(t)
  <2>1. TypeOK'
    BY <1>9, StoreZeroTypes, TypeFacts DEF TypeOK, CreateFails, Goto, locks, Mutex
  <2>2. CounterExact' /\ Calls'
    BY <1>9, PlainMove, TypeFacts DEF TypeOK, CreateFails, Goto, InCall, LateLabels, CleanupLabels
  <2> QED
    BY <2>1, <2>2
<1>10. CASE ChangeDirectory(t)
  <2>1. PICK l \in {"user", "cd_record"} : Goto(t, l)
    BY <1>10 DEF ChangeDirectory
  <2>2. TypeOK'
    BY <1>10, <2>1, TypeFacts DEF TypeOK, ChangeDirectory, Goto, table, locks, Mutex
  <2>3. CounterExact' /\ Calls'
    BY <1>10, <2>1, PlainMove, TypeFacts
      DEF TypeOK, ChangeDirectory, Goto, InCall, LateLabels, CleanupLabels
  <2> QED
    BY <2>2, <2>3
<1>11. CASE RecordDirectory(t)
  <2>1. TypeOK'
    <3>1. previousDirectory' \in [Slots -> Dirs]
      BY <1>11 DEF RecordDirectory, TypeOK
    <3> QED
      BY <1>11, <3>1, TypeFacts DEF TypeOK, RecordDirectory, Goto, locks, Mutex
  <2>2. CounterExact' /\ Calls'
    BY <1>11, PlainMove, TypeFacts
      DEF TypeOK, RecordDirectory, Goto, InCall, LateLabels, CleanupLabels
  <2> QED
    BY <2>1, <2>2
<1>12. CASE ChdirSpin(t)
  <2>1. TypeOK'
    BY <1>12, TypeFacts DEF TypeOK, ChdirSpin, Goto, table, locks, Mutex
  <2>2. CounterExact' /\ Calls'
    BY <1>12, PlainMove, TypeFacts DEF TypeOK, ChdirSpin, Goto, InCall, LateLabels, CleanupLabels
  <2> QED
    BY <2>1, <2>2
<1>13. CASE ChdirLock(t)
  <2>1. TypeOK'
    BY <1>13, TypeFacts DEF TypeOK, ChdirLock, Goto, table, locks, Mutex
  <2>2. CounterExact' /\ Calls'
    BY <1>13, PlainMove, TypeFacts DEF TypeOK, ChdirLock, Goto, InCall, LateLabels, CleanupLabels
  <2> QED
    BY <2>1, <2>2
<1>14. CASE ChdirCommit(t)
  <2>1. TypeOK'
    BY <1>14, TypeFacts DEF TypeOK, ChdirCommit, Goto, table, locks, Mutex
  <2>2. CounterExact' /\ Calls'
    BY <1>14, PlainMove, TypeFacts DEF TypeOK, ChdirCommit, Goto, InCall, LateLabels, CleanupLabels
  <2> QED
    BY <2>1, <2>2
<1> QED
  BY <1>1, <1>2, <1>3, <1>4, <1>5, <1>6, <1>7, <1>8, <1>9, <1>10, <1>11, <1>12, <1>13, <1>14

LEMMA CommandTypes ==
    ASSUME TypeInv, NEW w \in Commands,
              \/ RunFunction(w) \/ DrainChdir(w) \/ DrainPid(w)
              \/ ReleaseThread(w) \/ RestoreDirectory(w)
    PROVE  TypeInv'
<1> USE DEF TypeInv
<1>0. w \in Threads
  BY DEF Threads
<1>1. CASE RunFunction(w)
  <2>1. TypeOK'
    <3>1. job[w].pid \in Slots
      BY DEF TypeOK
    <3>2. thread_ids' \in [Slots -> Threads \cup {"free", "inflight"}]
      <4>1. thread_ids' = [thread_ids EXCEPT ![job[w].pid] = w] \/ thread_ids' = thread_ids
        BY <1>1 DEF RunFunction, StoreSelf
      <4>2. thread_ids \in [Slots -> Threads \cup {"free", "inflight"}]
        BY DEF TypeOK
      <4> QED
        BY <1>0, <3>1, <4>1, <4>2
    <3>3. current_pid' \in [Threads -> Slots]
      BY <1>1, <3>1 DEF RunFunction, TypeOK
    <3>4. strayed' \in BOOLEAN
      BY <1>1 DEF RunFunction, StoreSelf, TypeOK
    <3> QED
      BY <1>1, <1>0, <3>2, <3>3, <3>4, TypeFacts DEF TypeOK, RunFunction, Goto, locks
  <2>2. CounterExact' /\ Calls'
    BY <1>1, <1>0, PlainMove, TypeFacts DEF TypeOK, RunFunction, Goto, InCall, LateLabels, CleanupLabels
  <2> QED
    BY <2>1, <2>2
<1>2. CASE DrainChdir(w)
  <2>1. TypeOK'
    BY <1>2, <1>0, TypeFacts DEF TypeOK, DrainChdir, Goto, table, locks, Mutex
  <2>2. CounterExact' /\ Calls'
    BY <1>2, <1>0, PlainMove, TypeFacts DEF TypeOK, DrainChdir, Goto, InCall, LateLabels, CleanupLabels
  <2> QED
    BY <2>1, <2>2
<1>3. CASE DrainPid(w)
  <2>1. TypeOK'
    BY <1>3, <1>0, TypeFacts DEF TypeOK, DrainPid, Goto, table, locks, Mutex
  <2>2. CounterExact' /\ Calls'
    BY <1>3, <1>0, PlainMove, TypeFacts DEF TypeOK, DrainPid, Goto, InCall, LateLabels, CleanupLabels
  <2> QED
    BY <2>1, <2>2
<1>4. CASE ReleaseThread(w)
  <2>1. TypeOK'
    <3>1. /\ thread_ids' \in [Slots -> Threads \cup {"free", "inflight"}]
          /\ current_pid' \in [Threads -> Slots]
      <4>1. CASE UNCHANGED <<thread_ids, current_pid>>
        BY <4>1 DEF TypeOK
      <4>2. CASE \E p \in Slots :
                   /\ thread_ids' = [thread_ids EXCEPT ![p] = "free"]
                   /\ current_pid' = [current_pid EXCEPT ![w] = previousPid[p]]
        BY <1>0, <4>2 DEF TypeOK
      <4> QED
        BY <1>4, <4>1, <4>2 DEF ReleaseThread
    <3>2. pid_mtx' \in Mutex
      BY <1>0, <1>4 DEF ReleaseThread, TypeOK, Mutex
    <3>3. pc' \in [Threads -> Labels]
      <4>1. pc' = [pc EXCEPT ![w] = "restore"] \/ pc' = [pc EXCEPT ![w] = "cleanup_exit"]
        BY <1>4 DEF ReleaseThread, Goto
      <4> QED
        BY <4>1, TypeFacts DEF TypeOK
    <3> QED
      BY <1>4, <3>1, <3>2, <3>3 DEF TypeOK, ReleaseThread
  <2>2. Goto(w, "restore") \/ Goto(w, "cleanup_exit")
    BY <1>4 DEF ReleaseThread
  <2>3. CounterExact' /\ Calls'
    BY <1>4, <1>0, <2>2, PlainMove, TypeFacts DEF TypeOK, ReleaseThread, Goto, InCall, LateLabels, CleanupLabels
  <2> QED
    BY <2>1, <2>3
<1>5. CASE RestoreDirectory(w)
  <2>1. TypeOK'
    BY <1>5, <1>0, TypeFacts DEF TypeOK, RestoreDirectory, Goto, table, locks, Mutex
  <2>2. CounterExact' /\ Calls'
    BY <1>5, <1>0, PlainMove, TypeFacts DEF TypeOK, RestoreDirectory, Goto, InCall, LateLabels, CleanupLabels
  <2> QED
    BY <2>1, <2>2
<1> QED
  BY <1>1, <1>2, <1>3, <1>4, <1>5

LEMMA ScanTypes ==
    ASSUME TypeInv, NEW t \in Threads, ForkScan(t) PROVE TypeInv'
<1> USE DEF TypeInv
<1>1. PICK p \in Slots :
        /\ current_pid' = [current_pid EXCEPT ![t] = p]
        /\ last_allocated_pid' = p
        /\ \/ thread_ids' = [thread_ids EXCEPT ![p] = "inflight"] /\ Goto(t, "fork_getwd")
           \/ UNCHANGED <<thread_ids, pc>>
  <2>1. NeverOverflowed => last_allocated_pid + 1 \in Slots
    BY PidTableAssumption DEF NeverOverflowed, TypeOK, Slots
  <2>2. NextSlot \in Slots
    BY TypeFacts DEF TypeOK
  <2> QED
    BY <2>1, <2>2 DEF ForkScan, Claim
<1>2. thread_ids' \in [Slots -> Threads \cup {"free", "inflight"}]
  BY <1>1 DEF TypeOK
<1>3. pid_overflow' \in BOOLEAN
  BY DEF ForkScan, TypeOK
<1>4. TypeOK'
  <2>1. pc' \in [Threads -> Labels]
    BY <1>1, TypeFacts DEF TypeOK, Goto
  <2>2. current_pid' \in [Threads -> Slots] /\ last_allocated_pid' \in Slots
    BY <1>1 DEF TypeOK
  <2> QED
    BY <1>2, <1>3, <2>1, <2>2 DEF TypeOK, ForkScan, locks
<1>5. Goto(t, "fork_getwd") \/ Goto(t, "fork_scan")
  BY <1>1 DEF Goto, TypeOK, ForkScan
<1>6. CounterExact' /\ Calls'
  BY <1>5, PlainMove, TypeFacts DEF ForkScan, Goto, InCall, LateLabels, CleanupLabels
<1> QED
  BY <1>4, <1>6

LEMMA PushTypes ==
    ASSUME TypeInv, NEW t \in Threads,
           StartFork(t) \/ StartPlain(t) \/ SysSubstitute(t) \/ SeqPart(t)
    PROVE  TypeInv'
<1> USE DEF TypeInv
<1>1. PICK kind \in {"user", "seq", "capture"}, saved \in Slots, l \in {"fork_spin", "sys_lock"} :
        /\ stack' = Push(t, NewFrame(kind, saved)) /\ Goto(t, l)
        /\ kind = "user" <=> stack[t] = <<>>
  BY TypeFacts DEF StartFork, StartPlain, SysSubstitute, SeqPart, TypeOK, Calls, InCall
<1>2. NewFrame(kind, saved) \in Frame /\ NewFrame(kind, saved).kind = kind
  BY TypeFacts DEF NewFrame, Frame
<1>3. /\ stack' \in [Threads -> Seq(Frame)]
      /\ \A u \in Threads : u # t => stack'[u] = stack[u]
      /\ Len(stack[t]) \in Nat /\ Len(stack'[t]) = Len(stack[t]) + 1
      /\ stack'[t] # <<>>
      /\ \A i \in 1 .. Len(stack[t]) : stack'[t][i] = stack[t][i]
      /\ stack'[t][Len(stack[t]) + 1] = NewFrame(kind, saved)
  BY <1>1, <1>2, PushFacts DEF TypeOK
<1>4. pc' \in [Threads -> Labels]
  BY <1>1, TypeFacts DEF Goto, TypeOK
<1>5. ops' \in 0 .. MaxOps
  BY TypeFacts DEF StartFork, StartPlain, SysSubstitute, SeqPart, TypeOK
<1>6. ios_system_mutex' \in Mutex
  BY DEF StartFork, StartPlain, SysSubstitute, SeqPart, TypeOK, locks, Mutex
<1>7. TypeOK'
  BY <1>3, <1>4, <1>5, <1>6
    DEF StartFork, StartPlain, SysSubstitute, SeqPart, TypeOK, table, locks
<1>8. CounterExact'
  <2>1. Cleaning' = Cleaning
    BY <1>1 DEF Cleaning, Goto, TypeOK, CleanupLabels, StartFork, StartPlain,
                SysSubstitute, SeqPart, Threads
  <2> QED
    BY <2>1 DEF CounterExact, StartFork, StartPlain, SysSubstitute, SeqPart
<1>9. Calls'
  <2>1. ASSUME NEW u \in Threads, u # t
        PROVE  /\ stack'[u] # <<>> <=> pc'[u] \in InCall
               /\ \A i \in 1 .. Len(stack'[u]) : stack'[u][i].kind = "user" <=> i = 1
               /\ pc'[u] \in LateLabels => Len(stack'[u]) = 1
    <3>1. pc'[u] = pc[u] /\ stack'[u] = stack[u]
      BY <1>1, <1>3, <2>1 DEF Goto, TypeOK
    <3> QED
      BY <3>1 DEF Calls
  <2>2. /\ stack'[t] # <<>> <=> pc'[t] \in InCall
        /\ pc'[t] \notin LateLabels
    BY <1>1, <1>3 DEF Goto, TypeOK, InCall, LateLabels
  <2>3. ASSUME NEW i \in 1 .. Len(stack'[t])
        PROVE  stack'[t][i].kind = "user" <=> i = 1
    <3>1. CASE i \in 1 .. Len(stack[t])
      BY <1>3, <3>1 DEF Calls
    <3>2. CASE i = Len(stack[t]) + 1
      <4>1. stack[t] = <<>> <=> Len(stack[t]) = 0
        BY EmptySeq DEF TypeOK
      <4> QED
        BY <1>1, <1>2, <1>3, <3>2, <4>1
    <3> QED
      BY <1>3, <3>1, <3>2
  <2> QED
    BY <2>1, <2>2, <2>3 DEF Calls
<1> QED
  BY <1>7, <1>8, <1>9

LEMMA ForkTypes ==
    ASSUME TypeInv, NEW t \in Threads, ForkLock(t) \/ ForkGetwd(t) PROVE TypeInv'
<1> USE DEF TypeInv
<1>1. /\ pc[t] \in InCall /\ stack[t] # <<>> /\ Top(t).prev \in Slots
      /\ current_pid[t] \in Slots
  BY TopType DEF ForkLock, ForkGetwd, InCall, TypeOK
<1>2. /\ stack' \in [Threads -> Seq(Frame)]
      /\ \A u \in Threads : u # t => stack'[u] = stack[u]
      /\ Len(stack[t]) \in Nat \ {0} /\ Len(stack'[t]) = Len(stack[t])
      /\ stack'[t] # <<>>
      /\ \A i \in 1 .. Len(stack[t]) : stack'[t][i].kind = stack[t][i].kind
  BY <1>1, SetPrev, SetPid DEF ForkLock, ForkGetwd, TypeOK
<1>3. Goto(t, "fork_scan") \/ Goto(t, "sys_lock")
  BY DEF ForkLock, ForkGetwd
<1>4. TypeOK'
  <2>1. pc' \in [Threads -> Labels]
    BY <1>3, TypeFacts DEF Goto, TypeOK
  <2>2. CASE ForkLock(t)
    BY <1>2, <2>1, <2>2 DEF ForkLock, TypeOK, table, Mutex
  <2>3. CASE ForkGetwd(t)
    <3>1. previousPid' \in [Slots -> Slots]
      BY <1>1, <2>3 DEF ForkGetwd, TypeOK
    <3>2. previousDirectory' \in [Slots -> Dirs]
      BY <1>1, <2>3 DEF ForkGetwd, TypeOK
    <3> QED
      BY <1>2, <2>1, <2>3, <3>1, <3>2 DEF ForkGetwd, TypeOK, Mutex
  <2> QED
    BY <2>2, <2>3
<1>5. CounterExact'
  <2>1. Cleaning' = Cleaning
    BY <1>1, <1>3 DEF Cleaning, Goto, TypeOK, CleanupLabels, InCall, Threads
  <2> QED
    BY <2>1 DEF CounterExact, ForkLock, ForkGetwd
<1>6. Calls'
  <2>1. ASSUME NEW u \in Threads, u # t
        PROVE  /\ stack'[u] # <<>> <=> pc'[u] \in InCall
               /\ \A i \in 1 .. Len(stack'[u]) : stack'[u][i].kind = "user" <=> i = 1
               /\ pc'[u] \in LateLabels => Len(stack'[u]) = 1
    <3>1. pc'[u] = pc[u] /\ stack'[u] = stack[u]
      BY <1>2, <1>3, <2>1 DEF Goto, TypeOK
    <3> QED
      BY <3>1 DEF Calls
  <2>2. /\ stack'[t] # <<>> <=> pc'[t] \in InCall
        /\ pc'[t] \notin LateLabels
    BY <1>2, <1>3 DEF Goto, TypeOK, InCall, LateLabels
  <2>3. \A i \in 1 .. Len(stack'[t]) : stack'[t][i].kind = "user" <=> i = 1
    BY <1>2 DEF Calls
  <2> QED
    BY <2>1, <2>2, <2>3 DEF Calls
<1> QED
  BY <1>4, <1>5, <1>6

\* A call that returns leaves its frame.
LEMMA PopTypes ==
    ASSUME TypeInv, NEW t \in Threads, pc[t] \in InCall, stack' = Pop(t),
           NEW l \in {"user", "seq", "sys_relock"}, Goto(t, l),
           l = "user" <=> Top(t).kind = "user", cleanup_counter' = cleanup_counter
    PROVE  /\ stack' \in [Threads -> Seq(Frame)] /\ pc' \in [Threads -> Labels]
           /\ CounterExact' /\ Calls'
<1> USE DEF TypeInv
<1>1. stack[t] # <<>> /\ Top(t) = stack[t][Len(stack[t])]
  BY TopType
<1>2. /\ stack' \in [Threads -> Seq(Frame)]
      /\ \A u \in Threads : u # t => stack'[u] = stack[u]
      /\ Len(stack[t]) \in Nat \ {0} /\ Len(stack'[t]) = Len(stack[t]) - 1
      /\ stack'[t] = <<>> <=> Len(stack[t]) = 1
      /\ \A i \in 1 .. Len(stack[t]) - 1 : stack'[t][i] = stack[t][i]
  BY <1>1, PopFacts DEF TypeOK
<1>3. pc' \in [Threads -> Labels]
  BY TypeFacts DEF Goto, TypeOK
<1>4. Cleaning' = Cleaning
  BY DEF Cleaning, Goto, TypeOK, CleanupLabels, InCall, Threads
<1>5. CounterExact'
  BY <1>4 DEF CounterExact
<1>6. Calls'
  <2>1. ASSUME NEW u \in Threads, u # t
        PROVE  /\ stack'[u] # <<>> <=> pc'[u] \in InCall
               /\ \A i \in 1 .. Len(stack'[u]) : stack'[u][i].kind = "user" <=> i = 1
               /\ pc'[u] \in LateLabels => Len(stack'[u]) = 1
    <3>1. pc'[u] = pc[u] /\ stack'[u] = stack[u]
      BY <1>2, <2>1 DEF Goto, TypeOK
    <3> QED
      BY <3>1 DEF Calls
  <2>2. /\ stack'[t] # <<>> <=> pc'[t] \in InCall
        /\ pc'[t] \notin LateLabels
    <3>1. Top(t).kind = "user" <=> Len(stack[t]) = 1
      BY <1>1, <1>2 DEF Calls
    <3>2. pc'[t] = l
      BY DEF Goto, TypeOK
    <3> QED
      BY <1>2, <3>1, <3>2 DEF InCall, LateLabels
  <2>3. \A i \in 1 .. Len(stack'[t]) : stack'[t][i].kind = "user" <=> i = 1
    BY <1>2 DEF Calls
  <2> QED
    BY <2>1, <2>2, <2>3 DEF Calls
<1> QED
  BY <1>2, <1>3, <1>5, <1>6

LEMMA WaitTypes ==
    ASSUME TypeInv, NEW t \in Threads, WaitReturns(t) PROVE TypeInv'
<1> USE DEF TypeInv
<1>1. /\ pc[t] \in InCall /\ Top(t).saved \in Slots
      /\ Top(t).kind \in {"user", "seq", "capture"}
      /\ Len(stack[t]) \in Nat \ {0} /\ Top(t) = stack[t][Len(stack[t])]
  BY TopType DEF WaitReturns, InCall
<1>2. /\ stack' \in [Threads -> Seq(Frame)] /\ pc' \in [Threads -> Labels]
      /\ CounterExact' /\ Calls'
  <2>0. cleanup_counter' = cleanup_counter
    BY DEF WaitReturns
  <2>1. CASE stack' = Pop(t) /\ Goto(t, CASE Top(t).kind = "user"    -> "user"
                                        [] Top(t).kind = "seq"     -> "seq"
                                        [] Top(t).kind = "capture" -> "sys_relock")
    <3>1. PICK l \in {"user", "seq", "sys_relock"} :
            Goto(t, l) /\ (l = "user" <=> Top(t).kind = "user")
      BY <1>1, <2>1
    <3> QED
      BY <1>1, <2>0, <2>1, <3>1, PopTypes
  <2>2. CASE Top(t).kind = "user" /\ Goto(t, "rid_lock") /\ UNCHANGED stack
    <3>1. Len(stack[t]) = 1
      <4>1. Len(stack[t]) \in 1 .. Len(stack[t])
        BY <1>1
      <4>2. stack[t][Len(stack[t])].kind = "user" <=> Len(stack[t]) = 1
        BY <4>1 DEF Calls
      <4> QED
        BY <1>1, <2>2, <4>2
    <3>2. CounterExact' /\ Calls'
      BY <1>1, <2>0, <2>2, <3>1, PlainMove, TypeFacts
        DEF Goto, InCall, LateLabels, CleanupLabels, WaitReturns
    <3> QED
      BY <2>2, <3>2, TypeFacts DEF Goto, TypeOK
  <2> QED
    BY <2>1, <2>2 DEF WaitReturns
<1>3. current_pid' \in [Threads -> Slots]
  BY <1>1 DEF WaitReturns, TypeOK
<1>4. reaped' \subseteq Commands
  BY DEF WaitReturns, TypeOK
<1>5. TypeOK'
  BY <1>2, <1>3, <1>4 DEF WaitReturns, TypeOK, table, locks
<1> QED
  BY <1>2, <1>5

\* The late call of a user: its frame is the only one of the thread.
LEMMA LateTypes ==
    ASSUME TypeInv, NEW t \in Threads, ReleaseIdLock(t) \/ ReleaseIdChdir(t)
    PROVE  TypeInv'
<1> USE DEF TypeInv
<1>1. /\ pc[t] \in InCall /\ pc[t] \in LateLabels /\ Top(t).pid \in Slots
      /\ Top(t) = stack[t][Len(stack[t])] /\ Len(stack[t]) \in Nat \ {0}
  BY TopType DEF ReleaseIdLock, ReleaseIdChdir, InCall, LateLabels
<1>2. Len(stack[t]) = 1 /\ Top(t).kind = "user"
  BY <1>1 DEF Calls
<1>3. /\ stack' \in [Threads -> Seq(Frame)] /\ pc' \in [Threads -> Labels]
      /\ CounterExact' /\ Calls'
  <2>0. cleanup_counter' = cleanup_counter
    BY DEF ReleaseIdLock, ReleaseIdChdir
  <2>1. CASE stack' = Pop(t) /\ Goto(t, "user")
    BY <1>1, <1>2, <2>0, <2>1, PopTypes
  <2>2. CASE Goto(t, "rid_chdir") /\ UNCHANGED stack
    <3>1. CounterExact' /\ Calls'
      BY <1>1, <1>2, <2>0, <2>2, PlainMove, TypeFacts
        DEF Goto, InCall, LateLabels, CleanupLabels
    <3> QED
      BY <2>2, <3>1, TypeFacts DEF Goto, TypeOK
  <2> QED
    BY <2>1, <2>2 DEF ReleaseIdLock, ReleaseIdChdir
<1>4. CASE ReleaseIdLock(t)
  <2>1. pid_mtx' \in Mutex
    BY <1>4 DEF ReleaseIdLock, TypeOK, Mutex
  <2> QED
    BY <1>3, <1>4, <2>1 DEF ReleaseIdLock, TypeOK, table
<1>5. CASE ReleaseIdChdir(t)
  <2>1. previousPid[Top(t).pid] \in Slots /\ previousDirectory[Top(t).pid] \in Dirs
    BY <1>1 DEF TypeOK
  <2>2. current_pid' \in [Threads -> Slots] /\ cwd' \in Dirs /\ pid_mtx' \in Mutex
    BY <1>5, <2>1 DEF ReleaseIdChdir, TypeOK, Mutex
  <2>3. thread_ids' \in [Slots -> Threads \cup {"free", "inflight"}]
    BY <1>1, <1>5 DEF ReleaseIdChdir, TypeOK
  <2> QED
    BY <1>3, <1>5, <2>2, <2>3 DEF ReleaseIdChdir, TypeOK
<1> QED
  BY <1>4, <1>5

LEMMA ThreadTypes ==
    ASSUME TypeInv, NEW t \in Threads, NEW w \in Commands, CreateThread(t, w) \/ Join(t, w)
    PROVE  TypeInv'
<1> USE DEF TypeInv
<1>0. w \in Threads /\ w # t
  BY DEF Threads, CreateThread, Join
<1>1. PICK l \in {"join", "ret"}, m \in {"start", "none"} :
        /\ pc' = [pc EXCEPT ![t] = l, ![w] = m]
        /\ pc[t] \in InCall /\ pc[w] \in {"none", "ended"}
  BY DEF CreateThread, Join, InCall
<1>2. pc' \in [Threads -> Labels]
  BY <1>1, TypeFacts DEF TypeOK
<1>3. job' \in [Commands -> [by : Threads \cup {"nobody"}, fork : Slots, pid : Slots,
                             join : BOOLEAN]]
  <2>1. CASE CreateThread(t, w)
    <3>1. Top(t).pid \in Slots /\ current_pid[t] \in Slots
      BY <1>1, TopType DEF TypeOK
    <3>2. PICK j \in BOOLEAN :
            job' = [job EXCEPT ![w] = [by |-> t, fork |-> Top(t).pid,
                                       pid |-> current_pid[t], join |-> j]]
      BY <2>1 DEF CreateThread
    <3> QED
      BY <3>1, <3>2 DEF TypeOK
  <2>2. CASE Join(t, w)
    BY <2>2 DEF Join, TypeOK
  <2> QED
    BY <2>1, <2>2
<1>4. reaped' \subseteq Commands
  BY DEF CreateThread, Join, TypeOK
<1>5. TypeOK'
  BY <1>2, <1>3, <1>4 DEF TypeOK, CreateThread, Join, table, locks
<1>6. Cleaning' = Cleaning
  BY <1>0, <1>1 DEF TypeOK, Cleaning, CleanupLabels, InCall, Threads
<1>7. CounterExact'
  BY <1>6 DEF CounterExact, CreateThread, Join
<1>8. stack' = stack
  BY DEF CreateThread, Join
<1>9. \A u \in Threads : /\ pc'[u] \in InCall <=> pc[u] \in InCall
                         /\ pc'[u] \in LateLabels => pc[u] \in LateLabels
  BY <1>0, <1>1 DEF TypeOK, InCall, LateLabels
<1>10. Calls'
  BY <1>8, <1>9 DEF Calls
<1> QED
  BY <1>5, <1>7, <1>10

LEMMA CounterTypes ==
    ASSUME TypeInv, NEW w \in Commands, CleanupEnter(w) \/ CleanupExit(w)
    PROVE  TypeInv'
<1> USE DEF TypeInv
<1>0. w \in Threads /\ job[w].join \in BOOLEAN
  BY DEF Threads, TypeOK
<1>1. PICK l \in {"drain_chdir", "ended", "none"} :
        pc' = [pc EXCEPT ![w] = l] /\ pc[w] \notin InCall
  BY <1>0 DEF CleanupEnter, CleanupExit, Goto, InCall
<1>2. CounterExact' /\ cleanup_counter' \in Nat
  <2>1. CASE CleanupEnter(w)
    <3>1. Cleaning' = Cleaning \cup {w} /\ w \notin Cleaning
      BY <1>0, <2>1 DEF CleanupEnter, Cleaning, Goto, CleanupLabels, TypeOK, Threads
    <3>2. IsFiniteSet(Cleaning') /\ Cardinality(Cleaning') = Cardinality(Cleaning) + 1
      BY <3>1, FS_AddElement DEF CounterExact
    <3> QED
      BY <2>1, <3>2 DEF CounterExact, CleanupEnter, TypeOK
  <2>2. CASE CleanupExit(w)
    <3>1. Cleaning' = Cleaning \ {w} /\ w \in Cleaning
      BY <1>0, <2>2 DEF CleanupExit, Cleaning, Goto, CleanupLabels, TypeOK, Threads
    <3>2. IsFiniteSet(Cleaning') /\ Cardinality(Cleaning') = Cardinality(Cleaning) - 1
      BY <3>1, FS_RemoveElement DEF CounterExact
    <3>3. Cardinality(Cleaning') \in Nat
      BY <3>2, FS_CardinalityType
    <3> QED
      BY <2>2, <3>2, <3>3 DEF CounterExact, CleanupExit, TypeOK
  <2> QED
    BY <2>1, <2>2
<1>3. pc' \in [Threads -> Labels]
  BY <1>1, TypeFacts DEF TypeOK
<1>4. TypeOK'
  BY <1>2, <1>3 DEF TypeOK, CleanupEnter, CleanupExit, table, locks
<1>5. stack' = stack
  BY DEF CleanupEnter, CleanupExit
<1>6. \A u \in Threads : /\ pc'[u] \in InCall <=> pc[u] \in InCall
                         /\ pc'[u] \in LateLabels => pc[u] \in LateLabels
  BY <1>0, <1>1 DEF TypeOK, InCall, LateLabels
<1>7. Calls'
  BY <1>5, <1>6 DEF Calls
<1> QED
  BY <1>2, <1>4, <1>7

LEMMA TypeInit == Init => TypeInv
<1> SUFFICES ASSUME Init PROVE TypeInv
  OBVIOUS
<1>1. thread_ids \in [Slots -> Threads \cup {"free", "inflight"}]
      /\ previousPid \in [Slots -> Slots] /\ previousDirectory \in [Slots -> Dirs]
      /\ current_pid \in [Threads -> Slots]
  BY TypeFacts DEF Init
<1>2. pc \in [Threads -> Labels]
  BY TypeFacts DEF Init
<1>3. stack \in [Threads -> Seq(Frame)]
  BY DEF Init
<1>4. job \in [Commands -> [by : Threads \cup {"nobody"}, fork : Slots, pid : Slots,
                            join : BOOLEAN]]
  BY TypeFacts DEF Init, NoJob
<1>5. TypeOK
  <2>1. /\ last_allocated_pid \in Slots /\ pid_overflow \in BOOLEAN
        /\ pid_mtx \in Mutex /\ chdir_mtx \in Mutex /\ ios_system_mutex \in Mutex
        /\ cleanup_counter \in Nat /\ cwd \in Dirs
        /\ reaped \subseteq Commands /\ ops \in 0 .. MaxOps /\ strayed \in BOOLEAN
    BY TypeFacts DEF Init, Mutex
  <2> QED
    BY <1>1, <1>2, <1>3, <1>4, <2>1 DEF TypeOK
<1>6. Cleaning = {}
  BY DEF Init, Cleaning, CleanupLabels, Threads
<1>7. CounterExact
  BY <1>6, FS_EmptySet DEF Init, CounterExact
<1>8. Calls
  BY DEF Init, Calls, InCall, LateLabels
<1> QED
  BY <1>5, <1>7, <1>8 DEF TypeInv

LEMMA TypeStep == TypeInv /\ [Next]_vars => TypeInv'
<1> SUFFICES ASSUME TypeInv, [Next]_vars PROVE TypeInv'
  OBVIOUS
<1>1. ASSUME NEW t \in Threads, Start(t) PROVE TypeInv'
  BY <1>1, PushTypes, LibraryTypes DEF Start
<1>2. ASSUME NEW t \in Threads, Library(t) PROVE TypeInv'
  BY <1>2, LibraryTypes, ScanTypes, PushTypes, ForkTypes, WaitTypes, LateTypes,
     ThreadTypes DEF Library
<1>3. ASSUME NEW w \in Commands, CommandThread(w) PROVE TypeInv'
  BY <1>3, CommandTypes, CounterTypes DEF CommandThread
<1>4. CASE UNCHANGED vars
  BY <1>4 DEF vars, TypeInv, TypeOK, CounterExact, Cleaning, Calls
<1> QED
  BY <1>1, <1>2, <1>3, <1>4 DEF Next, Spin, Finished

-----------------------------------------------------------------------------
(* The claims.                                                             *)

\* A thread that does not move keeps its claims.
LEMMA SameClaims ==
    ASSUME NEW u \in Threads, stack'[u] = stack[u], pc'[u] = pc[u],
           current_pid'[u] = current_pid[u], u \in Commands => job'[u] = job[u]
    PROVE  /\ Claims(u)' = Claims(u)
           /\ \A i \in Claims(u) : ClaimOf(u, i)' = ClaimOf(u, i)
BY DEF Claims, HasClaim, Holds, ClaimOf

\* A step that makes no claim and frees no claimed slot.
LEMMA ClaimsKept ==
    ASSUME ClaimsInFlight, ClaimsDiffer,
           \A u \in Threads : \A i \in Claims(u)' :
             /\ i \in Claims(u) /\ ClaimOf(u, i)' = ClaimOf(u, i)
             /\ thread_ids'[ClaimOf(u, i)] = "inflight"
    PROVE  ClaimsInFlight' /\ ClaimsDiffer'
<1>1. ClaimsInFlight'
  BY DEF ClaimsInFlight
<1>2. ClaimsDiffer'
  BY DEF ClaimsDiffer
<1> QED
  BY <1>1, <1>2

\* The innermost call has the slot it forked in flight, and nobody else claims it.
LEMMA TopClaim ==
    ASSUME TypeInv, SlotInv, NEW t \in Threads, pc[t] \in HoldLabels, Top(t).pid # 0
    PROVE  /\ Len(stack[t]) \in Nat \ {0} /\ Len(stack[t]) \in Claims(t)
           /\ ClaimOf(t, Len(stack[t])) = Top(t).pid
           /\ Top(t).pid \in Slots /\ current_pid[t] = Top(t).pid
           /\ thread_ids[Top(t).pid] = "inflight"
<1>1. Len(stack[t]) \in Nat \ {0} /\ Top(t).pid \in Slots
  BY TopType DEF HoldLabels, InCall
<1>2. Len(stack[t]) \in Claims(t)
  BY <1>1 DEF Claims, HasClaim, Holds, Top
<1>3. ClaimOf(t, Len(stack[t])) = Top(t).pid
  BY <1>1 DEF ClaimOf, Top
<1>4. current_pid[t] = Top(t).pid
  BY DEF SlotInv, CurrentIsTop
<1>5. thread_ids[Top(t).pid] = "inflight"
  BY <1>2, <1>3 DEF SlotInv, ClaimsInFlight
<1> QED
  BY <1>1, <1>2, <1>3, <1>4, <1>5

\* Steps that only move threads on.
LEMMA MoveSlots ==
    ASSUME TypeInv, SlotInv, stack' = stack, thread_ids' = thread_ids,
           current_pid' = current_pid, job' = job,
           \A u \in Threads : pc'[u] = pc[u] \/
             /\ pc'[u] \in HoldLabels => pc[u] \in HoldLabels
             /\ pc'[u] \notin {"fork_getwd", "start"}
             /\ pc'[u] \in BeforeRelease /\ u \in Commands =>
                  pc[u] \in BeforeRelease \ {"start"}
    PROVE  SlotInv'
<1>1. ASSUME NEW u \in Threads, NEW i \in Claims(u)'
      PROVE  i \in Claims(u) /\ ClaimOf(u, i)' = ClaimOf(u, i)
  <2>1. CASE pc'[u] = pc[u]
    BY <2>1, SameClaims
  <2>2. CASE pc'[u] # pc[u]
    <3>1. i # 0
      BY <2>2 DEF Claims, HasClaim
    <3> QED
      BY <2>2, <3>1 DEF Claims, HasClaim, Holds, ClaimOf
  <2> QED
    BY <2>1, <2>2
<1>2. ClaimsInFlight' /\ ClaimsDiffer'
  BY <1>1, ClaimsKept DEF SlotInv, ClaimsInFlight
<1>3. CurrentIsTop'
  BY DEF SlotInv, CurrentIsTop, Top
<1>4. WorkersHold'
  BY DEF SlotInv, WorkersHold, Threads
<1> QED
  BY <1>2, <1>3, <1>4 DEF SlotInv

\* ios_storeThreadId(0): the innermost call gives its slot back.
LEMMA GiveBackSlots ==
    ASSUME TypeInv, SlotInv, NEW t \in Threads, pc[t] \in HoldLabels, Top(t).pid # 0,
           NEW l \in {"ret", "seq"}, Goto(t, l), stack' = stack, job' = job,
           thread_ids' = [thread_ids EXCEPT ![Top(t).pid] = "free"],
           \A u \in Threads : u # t => current_pid'[u] = current_pid[u]
    PROVE  SlotInv'
<1> DEFINE n == Len(stack[t])
<1>1. /\ n \in Nat \ {0} /\ n \in Claims(t) /\ ClaimOf(t, n) = Top(t).pid
      /\ Top(t).pid \in Slots /\ thread_ids[Top(t).pid] = "inflight"
  BY TopClaim
<1>2. pc'[t] = l /\ \A u \in Threads : u # t => pc'[u] = pc[u]
  BY DEF Goto, TypeInv, TypeOK
<1>3. ASSUME NEW u \in Threads, NEW i \in Claims(u)'
      PROVE  /\ i \in Claims(u) /\ ClaimOf(u, i)' = ClaimOf(u, i)
             /\ u = t => i # n
  <2>1. CASE u # t
    BY <1>2, <2>1, SameClaims
  <2>2. CASE u = t
    <3>1. i # 0 /\ i # n
      BY <1>1, <1>2, <2>2 DEF Claims, HasClaim, Holds, HoldLabels
    <3>2. i \in Claims(t)
      BY <1>2, <2>2, <3>1 DEF Claims, HasClaim, Holds
    <3>3. ClaimOf(t, i)' = ClaimOf(t, i)
      BY <3>1 DEF ClaimOf
    <3> QED
      BY <2>2, <3>1, <3>2, <3>3
  <2> QED
    BY <2>1, <2>2
<1>4. ASSUME NEW u \in Threads, NEW i \in Claims(u)'
      PROVE  thread_ids'[ClaimOf(u, i)] = "inflight"
  <2>1. ClaimOf(u, i) # Top(t).pid
    BY <1>1, <1>3 DEF SlotInv, ClaimsDiffer
  <2>2. thread_ids[ClaimOf(u, i)] = "inflight"
    BY <1>3 DEF SlotInv, ClaimsInFlight
  <2> QED
    BY <2>1, <2>2 DEF TypeInv, TypeOK
<1>5. ClaimsInFlight' /\ ClaimsDiffer'
  BY <1>3, <1>4, ClaimsKept DEF SlotInv
<1>6. CurrentIsTop'
  BY <1>2 DEF SlotInv, CurrentIsTop, Top, HoldLabels
<1>7. WorkersHold'
  <2> SUFFICES ASSUME NEW w \in Commands, pc'[w] \in BeforeRelease, job'[w].fork # 0
               PROVE  /\ job'[w].pid = job'[w].fork
                      /\ pc'[w] # "start" => thread_ids'[job'[w].fork] = w
    BY DEF WorkersHold
  <2>1. w \in Threads
    BY DEF Threads
  <2>2. pc[w] \in BeforeRelease /\ (pc'[w] # "start" => pc[w] # "start")
    BY <1>2, <2>1 DEF BeforeRelease, HoldLabels
  <2>3. job[w].pid = job[w].fork /\ (pc[w] # "start" => thread_ids[job[w].fork] = w)
    BY <2>2 DEF SlotInv, WorkersHold
  <2>4. w # "inflight"
    BY <2>1, PidTableAssumption
  <2> QED
    BY <1>1, <2>2, <2>3, <2>4 DEF TypeInv, TypeOK
<1> QED
  BY <1>5, <1>6, <1>7 DEF SlotInv

\* The calls that push a frame: a capture keeps the slot of the frame below.
LEMMA PushSlots ==
    ASSUME TypeInv, SlotInv, NEW t \in Threads,
           StartFork(t) \/ StartPlain(t) \/ SysSubstitute(t) \/ SeqPart(t)
    PROVE  SlotInv'
<1> DEFINE n == Len(stack[t])
<1>1. PICK kind \in {"user", "seq", "capture"}, saved \in Slots,
           l \in {"fork_spin", "sys_lock"} :
        /\ stack' = Push(t, NewFrame(kind, saved)) /\ Goto(t, l)
        /\ kind = "capture" => pc[t] = "sys" /\ saved = current_pid[t]
        /\ pc[t] \in HoldLabels => kind = "capture"
        /\ pc[t] \notin {"start", "fork_getwd"}
        /\ pc[t] \in BeforeRelease
  BY TypeFacts DEF StartFork, StartPlain, SysSubstitute, SeqPart, TypeInv, TypeOK,
                   HoldLabels, BeforeRelease
<1>2. NewFrame(kind, saved) \in Frame /\ NewFrame(kind, saved).kind = kind
      /\ NewFrame(kind, saved).saved = saved /\ NewFrame(kind, saved).pid = 0
  BY TypeFacts DEF NewFrame, Frame
<1>3. /\ \A u \in Threads : u # t => stack'[u] = stack[u]
      /\ n \in Nat /\ Len(stack'[t]) = n + 1
      /\ \A i \in 1 .. n : stack'[t][i] = stack[t][i]
      /\ stack'[t][n + 1] = NewFrame(kind, saved)
  BY <1>1, <1>2, PushFacts DEF TypeInv, TypeOK
<1>4. pc'[t] = l /\ \A u \in Threads : u # t => pc'[u] = pc[u]
  BY <1>1 DEF Goto, TypeInv, TypeOK
<1>5. thread_ids' = thread_ids /\ current_pid' = current_pid /\ job' = job
  BY DEF StartFork, StartPlain, SysSubstitute, SeqPart, table
<1> HIDE DEF n
<1>6. ASSUME NEW u \in Threads, NEW i \in Claims(u)'
      PROVE  i \in Claims(u) /\ ClaimOf(u, i)' = ClaimOf(u, i)
  <2>1. CASE u # t
    BY <1>3, <1>4, <1>5, <2>1, SameClaims
  <2>2. CASE u = t
    <3>1. i \in 0 .. n + 1 /\ HasClaim(t, i)'
      BY <1>3, <2>2 DEF Claims
    <3>2. i # 0
      BY <1>4, <3>1 DEF HasClaim
    <3>3. i # n + 1
      BY <1>2, <1>3, <3>1, <3>2 DEF HasClaim, Holds
    <3>4. i \in 1 .. n
      BY <1>3, <3>1, <3>2, <3>3
    <3>4a. stack[t][i].pid # 0
      BY <1>3, <3>1, <3>4 DEF HasClaim, Holds
    <3>5. Holds(t, i)
      <4>1. CASE i < n
        BY <1>3, <3>1, <3>4, <3>4a, <4>1 DEF HasClaim, Holds, n
      <4>2. CASE i = n
        <5>1. kind = "capture"
          BY <1>2, <1>3, <3>1, <3>4, <4>2 DEF HasClaim, Holds
        <5> QED
          BY <1>1, <3>4a, <4>2, <5>1 DEF Holds, HoldLabels, n
      <4> QED
        BY <1>3, <3>4, <4>1, <4>2
    <3>6. i \in Claims(t)
      BY <1>3, <3>4, <3>5 DEF Claims, HasClaim, n
    <3>7. ClaimOf(t, i)' = ClaimOf(t, i)
      BY <1>3, <3>4 DEF ClaimOf
    <3> QED
      BY <2>2, <3>6, <3>7
  <2> QED
    BY <2>1, <2>2
<1>7. ClaimsInFlight' /\ ClaimsDiffer'
  BY <1>5, <1>6, ClaimsKept DEF SlotInv, ClaimsInFlight
<1>8. CurrentIsTop'
  <2>1. ASSUME NEW u \in Threads, u # t
        PROVE  /\ pc'[u] \in HoldLabels /\ Top(u)'.pid # 0 => current_pid'[u] = Top(u)'.pid
               /\ \A i \in 1 .. Len(stack'[u]) - 1 :
                    stack'[u][i + 1].kind = "capture" /\ stack'[u][i].pid # 0 =>
                      stack'[u][i + 1].saved = stack'[u][i].pid
    BY <1>3, <1>4, <1>5, <2>1 DEF SlotInv, CurrentIsTop, Top
  <2>2. Top(t)'.pid = 0
    BY <1>2, <1>3 DEF Top
  <2>3. ASSUME NEW i \in 1 .. Len(stack'[t]) - 1, stack'[t][i + 1].kind = "capture",
               stack'[t][i].pid # 0
        PROVE  stack'[t][i + 1].saved = stack'[t][i].pid
    <3>1. i \in 1 .. n
      BY <1>3
    <3>2. CASE i < n
      <4>1. i \in 1 .. n - 1 /\ i + 1 \in 1 .. n
        BY <1>3, <3>1, <3>2
      <4>2. stack[t][i + 1].kind = "capture" /\ stack[t][i].pid # 0 =>
            stack[t][i + 1].saved = stack[t][i].pid
        BY <4>1 DEF SlotInv, CurrentIsTop, n
      <4> QED
        BY <1>3, <2>3, <3>1, <4>1, <4>2
    <3>3. CASE i = n
      <4>1. kind = "capture"
        BY <1>2, <1>3, <2>3, <3>3
      <4>2. current_pid[t] = stack[t][n].pid
        <5>1. Top(t).pid # 0
          BY <1>3, <2>3, <3>1, <3>3 DEF Top, n
        <5> QED
          BY <1>1, <4>1, <5>1, TopClaim DEF HoldLabels, Top, n
      <4> QED
        BY <1>1, <1>2, <1>3, <3>1, <3>3, <4>1, <4>2
    <3> QED
      BY <1>3, <3>1, <3>2, <3>3
  <2> QED
    BY <2>1, <2>2, <2>3 DEF CurrentIsTop
<1>9. WorkersHold'
  BY <1>1, <1>4, <1>5 DEF SlotInv, WorkersHold, Threads, BeforeRelease
<1> QED
  BY <1>7, <1>8, <1>9 DEF SlotInv

\* A wait that returns: a capture's caller has its slot as current_pid again.
LEMMA PopSlots ==
    ASSUME TypeInv, SlotInv, NEW t \in Threads, pc[t] \in {"ret", "rid_lock"},
           stack' = Pop(t), NEW l \in {"user", "seq", "sys_relock"}, Goto(t, l),
           l = "sys_relock" <=> Top(t).kind = "capture",
           thread_ids' = thread_ids, job' = job,
           current_pid' = IF Top(t).kind = "capture"
                          THEN [current_pid EXCEPT ![t] = Top(t).saved]
                          ELSE current_pid
    PROVE  SlotInv'
<1> DEFINE n == Len(stack[t])
<1>1. /\ stack[t] # <<>> /\ Top(t) = stack[t][n]
      /\ Top(t).kind \in {"user", "seq", "capture"}
  BY TopType DEF InCall
<1>2. /\ \A u \in Threads : u # t => stack'[u] = stack[u]
      /\ n \in Nat \ {0} /\ Len(stack'[t]) = n - 1
      /\ \A i \in 1 .. n - 1 : stack'[t][i] = stack[t][i]
  BY <1>1, PopFacts DEF TypeInv, TypeOK
<1>3. /\ pc'[t] \in {"user", "seq", "sys_relock"}
      /\ pc'[t] = "sys_relock" <=> Top(t).kind = "capture"
      /\ \A u \in Threads : u # t => pc'[u] = pc[u]
  BY <1>1 DEF Goto, TypeInv, TypeOK
<1>4. thread_ids' = thread_ids /\ job' = job
  OBVIOUS
<1>5. /\ \A u \in Threads : u # t => current_pid'[u] = current_pid[u]
      /\ Top(t).kind = "capture" => current_pid'[t] = Top(t).saved
  BY DEF TypeInv, TypeOK
<1>6. n = 1 => Top(t).kind = "user"
  BY <1>1, <1>2 DEF TypeInv, Calls
<1> HIDE DEF n
<1>7. ASSUME NEW u \in Threads, NEW i \in Claims(u)'
      PROVE  i \in Claims(u) /\ ClaimOf(u, i)' = ClaimOf(u, i)
  <2>1. CASE u # t
    BY <1>2, <1>3, <1>4, <1>5, <2>1, SameClaims
  <2>2. CASE u = t
    <3>1. i \in 0 .. n - 1 /\ HasClaim(t, i)'
      BY <1>2, <2>2 DEF Claims
    <3>2. i # 0
      BY <1>3, <3>1 DEF HasClaim
    <3>3. i \in 1 .. n - 1
      BY <1>2, <3>1, <3>2
    <3>4. Holds(t, i)' /\ stack[t][i].pid # 0
      BY <1>2, <3>1, <3>2, <3>3 DEF HasClaim, Holds
    <3>5. Holds(t, i)
      <4>1. CASE i < n - 1
        <5>1. stack'[t][i + 1].kind = "capture"
          BY <1>2, <3>3, <3>4, <4>1 DEF Holds
        <5>2. stack[t][i + 1].kind = "capture"
          BY <1>2, <3>3, <4>1, <5>1
        <5> QED
          BY <1>2, <3>3, <3>4, <5>2 DEF Holds, n
      <4>2. CASE i = n - 1
        <5>1. pc'[t] \in HoldLabels
          BY <1>2, <3>4, <4>2 DEF Holds
        <5>2. Top(t).kind = "capture"
          BY <1>3, <5>1 DEF HoldLabels
        <5> QED
          BY <1>1, <1>2, <3>4, <4>2, <5>2 DEF Holds, n
      <4> QED
        BY <1>2, <3>3, <4>1, <4>2
    <3>6. i \in Claims(t)
      BY <1>2, <3>3, <3>5 DEF Claims, HasClaim, n
    <3>7. ClaimOf(t, i)' = ClaimOf(t, i)
      BY <1>2, <3>3 DEF ClaimOf
    <3> QED
      BY <2>2, <3>6, <3>7
  <2> QED
    BY <2>1, <2>2
<1>8. ClaimsInFlight' /\ ClaimsDiffer'
  BY <1>4, <1>7, ClaimsKept DEF SlotInv, ClaimsInFlight
<1>9. CurrentIsTop'
  <2>1. ASSUME NEW u \in Threads, u # t
        PROVE  /\ pc'[u] \in HoldLabels /\ Top(u)'.pid # 0 => current_pid'[u] = Top(u)'.pid
               /\ \A i \in 1 .. Len(stack'[u]) - 1 :
                    stack'[u][i + 1].kind = "capture" /\ stack'[u][i].pid # 0 =>
                      stack'[u][i + 1].saved = stack'[u][i].pid
    <3>1. stack'[u] = stack[u] /\ pc'[u] = pc[u] /\ current_pid'[u] = current_pid[u]
      BY <1>2, <1>3, <1>5, <2>1
    <3> QED
      BY <3>1 DEF SlotInv, CurrentIsTop, Top
  <2>2. ASSUME pc'[t] \in HoldLabels, Top(t)'.pid # 0 PROVE current_pid'[t] = Top(t)'.pid
    <3>1. Top(t).kind = "capture"
      BY <1>3, <2>2 DEF HoldLabels
    <3>2. n - 1 \in 1 .. n - 1 /\ n - 1 + 1 = n
      BY <1>2, <1>6, <3>1
    <3>3. stack[t][n - 1].pid # 0
      BY <1>2, <2>2, <3>2 DEF Top
    <3>4. stack[t][n].saved = stack[t][n - 1].pid
      BY <1>1, <3>1, <3>2, <3>3 DEF SlotInv, CurrentIsTop, n
    <3> QED
      BY <1>1, <1>2, <1>5, <3>1, <3>2, <3>4 DEF Top
  <2>3. ASSUME NEW i \in 1 .. Len(stack'[t]) - 1, stack'[t][i + 1].kind = "capture",
               stack'[t][i].pid # 0
        PROVE  stack'[t][i + 1].saved = stack'[t][i].pid
    <3>1. i \in 1 .. n - 1 /\ i + 1 \in 1 .. n - 1
      BY <1>2
    <3> QED
      BY <1>2, <2>3, <3>1 DEF SlotInv, CurrentIsTop, n
  <2> QED
    BY <2>1, <2>2, <2>3 DEF CurrentIsTop
<1>10. WorkersHold'
  BY <1>3, <1>4 DEF SlotInv, WorkersHold, Threads, BeforeRelease
<1> QED
  BY <1>8, <1>9, <1>10 DEF SlotInv

LEMMA WaitSlots ==
    ASSUME TypeInv, SlotInv, NEW t \in Threads, WaitReturns(t) PROVE SlotInv'
<1>0. Top(t).kind \in {"user", "seq", "capture"} /\ pc[t] = "ret"
  BY TopType DEF WaitReturns, InCall
<1>1. /\ thread_ids' = thread_ids /\ job' = job
      /\ current_pid' = IF Top(t).kind = "capture"
                        THEN [current_pid EXCEPT ![t] = Top(t).saved]
                        ELSE current_pid
  BY DEF WaitReturns, table
<1>2. CASE stack' = Pop(t) /\ Goto(t, CASE Top(t).kind = "user"    -> "user"
                                      [] Top(t).kind = "seq"     -> "seq"
                                      [] Top(t).kind = "capture" -> "sys_relock")
  <2>1. PICK l \in {"user", "seq", "sys_relock"} :
          Goto(t, l) /\ (l = "sys_relock" <=> Top(t).kind = "capture")
    BY <1>0, <1>2
  <2> QED
    BY <1>0, <1>1, <1>2, <2>1, PopSlots
<1>3. CASE Top(t).kind = "user" /\ Goto(t, "rid_lock") /\ UNCHANGED stack
  <2>1. current_pid' = current_pid
    BY <1>1, <1>3
  <2> QED
    BY <1>0, <1>1, <1>3, <2>1, MoveSlots
      DEF Goto, TypeInv, TypeOK, HoldLabels, BeforeRelease
<1> QED
  BY <1>2, <1>3 DEF WaitReturns

\* The late call: what it does to a slot in use strays, otherwise it does nothing.
LEMMA LateSlots ==
    ASSUME TypeInv, SlotInv, NEW t \in Threads, ReleaseIdLock(t) PROVE SlotInv'
<1>1. /\ pc[t] = "rid_lock" /\ Len(stack[t]) = 1 /\ Top(t) = stack[t][Len(stack[t])]
      /\ Len(stack[t]) \in Nat \ {0}
  BY TopType DEF ReleaseIdLock, InCall, LateLabels, TypeInv, Calls
<1>2. Top(t).kind = "user"
  BY <1>1 DEF TypeInv, Calls
<1>3. thread_ids' = thread_ids /\ job' = job /\ current_pid' = current_pid
  BY DEF ReleaseIdLock, table
<1>4. CASE stack' = Pop(t) /\ Goto(t, "user")
  BY <1>1, <1>2, <1>3, <1>4, PopSlots
<1>5. CASE Goto(t, "rid_chdir") /\ UNCHANGED stack
  BY <1>1, <1>3, <1>5, MoveSlots DEF Goto, TypeInv, TypeOK, HoldLabels, BeforeRelease
<1> QED
  BY <1>4, <1>5 DEF ReleaseIdLock

LEMMA ForkLockSlots ==
    ASSUME TypeInv, SlotInv, NEW t \in Threads, ForkLock(t) PROVE SlotInv'
<1>1. /\ stack[t] # <<>> /\ current_pid[t] \in Slots
  BY TopType DEF ForkLock, InCall, TypeInv, TypeOK
<1>2. /\ \A u \in Threads : u # t => stack'[u] = stack[u]
      /\ Len(stack[t]) \in Nat \ {0} /\ Len(stack'[t]) = Len(stack[t])
      /\ \A i \in 1 .. Len(stack[t]) :
           /\ stack'[t][i].kind = stack[t][i].kind
           /\ stack'[t][i].saved = stack[t][i].saved
           /\ stack'[t][i].pid = stack[t][i].pid
  BY <1>1, SetPrev DEF ForkLock, TypeInv, TypeOK
<1>3. /\ pc[t] = "fork_lock" /\ pc'[t] = "fork_scan"
      /\ \A u \in Threads : u # t => pc'[u] = pc[u]
  BY DEF ForkLock, Goto, TypeInv, TypeOK
<1>4. thread_ids' = thread_ids /\ current_pid' = current_pid /\ job' = job
  BY DEF ForkLock, table
<1>5. ASSUME NEW u \in Threads, NEW i \in Claims(u)'
      PROVE  i \in Claims(u) /\ ClaimOf(u, i)' = ClaimOf(u, i)
  <2>1. CASE u # t
    BY <1>2, <1>3, <1>4, <2>1, SameClaims
  <2>2. CASE u = t
    <3>1. i \in 0 .. Len(stack[t]) /\ HasClaim(t, i)'
      BY <1>2, <2>2 DEF Claims
    <3>2. i # 0 /\ i # Len(stack[t])
      BY <1>2, <1>3, <3>1 DEF HasClaim, Holds, HoldLabels
    <3>3. i \in 1 .. Len(stack[t]) - 1 /\ i + 1 \in 1 .. Len(stack[t])
      BY <1>2, <3>1, <3>2
    <3>4. HasClaim(t, i)
      BY <1>2, <3>1, <3>3 DEF HasClaim, Holds
    <3>5. ClaimOf(t, i)' = ClaimOf(t, i)
      BY <1>2, <3>3 DEF ClaimOf
    <3> QED
      BY <2>2, <3>1, <3>4, <3>5 DEF Claims
  <2> QED
    BY <2>1, <2>2
<1>6. ClaimsInFlight' /\ ClaimsDiffer'
  BY <1>4, <1>5, ClaimsKept DEF SlotInv, ClaimsInFlight
<1>7. CurrentIsTop'
  <2>1. ASSUME NEW u \in Threads, u # t
        PROVE  /\ pc'[u] \in HoldLabels /\ Top(u)'.pid # 0 => current_pid'[u] = Top(u)'.pid
               /\ \A i \in 1 .. Len(stack'[u]) - 1 :
                    stack'[u][i + 1].kind = "capture" /\ stack'[u][i].pid # 0 =>
                      stack'[u][i + 1].saved = stack'[u][i].pid
    BY <1>2, <1>3, <1>4, <2>1 DEF SlotInv, CurrentIsTop, Top
  <2>2. pc'[t] \notin HoldLabels
    BY <1>3 DEF HoldLabels
  <2>3. ASSUME NEW i \in 1 .. Len(stack'[t]) - 1, stack'[t][i + 1].kind = "capture",
               stack'[t][i].pid # 0
        PROVE  stack'[t][i + 1].saved = stack'[t][i].pid
    <3>1. i \in 1 .. Len(stack[t]) - 1 /\ i \in 1 .. Len(stack[t])
          /\ i + 1 \in 1 .. Len(stack[t])
      BY <1>2
    <3>2. stack[t][i + 1].kind = "capture" /\ stack[t][i].pid # 0 =>
            stack[t][i + 1].saved = stack[t][i].pid
      BY <3>1 DEF SlotInv, CurrentIsTop
    <3> QED
      BY <1>2, <2>3, <3>1, <3>2
  <2> QED
    BY <2>1, <2>2, <2>3 DEF CurrentIsTop
<1>8. WorkersHold'
  BY <1>3, <1>4 DEF SlotInv, WorkersHold, Threads, BeforeRelease
<1> QED
  BY <1>6, <1>7, <1>8 DEF SlotInv

\* ios_nextAvailablePid: the slot it takes was free, hence nobody's.
LEMMA ForkScanSlots ==
    ASSUME TypeInv, SlotInv, NEW t \in Threads, ForkScan(t) PROVE SlotInv'
<1>1. PICK p \in Slots :
        /\ current_pid' = [current_pid EXCEPT ![t] = p]
        /\ \/ /\ thread_ids[p] = "free"
              /\ thread_ids' = [thread_ids EXCEPT ![p] = "inflight"]
              /\ Goto(t, "fork_getwd")
           \/ UNCHANGED <<thread_ids, pc>>
  <2>1. NeverOverflowed => last_allocated_pid + 1 \in Slots
    BY PidTableAssumption DEF NeverOverflowed, TypeInv, TypeOK, Slots
  <2>2. NextSlot \in Slots
    BY TypeFacts DEF TypeInv, TypeOK
  <2> QED
    BY <2>1, <2>2 DEF ForkScan, Claim, NeverOverflowed
<1>2. /\ stack' = stack /\ job' = job /\ pc[t] = "fork_scan"
      /\ \A u \in Threads : u # t => current_pid'[u] = current_pid[u] /\ pc'[u] = pc[u]
      /\ current_pid'[t] = p
  BY <1>1 DEF ForkScan, Goto, TypeInv, TypeOK
<1>3. pc'[t] \in {"fork_scan", "fork_getwd"}
  BY <1>1, <1>2 DEF Goto, TypeInv, TypeOK
<1>4. ASSUME NEW u \in Threads, NEW i \in Claims(u)', u # t \/ i # 0
      PROVE  i \in Claims(u) /\ ClaimOf(u, i)' = ClaimOf(u, i)
  <2>1. CASE u # t
    BY <1>2, <2>1, SameClaims
  <2>2. CASE u = t
    <3>1. i # 0
      BY <1>4, <2>2
    <3>2. HasClaim(t, i)
      BY <1>2, <1>3, <2>2, <3>1 DEF Claims, HasClaim, Holds, HoldLabels
    <3>3. ClaimOf(t, i)' = ClaimOf(t, i)
      BY <1>2, <3>1 DEF ClaimOf
    <3> QED
      BY <1>2, <2>2, <3>2, <3>3 DEF Claims
  <2> QED
    BY <2>1, <2>2
<1>5. CASE UNCHANGED <<thread_ids, pc>>
  <2>1. 0 \notin Claims(t)'
    BY <1>2, <1>5 DEF Claims, HasClaim
  <2>2. ClaimsInFlight' /\ ClaimsDiffer'
    BY <1>4, <1>5, <2>1, ClaimsKept DEF SlotInv, ClaimsInFlight
  <2>3. CurrentIsTop'
    BY <1>2, <1>5 DEF SlotInv, CurrentIsTop, Top, HoldLabels
  <2>4. WorkersHold'
    BY <1>2, <1>5 DEF SlotInv, WorkersHold
  <2> QED
    BY <2>2, <2>3, <2>4 DEF SlotInv
<1>6. CASE /\ thread_ids[p] = "free"
           /\ thread_ids' = [thread_ids EXCEPT ![p] = "inflight"]
           /\ Goto(t, "fork_getwd")
  <2>1. pc'[t] = "fork_getwd"
    BY <1>6 DEF Goto, TypeInv, TypeOK
  <2>2. ASSUME NEW u \in Threads, NEW i \in Claims(u)', u # t \/ i # 0
        PROVE  /\ i \in Claims(u) /\ ClaimOf(u, i)' = ClaimOf(u, i)
               /\ ClaimOf(u, i) # p /\ thread_ids'[ClaimOf(u, i)] = "inflight"
    <3>1. i \in Claims(u) /\ ClaimOf(u, i)' = ClaimOf(u, i)
      BY <1>4, <2>2
    <3>2. thread_ids[ClaimOf(u, i)] = "inflight"
      BY <3>1 DEF SlotInv, ClaimsInFlight
    <3> QED
      BY <1>6, <3>1, <3>2 DEF TypeInv, TypeOK
  <2>3. ClaimOf(t, 0)' = p
    BY <1>2, <2>1 DEF ClaimOf
  <2>4. thread_ids'[p] = "inflight"
    BY <1>6 DEF TypeInv, TypeOK
  <2>5. ClaimsInFlight'
    <3> SUFFICES ASSUME NEW u \in Threads, NEW i \in Claims(u)'
                 PROVE  thread_ids'[ClaimOf(u, i)'] = "inflight"
      BY DEF ClaimsInFlight
    <3>1. CASE u = t /\ i = 0
      BY <2>3, <2>4, <3>1
    <3>2. CASE u # t \/ i # 0
      BY <2>2, <3>2
    <3> QED
      BY <3>1, <3>2
  <2>6. ClaimsDiffer'
    <3> SUFFICES ASSUME NEW u \in Threads, NEW v \in Threads,
                        NEW i \in Claims(u)', NEW j \in Claims(v)',
                        ClaimOf(u, i)' = ClaimOf(v, j)'
                 PROVE  u = v /\ i = j
      BY DEF ClaimsDiffer
    <3>1. CASE u = t /\ i = 0
      BY <2>2, <2>3, <3>1
    <3>2. CASE v = t /\ j = 0
      BY <2>2, <2>3, <3>2
    <3>3. CASE (u # t \/ i # 0) /\ (v # t \/ j # 0)
      BY <2>2, <3>3 DEF SlotInv, ClaimsDiffer
    <3> QED
      BY <3>1, <3>2, <3>3
  <2>7. CurrentIsTop'
    BY <1>2, <2>1 DEF SlotInv, CurrentIsTop, Top, HoldLabels
  <2>8. WorkersHold'
    <3> SUFFICES ASSUME NEW w \in Commands, pc'[w] \in BeforeRelease, job'[w].fork # 0
                 PROVE  /\ job'[w].pid = job'[w].fork
                        /\ pc'[w] # "start" => thread_ids'[job'[w].fork] = w
      BY DEF WorkersHold
    <3>1. w \in Threads /\ w # "free"
      BY PidTableAssumption DEF Threads
    <3>2. pc[w] \in BeforeRelease /\ (pc'[w] # "start" => pc[w] # "start")
      BY <1>2, <1>3, <3>1 DEF BeforeRelease
    <3>3. job[w].pid = job[w].fork /\ (pc[w] # "start" => thread_ids[job[w].fork] = w)
      BY <1>2, <3>2 DEF SlotInv, WorkersHold
    <3> QED
      BY <1>2, <1>6, <3>1, <3>2, <3>3 DEF TypeInv, TypeOK
  <2> QED
    BY <2>5, <2>6, <2>7, <2>8 DEF SlotInv
<1> QED
  BY <1>1, <1>5, <1>6

\* A claim that passes to another frame or thread.
LEMMA ClaimHandedOn ==
    ASSUME ClaimsInFlight, ClaimsDiffer, thread_ids' = thread_ids,
           NEW t \in Threads, NEW v \in Threads, NEW m \in Claims(t), NEW k,
           ClaimOf(v, k)' = ClaimOf(t, m),
           \A u \in Threads : \A i \in Claims(u)' :
             \/ u = v /\ i = k
             \/ /\ i \in Claims(u) /\ ClaimOf(u, i)' = ClaimOf(u, i)
                /\ ~(u = t /\ i = m)
    PROVE  ClaimsInFlight' /\ ClaimsDiffer'
<1>1. ASSUME NEW u \in Threads, NEW i \in Claims(u)', ~(u = v /\ i = k)
      PROVE  /\ i \in Claims(u) /\ ClaimOf(u, i)' = ClaimOf(u, i)
             /\ ClaimOf(u, i) # ClaimOf(t, m)
  BY <1>1 DEF ClaimsDiffer
<1>2. ClaimsInFlight'
  BY <1>1 DEF ClaimsInFlight
<1>3. ClaimsDiffer'
  <2> SUFFICES ASSUME NEW u \in Threads, NEW x \in Threads,
                      NEW i \in Claims(u)', NEW j \in Claims(x)',
                      ClaimOf(u, i)' = ClaimOf(x, j)'
               PROVE  u = x /\ i = j
    BY DEF ClaimsDiffer
  <2>1. CASE u = v /\ i = k
    BY <1>1, <2>1
  <2>2. CASE x = v /\ j = k
    BY <1>1, <2>2
  <2>3. CASE ~(u = v /\ i = k) /\ ~(x = v /\ j = k)
    BY <1>1, <2>3 DEF ClaimsDiffer
  <2> QED
    BY <2>1, <2>2, <2>3
<1> QED
  BY <1>2, <1>3

\* The end of ios_fork: the claim passes to the frame.
LEMMA ForkGetwdSlots ==
    ASSUME TypeInv, SlotInv, NEW t \in Threads, ForkGetwd(t) PROVE SlotInv'
<1>0. PICK n \in Nat \ {0} : n = Len(stack[t])
  BY TopType DEF ForkGetwd, InCall
<1>1. stack[t] # <<>> /\ current_pid[t] \in Slots
  BY TopType DEF ForkGetwd, InCall, TypeInv, TypeOK
<1>2. /\ \A u \in Threads : u # t => stack'[u] = stack[u]
      /\ n \in Nat \ {0} /\ Len(stack'[t]) = n
      /\ \A i \in 1 .. n :
           /\ stack'[t][i].kind = stack[t][i].kind
           /\ stack'[t][i].saved = stack[t][i].saved
           /\ stack'[t][i].pid = IF i = n THEN current_pid[t] ELSE stack[t][i].pid
  BY <1>0, <1>1, SetPid DEF ForkGetwd, TypeInv, TypeOK
<1>3. /\ pc[t] = "fork_getwd" /\ pc'[t] = "sys_lock"
      /\ \A u \in Threads : u # t => pc'[u] = pc[u]
  BY DEF ForkGetwd, Goto, TypeInv, TypeOK
<1>4. thread_ids' = thread_ids /\ current_pid' = current_pid /\ job' = job
  BY DEF ForkGetwd
<1>5. 0 \in Claims(t) /\ ClaimOf(t, 0) = current_pid[t]
  BY <1>0, <1>3 DEF Claims, HasClaim, ClaimOf
<1>6. ClaimOf(t, n)' = current_pid[t]
  BY <1>2 DEF ClaimOf
<1>7. ASSUME NEW u \in Threads, NEW i \in Claims(u)', ~(u = t /\ i = n)
      PROVE  /\ i \in Claims(u) /\ ClaimOf(u, i)' = ClaimOf(u, i)
             /\ ~(u = t /\ i = 0)
  <2>1. CASE u # t
    BY <1>2, <1>3, <1>4, <2>1, SameClaims
  <2>2. CASE u = t
    <3>1. i \in 0 .. n /\ HasClaim(t, i)' /\ i # n
      BY <1>2, <1>7, <2>2 DEF Claims
    <3>2. i # 0
      BY <1>3, <3>1 DEF HasClaim
    <3>3. i \in 1 .. n - 1 /\ i \in 1 .. n /\ i + 1 \in 1 .. n
      BY <1>2, <3>1, <3>2
    <3>4. HasClaim(t, i)
      BY <1>0, <1>2, <3>1, <3>3 DEF HasClaim, Holds
    <3>5. ClaimOf(t, i)' = ClaimOf(t, i)
      BY <1>2, <3>1, <3>3 DEF ClaimOf
    <3> QED
      BY <1>0, <2>2, <3>1, <3>2, <3>4, <3>5 DEF Claims
  <2> QED
    BY <2>1, <2>2
<1>8. ClaimsInFlight' /\ ClaimsDiffer'
  <2>1. ClaimOf(t, n)' = ClaimOf(t, 0)
    BY <1>5, <1>6
  <2>2. \A u \in Threads : \A i \in Claims(u)' :
          \/ u = t /\ i = n
          \/ /\ i \in Claims(u) /\ ClaimOf(u, i)' = ClaimOf(u, i)
             /\ ~(u = t /\ i = 0)
    BY <1>7
  <2>3. ClaimsInFlight /\ ClaimsDiffer /\ thread_ids' = thread_ids /\ 0 \in Claims(t)
    BY <1>4, <1>5 DEF SlotInv
  <2> QED
    BY <2>1, <2>2, <2>3, ClaimHandedOn
<1>9. CurrentIsTop'
  <2>1. ASSUME NEW u \in Threads, u # t
        PROVE  /\ pc'[u] \in HoldLabels /\ Top(u)'.pid # 0 => current_pid'[u] = Top(u)'.pid
               /\ \A i \in 1 .. Len(stack'[u]) - 1 :
                    stack'[u][i + 1].kind = "capture" /\ stack'[u][i].pid # 0 =>
                      stack'[u][i + 1].saved = stack'[u][i].pid
    BY <1>2, <1>3, <1>4, <2>1 DEF SlotInv, CurrentIsTop, Top
  <2>2. current_pid'[t] = Top(t)'.pid
    BY <1>2, <1>4 DEF Top
  <2>3. ASSUME NEW i \in 1 .. Len(stack'[t]) - 1, stack'[t][i + 1].kind = "capture",
               stack'[t][i].pid # 0
        PROVE  stack'[t][i + 1].saved = stack'[t][i].pid
    <3>1. i \in 1 .. n - 1 /\ i \in 1 .. n /\ i + 1 \in 1 .. n /\ i # n
      BY <1>2
    <3>2. stack[t][i + 1].kind = "capture" /\ stack[t][i].pid # 0 =>
            stack[t][i + 1].saved = stack[t][i].pid
      BY <1>0, <3>1 DEF SlotInv, CurrentIsTop
    <3> QED
      BY <1>2, <2>3, <3>1, <3>2
  <2> QED
    BY <2>1, <2>2, <2>3 DEF CurrentIsTop
<1>10. WorkersHold'
  BY <1>3, <1>4 DEF SlotInv, WorkersHold, Threads, BeforeRelease
<1> QED
  BY <1>8, <1>9, <1>10 DEF SlotInv

\* pthread_create: the claim, if there is one, passes to the new thread.
LEMMA CreateSlots ==
    ASSUME TypeInv, SlotInv, NEW t \in Threads, NEW w \in Commands, CreateThread(t, w)
    PROVE  SlotInv'
<1> DEFINE n == Len(stack[t])
<1>1. w \in Threads /\ w # t
  BY DEF Threads, CreateThread
<1>2. /\ n \in Nat \ {0} /\ Top(t) = stack[t][n]
      /\ Top(t).pid # 0 => /\ n \in Claims(t) /\ ClaimOf(t, n) = Top(t).pid
                           /\ current_pid[t] = Top(t).pid
  BY TopType, TopClaim DEF CreateThread, HoldLabels, InCall
<1>3. /\ pc[w] = "none" /\ pc'[w] = "start" /\ pc[t] = "create"
      /\ pc'[t] \in {"join", "ret"}
      /\ \A u \in Threads : u # t /\ u # w => pc'[u] = pc[u]
  BY <1>1 DEF CreateThread, TypeInv, TypeOK
<1>4. /\ job'[w].fork = Top(t).pid /\ job'[w].pid = current_pid[t]
      /\ \A u \in Commands : u # w => job'[u] = job[u]
  <2>1. PICK j \in BOOLEAN :
          job' = [job EXCEPT ![w] = [by |-> t, fork |-> Top(t).pid,
                                     pid |-> current_pid[t], join |-> j]]
    BY DEF CreateThread
  <2> QED
    BY <2>1 DEF TypeInv, TypeOK
<1>5. stack' = stack /\ thread_ids' = thread_ids /\ current_pid' = current_pid
  BY DEF CreateThread, table
<1>6. stack[w] = <<>> /\ Len(stack[w]) = 0
  BY <1>1, <1>3 DEF TypeInv, Calls, InCall
<1>7. /\ Top(t).pid # 0 => ClaimOf(w, 0)' = ClaimOf(t, n)
      /\ Top(t).pid = 0 => 0 \notin Claims(w)'
  BY <1>2, <1>3, <1>4 DEF ClaimOf, Claims, HasClaim
<1>8. ASSUME NEW u \in Threads, NEW i \in Claims(u)', ~(u = w /\ i = 0)
      PROVE  /\ i \in Claims(u) /\ ClaimOf(u, i)' = ClaimOf(u, i)
             /\ ~(u = t /\ i = n)
  <2>1. CASE u # t /\ u # w
    BY <1>3, <1>4, <1>5, <2>1, SameClaims
  <2>2. u # w
    BY <1>5, <1>6, <1>8 DEF Claims
  <2>3. CASE u = t
    <3>1. i # 0 /\ i # n
      BY <1>2, <1>3, <1>5, <2>3 DEF Claims, HasClaim, Holds, HoldLabels
    <3>2. i \in Claims(t)
      BY <1>5, <2>3, <3>1 DEF Claims, HasClaim, Holds
    <3>3. ClaimOf(t, i)' = ClaimOf(t, i)
      BY <1>5, <3>1 DEF ClaimOf
    <3> QED
      BY <2>3, <3>1, <3>2, <3>3
  <2> QED
    BY <2>1, <2>2, <2>3
<1>9. ClaimsInFlight' /\ ClaimsDiffer'
  <2>1. CASE Top(t).pid # 0
    BY <1>1, <1>2, <1>5, <1>7, <1>8, <2>1, ClaimHandedOn DEF SlotInv
  <2>2. CASE Top(t).pid = 0
    <3>1. ASSUME NEW u \in Threads, NEW i \in Claims(u)'
          PROVE  /\ i \in Claims(u) /\ ClaimOf(u, i)' = ClaimOf(u, i)
                 /\ thread_ids'[ClaimOf(u, i)] = "inflight"
      BY <1>5, <1>7, <1>8, <2>2 DEF SlotInv, ClaimsInFlight
    <3> QED
      BY <3>1, ClaimsKept DEF SlotInv
  <2> QED
    BY <2>1, <2>2
<1>10. CurrentIsTop'
  BY <1>3, <1>5 DEF SlotInv, CurrentIsTop, Top, HoldLabels
<1>11. WorkersHold'
  <2> SUFFICES ASSUME NEW v \in Commands, pc'[v] \in BeforeRelease, job'[v].fork # 0
               PROVE  /\ job'[v].pid = job'[v].fork
                      /\ pc'[v] # "start" => thread_ids'[job'[v].fork] = v
    BY DEF WorkersHold
  <2>1. CASE v = w
    BY <1>2, <1>3, <1>4, <2>1
  <2>2. CASE v # w
    <3>1. pc[v] \in BeforeRelease /\ (pc'[v] # "start" => pc[v] # "start")
      BY <1>3, <2>2 DEF BeforeRelease, Threads
    <3> QED
      BY <1>4, <1>5, <2>2, <3>1 DEF SlotInv, WorkersHold
  <2> QED
    BY <2>1, <2>2
<1> QED
  BY <1>9, <1>10, <1>11 DEF SlotInv

\* ios_storeThreadId(pthread_self()) meets the sentinel of its own fork.
LEMMA RunStores ==
    ASSUME TypeInv, SlotInv, NEW w \in Commands, RunFunction(w), job[w].fork # 0
    PROVE  /\ job[w].pid = job[w].fork /\ job[w].fork \in Slots
           /\ 0 \in Claims(w) /\ ClaimOf(w, 0) = job[w].fork
           /\ thread_ids[job[w].fork] = "inflight"
           /\ thread_ids' = [thread_ids EXCEPT ![job[w].fork] = w]
<1>1. w \in Threads /\ pc[w] = "start" /\ job[w].fork \in Slots
  BY DEF Threads, RunFunction, TypeInv, TypeOK
<1>2. job[w].pid = job[w].fork
  BY <1>1 DEF SlotInv, WorkersHold, BeforeRelease
<1>3. 0 \in Claims(w) /\ ClaimOf(w, 0) = job[w].fork
  <2>1. Len(stack[w]) \in Nat
    BY <1>1 DEF TypeInv, TypeOK
  <2> QED
    BY <1>1, <2>1 DEF Claims, HasClaim, ClaimOf
<1>4. thread_ids[job[w].fork] = "inflight"
  BY <1>1, <1>3 DEF SlotInv, ClaimsInFlight
<1>5. thread_ids' = [thread_ids EXCEPT ![job[w].fork] = w]
  BY <1>2, <1>4 DEF RunFunction, StoreSelf
<1> QED
  BY <1>1, <1>2, <1>3, <1>4, <1>5

\* A command that was started without a fork has no slot to store its id in.
LEMMA RunUnforked ==
    ASSUME TypeInv, SlotInv, NEW w \in Commands, RunFunction(w), job[w].fork = 0,
           thread_ids' = thread_ids
    PROVE  SlotInv'
<1>1. /\ w \in Threads /\ pc[w] = "start" /\ pc'[w] = "user"
      /\ \A u \in Threads : u # w => pc'[u] = pc[u] /\ current_pid'[u] = current_pid[u]
  BY DEF Threads, RunFunction, Goto, TypeInv, TypeOK
<1>2. stack' = stack /\ job' = job
  BY DEF RunFunction
<1>3. stack[w] = <<>> /\ Len(stack[w]) = 0
  BY <1>1 DEF TypeInv, Calls, InCall
<1>4. ASSUME NEW u \in Threads, NEW i \in Claims(u)'
      PROVE  /\ i \in Claims(u) /\ ClaimOf(u, i)' = ClaimOf(u, i)
             /\ thread_ids'[ClaimOf(u, i)] = "inflight"
  <2>1. u # w
    BY <1>1, <1>2, <1>3 DEF Claims, HasClaim
  <2>2. i \in Claims(u) /\ ClaimOf(u, i)' = ClaimOf(u, i)
    BY <1>1, <1>2, <2>1, SameClaims
  <2> QED
    BY <2>2 DEF SlotInv, ClaimsInFlight
<1>5. ClaimsInFlight' /\ ClaimsDiffer'
  BY <1>4, ClaimsKept DEF SlotInv
<1>6. CurrentIsTop'
  BY <1>1, <1>2 DEF SlotInv, CurrentIsTop, Top, HoldLabels
<1>7. WorkersHold'
  BY <1>1, <1>2 DEF SlotInv, WorkersHold, Threads
<1> QED
  BY <1>5, <1>6, <1>7 DEF SlotInv

LEMMA RunSlots ==
    ASSUME TypeInv, SlotInv, NEW w \in Commands, RunFunction(w), ~strayed' PROVE SlotInv'
<1>0. CASE job[w].fork = 0
  <2>1. thread_ids' = thread_ids
    BY <1>0 DEF RunFunction, StoreSelf
  <2> QED
    BY <1>0, <2>1, RunUnforked
<1>00. SUFFICES ASSUME job[w].fork # 0 PROVE SlotInv'
  BY <1>0
<1>1. /\ job[w].pid = job[w].fork /\ job[w].fork \in Slots
      /\ 0 \in Claims(w) /\ ClaimOf(w, 0) = job[w].fork
      /\ thread_ids[job[w].fork] = "inflight"
      /\ thread_ids' = [thread_ids EXCEPT ![job[w].fork] = w]
  BY <1>00, RunStores
<1>2. /\ w \in Threads /\ pc[w] = "start" /\ pc'[w] = "user"
      /\ \A u \in Threads : u # w => pc'[u] = pc[u] /\ current_pid'[u] = current_pid[u]
  BY DEF Threads, RunFunction, Goto, TypeInv, TypeOK
<1>3. stack' = stack /\ job' = job
  BY DEF RunFunction
<1>4. stack[w] = <<>> /\ Len(stack[w]) = 0
  BY <1>2 DEF TypeInv, Calls, InCall
<1>5. ASSUME NEW u \in Threads, NEW i \in Claims(u)'
      PROVE  /\ i \in Claims(u) /\ ClaimOf(u, i)' = ClaimOf(u, i)
             /\ thread_ids'[ClaimOf(u, i)] = "inflight"
  <2>1. u # w
    BY <1>2, <1>3, <1>4 DEF Claims, HasClaim
  <2>2. i \in Claims(u) /\ ClaimOf(u, i)' = ClaimOf(u, i)
    BY <1>2, <1>3, <2>1, SameClaims
  <2>3. ClaimOf(u, i) # job[w].fork /\ thread_ids[ClaimOf(u, i)] = "inflight"
    BY <1>1, <1>2, <2>1, <2>2 DEF SlotInv, ClaimsDiffer, ClaimsInFlight
  <2> QED
    BY <1>1, <2>2, <2>3 DEF TypeInv, TypeOK
<1>6. ClaimsInFlight' /\ ClaimsDiffer'
  BY <1>5, ClaimsKept DEF SlotInv
<1>7. CurrentIsTop'
  BY <1>2, <1>3 DEF SlotInv, CurrentIsTop, Top, HoldLabels
<1>8. WorkersHold'
  <2> SUFFICES ASSUME NEW v \in Commands, pc'[v] \in BeforeRelease, job'[v].fork # 0
               PROVE  /\ job'[v].pid = job'[v].fork
                      /\ pc'[v] # "start" => thread_ids'[job'[v].fork] = v
    BY DEF WorkersHold
  <2>1. CASE v = w
    BY <1>1, <1>3, <2>1 DEF TypeInv, TypeOK
  <2>2. CASE v # w
    <3>1. v \in Threads /\ v # "inflight"
      BY PidTableAssumption DEF Threads
    <3>2. pc[v] = pc'[v]
      BY <1>2, <2>2, <3>1
    <3>3. job[v].pid = job[v].fork /\ (pc[v] # "start" => thread_ids[job[v].fork] = v)
      BY <1>3, <3>2 DEF SlotInv, WorkersHold
    <3> QED
      BY <1>1, <1>3, <3>1, <3>2, <3>3 DEF TypeInv, TypeOK
  <2> QED
    BY <2>1, <2>2
<1> QED
  BY <1>6, <1>7, <1>8 DEF SlotInv

LEMMA ReleaseSlots ==
    ASSUME TypeInv, SlotInv, NEW w \in Commands, ReleaseThread(w) PROVE SlotInv'
<1>1. /\ w \in Threads /\ pc[w] = "release" /\ pc'[w] \in {"restore", "cleanup_exit"}
      /\ \A u \in Threads : u # w => pc'[u] = pc[u] /\ current_pid'[u] = current_pid[u]
  BY DEF Threads, ReleaseThread, Goto, TypeInv, TypeOK
<1>2. stack' = stack /\ job' = job
  BY DEF ReleaseThread
<1>3. w # "inflight"
  BY <1>1, PidTableAssumption
<1>4. \A q \in Slots : thread_ids'[q] = thread_ids[q] \/ thread_ids[q] = w
  BY DEF ReleaseThread, TypeInv, TypeOK
<1>5. stack[w] = <<>> /\ Len(stack[w]) = 0
  BY <1>1 DEF TypeInv, Calls, InCall
<1>6. ASSUME NEW u \in Threads, NEW i \in Claims(u)'
      PROVE  /\ i \in Claims(u) /\ ClaimOf(u, i)' = ClaimOf(u, i)
             /\ thread_ids'[ClaimOf(u, i)] = "inflight"
  <2>1. u # w
    BY <1>1, <1>2, <1>5 DEF Claims, HasClaim
  <2>2. i \in Claims(u) /\ ClaimOf(u, i)' = ClaimOf(u, i)
    BY <1>1, <1>2, <2>1, SameClaims
  <2>3. thread_ids[ClaimOf(u, i)] = "inflight"
    BY <2>2 DEF SlotInv, ClaimsInFlight
  <2>4. ClaimOf(u, i) \in Slots
    <3>1. CASE i = 0
      <4>1. pc[u] = "start" => u \in Commands
        BY <2>2, <3>1 DEF Claims, HasClaim
      <4>2. current_pid[u] \in Slots /\ \A v \in Commands : job[v].fork \in Slots
        BY DEF TypeInv, TypeOK
      <4> QED
        BY <3>1, <4>1, <4>2 DEF ClaimOf
    <3>2. CASE i # 0
      <4>1. i \in 1 .. Len(stack[u]) /\ stack[u] \in Seq(Frame)
        BY <2>2, <3>2 DEF Claims, TypeInv, TypeOK
      <4>2. stack[u][i] \in Frame
        BY <4>1
      <4> QED
        BY <3>2, <4>2 DEF ClaimOf, Frame
    <3> QED
      BY <3>1, <3>2
  <2> QED
    BY <1>3, <1>4, <2>2, <2>3, <2>4
<1>7. ClaimsInFlight' /\ ClaimsDiffer'
  BY <1>6, ClaimsKept DEF SlotInv
<1>8. CurrentIsTop'
  BY <1>1, <1>2 DEF SlotInv, CurrentIsTop, Top, HoldLabels
<1>9. WorkersHold'
  <2> SUFFICES ASSUME NEW v \in Commands, pc'[v] \in BeforeRelease, job'[v].fork # 0
               PROVE  /\ job'[v].pid = job'[v].fork
                      /\ pc'[v] # "start" => thread_ids'[job'[v].fork] = v
    BY DEF WorkersHold
  <2>1. v # w /\ v \in Threads
    BY <1>1 DEF BeforeRelease, Threads
  <2>2. pc'[v] = pc[v] /\ job[v].fork \in Slots
    BY <1>1, <2>1 DEF TypeInv, TypeOK
  <2>3. job[v].pid = job[v].fork /\ (pc[v] # "start" => thread_ids[job[v].fork] = v)
    BY <1>2, <2>2 DEF SlotInv, WorkersHold
  <2> QED
    BY <1>2, <1>4, <2>1, <2>2, <2>3
<1> QED
  BY <1>7, <1>8, <1>9 DEF SlotInv

LEMMA LibraryMoves ==
    ASSUME TypeInv, SlotInv, NEW t \in Threads,
           \/ StartChdir(t) \/ ForkSpin(t) \/ SysLock(t) \/ SysComposite(t)
           \/ SeqDone(t) \/ SysDispatch(t) \/ ChangeDirectory(t) \/ RecordDirectory(t)
           \/ ChdirSpin(t) \/ ChdirLock(t) \/ ChdirCommit(t)
    PROVE  SlotInv'
<1>0. t \in Threads
  OBVIOUS
<1>1. CASE StartChdir(t)
  BY <1>1, <1>0, MoveSlots
    DEF StartChdir, Goto, table, TypeInv, TypeOK, HoldLabels, BeforeRelease
<1>2. CASE ForkSpin(t)
  BY <1>2, <1>0, MoveSlots
    DEF ForkSpin, Goto, table, TypeInv, TypeOK, HoldLabels, BeforeRelease
<1>3. CASE SysLock(t)
  BY <1>3, <1>0, MoveSlots
    DEF SysLock, Goto, table, TypeInv, TypeOK, HoldLabels, BeforeRelease
<1>4. CASE SysComposite(t)
  BY <1>4, <1>0, MoveSlots
    DEF SysComposite, Goto, table, TypeInv, TypeOK, HoldLabels, BeforeRelease
<1>5. CASE SeqDone(t)
  BY <1>5, <1>0, MoveSlots
    DEF SeqDone, Goto, table, TypeInv, TypeOK, HoldLabels, BeforeRelease
<1>6. CASE SysDispatch(t)
  BY <1>6, <1>0, MoveSlots
    DEF SysDispatch, Goto, table, TypeInv, TypeOK, HoldLabels, BeforeRelease
<1>7. CASE RecordDirectory(t)
  BY <1>7, <1>0, MoveSlots
    DEF RecordDirectory, Goto, TypeInv, TypeOK, HoldLabels, BeforeRelease
<1>8. CASE ChdirSpin(t)
  BY <1>8, <1>0, MoveSlots
    DEF ChdirSpin, Goto, table, TypeInv, TypeOK, HoldLabels, BeforeRelease
<1>9. CASE ChdirLock(t)
  BY <1>9, <1>0, MoveSlots
    DEF ChdirLock, Goto, table, TypeInv, TypeOK, HoldLabels, BeforeRelease
<1>10. CASE ChdirCommit(t)
  BY <1>10, <1>0, MoveSlots
    DEF ChdirCommit, Goto, table, TypeInv, TypeOK, HoldLabels, BeforeRelease
<1>11. CASE ChangeDirectory(t)
  <2>1. PICK l \in {"user", "cd_record"} : Goto(t, l)
    BY <1>11 DEF ChangeDirectory
  <2> QED
    BY <1>11, <1>0, <2>1, MoveSlots
      DEF ChangeDirectory, Goto, table, TypeInv, TypeOK, HoldLabels, BeforeRelease
<1> QED
  BY <1>1, <1>2, <1>3, <1>4, <1>5, <1>6, <1>7, <1>8, <1>9, <1>10, <1>11

LEMMA CommandMoves ==
    ASSUME TypeInv, SlotInv, NEW w \in Commands,
           \/ DrainChdir(w) \/ DrainPid(w) \/ RestoreDirectory(w)
           \/ CleanupEnter(w) \/ CleanupExit(w)
    PROVE  SlotInv'
<1>0. w \in Threads
  BY DEF Threads
<1>1. CASE DrainChdir(w)
  BY <1>1, <1>0, MoveSlots
    DEF DrainChdir, Goto, table, TypeInv, TypeOK, HoldLabels, BeforeRelease
<1>2. CASE DrainPid(w)
  BY <1>2, <1>0, MoveSlots
    DEF DrainPid, Goto, table, TypeInv, TypeOK, HoldLabels, BeforeRelease
<1>3. CASE RestoreDirectory(w)
  BY <1>3, <1>0, MoveSlots
    DEF RestoreDirectory, Goto, table, TypeInv, TypeOK, HoldLabels, BeforeRelease
<1>4. CASE CleanupEnter(w)
  BY <1>4, <1>0, MoveSlots
    DEF CleanupEnter, Goto, table, TypeInv, TypeOK, HoldLabels, BeforeRelease
<1>5. CASE CleanupExit(w)
  BY <1>5, <1>0, MoveSlots
    DEF CleanupExit, Goto, table, TypeInv, TypeOK, HoldLabels, BeforeRelease
<1> QED
  BY <1>1, <1>2, <1>3, <1>4, <1>5

\* The paths that give the slot back: a call that forked gives back its own; one that
\* did not finds nothing in flight, or strays.
LEMMA GivesBack ==
    ASSUME TypeInv, SlotInv, NEW t \in Threads, ~strayed',
           \/ SysEarlyReturn(t) \/ SeqEntry(t) \/ CreateFails(t)
    PROVE  /\ \/ thread_ids' = [thread_ids EXCEPT ![Top(t).pid] = "free"]
              \/ thread_ids' = thread_ids
           /\ stack[t] # <<>> /\ pc'[t] # pc[t] /\ SlotInv'
<1>1. pc[t] \in HoldLabels /\ pc[t] \notin {"ret", "seq"} /\ StoreZero(t)
  BY DEF SysEarlyReturn, SeqEntry, CreateFails, HoldLabels
<1>2. stack' = stack /\ job' = job
  BY DEF SysEarlyReturn, SeqEntry, CreateFails
<1>3. PICK l \in {"ret", "seq"} : Goto(t, l)
  BY DEF SysEarlyReturn, SeqEntry, CreateFails
<1>4. stack[t] # <<>>
  BY <1>1, TopType DEF HoldLabels, InCall
<1>5. pc'[t] # pc[t]
  BY <1>1, <1>3 DEF Goto, TypeInv, TypeOK
<1>6. CASE Top(t).pid # 0
  <2>1. current_pid[t] = Top(t).pid /\ thread_ids[Top(t).pid] = "inflight"
    BY <1>1, <1>6, TopClaim
  <2>2. thread_ids' = [thread_ids EXCEPT ![Top(t).pid] = "free"]
    BY <1>1, <2>1 DEF StoreZero
  <2>3. \A u \in Threads : u # t => current_pid'[u] = current_pid[u]
    <3>1. PICK q : current_pid' = [current_pid EXCEPT ![t] = q]
      BY <1>1, <2>1 DEF StoreZero
    <3> QED
      BY <3>1 DEF TypeInv, TypeOK
  <2>4. SlotInv'
    BY <1>1, <1>2, <1>3, <1>6, <2>2, <2>3, GiveBackSlots
  <2> QED
    BY <1>4, <1>5, <2>2, <2>4
<1>7. CASE Top(t).pid = 0
  <2>1. thread_ids' = thread_ids /\ current_pid' = current_pid
    BY <1>1, <1>7 DEF StoreZero
  <2>2. SlotInv'
    BY <1>1, <1>2, <1>3, <2>1, MoveSlots
      DEF Goto, TypeInv, TypeOK, HoldLabels, BeforeRelease
  <2> QED
    BY <1>4, <1>5, <2>1, <2>2
<1> QED
  BY <1>6, <1>7

LEMMA JoinSlots ==
    ASSUME TypeInv, SlotInv, NEW t \in Threads, NEW w \in Commands, Join(t, w)
    PROVE  SlotInv'
<1>1. w \in Threads /\ w # t
  BY DEF Join, Threads
<1>2. /\ pc[t] = "join" /\ pc'[t] = "ret" /\ pc[w] = "ended" /\ pc'[w] = "none"
      /\ \A u \in Threads : u # t /\ u # w => pc'[u] = pc[u]
  BY <1>1 DEF Join, TypeInv, TypeOK
<1>3. stack' = stack /\ thread_ids' = thread_ids /\ current_pid' = current_pid
      /\ job' = job
  BY DEF Join, table
<1> QED
  BY <1>1, <1>2, <1>3, MoveSlots DEF HoldLabels, BeforeRelease

LEMMA SlotInit == Init => SlotInv
<1> SUFFICES ASSUME Init PROVE SlotInv
  OBVIOUS
<1>1. \A t \in Threads : stack[t] = <<>> /\ pc[t] \in {"user", "none"}
  BY DEF Init
<1>2. \A t \in Threads : Claims(t) = {}
  BY <1>1 DEF Claims, HasClaim
<1>3. ClaimsInFlight /\ ClaimsDiffer
  BY <1>2 DEF ClaimsInFlight, ClaimsDiffer
<1>4. CurrentIsTop
  BY <1>1 DEF CurrentIsTop, HoldLabels
<1>5. WorkersHold
  BY PidTableAssumption DEF Init, WorkersHold, BeforeRelease, Threads
<1> QED
  BY <1>3, <1>4, <1>5 DEF SlotInv

LEMMA SlotStep ==
    ASSUME TypeInv, SlotInv, [Next]_vars, ~strayed' PROVE SlotInv'
<1>1. ASSUME NEW t \in Threads, Start(t) PROVE SlotInv'
  BY <1>1, PushSlots, LibraryMoves DEF Start
<1>2. ASSUME NEW t \in Threads, Library(t) PROVE SlotInv'
  <2>1. ~ReleaseIdChdir(t)
    BY DEF ReleaseIdChdir
  <2> QED
    BY <1>2, <2>1, LibraryMoves, GivesBack, PushSlots, WaitSlots, LateSlots, ForkLockSlots,
       ForkScanSlots, ForkGetwdSlots, CreateSlots, JoinSlots DEF Library
<1>3. ASSUME NEW w \in Commands, CommandThread(w) PROVE SlotInv'
  BY <1>3, CommandMoves, RunSlots, ReleaseSlots DEF CommandThread
<1>4. CASE UNCHANGED vars
  <2>1. stack' = stack /\ thread_ids' = thread_ids /\ current_pid' = current_pid
        /\ job' = job /\ pc' = pc
    BY <1>4 DEF vars
  <2> QED
    BY <2>1, MoveSlots
<1> QED
  BY <1>1, <1>2, <1>3, <1>4 DEF Next, Spin, Finished

-----------------------------------------------------------------------------
(* The commands whose wait has returned.                                   *)

\* A wait finds the slot free only after the command it was for has freed it.
LEMMA FreeIsReleased ==
    ASSUME TypeInv, SlotInv, NEW t \in Threads, WaitReturns(t),
           NEW w \in Commands, job[w].fork # 0, job[w].fork = Top(t).pid
    PROVE  pc[w] \notin BeforeRelease
<1>1. thread_ids[job[w].fork] = "free"
  BY DEF WaitReturns
<1>2. w \in Threads /\ w # "free"
  BY PidTableAssumption DEF Threads
<1>3. CASE pc[w] = "start"
  <2>1. Len(stack[w]) \in Nat
    BY <1>2 DEF TypeInv, TypeOK
  <2>2. 0 \in Claims(w) /\ ClaimOf(w, 0) = job[w].fork
    BY <1>3, <2>1 DEF Claims, HasClaim, ClaimOf
  <2>3. thread_ids[job[w].fork] = "inflight"
    BY <1>2, <2>2 DEF SlotInv, ClaimsInFlight
  <2> QED
    BY <1>1, <2>3
<1>4. CASE pc[w] \in BeforeRelease \ {"start"}
  BY <1>1, <1>2, <1>4 DEF SlotInv, WorkersHold
<1> QED
  BY <1>3, <1>4

\* Steps after which nobody else is reaped: who is reaped goes on towards its end,
\* and chdir is entered only when no cleanup is under way.
LEMMA MoveReap ==
    ASSUME TypeInv, ReapInv, reaped' = reaped, job' = job,
           \A u \in Threads : pc'[u] = pc[u] \/
             /\ pc[u] \in Released => pc'[u] \in Released \ {"restore"}
             /\ pc'[u] \in {"cd_lock", "cd_locked"} =>
                  pc[u] \in {"cd_lock", "cd_locked"} \/ cleanup_counter = 0
    PROVE  ReapInv'
<1>1. \A w \in reaped : w \in Threads /\ w \in Commands
  BY DEF TypeInv, TypeOK, Threads
<1>2. ReapedReleased'
  BY <1>1 DEF ReapInv, ReapedReleased
<1>3. ChdirAfterRestore'
  <2> SUFFICES ASSUME NEW t \in Threads, pc'[t] \in {"cd_lock", "cd_locked"},
                      NEW w \in reaped, job[w].by = t, pc'[w] = "restore"
               PROVE  FALSE
    BY DEF ChdirAfterRestore
  <2>1. pc[w] = "restore"
    BY <1>1 DEF ReapInv, ReapedReleased
  <2>2. CASE pc[t] \in {"cd_lock", "cd_locked"}
    BY <2>1, <2>2 DEF ReapInv, ChdirAfterRestore
  <2>3. CASE cleanup_counter = 0
    <3>1. Cleaning = {}
      BY <2>3, FS_EmptySet DEF TypeInv, CounterExact
    <3> QED
      BY <1>1, <2>1, <3>1 DEF Cleaning, CleanupLabels
  <2> QED
    BY <2>2, <2>3
<1> QED
  BY <1>2, <1>3 DEF ReapInv

LEMMA LibraryReap ==
    ASSUME TypeInv, ReapInv, NEW t \in Threads,
           \/ StartFork(t) \/ StartPlain(t) \/ StartChdir(t) \/ ForkSpin(t)
           \/ ForkLock(t) \/ ForkScan(t) \/ ForkGetwd(t) \/ SysLock(t)
           \/ SysEarlyReturn(t) \/ SysSubstitute(t) \/ SysComposite(t) \/ SeqEntry(t)
           \/ SeqPart(t) \/ SeqDone(t) \/ SysDispatch(t) \/ CreateFails(t)
           \/ ReleaseIdLock(t) \/ ReleaseIdChdir(t) \/ ChdirSpin(t) \/ ChdirLock(t)
           \/ ChdirCommit(t) \/ ChangeDirectory(t) \/ RecordDirectory(t)
    PROVE  ReapInv'
<1>0. t \in Threads
  OBVIOUS
<1>1. CASE StartFork(t)
  BY <1>1, <1>0, MoveReap DEF StartFork, Goto, TypeInv, TypeOK, Released
<1>2. CASE StartPlain(t)
  BY <1>2, <1>0, MoveReap DEF StartPlain, Goto, TypeInv, TypeOK, Released
<1>3. CASE StartChdir(t)
  BY <1>3, <1>0, MoveReap DEF StartChdir, Goto, TypeInv, TypeOK, Released
<1>4. CASE ForkSpin(t)
  BY <1>4, <1>0, MoveReap DEF ForkSpin, Goto, TypeInv, TypeOK, Released
<1>5. CASE ForkLock(t)
  BY <1>5, <1>0, MoveReap DEF ForkLock, Goto, TypeInv, TypeOK, Released
<1>6. CASE ForkScan(t)
  BY <1>6, <1>0, MoveReap DEF ForkScan, Goto, TypeInv, TypeOK, Released, Claim
<1>7. CASE ForkGetwd(t)
  BY <1>7, <1>0, MoveReap DEF ForkGetwd, Goto, TypeInv, TypeOK, Released
<1>8. CASE SysLock(t)
  BY <1>8, <1>0, MoveReap DEF SysLock, Goto, TypeInv, TypeOK, Released
<1>9. CASE SysEarlyReturn(t)
  BY <1>9, <1>0, MoveReap DEF SysEarlyReturn, Goto, TypeInv, TypeOK, Released
<1>10. CASE SysSubstitute(t)
  BY <1>10, <1>0, MoveReap DEF SysSubstitute, Goto, TypeInv, TypeOK, Released
<1>11. CASE SysComposite(t)
  BY <1>11, <1>0, MoveReap DEF SysComposite, Goto, TypeInv, TypeOK, Released
<1>12. CASE SeqEntry(t)
  BY <1>12, <1>0, MoveReap DEF SeqEntry, Goto, TypeInv, TypeOK, Released
<1>13. CASE SeqPart(t)
  BY <1>13, <1>0, MoveReap DEF SeqPart, Goto, TypeInv, TypeOK, Released
<1>14. CASE SeqDone(t)
  BY <1>14, <1>0, MoveReap DEF SeqDone, Goto, TypeInv, TypeOK, Released
<1>15. CASE SysDispatch(t)
  BY <1>15, <1>0, MoveReap DEF SysDispatch, Goto, TypeInv, TypeOK, Released
<1>16. CASE CreateFails(t)
  BY <1>16, <1>0, MoveReap DEF CreateFails, Goto, TypeInv, TypeOK, Released
<1>17. CASE ReleaseIdLock(t)
  BY <1>17, <1>0, MoveReap DEF ReleaseIdLock, Goto, TypeInv, TypeOK, Released
<1>18. CASE ReleaseIdChdir(t)
  BY <1>18, <1>0, MoveReap DEF ReleaseIdChdir, Goto, TypeInv, TypeOK, Released
<1>19. CASE ChdirSpin(t)
  BY <1>19, <1>0, MoveReap DEF ChdirSpin, Goto, TypeInv, TypeOK, Released
<1>20. CASE ChdirLock(t)
  BY <1>20, <1>0, MoveReap DEF ChdirLock, Goto, TypeInv, TypeOK, Released
<1>21. CASE ChdirCommit(t)
  BY <1>21, <1>0, MoveReap DEF ChdirCommit, Goto, TypeInv, TypeOK, Released
<1>22. CASE ChangeDirectory(t)
  <2>1. PICK l \in {"user", "cd_record"} : Goto(t, l)
    BY <1>22 DEF ChangeDirectory
  <2> QED
    BY <1>22, <1>0, <2>1, MoveReap DEF ChangeDirectory, Goto, TypeInv, TypeOK, Released
<1>23. CASE RecordDirectory(t)
  BY <1>23, <1>0, MoveReap DEF RecordDirectory, Goto, TypeInv, TypeOK, Released
<1> QED
  BY <1>1, <1>2, <1>3, <1>4, <1>5, <1>6, <1>7, <1>8, <1>9, <1>10, <1>11,
     <1>12, <1>13, <1>14, <1>15, <1>16, <1>17, <1>18, <1>19, <1>20, <1>21, <1>22, <1>23

LEMMA CommandReap ==
    ASSUME TypeInv, ReapInv, NEW w \in Commands, CommandThread(w) PROVE ReapInv'
<1>0. w \in Threads
  BY DEF Threads
<1>1. CASE RunFunction(w)
  BY <1>1, <1>0, MoveReap DEF RunFunction, Goto, TypeInv, TypeOK, Released
<1>2. CASE CleanupEnter(w)
  BY <1>2, <1>0, MoveReap DEF CleanupEnter, Goto, TypeInv, TypeOK, Released
<1>3. CASE DrainChdir(w)
  BY <1>3, <1>0, MoveReap DEF DrainChdir, Goto, TypeInv, TypeOK, Released
<1>4. CASE DrainPid(w)
  BY <1>4, <1>0, MoveReap DEF DrainPid, Goto, TypeInv, TypeOK, Released
<1>5. CASE ReleaseThread(w)
  BY <1>5, <1>0, MoveReap DEF ReleaseThread, Goto, TypeInv, TypeOK, Released
<1>6. CASE RestoreDirectory(w)
  BY <1>6, <1>0, MoveReap DEF RestoreDirectory, Goto, TypeInv, TypeOK, Released
<1>7. CASE CleanupExit(w)
  BY <1>7, <1>0, MoveReap DEF CleanupExit, Goto, TypeInv, TypeOK, Released
<1> QED
  BY <1>1, <1>2, <1>3, <1>4, <1>5, <1>6, <1>7 DEF CommandThread

LEMMA JoinReap ==
    ASSUME TypeInv, ReapInv, NEW t \in Threads, NEW w \in Commands, Join(t, w)
    PROVE  ReapInv'
<1>1. w \in Threads /\ w # t
  BY DEF Join, Threads
<1>2. /\ pc[t] = "join" /\ pc'[t] = "ret" /\ pc[w] = "ended" /\ pc'[w] = "none"
      /\ \A u \in Threads : u # t /\ u # w => pc'[u] = pc[u]
  BY <1>1 DEF Join, TypeInv, TypeOK
<1>3. reaped' = reaped /\ job' = job
  BY DEF Join
<1> QED
  BY <1>1, <1>2, <1>3, MoveReap DEF Released

\* A thread id that is used again stands for a new command.
LEMMA CreateReap ==
    ASSUME TypeInv, ReapInv, NEW t \in Threads, NEW w \in Commands, CreateThread(t, w)
    PROVE  ReapInv'
<1>1. w \in Threads /\ w # t /\ reaped \subseteq Commands
  BY DEF CreateThread, Threads, TypeInv, TypeOK
<1>2. /\ pc[t] = "create" /\ pc'[t] \in {"join", "ret"} /\ pc'[w] = "start"
      /\ \A u \in Threads : u # t /\ u # w => pc'[u] = pc[u]
  BY <1>1 DEF CreateThread, TypeInv, TypeOK
<1>3. reaped' = reaped \ {w} /\ \A v \in Commands : v # w => job'[v] = job[v]
  <2>1. PICK r : job' = [job EXCEPT ![w] = r]
    BY DEF CreateThread
  <2> QED
    BY <2>1 DEF CreateThread, TypeInv, TypeOK
<1>4. \A v \in reaped' : v \in reaped /\ v \in Commands /\ v \in Threads /\ v # w
  BY <1>1, <1>3 DEF Threads
<1>5. ReapedReleased'
  BY <1>2, <1>4 DEF ReapInv, ReapedReleased, Released
<1>6. ChdirAfterRestore'
  BY <1>2, <1>3, <1>4 DEF ReapInv, ChdirAfterRestore
<1> QED
  BY <1>5, <1>6 DEF ReapInv

LEMMA WaitReap ==
    ASSUME TypeInv, SlotInv, ReapInv, NEW t \in Threads, WaitReturns(t) PROVE ReapInv'
<1>1. /\ pc[t] = "ret" /\ pc'[t] \in {"user", "seq", "sys_relock", "rid_lock"}
      /\ \A u \in Threads : u # t => pc'[u] = pc[u]
  BY TopType DEF WaitReturns, Goto, TypeInv, TypeOK, InCall
<1>2. job' = job
  BY DEF WaitReturns
<1>3. ASSUME NEW w \in reaped', w \notin reaped
      PROVE  w \in Commands /\ job[w].by = t /\ pc[w] \in Released
  <2>1. /\ w \in Commands /\ job[w].by = t /\ pc[w] \notin {"none", "ended"}
        /\ job[w].fork # 0 /\ job[w].fork = Top(t).pid
    BY <1>3 DEF WaitReturns
  <2>2. pc[w] \notin BeforeRelease
    BY <2>1, FreeIsReleased
  <2>3. pc[w] \in Labels
    BY <2>1 DEF TypeInv, TypeOK, Threads
  <2> QED
    BY <2>1, <2>2, <2>3 DEF Labels, BeforeRelease, Released
<1>4. \A w \in reaped' : w \in Threads /\ pc[w] \in Released
  BY <1>3 DEF ReapInv, ReapedReleased, TypeInv, TypeOK, Threads
<1>5. ReapedReleased'
  BY <1>1, <1>4 DEF ReapedReleased, Released
<1>6. ChdirAfterRestore'
  BY <1>1, <1>2, <1>3, <1>4 DEF ReapInv, ChdirAfterRestore, Released
<1> QED
  BY <1>5, <1>6 DEF ReapInv

LEMMA ReapStep == TypeInv /\ SlotInv /\ ReapInv /\ [Next]_vars => ReapInv'
<1> SUFFICES ASSUME TypeInv, SlotInv, ReapInv, [Next]_vars PROVE ReapInv'
  OBVIOUS
<1>1. ASSUME NEW t \in Threads, Start(t) PROVE ReapInv'
  BY <1>1, LibraryReap DEF Start
<1>2. ASSUME NEW t \in Threads, Library(t) PROVE ReapInv'
  BY <1>2, LibraryReap, WaitReap, CreateReap, JoinReap DEF Library
<1>3. ASSUME NEW w \in Commands, CommandThread(w) PROVE ReapInv'
  BY <1>3, CommandReap
<1>4. CASE UNCHANGED vars
  BY <1>4, MoveReap DEF vars
<1> QED
  BY <1>1, <1>2, <1>3, <1>4 DEF Next, Spin, Finished

-----------------------------------------------------------------------------
(* The mutexes.                                                            *)

\* A step of t that takes or gives back at most one mutex.
LEMMA OneLock ==
    ASSUME TypeOK, LocksHeld, NEW t \in Threads, NEW l \in Labels, Goto(t, l),
           pid_mtx' = pid_mtx \/ pid_mtx = "unlocked" \/ pid_mtx = t,
           chdir_mtx' = chdir_mtx \/ chdir_mtx = "unlocked" \/ chdir_mtx = t,
           ios_system_mutex' = ios_system_mutex \/ ios_system_mutex = "unlocked"
             \/ ios_system_mutex = t,
           pid_mtx' \in {t, "unlocked"} \/ pid_mtx' = pid_mtx,
           chdir_mtx' \in {t, "unlocked"} \/ chdir_mtx' = chdir_mtx,
           ios_system_mutex' \in {t, "unlocked"} \/ ios_system_mutex' = ios_system_mutex,
           pid_mtx' = t <=> l \in PidHolders,
           chdir_mtx' = t <=> l = "cd_locked",
           ios_system_mutex' = t <=> l = "sys"
    PROVE  LocksHeld'
<1> SUFFICES ASSUME NEW u \in Threads
             PROVE  /\ pid_mtx' = u <=> pc'[u] \in PidHolders
                    /\ chdir_mtx' = u <=> pc'[u] = "cd_locked"
                    /\ ios_system_mutex' = u <=> pc'[u] = "sys"
  BY DEF LocksHeld
<1>0. u # "unlocked"
  BY PidTableAssumption
<1>1. CASE u = t
  BY <1>1 DEF Goto, TypeOK
<1>2. CASE u # t
  <2>1. pc'[u] = pc[u]
    BY <1>2 DEF Goto, TypeOK
  <2> QED
    BY <1>0, <1>2, <2>1 DEF LocksHeld
<1> QED
  BY <1>1, <1>2

\* Every lock and unlock of the table's code belongs to the thread that takes the step.
LEMMA LockStep == TypeInv /\ LocksHeld /\ [Next]_vars => LocksHeld'
<1> SUFFICES ASSUME TypeInv, LocksHeld, [Next]_vars PROVE LocksHeld'
  OBVIOUS
<1> USE DEF PidHolders
<1>0. TypeOK /\ "unlocked" \notin Threads
  BY PidTableAssumption DEF TypeInv
<1>a. ASSUME NEW t \in Threads
      PROVE  /\ pid_mtx = t <=> pc[t] \in PidHolders
             /\ chdir_mtx = t <=> pc[t] = "cd_locked"
             /\ ios_system_mutex = t <=> pc[t] = "sys"
  BY <1>a DEF LocksHeld
<1>1. ASSUME NEW t \in Threads, Start(t) PROVE LocksHeld'
  BY <1>0, <1>a, <1>1, OneLock, TypeFacts
     DEF Start, StartFork, StartPlain, StartChdir, ChangeDirectory, locks
<1>2. ASSUME NEW t \in Threads, Library(t) PROVE LocksHeld'
  <2>1. CASE \/ ForkSpin(t) \/ SeqEntry(t) \/ SeqPart(t) \/ SeqDone(t)
             \/ CreateFails(t) \/ ChdirSpin(t) \/ RecordDirectory(t)
    BY <1>0, <1>a, <2>1, OneLock, TypeFacts
       DEF ForkSpin, SeqEntry, SeqPart, SeqDone, CreateFails, ChdirSpin, RecordDirectory,
           locks
  <2>2. CASE WaitReturns(t)
    <3>1. Goto(t, "user") \/ Goto(t, "seq") \/ Goto(t, "sys_relock") \/ Goto(t, "rid_lock")
      <4>1. Top(t).kind \in {"user", "seq", "capture"}
        BY <2>2, TopType DEF WaitReturns, TypeInv, Calls, InCall
      <4> QED
        BY <2>2, <4>1 DEF WaitReturns
    <3>2. pc[t] = "ret" /\ UNCHANGED locks
      BY <2>2 DEF WaitReturns
    <3> QED
      BY <1>0, <1>a, <3>1, <3>2, OneLock, TypeFacts DEF locks
  <2>3. CASE ForkLock(t) \/ ForkGetwd(t)
    BY <1>0, <1>a, <2>3, OneLock, TypeFacts DEF ForkLock, ForkGetwd
  <2>4. CASE ForkScan(t)
    <3>1. CASE Goto(t, "fork_getwd")
      BY <1>0, <1>a, <2>4, <3>1, OneLock, TypeFacts DEF ForkScan, locks
    <3>2. CASE pc' = pc
      BY <2>4, <3>2 DEF ForkScan, locks, LocksHeld
    <3> QED
      BY <2>4, <3>1, <3>2 DEF ForkScan, Claim
  <2>5. CASE SysLock(t) \/ SysSubstitute(t) \/ SysComposite(t) \/ SysDispatch(t)
    BY <1>0, <1>a, <2>5, OneLock, TypeFacts
       DEF SysLock, SysSubstitute, SysComposite, SysDispatch
  <2>6. CASE SysEarlyReturn(t)
    BY <1>0, <1>a, <2>6, OneLock, TypeFacts DEF SysEarlyReturn
  <2>7. CASE ReleaseIdLock(t) \/ ReleaseIdChdir(t)
    BY <1>0, <1>a, <2>7, OneLock, TypeFacts DEF ReleaseIdLock, ReleaseIdChdir
  <2>8. CASE ChdirLock(t) \/ ChdirCommit(t)
    BY <1>0, <1>a, <2>8, OneLock, TypeFacts DEF ChdirLock, ChdirCommit
  <2>9. ASSUME NEW w \in Commands, CreateThread(t, w) \/ Join(t, w) PROVE LocksHeld'
    <3>1. \A u \in Threads : pc'[u] = pc[u] \/ {pc[u], pc'[u]} \subseteq
            {"none", "start", "create", "join", "ret", "ended"}
      BY <1>0, <2>9 DEF CreateThread, Join, TypeOK
    <3> QED
      BY <2>9, <3>1 DEF CreateThread, Join, locks, LocksHeld
  <2> QED
    BY <1>2, <2>1, <2>2, <2>3, <2>4, <2>5, <2>6, <2>7, <2>8, <2>9 DEF Library
<1>3. ASSUME NEW w \in Commands, CommandThread(w) PROVE LocksHeld'
  <2>0. w \in Threads
    BY DEF Threads
  <2>1. CASE RunFunction(w) \/ CleanupEnter(w) \/ DrainChdir(w) \/ DrainPid(w)
    BY <1>0, <1>a, <2>0, <2>1, OneLock, TypeFacts
       DEF RunFunction, CleanupEnter, DrainChdir, DrainPid, locks
  <2>2. CASE ReleaseThread(w)
    <3>1. \/ pid_mtx' = w /\ Goto(w, "restore")
          \/ pid_mtx' = pid_mtx /\ Goto(w, "cleanup_exit")
      BY <2>2 DEF ReleaseThread
    <3>2. /\ pc[w] = "release" /\ pid_mtx = "unlocked"
          /\ chdir_mtx' = chdir_mtx /\ ios_system_mutex' = ios_system_mutex
      BY <2>2 DEF ReleaseThread
    <3> QED
      BY <1>0, <1>a, <2>0, <3>1, <3>2, OneLock, TypeFacts
  <2>3. CASE RestoreDirectory(w)
    BY <1>0, <1>a, <2>0, <2>3, OneLock, TypeFacts DEF RestoreDirectory
  <2>4. CASE CleanupExit(w)
    BY <1>0, <1>a, <2>0, <2>4, OneLock, TypeFacts DEF CleanupExit, locks
  <2> QED
    BY <1>3, <2>1, <2>2, <2>3, <2>4 DEF CommandThread
<1>4. CASE UNCHANGED vars
  BY <1>4 DEF vars, LocksHeld
<1> QED
  BY <1>1, <1>2, <1>3, <1>4 DEF Next, Spin, Finished

-----------------------------------------------------------------------------
(* The theorems.                                                           *)

\* The claims and the waits, as long as nobody changed the slot of another's fork.
PidInv == TypeInv /\ (~strayed => SlotInv /\ ReapInv)

\* Every reachable state is well typed, whoever calls ios_system and how: slot numbers
\* stay inside the table, frames inside the stacks, and cleanup_counter, which
\* cleanup_function raises and lowers, never goes below zero.
THEOREM PidTableTypes == Spec => []TypeOK
<1>1. TypeInv => TypeOK
  BY DEF TypeInv
<1> QED
  BY <1>1, TypeInit, TypeStep, PTL DEF Spec

\* cleanup_counter is the number of threads inside cleanup_function, however many enter
\* and leave it at once and on whichever path: the spin loops of ios_nextAvailablePid
\* and chdir wait exactly for them.
THEOREM CleanupsAreCounted == Spec => []CounterExact
<1>1. TypeInv => CounterExact
  BY DEF TypeInv
<1> QED
  BY <1>1, TypeInit, TypeStep, PTL DEF Spec

\* Each of pid_mtx, chdir_mtx and ios_system_mutex is held by the thread between its
\* lock and its unlock and by nobody else, on every path and error path.  In particular
\* the holder of chdir_mtx is at the end of a chdir and waits for nothing, and only who
\* is in ios_nextAvailablePid or a release holds pid_mtx, and waits for chdir_mtx alone.
THEOREM MutexesAreExclusive == Spec => []LocksHeld
<1>1. Init => LocksHeld
  BY PidTableAssumption DEF Init, LocksHeld, PidHolders
<1>2. Spec => [](TypeInv /\ LocksHeld)
  <2>1. Init => TypeInv /\ LocksHeld
    BY <1>1, TypeInit
  <2>2. TypeInv /\ LocksHeld /\ [Next]_vars => (TypeInv /\ LocksHeld)'
    BY TypeStep, LockStep
  <2> QED
    BY <2>1, <2>2, PTL DEF Spec
<1> QED
  BY <1>2, PTL

\* History is not forgotten.
LEMMA StrayedStays ==
    ASSUME TypeInv, [Next]_vars, ~strayed' PROVE ~strayed
<1>0. strayed \in BOOLEAN
  BY DEF TypeInv, TypeOK
<1>1. ASSUME NEW t \in Threads, Start(t) PROVE ~strayed
  BY <1>1 DEF Start, StartFork, StartPlain, StartChdir, ChangeDirectory
<1>2. ASSUME NEW t \in Threads, Library(t) PROVE ~strayed
  <2>1. ASSUME StoreZero(t) PROVE ~strayed
    BY <1>0, <2>1 DEF StoreZero
  <2>2. CASE SysEarlyReturn(t) \/ SeqEntry(t) \/ CreateFails(t)
    BY <2>1, <2>2 DEF SysEarlyReturn, SeqEntry, CreateFails
  <2>3. CASE ReleaseIdChdir(t)
    BY <2>3 DEF ReleaseIdChdir
  <2>4. CASE \/ ForkSpin(t) \/ ForkLock(t) \/ ForkScan(t) \/ ForkGetwd(t)
             \/ SysLock(t) \/ SysSubstitute(t) \/ SysComposite(t)
             \/ SeqPart(t) \/ SeqDone(t) \/ SysDispatch(t) \/ WaitReturns(t)
             \/ ReleaseIdLock(t) \/ ChdirSpin(t) \/ ChdirLock(t) \/ ChdirCommit(t)
             \/ RecordDirectory(t)
    BY <2>4 DEF ForkSpin, ForkLock, ForkScan, ForkGetwd, SysLock, SysSubstitute,
         SysComposite, SeqPart, SeqDone, SysDispatch, WaitReturns, ReleaseIdLock,
         ChdirSpin, ChdirLock, ChdirCommit, RecordDirectory
  <2>5. ASSUME NEW w \in Commands, CreateThread(t, w) \/ Join(t, w) PROVE ~strayed
    BY <2>5 DEF CreateThread, Join
  <2> QED
    BY <1>2, <2>2, <2>3, <2>4, <2>5 DEF Library
<1>3. ASSUME NEW w \in Commands, CommandThread(w) PROVE ~strayed
  <2>1. CASE RunFunction(w)
    BY <1>0, <2>1 DEF RunFunction, StoreSelf
  <2>2. CASE \/ CleanupEnter(w) \/ DrainChdir(w) \/ DrainPid(w) \/ ReleaseThread(w)
             \/ RestoreDirectory(w) \/ CleanupExit(w)
    BY <2>2 DEF CleanupEnter, DrainChdir, DrainPid, ReleaseThread, RestoreDirectory,
         CleanupExit
  <2> QED
    BY <1>3, <2>1, <2>2 DEF CommandThread
<1>4. CASE UNCHANGED vars
  BY <1>4 DEF vars
<1> QED
  BY <1>1, <1>2, <1>3, <1>4 DEF Next, Spin, Finished

\* What the theorems below rest on.
LEMMA PidInvariant == Spec => []PidInv
<1>1. Init => PidInv
  <2>1. Init => ReapInv
    BY DEF Init, ReapInv, ReapedReleased, ChdirAfterRestore
  <2> QED
    BY <2>1, TypeInit, SlotInit DEF PidInv
<1>2. PidInv /\ [Next]_vars => PidInv'
  <2> SUFFICES ASSUME PidInv, [Next]_vars PROVE PidInv'
    OBVIOUS
  <2>1. TypeInv'
    BY TypeStep DEF PidInv
  <2>2. ASSUME ~strayed' PROVE SlotInv' /\ ReapInv'
    <3>1. TypeInv /\ SlotInv /\ ReapInv
      BY <2>2, StrayedStays DEF PidInv
    <3> QED
      BY <2>2, <3>1, SlotStep, ReapStep
  <2> QED
    BY <2>1, <2>2 DEF PidInv
<1> QED
  BY <1>1, <1>2, PTL DEF Spec

\* The guard of chdir on cleanup_counter: until a call without a fork or a late
\* ios_releaseThreadId meets another's slot, the directory a thread sets after its wait
\* returned is not undone by the directory restore of the command it waited for.
THEOREM ChdirIsNotUndone == Spec => []OwnChdirSurvives
<1>1. PidInv => OwnChdirSurvives
  BY DEF PidInv, TypeInv, ReapInv, ChdirAfterRestore, OwnChdirSurvives
<1> QED
  BY <1>1, PidInvariant, PTL

\* ios_nextAvailablePid gives no slot to two commands at a time, however often slots are
\* reused: each command that was forked has its own from the pthread_create until its
\* cleanup frees it, until somebody changes the slot of another's fork.
THEOREM CommandsHaveOwnSlots == Spec => []SlotsDiffer
<1>1. PidInv => SlotsDiffer
  <2> SUFFICES ASSUME PidInv, ~strayed, NEW v \in Commands, NEW w \in Commands,
                      pc[v] \in BeforeRelease, pc[w] \in BeforeRelease,
                      job[v].fork # 0, job[w].fork # 0, job[v].pid = job[w].pid
               PROVE  v = w
    BY DEF SlotsDiffer
  <2>0. v \in Threads /\ w \in Threads /\ "inflight" \notin Threads
    BY PidTableAssumption DEF Threads
  <2>1. /\ job[v].fork = job[w].fork
        /\ pc[v] # "start" => thread_ids[job[v].fork] = v
        /\ pc[w] # "start" => thread_ids[job[w].fork] = w
    BY DEF PidInv, SlotInv, WorkersHold
  <2>2. ASSUME NEW u \in Commands, pc[u] = "start", job[u].fork # 0
        PROVE  0 \in Claims(u) /\ ClaimOf(u, 0) = job[u].fork
    <3>1. Len(stack[u]) \in Nat
      BY DEF PidInv, TypeInv, TypeOK, Threads
    <3> QED
      BY <2>2, <3>1 DEF Claims, HasClaim, ClaimOf
  <2>3. \A u \in Commands : pc[u] = "start" /\ job[u].fork # 0 =>
          thread_ids[job[u].fork] = "inflight"
    BY <2>2 DEF PidInv, SlotInv, ClaimsInFlight, Threads
  <2>4. CASE pc[v] = "start" /\ pc[w] = "start"
    BY <2>0, <2>1, <2>2, <2>4 DEF PidInv, SlotInv, ClaimsDiffer
  <2> QED
    BY <2>0, <2>1, <2>3, <2>4
<1> QED
  BY <1>1, PidInvariant, PTL

\* Only the thread whose wait is in "ret" takes it out of there.
LEMMA LeavesRet ==
    ASSUME TypeInv, [Next]_vars, NEW t \in Threads, pc[t] = "ret", pc'[t] # "ret"
    PROVE  WaitReturns(t)
<1>1. ASSUME NEW u \in Threads, Start(u) PROVE WaitReturns(t)
  BY <1>1 DEF Start, StartFork, StartPlain, StartChdir, ChangeDirectory, Goto, TypeInv,
       TypeOK
<1>2. ASSUME NEW u \in Threads, Library(u) PROVE WaitReturns(t)
  <2>1. ASSUME NEW w \in Commands, CreateThread(u, w) \/ Join(u, w) PROVE WaitReturns(t)
    BY <2>1 DEF CreateThread, Join, TypeInv, TypeOK
  <2>2. ASSUME NEW l, Goto(u, l), pc[u] # "ret" PROVE WaitReturns(t)
    BY <2>2 DEF Goto, TypeInv, TypeOK
  <2>3. CASE WaitReturns(u)
    <3>1. PICK l : Goto(u, l)
      BY <2>3 DEF WaitReturns
    <3>2. u # t => pc'[t] = pc[t]
      BY <3>1 DEF Goto, TypeInv, TypeOK
    <3> QED
      BY <2>3, <3>2
  <2>4. CASE \/ ForkSpin(u) \/ ForkLock(u) \/ ForkScan(u) \/ ForkGetwd(u)
             \/ SysLock(u) \/ SysEarlyReturn(u) \/ SysSubstitute(u) \/ SysComposite(u)
             \/ SeqEntry(u) \/ SeqPart(u) \/ SeqDone(u)
    BY <2>2, <2>4 DEF ForkSpin, ForkLock, ForkScan, Claim, ForkGetwd, SysLock,
         SysEarlyReturn, SysSubstitute, SysComposite, SeqEntry, SeqPart, SeqDone
  <2>5. CASE \/ SysDispatch(u) \/ CreateFails(u) \/ ReleaseIdLock(u) \/ ReleaseIdChdir(u)
             \/ ChdirSpin(u) \/ ChdirLock(u) \/ ChdirCommit(u) \/ RecordDirectory(u)
    BY <2>2, <2>5 DEF SysDispatch, CreateFails, ReleaseIdLock, ReleaseIdChdir,
         ChdirSpin, ChdirLock, ChdirCommit, RecordDirectory
  <2> QED
    BY <1>2, <2>1, <2>3, <2>4, <2>5 DEF Library
<1>3. ASSUME NEW w \in Commands, CommandThread(w) PROVE WaitReturns(t)
  <2>1. ASSUME NEW l, Goto(w, l), pc[w] # "ret" PROVE WaitReturns(t)
    BY <2>1 DEF Goto, TypeInv, TypeOK
  <2> QED
    BY <1>3, <2>1 DEF CommandThread, RunFunction, CleanupEnter, DrainChdir, DrainPid,
         ReleaseThread, RestoreDirectory, CleanupExit
<1>4. CASE UNCHANGED vars
  BY <1>4 DEF vars
<1> QED
  BY <1>1, <1>2, <1>3, <1>4 DEF Next, Spin, Finished

\* ios_waitpid does not return before the command it waits for has freed its slot,
\* however often slots and thread ids were used before and whatever other threads
\* fork meanwhile, until a call without a fork or a late ios_releaseThreadId changes
\* the slot of another's fork.
THEOREM WaitIsNotEarly == Spec => NoEarlyReturnUnlessStrayed
<1>1. PidInv /\ [Next]_vars => [~strayed' => WaitStep]_vars
  <2> SUFFICES ASSUME PidInv, [Next]_vars, ~strayed' PROVE WaitStep
    OBVIOUS
  <2>1. TypeInv /\ SlotInv
    BY StrayedStays DEF PidInv
  <2> QED
    BY <2>1, LeavesRet, FreeIsReleased DEF WaitStep, Moves
<1> DEFINE A == ~strayed' => WaitStep
<1> HIDE DEF A
<1>2. Spec => [][A]_vars
  <2>1. PidInv /\ [Next]_vars => [A]_vars
    BY <1>1 DEF A
  <2> QED
    BY <2>1, PidInvariant, PTL DEF Spec
<1> QED
  BY <1>2 DEF NoEarlyReturnUnlessStrayed, A

\* A slot stops being in flight only through the innermost call that forked it, which
\* gives it back, or through the command started for that call, which stores its own
\* id, until a call without a fork or a late ios_releaseThreadId meets another's slot.
\* ios_storeThreadId tests the sentinel and no owner; the claims are why that is
\* enough for calls that fork.
THEOREM SentinelIsOwn == Spec => SentinelUnlessStrayed
<1> DEFINE Own(p) ==
             \/ thread_ids'[p] = "free"
                /\ \E t \in Threads : Moves(t) /\ stack[t] # <<>> /\ Top(t).pid = p
             \/ \E w \in Commands : thread_ids'[p] = w /\ job[w].fork = p
           Act == ~strayed' => SentinelStep
<1>1. PidInv /\ [Next]_vars => [Act]_vars
  <2> SUFFICES ASSUME PidInv, [Next]_vars, ~strayed', NEW p \in Slots,
                      thread_ids[p] = "inflight", thread_ids'[p] # "inflight"
               PROVE  Own(p)
    BY DEF SentinelStep
  <2> HIDE DEF Own
  <2>0. TypeInv /\ SlotInv /\ thread_ids' # thread_ids
    BY StrayedStays DEF PidInv
  <2>1. ASSUME NEW t \in Threads, Start(t) PROVE Own(p)
    BY <2>0, <2>1 DEF Start, StartFork, StartPlain, StartChdir, ChangeDirectory, table
  <2>2. ASSUME NEW t \in Threads, Library(t) PROVE Own(p)
    <3>1. CASE SysEarlyReturn(t) \/ SeqEntry(t) \/ CreateFails(t)
      <4>1. /\ thread_ids' = [thread_ids EXCEPT ![Top(t).pid] = "free"]
            /\ stack[t] # <<>> /\ pc'[t] # pc[t]
        BY <2>0, <3>1, GivesBack
      <4>2. Top(t).pid = p /\ thread_ids'[p] = "free"
        BY <2>0, <4>1 DEF TypeInv, TypeOK
      <4> QED
        BY <4>1, <4>2 DEF Own, Moves
    <3>2. CASE ForkScan(t)
      BY <2>0, <3>2 DEF ForkScan, Claim, TypeInv, TypeOK
    <3>3. CASE \/ ForkSpin(t) \/ ForkLock(t) \/ ForkGetwd(t) \/ SysLock(t)
               \/ SysSubstitute(t) \/ SysComposite(t) \/ SeqPart(t) \/ SeqDone(t)
               \/ SysDispatch(t) \/ WaitReturns(t) \/ ReleaseIdLock(t)
               \/ ChdirSpin(t) \/ ChdirLock(t) \/ ChdirCommit(t) \/ RecordDirectory(t)
      BY <2>0, <3>3 DEF ForkSpin, ForkLock, ForkGetwd, SysLock, SysSubstitute,
           SysComposite, SeqPart, SeqDone, SysDispatch, WaitReturns, ReleaseIdLock,
           ChdirSpin, ChdirLock, ChdirCommit, RecordDirectory, table
    <3>4. ASSUME NEW w \in Commands, CreateThread(t, w) \/ Join(t, w) PROVE Own(p)
      BY <2>0, <3>4 DEF CreateThread, Join, table
    <3>5. ~ReleaseIdChdir(t)
      BY DEF ReleaseIdChdir
    <3> QED
      BY <2>2, <3>1, <3>2, <3>3, <3>4, <3>5 DEF Library
  <2>3. ASSUME NEW w \in Commands, CommandThread(w) PROVE Own(p)
    <3>1. CASE RunFunction(w)
      <4>1. job[w].fork # 0
        BY <2>0, <3>1 DEF RunFunction, StoreSelf
      <4>2. thread_ids' = [thread_ids EXCEPT ![job[w].fork] = w]
        BY <2>0, <3>1, <4>1, RunStores
      <4>3. job[w].fork = p /\ thread_ids'[p] = w
        BY <2>0, <4>2 DEF TypeInv, TypeOK
      <4> QED
        BY <4>3 DEF Own
    <3>2. CASE ReleaseThread(w)
      <4>1. w # "inflight"
        BY PidTableAssumption DEF Threads
      <4> QED
        BY <2>0, <3>2, <4>1 DEF ReleaseThread, TypeInv, TypeOK
    <3>3. CASE \/ CleanupEnter(w) \/ DrainChdir(w) \/ DrainPid(w)
               \/ RestoreDirectory(w) \/ CleanupExit(w)
      BY <2>0, <3>3 DEF CleanupEnter, DrainChdir, DrainPid, RestoreDirectory,
           CleanupExit, table
    <3> QED
      BY <2>3, <3>1, <3>2, <3>3 DEF CommandThread
  <2>4. CASE UNCHANGED vars
    BY <2>0, <2>4 DEF vars
  <2> QED
    BY <2>1, <2>2, <2>3, <2>4 DEF Next, Spin, Finished
<1> HIDE DEF Act
<1>2. Spec => [][Act]_vars
  BY <1>1, PidInvariant, PTL DEF Spec
<1> QED
  BY <1>2 DEF SentinelUnlessStrayed, Act

=============================================================================
