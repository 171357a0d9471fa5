------------------------- MODULE BufferedPipeProofs -------------------------
(***************************************************************************)
(* Proofs about BufferedPipe, for every capacity, every set of buffer      *)
(* sizes and every bound on the calls.                                     *)
(*                                                                         *)
(* The arithmetic comes first: indices run at most once around the buffer, *)
(* so a write of at most Space bytes lands behind the bytes on the way and *)
(* a read of at most Available bytes takes them from the front.  With it   *)
(* the two copies are Put and Take of ByteQueue and all else stutters.     *)
(* End of file needs to know who holds the mutex: the reader decides it    *)
(* on an empty ring, behind a closed write end that no writer is inside.   *)
(***************************************************************************)
EXTENDS BufferedPipe, SequenceTheorems, TLAPS

\* Who holds the mutex is where only its holder can be.
MutexInv ==
    /\ (mutex = "writer") <=> (pc["writer"] \in {"loop", "copy", "timed_out"})
    /\ (mutex = "reader") <=> (pc["reader"] \in {"loop", "empty", "timed_out"})

\* End of file is decided on an empty ring, behind a closed write end.
EofInv ==
    /\ pc["reader"] = "empty" => Available = 0
    /\ write_closed => pc["close_write"] # "idle"
    /\ write_closed /\ ~cut => ~InWrite
    /\ eof => write_closed
    /\ eof /\ ~cut => Available = 0

\* A read under way asks for at least one byte.
ReadSize == pc["reader"] \notin {"idle", "destroyed"} => size > 0

PipeInv == TypeOK /\ MutexInv /\ EofInv /\ ReadSize

-----------------------------------------------------------------------------
(* Arithmetic of the ring.                                                 *)

\* An index that has run at most once around the buffer.
LEMMA ModWrap ==
    ASSUME NEW a \in Nat, a < 2 * Capacity
    PROVE  a % Capacity = IF a < Capacity THEN a ELSE a - Capacity
  BY BufferedPipeAssumption, SMTT(20)

\* The ring holds between 0 and Capacity - 1 bytes.
LEMMA AvailableType ==
    ASSUME TypeOK
    PROVE  /\ Available \in 0 .. Capacity - 1 /\ Space \in 0 .. Capacity - 1
           /\ Available + Space = Capacity - 1
  BY BufferedPipeAssumption DEF TypeOK, Index, Available, Space

\* A write that fits leaves tail inside the buffer and adds its bytes.
LEMMA WriteArithmetic ==
    ASSUME TypeOK, NEW n \in 1 .. Space, RingWrite(n)
    PROVE  /\ tail' \in Index /\ Available' = Available + n
<1>1. tail \in Nat /\ n \in Nat /\ tail + n < 2 * Capacity /\ Capacity \in Nat \ {0}
  BY BufferedPipeAssumption, AvailableType DEF TypeOK, Index
<1>2. tail' = (tail + n) % Capacity /\ head' = head
  BY DEF RingWrite
<1>3. tail' = IF tail + n < Capacity THEN tail + n ELSE tail + n - Capacity
  BY <1>1, <1>2, ModWrap
<1>4. head \in Index /\ tail \in Index /\ n <= Space
  BY AvailableType DEF TypeOK
<1> QED
  BY <1>1, <1>2, <1>3, <1>4 DEF Index, Available, Space

\* A read leaves head inside the buffer, and the other bytes where they were.
LEMMA ReadArithmetic ==
    ASSUME TypeOK, NEW n \in 1 .. Available, RingRead(n)
    PROVE  /\ head' \in Index /\ Available' = Available - n
           /\ \A i \in 1 .. Available - n : Place(head', i - 1) = Place(head, n + i - 1)
<1>1. head \in Nat /\ n \in Nat /\ head + n < 2 * Capacity /\ Capacity \in Nat \ {0}
  BY BufferedPipeAssumption, AvailableType DEF TypeOK, Index
<1>2. head' = (head + n) % Capacity /\ tail' = tail
  BY DEF RingRead
<1>3. head' = IF head + n < Capacity THEN head + n ELSE head + n - Capacity
  BY <1>1, <1>2, ModWrap
<1>4. head \in Index /\ tail \in Index /\ n <= Available
  BY AvailableType DEF TypeOK
<1>5. head' \in Index /\ Available' = Available - n
  BY <1>1, <1>2, <1>3, <1>4 DEF Index, Available
<1> QED
  BY <1>1, <1>2, <1>3, <1>4, <1>5 DEF Index, Available, Place

\* Where the i-th place from head lies, counted from tail: the bytes on the way come
\* last before tail, the free places start at it.
LEMMA PlaceArithmetic ==
    ASSUME TypeOK, NEW i \in 0 .. Capacity - 1
    PROVE  /\ Place(head, i) \in Index
           /\ i < Available => Offset(tail, Place(head, i)) = Capacity - Available + i
           /\ i >= Available => Offset(tail, Place(head, i)) = i - Available
  BY BufferedPipeAssumption DEF TypeOK, Index, Available, Place, Offset

-----------------------------------------------------------------------------
(* The copies of the ring are the steps of the queue.                      *)

\* The bytes on the way are a sequence as long as ring_buffer_available says.
LEMMA ContentsType ==
    ASSUME TypeOK
    PROVE  /\ Contents \in Seq(Nat) /\ Len(Contents) = Available
           /\ \A i \in 1 .. Available : Contents[i] = buffer[Place(head, i - 1)]
<1>1. Available \in 0 .. Capacity - 1
  BY AvailableType
<1>2. \A i \in 1 .. Available : Place(head, i - 1) \in Index
  BY <1>1, PlaceArithmetic, BufferedPipeAssumption
<1>3. \A i \in 1 .. Available : buffer[Place(head, i - 1)] \in Nat
  BY <1>2 DEF TypeOK
<1> QED
  BY <1>1, <1>3 DEF Contents

\* ring_buffer_write appends the next bytes, and overwrites none that is on the way.
LEMMA RingWritePuts ==
    ASSUME TypeOK, NEW n \in 1 .. Space, RingWrite(n)
    PROVE  Contents' = Contents \o [i \in 1 .. n |-> total_written + i]
<1> DEFINE new == [i \in 1 .. n |-> total_written + i]
<1>1. /\ Available \in 0 .. Capacity - 1 /\ n \in Nat /\ total_written \in Nat
      /\ Available + n <= Capacity - 1 /\ Available' = Available + n
      /\ Capacity \in Nat \ {0}
  BY AvailableType, WriteArithmetic, BufferedPipeAssumption DEF TypeOK
<1>2. /\ Contents \in Seq(Nat) /\ Len(Contents) = Available
      /\ \A i \in 1 .. Available : Contents[i] = buffer[Place(head, i - 1)]
  BY ContentsType
<1>3. new \in Seq(Nat) /\ Len(new) = n /\ \A i \in 1 .. n : new[i] = total_written + i
  BY <1>1
<1> HIDE DEF new
<1>4. /\ Contents \o new \in Seq(Nat) /\ Len(Contents \o new) = Available + n
      /\ \A i \in 1 .. Available + n :
           (Contents \o new)[i] = IF i <= Available THEN Contents[i] ELSE new[i - Available]
  BY <1>1, <1>2, <1>3, ConcatProperties, ZenonT(30)
<1>5. Contents' = [i \in 1 .. Available + n |-> buffer'[Place(head, i - 1)]]
  BY <1>1 DEF Contents, RingWrite, Place
<1>6. ASSUME NEW i \in 1 .. Available + n
      PROVE  buffer'[Place(head, i - 1)] = (Contents \o new)[i]
  <2>1. i - 1 \in 0 .. Capacity - 1
    BY <1>1
  <2>2. /\ Place(head, i - 1) \in Index
        /\ i <= Available => Offset(tail, Place(head, i - 1)) = Capacity - Available + (i - 1)
        /\ i > Available => Offset(tail, Place(head, i - 1)) = i - 1 - Available
    BY <1>1, <2>1, PlaceArithmetic
  <2>3. buffer'[Place(head, i - 1)] = IF Offset(tail, Place(head, i - 1)) < n
                  THEN total_written + 1 + Offset(tail, Place(head, i - 1))
                  ELSE buffer[Place(head, i - 1)]
    BY <2>2 DEF RingWrite
  <2>4. CASE i <= Available
    BY <1>1, <1>2, <1>4, <2>2, <2>3, <2>4
  <2>5. CASE i > Available
    <3>1. buffer'[Place(head, i - 1)] = total_written + (i - Available)
      BY <1>1, <2>2, <2>3, <2>5
    <3>2. i - Available \in 1 .. n /\ ~(i <= Available)
      BY <1>1, <2>5
    <3>3. (Contents \o new)[i] = new[i - Available]
      BY <1>4, <3>2
    <3> QED
      BY <1>3, <3>1, <3>2, <3>3
  <2>6. i <= Available \/ i > Available
    BY <1>1
  <2> QED
    BY <2>4, <2>5, <2>6
<1>7. Contents \o new = [i \in 1 .. Available + n |-> (Contents \o new)[i]]
  BY <1>4, LenProperties
<1> QED
  BY <1>5, <1>6, <1>7 DEF new

\* ring_buffer_read takes the oldest bytes, in order, across the end of the buffer.
LEMMA RingReadTakes ==
    ASSUME TypeOK, NEW n \in 1 .. Available, RingRead(n)
    PROVE  /\ received' = received \o SubSeq(Contents, 1, n)
           /\ Contents' = SubSeq(Contents, n + 1, Len(Contents))
<1>1. /\ Available \in 0 .. Capacity - 1 /\ n \in Nat /\ n <= Available
      /\ Available' = Available - n /\ Capacity \in Nat \ {0}
      /\ \A i \in 1 .. Available - n : Place(head', i - 1) = Place(head, n + i - 1)
  BY AvailableType, ReadArithmetic, BufferedPipeAssumption
<1>2. /\ Contents \in Seq(Nat) /\ Len(Contents) = Available
      /\ \A i \in 1 .. Available : Contents[i] = buffer[Place(head, i - 1)]
  BY ContentsType
<1>3. SubSeq(Contents, 1, n) = [i \in 1 .. n |-> Contents[i]]
  BY <1>1, <1>2
<1>4. [i \in 1 .. n |-> buffer[Place(head, i - 1)]] = [i \in 1 .. n |-> Contents[i]]
  BY <1>1, <1>2
<1>5. received' = received \o SubSeq(Contents, 1, n)
  BY <1>3, <1>4 DEF RingRead
<1>6. SubSeq(Contents, n + 1, Available) = [i \in 1 .. Available - n |-> Contents[n + i]]
  BY <1>1, <1>2
<1>7. Contents' = [i \in 1 .. Available - n |-> buffer[Place(head', i - 1)]]
  BY <1>1 DEF Contents, RingRead, Place
<1>8. \A i \in 1 .. Available - n : buffer[Place(head', i - 1)] = Contents[n + i]
  <2> SUFFICES ASSUME NEW i \in 1 .. Available - n
               PROVE  buffer[Place(head', i - 1)] = Contents[n + i]
    OBVIOUS
  <2>1. n + i \in 1 .. Available
    BY <1>1
  <2>2. Contents[n + i] = buffer[Place(head, (n + i) - 1)]
    BY <1>2, <2>1
  <2> QED
    BY <1>1, <2>2
<1> QED
  BY <1>2, <1>5, <1>6, <1>7, <1>8

-----------------------------------------------------------------------------
(* Types, the mutex and end of file.                                       *)

\* A new pipe is empty and nobody is inside.
LEMMA PipeInvInit == Init => PipeInv
<1> SUFFICES ASSUME Init PROVE PipeInv
  OBVIOUS
<1> USE BufferedPipeAssumption DEF Init
<1>1. TypeOK
  <2>1. /\ write_closed \in BOOLEAN /\ read_closed \in BOOLEAN /\ eof \in BOOLEAN
        /\ cut \in BOOLEAN
    BY Zenon
  <2>2. buffer \in [Index -> Nat] /\ head \in Index /\ tail \in Index
    BY DEF Index
  <2>3. /\ pc \in [{"writer", "reader", "close_write", "close_read"} -> Labels]
        /\ timeout \in [{"writer", "reader"} -> Timeouts]
    BY DEF Labels, Timeouts
  <2>4. /\ received \in Seq(Nat)
        /\ asked \in 0 .. MaxBytes /\ reads \in 0 .. MaxReads
        /\ spurious \in 0 .. MaxSpurious
    OBVIOUS
  <2> QED
    BY <2>1, <2>2, <2>3, <2>4 DEF TypeOK
<1>2. MutexInv /\ EofInv /\ ReadSize
  BY DEF MutexInv, EofInv, ReadSize, Available, InWrite
<1> QED
  BY <1>1, <1>2 DEF PipeInv

\* A step that leaves head and tail alone leaves the number of bytes alone.
LEMMA RingQuiet == ASSUME UNCHANGED ring PROVE Available' = Available
  BY DEF ring, Available

\* Every step keeps the types, the mutex and what end of file stands on.
LEMMA PipeInvStep == PipeInv /\ [Next]_vars => PipeInv'
<1> SUFFICES ASSUME PipeInv, [Next]_vars PROVE PipeInv'
  OBVIOUS
<1> USE BufferedPipeAssumption
        DEF PipeInv, TypeOK, MutexInv, EofInv, ReadSize, InWrite, Labels, Goto, flags, call
<1>1. CASE Write
  BY <1>1, RingQuiet DEF Write, Timeouts, ring
<1>2. CASE Read
  BY <1>2, RingQuiet DEF Read, Timeouts, ring
<1>3. CASE CloseWrite
  BY <1>3, RingQuiet DEF CloseWrite, ring
<1>4. CASE CloseRead
  BY <1>4, RingQuiet DEF CloseRead, ring
<1>5. CASE Flush
  BY <1>5, RingQuiet DEF Flush, Timeouts, ring
<1>6. CASE Destroy
  BY <1>6, RingQuiet DEF Destroy, ring
<1>7. ASSUME NEW t \in {"writer", "reader"}, Lock(t) PROVE PipeInv'
  BY <1>7, RingQuiet DEF Lock, ring
<1>8. ASSUME NEW t \in {"writer", "reader"}, Expire(t) PROVE PipeInv'
  BY <1>8, RingQuiet DEF Expire, ring
<1>9. ASSUME NEW t \in {"writer", "reader"}, TimedOut(t) PROVE PipeInv'
  BY <1>9, RingQuiet DEF TimedOut, ring
<1>10. ASSUME NEW t \in {"writer", "reader"}, SpuriousWakeup(t) PROVE PipeInv'
  BY <1>10, RingQuiet DEF SpuriousWakeup, ring
<1>11. CASE WriteCheck
  BY <1>11, RingQuiet DEF WriteCheck, ring
<1>12. CASE FlushPoll
  BY <1>12, RingQuiet DEF FlushPoll, ring
<1>13. CASE ReadEmpty
  <2>1. CASE write_closed
    <3>1. eof' = TRUE /\ write_closed' = write_closed /\ cut' = cut
      BY <1>13, <2>1 DEF ReadEmpty
    <3>2. Available = 0 /\ Available' = 0
      BY <1>13, RingQuiet DEF ReadEmpty
    <3>3. eof' \in BOOLEAN
      BY <3>1, Zenon
    <3> QED
      BY <1>13, <2>1, <3>1, <3>2, <3>3 DEF ReadEmpty, ring
  <2>2. CASE ~write_closed /\ timeout.reader # "none"
    BY <1>13, <2>2, RingQuiet DEF ReadEmpty, ring
  <2>3. CASE ~write_closed /\ timeout.reader = "none"
    BY <1>13, <2>3, RingQuiet DEF ReadEmpty, ring
  <2> QED
    BY <1>13, <2>1, <2>2, <2>3 DEF ReadEmpty
<1>14. CASE CloseWriteWake
  BY <1>14, RingQuiet DEF CloseWriteWake, ring
<1>15. CASE CloseReadWake
  BY <1>15, RingQuiet DEF CloseReadWake, ring
<1>16. CASE WriteCopy
  <2> DEFINE n == Least(left, Space)
             label == IF n = left THEN "idle"
                      ELSE IF timeout.writer = "none" THEN "timed_out" ELSE "wait"
  <2>1. /\ Space \in 0 .. Capacity - 1 /\ Available \in Nat
        /\ n \in 0 .. Space /\ left - n \in Nat
    BY AvailableType DEF Least
  <2>2. /\ IF n > 0 THEN RingWrite(n) ELSE UNCHANGED ring
        /\ left' = left - n
        /\ IF n > 0 THEN Signal("writer", label) ELSE Goto("writer", label)
        /\ mutex' = IF label = "timed_out" THEN mutex ELSE "unlocked"
        /\ pc.writer = "copy"
        /\ UNCHANGED <<flags, timeout, size, asked, reads, eof, spurious>>
    BY <1>16 DEF WriteCopy
  <2>3. label \in {"idle", "timed_out", "wait"}
    OBVIOUS
  <2> HIDE DEF n, label
  <2>4. /\ buffer' \in [Index -> Nat] /\ head' \in Index /\ tail' \in Index
        /\ total_written' \in Nat /\ total_read' \in Nat /\ received' \in Seq(Nat)
    <3>1. CASE n > 0
      <4>1. n \in 1 .. Space /\ RingWrite(n)
        BY <2>1, <2>2, <3>1
      <4>2. tail' \in Index
        BY <4>1, WriteArithmetic
      <4>3. buffer' \in [Index -> Nat]
        BY <4>1 DEF RingWrite, Offset, Index
      <4> QED
        BY <4>1, <4>2, <4>3 DEF RingWrite
    <3>2. CASE ~(n > 0)
      BY <2>2, <3>2 DEF ring
    <3> QED
      BY <3>1, <3>2
  <2>5. /\ pc' \in [{"writer", "reader", "close_write", "close_read"} -> Labels]
        /\ pc'["writer"] = label
        /\ pc'["close_write"] = pc["close_write"]
        /\ \/ pc'["reader"] = pc["reader"]
           \/ pc["reader"] = "wait" /\ pc'["reader"] = "woken"
    BY <2>2, <2>3 DEF Signal, Other
  <2>6. ~eof \/ cut
    BY <2>2
  <2>7. left' \in Nat /\ mutex' \in {"writer", "unlocked"}
    BY <2>1, <2>2
  <2>8. TypeOK'
    BY <2>2, <2>4, <2>5, <2>7
  <2>9. MutexInv' /\ ReadSize'
    BY <2>2, <2>3, <2>5
  <2>10. EofInv'
    BY <2>2, <2>3, <2>5, <2>6
  <2> QED
    BY <2>8, <2>9, <2>10
<1>17. CASE ReadCopy
  <2>1. CASE Available > 0
    <3> DEFINE n == Least(size, Available)
    <3>1. n \in 1 .. Available
      BY <1>17, <2>1, AvailableType DEF ReadCopy, Least
    <3>2. /\ RingRead(n) /\ Signal("reader", "idle") /\ mutex' = "unlocked"
          /\ pc.reader = "loop" /\ UNCHANGED <<flags, call, eof, spurious>>
      BY <1>17, <2>1 DEF ReadCopy
    <3> HIDE DEF n
    <3>3. head' \in Index
      BY <3>1, <3>2, ReadArithmetic
    <3>4. received' \in Seq(Nat)
      <4>1. received' = received \o SubSeq(Contents, 1, n)
        BY <3>1, <3>2, RingReadTakes
      <4>2. Contents \in Seq(Nat) /\ Len(Contents) = Available
        BY ContentsType
      <4>3. SubSeq(Contents, 1, n) \in Seq(Nat)
        BY <3>1, <4>2, AvailableType
      <4> QED
        BY <4>1, <4>3, ConcatProperties
    <3>5. /\ buffer' = buffer /\ tail' = tail /\ total_written' = total_written
          /\ total_read' \in Nat
      BY <3>1, <3>2, AvailableType DEF RingRead
    <3>6. /\ pc' \in [{"writer", "reader", "close_write", "close_read"} -> Labels]
          /\ pc'["reader"] = "idle"
          /\ pc'["close_write"] = pc["close_write"]
          /\ \/ pc'["writer"] = pc["writer"]
             \/ pc["writer"] = "wait" /\ pc'["writer"] = "woken"
      BY <3>2 DEF Signal, Other
    <3>7. ~eof \/ cut
      BY <2>1
    <3>8. TypeOK'
      BY <3>2, <3>3, <3>4, <3>5, <3>6
    <3>9. MutexInv' /\ ReadSize'
      BY <3>2, <3>6
    <3>10. EofInv'
      BY <3>2, <3>6, <3>7
    <3> QED
      BY <3>8, <3>9, <3>10
  <2>2. CASE ~(Available > 0)
    <3>1. Available = 0
      BY <2>2, AvailableType
    <3> QED
      BY <1>17, <2>2, <3>1, RingQuiet DEF ReadCopy, ring
  <2> QED
    BY <2>1, <2>2
<1>18. CASE UNCHANGED vars
  BY <1>18, RingQuiet DEF vars, ring
<1> QED
  BY <1>1, <1>2, <1>3, <1>4, <1>5, <1>6, <1>7, <1>8, <1>9, <1>10, <1>11,
     <1>12, <1>13, <1>14, <1>15, <1>16, <1>17, <1>18
  DEF Next, Writing, Reading, Closing, Use, FlushSpin, Destroyed

\* A reader that was told end of file has every byte, unless the write end was closed
\* in the middle of a write; head and tail stay inside the buffer and no count
\* underflows, for every capacity.
THEOREM EofAfterDraining == Spec => []EofIsFinal
<1>1. PipeInv => EofIsFinal
  BY DEF PipeInv, EofInv, EofIsFinal
<1> QED
  BY <1>1, PipeInvInit, PipeInvStep, PTL DEF Spec

-----------------------------------------------------------------------------
(* The pipe is a queue of bytes.                                           *)

\* A step that does not copy is a stutter of the queue.
LEMMA QueueStutters ==
    ASSUME UNCHANGED ring PROVE UNCHANGED <<total_written, Contents, received>>
<1>1. UNCHANGED <<buffer, head, tail, total_written, received>>
  BY DEF ring
<1>2. Contents' = Contents
  BY <1>1 DEF Contents, Available, Place
<1> QED
  BY <1>1, <1>2

\* Every step of the pipe is a step of the queue.
LEMMA QueueStep ==
    ASSUME PipeInv, [Next]_vars PROVE [Abstract!Next]_(Abstract!vars)
<1> USE DEF Abstract!Next, Abstract!vars
<1>1. CASE WriteCopy
  <2> DEFINE n == Least(left, Space)
  <2>1. IF n > 0 THEN RingWrite(n) ELSE UNCHANGED ring
    BY <1>1 DEF WriteCopy
  <2>2. CASE n > 0
    <3>1. n \in 1 .. Space /\ RingWrite(n)
      BY <2>1, <2>2, AvailableType DEF Least, PipeInv, TypeOK
    <3>2. n \in 1 .. (Capacity - 1) - Len(Contents)
      BY <3>1, AvailableType, ContentsType, BufferedPipeAssumption DEF PipeInv
    <3>3. Contents' = Contents \o [i \in 1 .. n |-> total_written + i]
      BY <3>1, RingWritePuts DEF PipeInv
    <3> HIDE DEF n
    <3>4. Abstract!Put
      BY <3>1, <3>2, <3>3 DEF Abstract!Put, RingWrite
    <3> QED
      BY <3>4
  <2>3. CASE ~(n > 0)
    BY <2>1, <2>3, QueueStutters
  <2> QED
    BY <2>2, <2>3
<1>2. CASE ReadCopy
  <2>1. CASE Available > 0
    <3> DEFINE n == Least(size, Available)
    <3>1. n \in 1 .. Available /\ RingRead(n)
      BY <1>2, <2>1, AvailableType DEF ReadCopy, Least, PipeInv, TypeOK, ReadSize
    <3>2. n \in 1 .. Len(Contents)
      BY <3>1, ContentsType DEF PipeInv
    <3>3. /\ received' = received \o SubSeq(Contents, 1, n)
          /\ Contents' = SubSeq(Contents, n + 1, Len(Contents))
      BY <3>1, RingReadTakes DEF PipeInv
    <3> HIDE DEF n
    <3>4. Abstract!Take
      BY <3>1, <3>2, <3>3 DEF Abstract!Take, RingRead
    <3> QED
      BY <3>4
  <2>2. CASE ~(Available > 0)
    BY <1>2, <2>2, QueueStutters DEF ReadCopy
  <2> QED
    BY <2>1, <2>2
<1>3. CASE \/ Write \/ Read \/ CloseWrite \/ CloseRead \/ Flush \/ Destroy
           \/ Use("writer") \/ WriteCheck \/ FlushPoll \/ Use("reader") \/ ReadEmpty
           \/ Closing \/ SpuriousWakeup("writer") \/ SpuriousWakeup("reader")
           \/ FlushSpin \/ Destroyed \/ UNCHANGED vars
  <2>1. UNCHANGED ring
    BY <1>3 DEF Write, Read, CloseWrite, CloseRead, Flush, Destroy, Use, Lock, Expire,
       TimedOut, WriteCheck, FlushPoll, ReadEmpty, Closing, CloseWriteWake,
       CloseReadWake, SpuriousWakeup, FlushSpin, Destroyed, vars, ring
  <2> QED
    BY <2>1, QueueStutters
<1> QED
  BY <1>1, <1>2, <1>3 DEF Next, Writing, Reading

\* ios_buffered_pipe.c implements a queue of at most capacity - 1 bytes: every byte that
\* ios_pipe_write placed comes out of ios_pipe_read once and in order, however the two
\* memcpys wrap and whatever closes, times out or wakes spuriously.
THEOREM PipeRefinesQueue == Spec => ImplementsByteQueue
<1>1. Init => Abstract!Init
  <2> SUFFICES ASSUME Init PROVE Abstract!Init
    OBVIOUS
  <2>1. Available = 0
    BY DEF Init, Available
  <2>2. Contents = <<>>
    BY <2>1 DEF Contents
  <2> QED
    BY <2>2 DEF Init, Abstract!Init
<1>2. PipeInv /\ [Next]_vars => [Abstract!Next]_(Abstract!vars)
  BY QueueStep
<1> QED
  BY <1>1, <1>2, PipeInvInit, PipeInvStep, PTL
  DEF Spec, ImplementsByteQueue, Abstract!Spec

-----------------------------------------------------------------------------
(* What the queue is good for.                                             *)

\* What was read, followed by what is in the ring, is exactly what was written: byte
\* number k is at place k, none lost, doubled or swapped.
NothingLostOrSwapped == received \o Contents = [i \in 1 .. total_written |-> i]

\* Put appends the next bytes, Take moves the oldest ones across.
LEMMA InOrderStep ==
    ASSUME PipeInv, [Next]_vars, NothingLostOrSwapped
    PROVE  NothingLostOrSwapped'
<1>1. /\ Contents \in Seq(Nat) /\ received \in Seq(Nat) /\ total_written \in Nat
      /\ Len(Contents) \in Nat
  BY ContentsType, LenProperties DEF PipeInv, TypeOK
<1>2. [Abstract!Next]_(Abstract!vars)
  BY QueueStep
<1>3. CASE Abstract!Put
  <2>1. PICK n \in 1 .. (Capacity - 1) - Len(Contents) :
          /\ total_written' = total_written + n
          /\ Contents' = Contents \o [i \in 1 .. n |-> total_written + i]
          /\ received' = received
    BY <1>3 DEF Abstract!Put
  <2> DEFINE new == [i \in 1 .. n |-> total_written + i]
             old == [i \in 1 .. total_written |-> i]
             all == [i \in 1 .. total_written + n |-> i]
  <2>2. n \in Nat
    BY <1>1, <2>1, BufferedPipeAssumption
  <2>3. /\ new \in Seq(Nat) /\ Len(new) = n /\ \A i \in 1 .. n : new[i] = total_written + i
        /\ old \in Seq(Nat) /\ Len(old) = total_written
        /\ \A i \in 1 .. total_written : old[i] = i
        /\ all \in Seq(Nat) /\ Len(all) = total_written + n
        /\ \A i \in 1 .. total_written + n : all[i] = i
    BY <1>1, <2>2
  <2> HIDE DEF new, old, all
  <2>4. received' \o Contents' = old \o new
    <3>1. (received \o Contents) \o new = received \o (Contents \o new)
      <4>1. received \in Seq(Nat) /\ Contents \in Seq(Nat) /\ new \in Seq(Nat)
        BY <1>1, <2>3
      <4> QED
        BY <4>1
    <3> QED
      BY <2>1, <3>1, Zenon DEF NothingLostOrSwapped, old, new
  <2>5. /\ old \o new \in Seq(Nat) /\ Len(old \o new) = total_written + n
        /\ \A i \in 1 .. total_written + n :
             (old \o new)[i] = IF i <= total_written THEN old[i] ELSE new[i - total_written]
    <3>1. Len(old) = total_written /\ Len(new) = n
      BY <2>3
    <3>2. /\ old \o new \in Seq(Nat) /\ Len(old \o new) = Len(old) + Len(new)
          /\ \A i \in 1 .. Len(old) + Len(new) :
               (old \o new)[i] = IF i <= Len(old) THEN old[i] ELSE new[i - Len(old)]
      <4>1. old \in Seq(Nat) /\ new \in Seq(Nat)
        BY <2>3
      <4> QED
        BY <4>1, ConcatProperties
    <3> QED
      BY <3>1, <3>2
  <2>6. ASSUME NEW i \in 1 .. total_written + n PROVE (old \o new)[i] = i
    <3>1. CASE i <= total_written
      BY <1>1, <2>2, <2>3, <2>5, <3>1
    <3>2. CASE i > total_written
      <4>1. i - total_written \in 1 .. n
        BY <1>1, <2>2, <3>2
      <4>2. new[i - total_written] = i
        BY <1>1, <2>3, <4>1
      <4> QED
        BY <1>1, <2>2, <2>5, <3>2, <4>2, SMTT(30)
    <3>3. i <= total_written \/ i > total_written
      BY <1>1, <2>2
    <3> QED
      BY <3>1, <3>2, <3>3
  <2>7. old \o new = all
    BY <2>3, <2>5, <2>6, SeqEqual, ZenonT(30)
  <2> QED
    BY <2>1, <2>4, <2>7 DEF NothingLostOrSwapped, all
<1>4. CASE Abstract!Take
  <2>1. PICK n \in 1 .. Len(Contents) :
          /\ received' = received \o SubSeq(Contents, 1, n)
          /\ Contents' = SubSeq(Contents, n + 1, Len(Contents))
          /\ total_written' = total_written
    BY <1>4 DEF Abstract!Take
  <2> DEFINE front == SubSeq(Contents, 1, n)
             back == SubSeq(Contents, n + 1, Len(Contents))
  <2>2. front \in Seq(Nat) /\ back \in Seq(Nat)
    BY <1>1
  <2>3. front \o back = Contents
    <3>1. front \o back = SubSeq(Contents, 1, Len(Contents))
      BY <1>1, ConcatAdjacentSubSeq
    <3> QED
      BY <1>1, <3>1, SubSeqFull
  <2> HIDE DEF front, back
  <2>4. (received \o front) \o back = received \o Contents
    <3>1. (received \o front) \o back = received \o (front \o back)
      <4>1. received \in Seq(Nat) /\ front \in Seq(Nat) /\ back \in Seq(Nat)
        BY <1>1, <2>2
      <4> QED
        BY <4>1, SMTT(30)
    <3> QED
      BY <2>3, <3>1
  <2> QED
    BY <2>1, <2>4 DEF NothingLostOrSwapped, front, back
<1>5. CASE UNCHANGED Abstract!vars
  BY <1>5 DEF Abstract!vars, NothingLostOrSwapped
<1> QED
  BY <1>2, <1>3, <1>4, <1>5 DEF Abstract!Next

\* End to end: at every moment the bytes that ios_pipe_read has handed out are the first
\* bytes that ios_pipe_write took, and the rest is in the ring.
THEOREM BytesDeliveredInOrder == Spec => []NothingLostOrSwapped
<1>1. Init => NothingLostOrSwapped
  <2> SUFFICES ASSUME Init PROVE NothingLostOrSwapped
    OBVIOUS
  <2>1. Available = 0
    BY DEF Init, Available
  <2>2. Contents = <<>> /\ received = <<>> /\ total_written = 0
    BY <2>1 DEF Contents, Init
  <2> QED
    BY <2>2 DEF NothingLostOrSwapped
<1>2. PipeInv /\ [Next]_vars /\ NothingLostOrSwapped => NothingLostOrSwapped'
  BY InOrderStep
<1> QED
  BY <1>1, <1>2, PipeInvInit, PipeInvStep, PTL DEF Spec

=============================================================================
