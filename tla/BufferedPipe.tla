---------------------------- MODULE BufferedPipe ----------------------------
(***************************************************************************)
(* The pipe of ios_buffered_pipe.c: a ring buffer behind a mutex, two      *)
(* condition variables, and two closing flags that are set without the     *)
(* mutex.  One writer and one reader, as the header asks for.              *)
(*                                                                         *)
(* Steps are cut where a thread takes or gives up the mutex and where it   *)
(* reads or sets a closing flag.  Byte k is the k-th byte the ring took.   *)
(***************************************************************************)
EXTENDS Integers, Sequences

CONSTANTS
    Capacity,   \* pipe->capacity; one byte of it is never used
    Sizes,      \* sizes of the caller's buffers
    MaxBytes,   \* bound: bytes asked to be written, over all calls
    MaxReads,   \* bound: calls of ios_pipe_read
    MaxSpurious \* bound: wakeups without a signal

ASSUME BufferedPipeAssumption ==
    /\ Capacity \in Nat \ {0}
    /\ Sizes \subseteq Nat \ {0}
    /\ MaxBytes \in Nat /\ MaxReads \in Nat
    /\ MaxSpurious \in Nat

VARIABLES
    buffer, head, tail,
    write_closed, read_closed,
    mutex,      \* "writer", "reader" or "unlocked"
    pc,         \* per thread; the two closing calls are threads of their own
    timeout,    \* per thread: "none" (0), "timed" or "infinite" (-1)
    left,       \* bytes the current write has still to place
    size,       \* size of the current read
    total_written, total_read,
    received,   \* all bytes copied to the reader
    eof,        \* a read returned 0 because write_closed was set
    asked, reads, spurious,
    cut         \* the write end was closed during a write (history)

vars == <<buffer, head, tail, write_closed, read_closed, mutex, pc, timeout,
          left, size, total_written, total_read, received, eof, asked, reads,
          spurious, cut>>

ring == <<buffer, head, tail, total_written, total_read, received>>
flags == <<write_closed, read_closed, cut>>
call == <<timeout, left, size, asked, reads>>

Index == 0 .. Capacity - 1
Timeouts == {"none", "timed", "infinite"}

\* A call of ios_pipe_write is past its look at the flags.
InWrite == pc.writer \notin {"idle", "flush", "destroyed"}

Goto(t, label) == pc' = [pc EXCEPT ![t] = label]

Init ==
    /\ buffer = [i \in Index |-> 0] /\ head = 0 /\ tail = 0
    /\ write_closed = FALSE /\ read_closed = FALSE
    /\ mutex = "unlocked"
    /\ pc = [writer |-> "idle", reader |-> "idle",
             close_write |-> "idle", close_read |-> "idle"]
    /\ timeout = [writer |-> "none", reader |-> "none"]
    /\ left = 0 /\ size = 0
    /\ total_written = 0 /\ total_read = 0
    /\ received = <<>>
    /\ eof = FALSE
    /\ asked = 0 /\ reads = 0 /\ spurious = 0 /\ cut = FALSE

-----------------------------------------------------------------------------
(* The ring.                                                               *)

\* ring_buffer_available: the two cases of head and tail.
Available == IF tail >= head THEN tail - head ELSE (Capacity - head) + tail

\* Mutant: no byte is kept free to tell a full ring from an empty one.
SpaceAll == Capacity - Available

\* ring_buffer_space: one byte less, to tell full from empty.
Space == Capacity - Available - 1

Least(a, b) == IF a < b THEN a ELSE b

\* The copies of the ring are two memcpys: the first runs to the end of the
\* buffer, the second starts at 0.  Place is where byte i (from 0) of a copy
\* that starts at p lies; Offset is the byte of that copy that lies at j.
Place(p, i) == IF i < Capacity - p THEN p + i ELSE i - (Capacity - p)
Offset(p, j) == IF j >= p THEN j - p ELSE (Capacity - p) + j

\* ring_buffer_write of n bytes.
RingWrite(n) ==
    /\ buffer' = [j \in Index |-> IF Offset(tail, j) < n
                                  THEN total_written + 1 + Offset(tail, j)
                                  ELSE buffer[j]]
    /\ tail' = (tail + n) % Capacity
    /\ total_written' = total_written + n
    /\ UNCHANGED <<head, total_read, received>>

\* ring_buffer_read of n bytes.
RingRead(n) ==
    /\ received' = received \o [i \in 1 .. n |-> buffer[Place(head, i - 1)]]
    /\ head' = (head + n) % Capacity
    /\ total_read' = total_read + n
    /\ UNCHANGED <<buffer, tail, total_written>>

Other(t) == IF t = "writer" THEN "reader" ELSE "writer"

\* t signals the condition the other thread waits on, and goes on at label.
Signal(t, label) ==
    pc' = [pc EXCEPT ![t] = label,
                     ![Other(t)] = IF @ = "wait" THEN "woken" ELSE @]

-----------------------------------------------------------------------------
(* ios_pipe_write_timeout.                                                 *)

\* The two flags are looked at before anything else.  A call on a closed pipe
\* returns -1 or 0 with no effect.
Write ==
    /\ pc.writer = "idle" /\ ~write_closed /\ ~read_closed
    /\ \E n \in Sizes, d \in Timeouts :
         /\ asked + n <= MaxBytes
         /\ asked' = asked + n
         /\ left' = n
         /\ timeout' = [timeout EXCEPT !["writer"] = d]
    /\ Goto("writer", "lock")
    /\ UNCHANGED <<ring, flags, mutex, size, eof, reads, spurious>>

\* pthread_mutex_lock at the start, or inside pthread_cond_wait after a wakeup.
Lock(t) ==
    /\ pc[t] \in {"lock", "woken", "expired"} /\ mutex = "unlocked"
    /\ mutex' = t
    /\ Goto(t, IF pc[t] = "expired" THEN "timed_out" ELSE "loop")
    /\ UNCHANGED <<ring, flags, call, eof, spurious>>

\* The top of the loop: the reader may have closed its end.
WriteCheck ==
    /\ pc.writer = "loop"
    /\ \/ read_closed /\ mutex' = "unlocked" /\ Goto("writer", "idle")
       \/ ~read_closed /\ UNCHANGED mutex /\ Goto("writer", "copy")
    /\ UNCHANGED <<ring, flags, call, eof, spurious>>

\* As much as fits; then the call is done, or it waits for space.  A signal goes
\* to the reader when anything was copied.
WriteCopy ==
    /\ pc.writer = "copy"
    /\ LET n == Least(left, Space)
           label == IF n = left THEN "idle"
                    ELSE IF timeout.writer = "none" THEN "timed_out" ELSE "wait"
       IN /\ IF n > 0 THEN RingWrite(n) ELSE UNCHANGED ring
          /\ left' = left - n
          /\ IF n > 0 THEN Signal("writer", label) ELSE Goto("writer", label)
          /\ mutex' = IF label = "timed_out" THEN mutex ELSE "unlocked"
    /\ UNCHANGED <<flags, timeout, size, asked, reads, eof, spurious>>

-----------------------------------------------------------------------------
(* ios_pipe_read_timeout.                                                  *)

\* A call after the read end was closed returns 0 with no effect.
Read ==
    /\ pc.reader = "idle" /\ ~read_closed /\ reads < MaxReads
    /\ reads' = reads + 1
    /\ \E n \in Sizes, d \in Timeouts :
         /\ size' = n
         /\ timeout' = [timeout EXCEPT !["reader"] = d]
    /\ Goto("reader", "lock")
    /\ UNCHANGED <<ring, flags, mutex, left, eof, asked, spurious>>

\* Mutant: write_closed is looked at before the ring.
ReadCopyEofFirst ==
    /\ pc.reader = "loop"
    /\ \/ /\ write_closed
          /\ eof' = TRUE
          /\ Goto("reader", "idle") /\ mutex' = "unlocked"
          /\ UNCHANGED ring
       \/ /\ ~write_closed /\ Available > 0
          /\ RingRead(Least(size, Available))
          /\ Signal("reader", "idle")
          /\ mutex' = "unlocked"
          /\ UNCHANGED eof
       \/ /\ ~write_closed /\ Available = 0
          /\ Goto("reader", "empty")
          /\ UNCHANGED <<ring, mutex, eof>>
    /\ UNCHANGED <<flags, call, spurious>>

\* Mutant: the writer is not told of the space.
ReadCopySilent ==
    /\ pc.reader = "loop"
    /\ \/ /\ Available > 0
          /\ RingRead(Least(size, Available))
          /\ Goto("reader", "idle")
          /\ mutex' = "unlocked"
       \/ /\ Available = 0
          /\ Goto("reader", "empty")
          /\ UNCHANGED <<ring, mutex>>
    /\ UNCHANGED <<flags, call, eof, spurious>>

\* What there is, up to size; an empty ring leads to the check of write_closed.
ReadCopy ==
    /\ pc.reader = "loop"
    /\ \/ /\ Available > 0
          /\ RingRead(Least(size, Available))
          /\ Signal("reader", "idle")
          /\ mutex' = "unlocked"
       \/ /\ Available = 0
          /\ Goto("reader", "empty")
          /\ UNCHANGED <<ring, mutex>>
    /\ UNCHANGED <<flags, call, eof, spurious>>

\* Mutant: end of file is not looked for; the reader waits.
ReadEmptyUnchecked ==
    /\ pc.reader = "empty"
    /\ IF timeout.reader = "none" THEN Goto("reader", "timed_out") /\ UNCHANGED mutex
       ELSE Goto("reader", "wait") /\ mutex' = "unlocked"
    /\ UNCHANGED <<ring, flags, call, eof, spurious>>

ReadEmpty ==
    /\ pc.reader = "empty"
    /\ \/ /\ write_closed
          /\ eof' = TRUE
          /\ Goto("reader", "idle") /\ mutex' = "unlocked"
       \/ /\ ~write_closed /\ timeout.reader # "none"
          /\ Goto("reader", "wait") /\ mutex' = "unlocked"
          /\ UNCHANGED eof
       \/ /\ ~write_closed /\ timeout.reader = "none"
          /\ Goto("reader", "timed_out")
          /\ UNCHANGED <<mutex, eof>>
    /\ UNCHANGED <<ring, flags, call, spurious>>

-----------------------------------------------------------------------------
(* wait_with_timeout.                                                      *)

\* The time is up; the thread competes for the mutex like one that was woken.
Expire(t) ==
    /\ pc[t] = "wait" /\ timeout[t] = "timed"
    /\ Goto(t, "expired")
    /\ UNCHANGED <<ring, flags, mutex, call, eof, spurious>>

\* pthread_cond_wait may return for no reason.
SpuriousWakeup(t) ==
    /\ pc[t] = "wait" /\ spurious < MaxSpurious
    /\ spurious' = spurious + 1
    /\ Goto(t, "woken")
    /\ UNCHANGED <<ring, flags, mutex, call, eof>>

\* ETIMEDOUT: the call returns what it has done so far.
TimedOut(t) ==
    /\ pc[t] = "timed_out"
    /\ mutex' = "unlocked"
    /\ Goto(t, "idle")
    /\ UNCHANGED <<ring, flags, call, eof, spurious>>

-----------------------------------------------------------------------------
(* Closing, flushing, destroying.                                          *)

\* The flag is set without the mutex.
CloseWrite ==
    /\ pc.close_write = "idle"
    /\ write_closed' = TRUE
    /\ cut' = InWrite
    /\ Goto("close_write", "broadcast")
    /\ UNCHANGED <<ring, read_closed, mutex, call, eof, spurious>>

CloseRead ==
    /\ pc.close_read = "idle"
    /\ read_closed' = TRUE
    /\ Goto("close_read", "broadcast")
    /\ UNCHANGED <<ring, write_closed, cut, mutex, call, eof, spurious>>

\* Then the mutex is taken for the broadcast.
CloseWriteWake ==
    /\ pc.close_write = "broadcast" /\ mutex = "unlocked"
    /\ pc' = [pc EXCEPT !["close_write"] = "closed",
                        !["reader"] = IF @ = "wait" THEN "woken" ELSE @]
    /\ UNCHANGED <<ring, flags, mutex, call, eof, spurious>>

CloseReadWake ==
    /\ pc.close_read = "broadcast" /\ mutex = "unlocked"
    /\ pc' = [pc EXCEPT !["close_read"] = "closed",
                        !["writer"] = IF @ = "wait" THEN "woken" ELSE @]
    /\ UNCHANGED <<ring, flags, mutex, call, eof, spurious>>

\* ios_pipe_flush, by the writer: polls the ring under the mutex.
Flush ==
    /\ pc.writer = "idle"
    /\ \E d \in {"timed", "infinite"} : timeout' = [timeout EXCEPT !["writer"] = d]
    /\ Goto("writer", "flush")
    /\ UNCHANGED <<ring, flags, mutex, left, size, eof, asked, reads, spurious>>

FlushPoll ==
    /\ pc.writer = "flush" /\ mutex = "unlocked"
    /\ Available = 0 \/ timeout.writer = "timed"
    /\ Goto("writer", "idle")
    /\ UNCHANGED <<ring, flags, mutex, call, eof, spurious>>

\* usleep and another look.
FlushSpin ==
    /\ pc.writer = "flush" /\ mutex = "unlocked" /\ Available > 0
    /\ UNCHANGED vars

\* ios_pipe_destroy, which must not run concurrently with anything else, closes
\* both ends (nobody waits) and frees the pipe.
Destroy ==
    /\ pc.writer = "idle" /\ pc.reader = "idle"
    /\ pc.close_write # "broadcast" /\ pc.close_read # "broadcast"
    /\ write_closed' = TRUE /\ read_closed' = TRUE
    /\ pc' = [t \in DOMAIN pc |-> "destroyed"]
    /\ UNCHANGED <<ring, cut, mutex, call, eof, spurious>>

Destroyed == pc.writer = "destroyed" /\ UNCHANGED vars

-----------------------------------------------------------------------------
Use(t) == Lock(t) \/ Expire(t) \/ TimedOut(t)

Writing == Use("writer") \/ WriteCheck \/ WriteCopy \/ FlushPoll
Reading == Use("reader") \/ ReadCopy \/ ReadEmpty
Closing == CloseWriteWake \/ CloseReadWake

Next ==
    \/ Write \/ Read \/ CloseWrite \/ CloseRead \/ Flush \/ Destroy
    \/ Writing \/ Reading \/ Closing
    \/ SpuriousWakeup("writer") \/ SpuriousWakeup("reader")
    \/ FlushSpin \/ Destroyed

Spec == Init /\ [][Next]_vars

\* A thread inside the pipe keeps running and timers fire.  Nobody has to call
\* anything, and no wakeup comes without a signal.
FairSpec ==
    Spec /\ WF_vars(Writing) /\ WF_vars(Reading)
         /\ WF_vars(CloseWriteWake) /\ WF_vars(CloseReadWake)

-----------------------------------------------------------------------------
(* Properties.                                                             *)

Labels == {"idle", "lock", "loop", "copy", "empty", "wait", "woken", "expired",
           "timed_out", "broadcast", "closed", "flush", "destroyed"}

\* Every variable keeps its type; head and tail stay inside the buffer.
TypeOK ==
    /\ buffer \in [Index -> Nat] /\ head \in Index /\ tail \in Index
    /\ write_closed \in BOOLEAN /\ read_closed \in BOOLEAN
    /\ mutex \in {"writer", "reader", "unlocked"}
    /\ pc \in [{"writer", "reader", "close_write", "close_read"} -> Labels]
    /\ timeout \in [{"writer", "reader"} -> Timeouts]
    /\ left \in Nat /\ size \in Nat
    /\ total_written \in Nat /\ total_read \in Nat
    /\ received \in Seq(Nat)
    /\ eof \in BOOLEAN
    /\ asked \in 0 .. MaxBytes /\ reads \in 0 .. MaxReads
    /\ spurious \in 0 .. MaxSpurious /\ cut \in BOOLEAN

\* The header of ios_pipe_close_write: "Reader will see EOF after draining
\* remaining data".  Unless the end was closed in the middle of a write, which goes
\* on placing bytes, a reader that was told end of file has everything: no byte is
\* on the way, and none is put into the ring afterwards.  And every variable keeps
\* its type.
EofIsFinal == TypeOK /\ (eof /\ ~cut => Available = 0)

\* No wakeup is lost: a read that could return data or end of file returns,
\* however it raced with the copy, the signal, the flag and the broadcast.
ReaderServed ==
    (pc.reader # "idle" /\ (Available > 0 \/ write_closed))
    ~> (pc.reader \in {"idle", "destroyed"})

\* A write does not sleep while there is space, and one whose reader has closed
\* its end returns.
WriterServed ==
    /\ (pc.writer = "wait" /\ Space > 0) ~> (pc.writer # "wait")
    /\ (InWrite /\ read_closed) ~> ~InWrite

-----------------------------------------------------------------------------
(* The pipe implements ByteQueue.                                          *)

Contents == [i \in 1 .. Available |-> buffer[Place(head, i - 1)]]

Abstract == INSTANCE ByteQueue WITH
    Limit    <- Capacity - 1,
    sent     <- total_written,
    queue    <- Contents,
    received <- received

\* The bytes read are the bytes written, each once and in order, however the
\* copies wrap around the end of the buffer and whatever ends a call early.
ImplementsByteQueue == Abstract!Spec

=============================================================================
