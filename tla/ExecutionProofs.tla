-------------------------- MODULE ExecutionProofs --------------------------
(***************************************************************************)
(* Proofs about the two ways of running commands on threads of their own:  *)
(* Pipeline, with the SessionCancel it extends, for every number of stages *)
(* and of killers; and, in the second half, AsyncCommand, for every set of *)
(* clients and every bound on the number of calls.                         *)
(*                                                                         *)
(* Three invariants for a pipeline.  TypeInv counts: every byte in the     *)
(* cancel pipe, and every request on its way, belongs to a call of         *)
(* ios_kill_session of its own.  CancelInv says what the flag and the pipe *)
(* hold while a request or a clear is half done.  StageInv ties a stage's  *)
(* thread, its command, its streams and the caller together: whatever the  *)
(* host's joinMainThread, it is TRUE for a stage that has forced it and    *)
(* not yet come back from ios_system, unless another stage lifted it.      *)
(*                                                                         *)
(* One for an asynchronous command.  The reference count alone does not    *)
(* protect the handle: the thread takes its reference late.  AsyncInv      *)
(* therefore says who holds a reference and, when nobody released early,   *)
(* that a thread on its way to free the handle is the only one left inside.*)
(***************************************************************************)
EXTENDS Pipeline, AsyncCommand, FiniteSetTheorems, TLAPS

\* The killers inside a request.
Requests == {k \in Killers : kpc[k] # "idle"}

\* A byte per call of ios_kill_session at most.
BytesCounted ==
    IsFiniteSet(Requests) /\ wake_bytes + Cardinality(Requests) <= kills

\* A thread that is to drain the pipe is between the two steps of its clear.
Drainers == \A s \in Stages : spc[s] = "drain" => s \in clearing

TypeInv == TypeOK /\ BytesCounted /\ Drainers

\* While a request is between flag and byte nobody else is and the pipe is empty;
\* while a clear is between flag and drain the flag is down.
HalfDone ==
    /\ Requesting => clearing = {} /\ cancel_requested /\ wake_bytes = 0
    /\ \A j, k \in Killers : kpc[j] = "write" /\ kpc[k] = "write" => j = k
    /\ clearing # {} => ~cancel_requested

CancelInv == ~crossed => HalfDone /\ FlagAndByteAgree

\* The stages that are not launched yet, and the ones the caller has joined.
NotLaunched(s) == caller[1] = "launch" /\ caller[2] <= s
Joined(s) ==
    caller[1] \in {"returned", "freed"} \/ (caller[1] = "wait" /\ s < caller[2])

\* joinMainThread is TRUE while ios_system has to read it for the stage, so its command
\* is not detached.  Its command lives only while its thread is about to join it, its
\* streams are open until its thread closes them, and once it is joined it is over.
StageOK(s) ==
    /\ ~detached[s]
    /\ s \in Relying => joinMainThread
    /\ Live(s) => spc[s] \in {"created", "join"}
    /\ NotLaunched(s) => spc[s] = "none" /\ in_open[s] /\ out_open[s]
    /\ spc[s] \notin {"none", "close_in", "finish", "exited", "undefined"} => out_open[s]
    /\ spc[s] \notin {"none", "finish", "exited"} => in_open[s]
    /\ Joined(s) => spc[s] = "none"

StagesOK == \A s \in Stages : StageOK(s)

StageInv == ~lifted => StagesOK

-----------------------------------------------------------------------------
(* Types, and a byte per call of ios_kill_session.                         *)

\* Nothing is requested and nothing launched.
LEMMA TypeInvInit == Init => TypeInv
<1> SUFFICES ASSUME Init PROVE TypeInv
  OBVIOUS
<1> USE PipelineAssumption, SessionCancelAssumption DEF Init, CancelInit
<1>1. TypeOK
  <2>1. CancelTypeOK(Stages)
    <3>1. cancel_requested \in BOOLEAN /\ crossed \in BOOLEAN
      BY Zenon
    <3> QED
      BY <3>1 DEF CancelTypeOK
  <2>2. /\ root \in 0 .. N /\ pkill \in 0 .. N /\ 1 \in Stages
        /\ caller \in {"launch", "wait"} \X Stages
    BY DEF Stages
  <2>3. /\ {saved, main, detached, in_open, out_open} \subseteq [Stages -> BOOLEAN]
        /\ joinMainThread \in BOOLEAN /\ isMainThread \in BOOLEAN
    OBVIOUS
  <2> QED
    BY <2>1, <2>2, <2>3 DEF TypeOK, Statuses, StageLabels
<1>2. Requests = {}
  BY DEF Requests
<1>3. BytesCounted
  BY <1>2, FS_EmptySet DEF BytesCounted
<1>4. Drainers
  BY DEF Drainers
<1> QED
  BY <1>1, <1>3, <1>4 DEF TypeInv

\* The steps that touch the cancellation; KillStage only counts its call.
CancelStep ==
    \/ \E k \in Killers : Kill(k, root) \/ RequestExchange(k) \/ RequestWrite(k)
    \/ \E s \in Stages : ClearStore(s) \/ (s \in clearing /\ ClearDrain(s))
    \/ /\ kills < MaxKills /\ kills' = kills + 1
       /\ UNCHANGED <<cancel_requested, wake_bytes, kpc, clearing, crossed>>
    \/ UNCHANGED cancelVars

\* Seen from the cancellation, every step of the pipeline is one of those.
LEMMA NextIsCancelStep == Drainers /\ [Next]_vars => CancelStep
<1> SUFFICES ASSUME Drainers, [Next]_vars PROVE CancelStep
  OBVIOUS
<1> USE DEF CancelStep
<1>1. CASE CallerStep
  BY <1>1 DEF CallerStep, Launch, LaunchFails, WaitStage, Destroy
<1>2. ASSUME NEW s \in Stages, StageStep(s) PROVE CancelStep
  <2>1. CASE Clear(s) \/ Drain(s)
    BY <2>1 DEF Clear, Drain, Drainers
  <2> QED
    BY <1>2, <2>1 DEF StageStep, Begin, ForceJoin, Dispatch, NothingToRun, CreateCommand,
      CreateFails, JoinOrNot, JoinCommand, Return, Restore, CloseOut, CloseIn, Finish
<1>3. ASSUME NEW s \in Stages, CommandStep(s) PROVE CancelStep
  BY <1>3 DEF CommandStep, StartCommand, Check, Poll, EndsByItself, Cleanup
<1>4. ASSUME NEW s \in Stages, KillStage(s) PROVE CancelStep
  BY <1>4 DEF KillStage
<1>5. CASE KillStageStore
  BY <1>5 DEF KillStageStore
<1>6. CASE KillerStep
  BY <1>6 DEF KillerStep, KillerNext
<1>7. CASE UNCHANGED vars
  BY <1>7 DEF vars
<1> QED
  BY <1>1, <1>2, <1>3, <1>4, <1>5, <1>6, <1>7 DEF Next

\* A byte is written only by a request that is counted, and a request begins with a
\* call that is counted.
LEMMA BytesCountedStep == TypeInv /\ CancelStep => BytesCounted'
<1> SUFFICES ASSUME TypeInv, CancelStep PROVE BytesCounted'
  OBVIOUS
<1> USE DEF TypeInv, TypeOK, CancelTypeOK
<1>1. /\ IsFiniteSet(Requests) /\ Cardinality(Requests) \in Nat
      /\ wake_bytes \in Nat /\ kills \in Nat
      /\ wake_bytes + Cardinality(Requests) <= kills
  BY SessionCancelAssumption, FS_CardinalityType DEF BytesCounted
<1>2. ASSUME NEW k \in Killers, Kill(k, root) PROVE BytesCounted'
  <2>1. Requests' = Requests \cup {k} /\ k \notin Requests
    BY <1>2 DEF Kill, Requests
  <2>2. IsFiniteSet(Requests') /\ Cardinality(Requests') = Cardinality(Requests) + 1
    BY <1>1, <2>1, FS_AddElement
  <2> QED
    BY <1>1, <1>2, <2>2 DEF Kill, BytesCounted
<1>3. ASSUME NEW k \in Killers, RequestExchange(k) PROVE BytesCounted'
  <2>1. Requests' = IF Wakes THEN Requests ELSE Requests \ {k}
    BY <1>3 DEF RequestExchange, Requests
  <2>2. IsFiniteSet(Requests') /\ Cardinality(Requests') <= Cardinality(Requests)
    <3>1. k \in Requests
      BY <1>3 DEF RequestExchange, Requests
    <3>2. /\ IsFiniteSet(Requests \ {k})
          /\ Cardinality(Requests \ {k}) = Cardinality(Requests) - 1
      BY <1>1, <3>1, FS_RemoveElement
    <3> QED
      BY <1>1, <2>1, <3>2
  <2>3. Cardinality(Requests') \in Nat
    BY <2>2, FS_CardinalityType
  <2> QED
    BY <1>1, <1>3, <2>2, <2>3 DEF RequestExchange, BytesCounted
<1>4. ASSUME NEW k \in Killers, RequestWrite(k) PROVE BytesCounted'
  <2>1. Requests' = Requests \ {k} /\ k \in Requests
    BY <1>4 DEF RequestWrite, Requests
  <2>2. IsFiniteSet(Requests') /\ Cardinality(Requests') = Cardinality(Requests) - 1
    BY <1>1, <2>1, FS_RemoveElement
  <2> QED
    BY <1>1, <1>4, <2>2 DEF RequestWrite, BytesCounted
<1>5. ASSUME Requests' = Requests, wake_bytes' \in Nat, wake_bytes' <= wake_bytes,
             kills' \in Nat, kills <= kills'
      PROVE  BytesCounted'
  BY <1>1, <1>5 DEF BytesCounted
<1>6. CASE \E s \in Stages : ClearStore(s) \/ (s \in clearing /\ ClearDrain(s))
  BY <1>1, <1>5, <1>6 DEF ClearStore, ClearDrain, Requests
<1>7. CASE /\ kills < MaxKills /\ kills' = kills + 1
           /\ UNCHANGED <<cancel_requested, wake_bytes, kpc, clearing, crossed>>
  BY <1>1, <1>5, <1>7 DEF Requests
<1>8. CASE UNCHANGED cancelVars
  BY <1>1, <1>5, <1>8 DEF cancelVars, Requests
<1> QED
  BY <1>2, <1>3, <1>4, <1>6, <1>7, <1>8 DEF CancelStep

\* The types of the cancellation's own variables.
LEMMA CancelTypeStep == TypeInv /\ CancelStep => CancelTypeOK(Stages)'
<1> SUFFICES ASSUME TypeInv, CancelStep PROVE CancelTypeOK(Stages)'
  OBVIOUS
<1> USE SessionCancelAssumption DEF TypeInv, TypeOK, CancelTypeOK
<1>1. ASSUME NEW k \in Killers, Kill(k, root) PROVE CancelTypeOK(Stages)'
  BY <1>1 DEF Kill
<1>2. ASSUME NEW k \in Killers, RequestExchange(k) PROVE CancelTypeOK(Stages)'
  BY <1>2 DEF RequestExchange
<1>3. ASSUME NEW k \in Killers, RequestWrite(k) PROVE CancelTypeOK(Stages)'
  <2>1. BytesCounted'
    BY BytesCountedStep
  <2>2. Cardinality(Requests') \in Nat
    BY <2>1, FS_CardinalityType DEF BytesCounted
  <2>3. wake_bytes' \in 0 .. MaxKills
    BY <1>3, <2>1, <2>2 DEF RequestWrite, BytesCounted
  <2> QED
    BY <1>3, <2>3 DEF RequestWrite
<1>4. ASSUME NEW s \in Stages, ClearStore(s) PROVE CancelTypeOK(Stages)'
  BY <1>4 DEF ClearStore
<1>5. ASSUME NEW s \in Stages, ClearDrain(s) PROVE CancelTypeOK(Stages)'
  BY <1>5 DEF ClearDrain
<1>6. CASE /\ kills < MaxKills /\ kills' = kills + 1
           /\ UNCHANGED <<cancel_requested, wake_bytes, kpc, clearing, crossed>>
  BY <1>6
<1>7. CASE UNCHANGED cancelVars
  BY <1>7 DEF cancelVars
<1> QED
  BY <1>1, <1>2, <1>3, <1>4, <1>5, <1>6, <1>7 DEF CancelStep

\* Only Clear brings a thread to the drain, and only Drain takes one out of clearing.
LEMMA DrainersStep == TypeOK /\ Drainers /\ [Next]_vars => Drainers'
<1> SUFFICES ASSUME TypeOK, Drainers, [Next]_vars PROVE Drainers'
  OBVIOUS
<1> USE DEF TypeOK, Drainers, GotoStage
<1>1. ASSUME NEW s \in Stages, Clear(s) \/ Drain(s) PROVE Drainers'
  BY <1>1 DEF Clear, Drain, ClearStore, ClearDrain
<1>2. CASE CallerStep
  BY <1>2 DEF CallerStep, Launch, LaunchFails, WaitStage, Destroy, cancelVars
<1>3. ASSUME NEW s \in Stages,
             \/ Begin(s) \/ ForceJoin(s) \/ Dispatch(s) \/ NothingToRun(s)
             \/ CreateCommand(s) \/ CreateFails(s) \/ JoinOrNot(s)
      PROVE  Drainers'
  BY <1>3 DEF Begin, ForceJoin, Dispatch, NothingToRun, CreateCommand, CreateFails,
              JoinOrNot, cancelVars
<1>4. ASSUME NEW s \in Stages,
             \/ JoinCommand(s) \/ Return(s) \/ Restore(s) \/ CloseOut(s)
             \/ CloseIn(s) \/ Finish(s)
      PROVE  Drainers'
  BY <1>4 DEF JoinCommand, Return, Restore, CloseOut, CloseIn, Finish, cancelVars
<1>5. ASSUME NEW s \in Stages, CommandStep(s) \/ KillStage(s) PROVE Drainers'
  BY <1>5 DEF CommandStep, StartCommand, Check, Poll, EndsByItself, Cleanup, KillStage,
              cancelVars
<1>6. CASE KillStageStore
  BY <1>6 DEF KillStageStore, cancelVars
<1>7. CASE KillerStep
  BY <1>7 DEF KillerStep, KillerNext, Kill, RequestExchange, RequestWrite, pipelineVars
<1>8. CASE UNCHANGED vars
  BY <1>8 DEF vars, pipelineVars, cancelVars
<1> QED
  BY <1>1, <1>2, <1>3, <1>4, <1>5, <1>6, <1>7, <1>8 DEF Next, StageStep

\* Every action preserves the types.
LEMMA TypeInvStep == TypeInv /\ [Next]_vars => TypeInv'
<1> SUFFICES ASSUME TypeInv, [Next]_vars PROVE TypeInv'
  OBVIOUS
<1>c. CancelTypeOK(Stages)' /\ BytesCounted' /\ Drainers'
  BY NextIsCancelStep, CancelTypeStep, BytesCountedStep, DrainersStep DEF TypeInv
<1> SUFFICES TypeOK'
  BY <1>c DEF TypeInv
<1> USE <1>c, PipelineAssumption
        DEF TypeInv, TypeOK, Stages, Statuses, StageLabels, session, streams, stage,
            GotoStage, GotoCommand
<1>1. ASSUME NEW s \in Stages, Launch(s) PROVE TypeOK'
  BY <1>1 DEF Launch, After
<1>2. ASSUME NEW s \in Stages, LaunchFails(s) PROVE TypeOK'
  BY <1>2 DEF LaunchFails, After
<1>3. ASSUME NEW s \in Stages, WaitStage(s) PROVE TypeOK'
  BY <1>3 DEF WaitStage, After
<1>4. ASSUME NEW s \in Stages, Begin(s) PROVE TypeOK'
  BY <1>4 DEF Begin
<1>5. ASSUME NEW s \in Stages, ForceJoin(s) PROVE TypeOK'
  BY <1>5 DEF ForceJoin, Forced
<1>6. ASSUME NEW s \in Stages, Dispatch(s) PROVE TypeOK'
  <2>1. isMainThread' \in BOOLEAN
    BY <1>6, Zenon DEF Dispatch
  <2>2. main' \in [Stages -> BOOLEAN] /\ detached' \in [Stages -> BOOLEAN]
    BY <1>6 DEF Dispatch
  <2>3. spc' \in [Stages -> StageLabels]
    BY <1>6 DEF Dispatch
  <2> QED
    BY <1>6, <2>1, <2>2, <2>3 DEF Dispatch
<1>7. ASSUME NEW s \in Stages, NothingToRun(s) PROVE TypeOK'
  BY <1>7 DEF NothingToRun
<1>8. ASSUME NEW s \in Stages, CreateCommand(s) PROVE TypeOK'
  BY <1>8 DEF CreateCommand
<1>9. ASSUME NEW s \in Stages, CreateFails(s) PROVE TypeOK'
  BY <1>9 DEF CreateFails, GiveBackMain
<1>10. ASSUME NEW s \in Stages, JoinOrNot(s) PROVE TypeOK'
  BY <1>10 DEF JoinOrNot
<1>11. ASSUME NEW s \in Stages, JoinCommand(s) PROVE TypeOK'
  BY <1>11 DEF JoinCommand
<1>12. ASSUME NEW s \in Stages, Return(s) PROVE TypeOK'
  BY <1>12 DEF Return, GiveBackMain
<1>13. ASSUME NEW s \in Stages, Restore(s) PROVE TypeOK'
  BY <1>13 DEF Restore
<1>14. ASSUME NEW s \in Stages, CloseOut(s) PROVE TypeOK'
  BY <1>14 DEF CloseOut, ClosesOut
<1>15. ASSUME NEW s \in Stages, CloseIn(s) PROVE TypeOK'
  BY <1>15 DEF CloseIn
<1>16. ASSUME NEW s \in Stages, Finish(s) PROVE TypeOK'
  BY <1>16 DEF Finish
<1>17. ASSUME NEW s \in Stages, StartCommand(s) PROVE TypeOK'
  BY <1>17 DEF StartCommand
<1>18. ASSUME NEW s \in Stages, Check(s) PROVE TypeOK'
  BY <1>18 DEF Check
<1>19. ASSUME NEW s \in Stages, Poll(s) PROVE TypeOK'
  BY <1>19 DEF Poll
<1>20. ASSUME NEW s \in Stages, EndsByItself(s) PROVE TypeOK'
  BY <1>20 DEF EndsByItself
<1>21. ASSUME NEW s \in Stages, Cleanup(s) PROVE TypeOK'
  BY <1>21 DEF Cleanup
<1>22. ASSUME NEW s \in Stages, Clear(s) PROVE TypeOK'
  BY <1>22 DEF Clear
<1>23. ASSUME NEW s \in Stages, Drain(s) PROVE TypeOK'
  BY <1>23 DEF Drain
<1>24. ASSUME NEW s \in Stages, KillStage(s) PROVE TypeOK'
  BY <1>24 DEF KillStage
<1>25. CASE Destroy
  BY <1>25 DEF Destroy
<1>26. CASE KillStageStore
  BY <1>26 DEF KillStageStore
<1>27. CASE KillerStep
  BY <1>27 DEF KillerStep, pipelineVars
<1>28. CASE UNCHANGED vars
  BY <1>28 DEF vars, pipelineVars
<1> QED
  BY <1>1, <1>2, <1>3, <1>4, <1>5, <1>6, <1>7, <1>8, <1>9, <1>10, <1>11, <1>12,
     <1>13, <1>14, <1>15, <1>16, <1>17, <1>18, <1>19, <1>20, <1>21, <1>22, <1>23,
     <1>24, <1>25, <1>26, <1>27, <1>28
  DEF Next, CallerStep, StageStep, CommandStep

\* Type correctness of the pipeline and of the cancellation it shares; the cancel pipe
\* never holds more bytes than there were calls of ios_kill_session.
THEOREM PipelineTypeCorrect == Spec => []TypeOK
<1>1. TypeInv => TypeOK
  BY DEF TypeInv
<1> QED
  BY <1>1, TypeInvInit, TypeInvStep, PTL DEF Spec

-----------------------------------------------------------------------------
(* The flag and the byte.                                                  *)

\* Requests, clears and everything else keep flag and byte in step as long as no
\* request crosses a clear.
LEMMA CancelInvStep == TypeOK /\ CancelInv /\ CancelStep => CancelInv'
<1> SUFFICES ASSUME TypeOK, CancelInv, CancelStep, ~crossed' PROVE CancelInv'
  BY DEF CancelInv
<1> USE DEF TypeOK, CancelTypeOK, CancelInv, HalfDone, FlagAndByteAgree, Requesting
<1>1. ASSUME NEW k \in Killers, Kill(k, root) PROVE CancelInv'
  BY <1>1 DEF Kill
<1>2. ASSUME NEW k \in Killers, RequestExchange(k) PROVE CancelInv'
  BY <1>2 DEF RequestExchange, Wakes
<1>3. ASSUME NEW k \in Killers, RequestWrite(k) PROVE CancelInv'
  BY <1>3 DEF RequestWrite
<1>4. ASSUME NEW s \in Stages, ClearStore(s) PROVE CancelInv'
  BY <1>4 DEF ClearStore
<1>5. ASSUME NEW s \in clearing, ClearDrain(s) PROVE CancelInv'
  <2>1. ~Requesting /\ ~Requesting' /\ cancel_requested = FALSE
    BY <1>5 DEF ClearDrain
  <2> QED
    BY <1>5, <2>1 DEF ClearDrain
<1>6. CASE /\ kills < MaxKills /\ kills' = kills + 1
           /\ UNCHANGED <<cancel_requested, wake_bytes, kpc, clearing, crossed>>
  BY <1>6
<1>7. CASE UNCHANGED cancelVars
  BY <1>7 DEF cancelVars
<1> QED
  BY <1>1, <1>2, <1>3, <1>4, <1>5, <1>6, <1>7 DEF CancelStep

\* ios_session_request_cancel and ios_session_clear_cancel keep the flag and the wake
\* byte consistent, for any number of killers and of stages that clear, unless a
\* request and a clear overlap.
THEOREM FlagAndByteConsistent == Spec => []FlagAndByteAgree
<1> DEFINE Inv == TypeInv /\ CancelInv
<1>1. Init => Inv
  <2> SUFFICES ASSUME Init PROVE HalfDone /\ FlagAndByteAgree
    BY TypeInvInit DEF CancelInv
  <2> QED
    BY DEF Init, CancelInit, HalfDone, FlagAndByteAgree, Requesting
<1>2. Inv /\ [Next]_vars => Inv'
  BY TypeInvStep, NextIsCancelStep, CancelInvStep DEF TypeInv
<1>3. Inv => FlagAndByteAgree
  BY DEF CancelInv, FlagAndByteAgree
<1> QED
  BY <1>1, <1>2, <1>3, PTL DEF Spec

-----------------------------------------------------------------------------
(* The streams.                                                            *)

\* Nothing is launched.
LEMMA StageInvInit == Init => StageInv
  BY PipelineAssumption
  DEF Init, StageInv, StagesOK, StageOK, Relying, NotLaunched, Joined, Live, Stages

\* Every step keeps a stage's command inside the span in which its streams are open.
LEMMA StagesOKStep == TypeInv /\ StagesOK /\ ~lifted' /\ [Next]_vars => StagesOK'
<1> SUFFICES ASSUME TypeInv, StagesOK, ~lifted', [Next]_vars PROVE StagesOK'
  OBVIOUS
<1>t. /\ spc \in [Stages -> StageLabels]
      /\ cmd \in [Stages -> {"none", "start", "check", "poll", "cleanup", "ended"}]
      /\ saved \in [Stages -> BOOLEAN] /\ detached \in [Stages -> BOOLEAN]
      /\ in_open \in [Stages -> BOOLEAN] /\ out_open \in [Stages -> BOOLEAN]
  BY DEF TypeInv, TypeOK
<1> USE <1>t DEF session, streams, stage, GotoStage, GotoCommand,
                 StagesOK, StageOK, Relying, NotLaunched, Joined, Live
<1>1. ASSUME NEW s \in Stages, Launch(s) PROVE StagesOK'
  <2>1. /\ spc[s] = "none" /\ in_open[s] /\ out_open[s] /\ spc'[s] = "begin"
        /\ ~NotLaunched(s)' /\ ~Joined(s)'
    <3>1. CASE s < N
      BY <1>1, <3>1 DEF Launch, After, Stages
    <3>2. CASE s = N
      BY <1>1, <3>2 DEF Launch, After, Stages
    <3> QED
      BY <3>1, <3>2, PipelineAssumption DEF Stages
  <2>2. ASSUME NEW u \in Stages, u # s PROVE StageOK(u)'
    BY <1>1, <2>1, <2>2 DEF Launch, After, Stages
  <2>3. StageOK(s)'
    BY <1>1, <2>1 DEF Launch, After, Stages
  <2> QED
    BY <2>2, <2>3
<1>2. ASSUME NEW s \in Stages, LaunchFails(s) PROVE StagesOK'
  BY <1>2 DEF LaunchFails, After, Stages
<1>3. ASSUME NEW s \in Stages, WaitStage(s) PROVE StagesOK'
  <2>1. caller' = After("wait", s) /\ spc'[s] = "none"
    BY <1>3 DEF WaitStage
  <2>2. ASSUME NEW u \in Stages, u # s PROVE StageOK(u)'
    BY <1>3, <2>1, <2>2, PipelineAssumption DEF WaitStage, After, Stages
  <2>3. StageOK(s)'
    BY <1>3, <2>1 DEF WaitStage, After, Stages
  <2> QED
    BY <2>2, <2>3
<1>4. ASSUME NEW s \in Stages, Begin(s) PROVE StagesOK'
  BY <1>4 DEF Begin
<1>5. ASSUME NEW s \in Stages, ForceJoin(s) PROVE StagesOK'
  BY <1>5 DEF ForceJoin, Forced
<1>6. ASSUME NEW s \in Stages, Dispatch(s) PROVE StagesOK'
  BY <1>6 DEF Dispatch
<1>7. ASSUME NEW s \in Stages, NothingToRun(s) PROVE StagesOK'
  BY <1>7 DEF NothingToRun
<1>8. ASSUME NEW s \in Stages, CreateCommand(s) PROVE StagesOK'
  BY <1>8 DEF CreateCommand
<1>9. ASSUME NEW s \in Stages, CreateFails(s) PROVE StagesOK'
  BY <1>9 DEF CreateFails, GiveBackMain
<1>10. ASSUME NEW s \in Stages, JoinOrNot(s) PROVE StagesOK'
  <2>1. spc' = [spc EXCEPT ![s] = "join"]
    BY <1>10 DEF JoinOrNot
  <2>2. ASSUME NEW u \in Stages, u # s PROVE StageOK(u)'
    BY <1>10, <2>1, <2>2 DEF JoinOrNot
  <2>3. StageOK(s)'
    BY <1>10, <2>1 DEF JoinOrNot
  <2> QED
    BY <2>2, <2>3
<1>11. ASSUME NEW s \in Stages, JoinCommand(s) PROVE StagesOK'
  BY <1>11 DEF JoinCommand
<1>12. ASSUME NEW s \in Stages, Return(s) PROVE StagesOK'
  BY <1>12 DEF Return, GiveBackMain
<1>13. ASSUME NEW s \in Stages, Restore(s) PROVE StagesOK'
  BY <1>13 DEF Restore
<1>14. ASSUME NEW s \in Stages, CloseOut(s) PROVE StagesOK'
  BY <1>14 DEF CloseOut, ClosesOut
<1>15. ASSUME NEW s \in Stages, CloseIn(s) PROVE StagesOK'
  <2>1. spc'[s] = "finish" /\ ~NotLaunched(s) /\ ~Joined(s) /\ ~Live(s)
    BY <1>15 DEF CloseIn
  <2>2. ASSUME NEW u \in Stages, u # s PROVE StageOK(u)'
    BY <1>15, <2>1, <2>2 DEF CloseIn
  <2>3. StageOK(s)'
    BY <1>15, <2>1 DEF CloseIn
  <2> QED
    BY <2>2, <2>3
<1>16. ASSUME NEW s \in Stages, Finish(s) PROVE StagesOK'
  BY <1>16 DEF Finish
<1>17. ASSUME NEW s \in Stages, StartCommand(s) PROVE StagesOK'
  BY <1>17 DEF StartCommand
<1>18. ASSUME NEW s \in Stages, Check(s) PROVE StagesOK'
  BY <1>18 DEF Check
<1>19. ASSUME NEW s \in Stages, Poll(s) PROVE StagesOK'
  BY <1>19 DEF Poll
<1>20. ASSUME NEW s \in Stages, EndsByItself(s) PROVE StagesOK'
  BY <1>20 DEF EndsByItself
<1>21. ASSUME NEW s \in Stages, Cleanup(s) PROVE StagesOK'
  BY <1>21 DEF Cleanup
<1>22. ASSUME NEW s \in Stages, Clear(s) PROVE StagesOK'
  BY <1>22 DEF Clear
<1>23. ASSUME NEW s \in Stages, Drain(s) PROVE StagesOK'
  BY <1>23 DEF Drain
<1>24. ASSUME NEW s \in Stages, KillStage(s) PROVE StagesOK'
  BY <1>24 DEF KillStage
<1>25. CASE Destroy
  BY <1>25 DEF Destroy
<1>26. CASE KillStageStore
  BY <1>26 DEF KillStageStore
<1>27. CASE KillerStep
  BY <1>27 DEF KillerStep, pipelineVars
<1>28. CASE UNCHANGED vars
  BY <1>28 DEF vars, pipelineVars
<1> QED
  BY <1>1, <1>2, <1>3, <1>4, <1>5, <1>6, <1>7, <1>8, <1>9, <1>10, <1>11, <1>12,
     <1>13, <1>14, <1>15, <1>16, <1>17, <1>18, <1>19, <1>20, <1>21, <1>22, <1>23,
     <1>24, <1>25, <1>26, <1>27, <1>28
  DEF Next, CallerStep, StageStep, CommandStep

\* What was lifted stays lifted.
LEMMA LiftedStays == TypeInv /\ lifted /\ [Next]_vars => lifted'
<1> SUFFICES ASSUME TypeInv, lifted, [Next]_vars PROVE lifted'
  OBVIOUS
<1> USE DEF stage
<1>1. ASSUME NEW s \in Stages, StageStep(s) PROVE lifted'
  BY <1>1 DEF StageStep, Begin, ForceJoin, Clear, Drain, Dispatch, NothingToRun,
              CreateCommand, CreateFails, JoinOrNot, JoinCommand, Return, Restore,
              CloseOut, CloseIn, Finish
<1>2. ASSUME NEW s \in Stages, CommandStep(s) \/ KillStage(s) PROVE lifted'
  BY <1>2 DEF CommandStep, StartCommand, Check, Poll, EndsByItself, Cleanup, KillStage
<1>3. CASE CallerStep \/ KillStageStore
  BY <1>3 DEF CallerStep, Launch, LaunchFails, WaitStage, Destroy, KillStageStore
<1>4. CASE KillerStep \/ UNCHANGED vars
  BY <1>4 DEF KillerStep, vars, pipelineVars
<1> QED
  BY <1>1, <1>2, <1>3, <1>4 DEF Next

LEMMA StageInvStep == TypeInv /\ StageInv /\ [Next]_vars => StageInv'
  BY StagesOKStep, LiftedStays DEF StageInv

\* pipeline_stage_thread's "we need the command to finish before we can clean up
\* streams", for any number of stages and either setting of the host: no stream is
\* closed and no pipeline freed under a running command, unless a stage restored FALSE
\* while ios_system was still to read joinMainThread for another.
THEOREM StreamsSafe == Spec => []StreamsOutliveCommand
<1>1. TypeInv /\ StageInv => StreamsOutliveCommand
  BY DEF TypeInv, StageInv, StagesOK, StageOK, Joined, StreamsOutliveCommand, StreamsOpen
<1> QED
  BY <1>1, TypeInvInit, TypeInvStep, StageInvInit, StageInvStep, PTL DEF Spec

-----------------------------------------------------------------------------
(* Asynchronous commands.                                                  *)

Labels ==
    {"none", "idle", "create", "created", "start", "running", "finish", "invoke",
     "callback", "null_call", "close", "release", "wait", "sleep", "last", "last_wait",
     "last_sleep", "ended", "undefined"}

Releasing == {"last", "last_wait", "last_sleep"}

\* Where each kind of thread can be.
Places ==
    /\ \A c \in Clients :
         pc[c] \in {"none", "idle", "invoke", "callback", "null_call", "wait", "sleep",
                   "undefined"} \cup Releasing
    /\ pc["command"] \in {"create", "created", "start", "running", "finish", "invoke",
                          "callback", "null_call", "close", "release", "last", "ended",
                          "undefined"}
    /\ pc["command"] = "create" =>
         frees = 0 /\ owned /\ \A c \in Clients : pc[c] = "none"
    /\ ~owned => \A c \in Clients : pc[c] \in {"none", "idle", "undefined"} \cup Releasing

\* The thread has taken its reference and not given it back.
ThreadHolds ==
    pc["command"] \in {"start", "running", "finish", "invoke", "callback", "null_call",
                       "close", "release"}

\* The count is the number of references, as long as there is a handle.
References ==
    frees = 0 =>
      ref_count = (IF owned THEN 1 ELSE 0) + (IF ThreadHolds THEN 1 ELSE 0)

\* Giving up the caller's reference comes before every free.
OwnedFirst ==
    /\ frees > 0 \/ early => ~owned
    /\ \A t \in Threads : pc[t] \in Releasing => ~owned

\* Without an early release: who frees is alone, and nobody comes after it.
LastIsAlone ==
    ~early =>
      /\ pc["command"] = "created" => owned
      /\ \A t \in Threads : pc[t] # "undefined"
      /\ frees = 0 => \A t, u \in Threads :
           pc[t] \in Releasing /\ u # t => pc[u] \in {"none", "idle", "ended"}
      /\ frees > 0 => \A t \in Threads : pc[t] \in {"none", "idle", "ended"}

\* The status says ended when the command has ended or a wait gave up.
StatusTells ==
    frees = 0 =>
      /\ HasEnded => cmd_status \notin Unfinished
      /\ cmd_status \notin Unfinished => HasEnded \/ gave_up
      /\ \A c \in Clients : pc[c] \in {"invoke", "callback"} => HasEnded \/ gave_up

\* callback_invoked is the permission to call the callback, given once.
CallbackPermit ==
    /\ ~callback_invoked => runs = <<>> /\ \A t \in Threads : pc[t] # "callback"
    /\ \A t \in Threads : pc[t] = "callback" => runs = <<>>
    /\ \A t, u \in Threads : pc[t] = "callback" /\ pc[u] = "callback" => t = u
    /\ Len(runs) <= 1
    /\ ~gave_up => \A k \in DOMAIN runs : runs[k]

AsyncInv ==
    /\ AsyncTypeOK /\ Places /\ References /\ OwnedFirst /\ LastIsAlone
    /\ StatusTells /\ CallbackPermit

-----------------------------------------------------------------------------
\* ios_system_async hands out a handle nobody uses yet.
LEMMA AsyncInvInit == AsyncInit => AsyncInv
<1> SUFFICES ASSUME AsyncInit PROVE AsyncInv
  OBVIOUS
<1> USE AsyncCommandAssumption DEF AsyncInit, InitialReferences
<1>1. pc \in [Threads -> {"create", "none"}]
  OBVIOUS
<1>2. pc["command"] = "create" /\ \A c \in Clients : pc[c] = "none"
  BY DEF Threads
<1>3. AsyncTypeOK
  <2>1. pc \in [Threads -> Labels]
    BY <1>1 DEF Labels
  <2>2. ref_count \in 0 .. 2 /\ frees \in 0 .. 1 /\ calls \in 0 .. MaxCalls
    OBVIOUS
  <2>3. runs \in Seq(BOOLEAN)
    OBVIOUS
  <2> QED
    BY <2>1, <2>2, <2>3 DEF AsyncTypeOK, Labels, Unfinished
<1>4. Places /\ References
  BY <1>2 DEF Places, References, ThreadHolds
<1>5. OwnedFirst /\ LastIsAlone
  BY <1>1, <1>2 DEF OwnedFirst, LastIsAlone, Releasing
<1>6. StatusTells
  BY <1>2 DEF StatusTells, HasEnded, Unfinished
<1>7. CallbackPermit
  <2>1. Len(runs) = 0 /\ DOMAIN runs = {}
    OBVIOUS
  <2> QED
    BY <1>1, <2>1 DEF CallbackPermit
<1> QED
  BY <1>3, <1>4, <1>5, <1>6, <1>7 DEF AsyncInv

\* Every step of the thread and of the clients preserves the invariant.
LEMMA AsyncInvStep == AsyncInv /\ [AsyncNext]_asyncVars => AsyncInv'
<1> SUFFICES ASSUME AsyncInv, [AsyncNext]_asyncVars PROVE AsyncInv'
  OBVIOUS
<1> USE AsyncCommandAssumption
        DEF AsyncInv, AsyncTypeOK, Places, References, ThreadHolds, OwnedFirst, LastIsAlone,
            StatusTells, CallbackPermit, Threads, Unfinished, HasEnded, Releasing,
            Goto, GotoBroadcast, handle, lifetime, clock, history
<1>1. CASE Create
  <2>1. CASE pc' = [t \in Threads |-> IF t = "command" THEN "created" ELSE "idle"]
             /\ UNCHANGED <<owned, frees>>
    <3>1. /\ pc' \in [Threads -> {"created", "idle"}]
          /\ pc'["command"] = "created" /\ \A c \in Clients : pc'[c] = "idle"
      BY <2>1
    <3>2. pc["command"] = "create" /\ frees = 0 /\ owned /\ early = FALSE
      BY <1>1 DEF Create
    <3>3. AsyncTypeOK'
      <4>1. pc' \in [Threads -> Labels]
        BY <3>1 DEF Labels
      <4> QED
        BY <1>1, <2>1, <4>1 DEF Create, Labels
    <3>4. Places' /\ References'
      BY <1>1, <2>1, <3>1, <3>2 DEF Create
    <3>5. OwnedFirst' /\ LastIsAlone'
      BY <1>1, <2>1, <3>1, <3>2 DEF Create
    <3>6. StatusTells' /\ CallbackPermit'
      BY <1>1, <2>1, <3>1, <3>2 DEF Create
    <3> QED
      BY <3>3, <3>4, <3>5, <3>6
  <2>2. CASE Goto("command", "ended") /\ owned' = FALSE /\ frees' = 1
    <3>1. /\ pc' \in [Threads -> {"ended", "none"}]
          /\ pc'["command"] = "ended" /\ \A c \in Clients : pc'[c] = "none"
      BY <1>1, <2>2 DEF Create
    <3>2. pc["command"] = "create" /\ frees = 0 /\ owned /\ early = FALSE
      BY <1>1 DEF Create
    <3>3. AsyncTypeOK'
      <4>1. pc' \in [Threads -> Labels]
        BY <3>1 DEF Labels
      <4>2. frees' \in 0 .. 1
        BY <2>2
      <4>3. owned' \in BOOLEAN
        BY <2>2, Zenon
      <4> QED
        BY <1>1, <4>1, <4>2, <4>3 DEF Create, Labels
    <3>4. Places' /\ References'
      BY <1>1, <2>2, <3>1, <3>2 DEF Create
    <3>5. OwnedFirst' /\ LastIsAlone'
      BY <1>1, <2>2, <3>1, <3>2 DEF Create
    <3>6. StatusTells' /\ CallbackPermit'
      BY <1>1, <2>2, <3>1, <3>2 DEF Create
    <3> QED
      BY <3>3, <3>4, <3>5, <3>6
  <2> QED
    BY <1>1, <2>1, <2>2 DEF Create
<1>2. CASE Retain
  BY <1>2 DEF Retain, ThreadReference
<1>3. CASE Run
  BY <1>3 DEF Run
<1>4. CASE CommandEnds
  BY <1>4 DEF CommandEnds
<1>5. CASE FinishCommand
  BY <1>5 DEF FinishCommand, FinalStatus
<1>6. CASE CloseSession
  BY <1>6 DEF CloseSession
<1>7. CASE ThreadRelease
  BY <1>7 DEF ThreadRelease, Unref
<1>8. CASE Expire
  BY <1>8 DEF Expire
<1>9. ASSUME NEW c \in Clients, Wait(c) PROVE AsyncInv'
  BY <1>9 DEF Wait, Call
<1>10. ASSUME NEW c \in Clients, KillCommand(c) PROVE AsyncInv'
  BY <1>10 DEF KillCommand, Call
<1>11. ASSUME NEW c \in Clients, SetCallback(c) PROVE AsyncInv'
  BY <1>11 DEF SetCallback, Call, InvokeNow
<1>12. ASSUME NEW c \in Clients, ClientRelease(c) PROVE AsyncInv'
  <2>1. AsyncTypeOK'
    <3>1. pc' \in [Threads -> Labels]
      BY <1>12 DEF Labels, ClientRelease, Unref
    <3>2. ref_count' \in 0 .. 2 /\ frees' \in 0 .. 1
      BY <1>12 DEF ClientRelease, Unref
    <3> QED
      BY <1>12, <3>1, <3>2, ZenonT(30) DEF Labels, ClientRelease, Unref
  <2>2. Places'
    BY <1>12 DEF ClientRelease, Unref
  <2>3. References'
    BY <1>12 DEF ClientRelease, Unref
  <2>4. OwnedFirst'
    BY <1>12 DEF ClientRelease, Unref
  <2>5. LastIsAlone'
    <3> SUFFICES ASSUME pc["command"] # "created" PROVE LastIsAlone'
      BY <1>12 DEF ClientRelease, Unref
    <3>1. early = FALSE /\ frees = 0 /\ owned
      BY <1>12 DEF ClientRelease
    <3>2. CASE ThreadHolds
      BY <1>12, <3>1, <3>2 DEF ClientRelease, Unref
    <3>3. CASE ~ThreadHolds
      <4>1. pc["command"] = "ended"
        BY <1>12, <3>1, <3>3 DEF ClientRelease
      <4> QED
        BY <1>12, <3>1, <3>3, <4>1 DEF ClientRelease, Unref
    <3> QED
      BY <3>2, <3>3
  <2>6. StatusTells'
    BY <1>12 DEF ClientRelease, Unref
  <2>7. CallbackPermit'
    BY <1>12 DEF ClientRelease, Unref
  <2> QED
    BY <2>1, <2>2, <2>3, <2>4, <2>5, <2>6, <2>7
<1>13. ASSUME NEW t \in Threads, Invoke(t) PROVE AsyncInv'
  <2>1. CASE CallbackDue /\ callback_invoked' = TRUE /\ Goto(t, "callback")
    BY <1>13, <2>1 DEF Invoke, CallbackDue
  <2>2. CASE ~CallbackDue /\ UNCHANGED callback_invoked /\ Goto(t, AfterInvoke(t))
    BY <1>13, <2>2 DEF Invoke, CallbackDue, AfterInvoke
  <2> QED
    BY <1>13, <2>1, <2>2 DEF Invoke
<1>14. ASSUME NEW t \in Threads, CallBack(t) PROVE AsyncInv'
  <2>1. CASE callback /\ runs' = Append(runs, HasEnded) /\ Goto(t, AfterInvoke(t))
    BY <1>14, <2>1 DEF CallBack, AfterInvoke
  <2>2. CASE ~callback /\ UNCHANGED runs /\ Goto(t, "null_call")
    BY <1>14, <2>2 DEF CallBack
  <2> QED
    BY <1>14, <2>1, <2>2 DEF CallBack
<1>15. ASSUME NEW t \in Threads, WaitTurn(t) PROVE AsyncInv'
  <2>1. CASE ~StillWaiting /\ Goto(t, Awake(t)) /\ UNCHANGED <<cmd_status, gave_up>>
    BY <1>15, <2>1 DEF WaitTurn, Awake
  <2>2. CASE /\ StillWaiting /\ timed /\ expired
             /\ cmd_status' = "timeout" /\ gave_up' = TRUE
             /\ GotoBroadcast(t, Awake(t))
    BY <1>15, <2>2 DEF WaitTurn, StillWaiting, Awake
  <2>3. CASE /\ StillWaiting /\ ~(timed /\ expired)
             /\ Goto(t, Asleep(t)) /\ UNCHANGED <<cmd_status, gave_up>>
    BY <1>15, <2>3 DEF WaitTurn, Asleep
  <2> QED
    BY <1>15, <2>1, <2>2, <2>3 DEF WaitTurn
<1>16. ASSUME NEW t \in Threads, LastRelease(t) PROVE AsyncInv'
  BY <1>16 DEF LastRelease
<1>17. ASSUME NEW t \in Threads, UseAfterFree(t) PROVE AsyncInv'
  BY <1>17 DEF UseAfterFree, Uses
<1>18. CASE UNCHANGED asyncVars
  BY <1>18 DEF asyncVars
<1> QED
  BY <1>1, <1>2, <1>3, <1>4, <1>5, <1>6, <1>7, <1>8, <1>9, <1>10, <1>11, <1>12,
     <1>13, <1>14, <1>15, <1>16, <1>17, <1>18
  DEF AsyncNext, Command, Step, Done

\* The comment of command_thread_func, "Increment ref count to prevent early free
\* while thread is still running", made precise: when the caller keeps its
\* reference until the thread has its own, nobody touches a freed handle.
THEOREM HandleSafe == AsyncSpec => []HandleOutlivesUseOnceStarted
<1>1. AsyncInv => HandleOutlivesUseOnceStarted
  BY DEF AsyncInv, AsyncTypeOK, LastIsAlone, HandleOutlivesUseOnceStarted,
         HandleOutlivesUse, Uses
<1> QED
  BY <1>1, AsyncInvInit, AsyncInvStep, PTL DEF AsyncSpec

\* invoke_callback_if_set calls the callback at most once, whichever of the
\* thread and set_callback comes first, and after the end of the command unless
\* a wait declared a timeout.
THEOREM CallbackAtMostOnce == AsyncSpec => []CallbackOnce
<1>1. AsyncInv => CallbackOnce
  BY DEF AsyncInv, CallbackPermit, CallbackOnce
<1> QED
  BY <1>1, AsyncInvInit, AsyncInvStep, PTL DEF AsyncSpec

\* The status command_thread_func stores is the last one: no wait, kill or late
\* timeout changes it afterwards.
THEOREM StatusIsFinal == AsyncSpec => StatusFinal
<1>1. ASSUME AsyncInv, [AsyncNext]_asyncVars
      PROVE  [HasEnded => cmd_status' = cmd_status]_asyncVars
  <2> SUFFICES ASSUME HasEnded, AsyncNext PROVE cmd_status' = cmd_status
    BY <1>1
  <2> USE DEF HasEnded, handle
  <2>1. frees = 0 => cmd_status \notin Unfinished
    BY <1>1 DEF AsyncInv, StatusTells
  <2>2. ASSUME NEW t \in Threads, WaitTurn(t) PROVE cmd_status' = cmd_status
    BY <2>1, <2>2 DEF WaitTurn, StillWaiting
  <2>3. ASSUME NEW t \in Threads, Step(t) \/ UseAfterFree(t)
        PROVE  cmd_status' = cmd_status
    BY <2>2, <2>3 DEF Step, Invoke, CallBack, LastRelease, UseAfterFree
  <2>4. ASSUME NEW c \in Clients,
               Wait(c) \/ KillCommand(c) \/ SetCallback(c) \/ ClientRelease(c)
        PROVE  cmd_status' = cmd_status
    BY <2>4 DEF Wait, KillCommand, SetCallback, ClientRelease
  <2>5. CASE Create \/ Command \/ Expire \/ Done
    BY <2>5 DEF Create, Command, Retain, Run, CommandEnds, FinishCommand, CloseSession,
                ThreadRelease, Expire, Done, asyncVars
  <2> QED
    BY <2>3, <2>4, <2>5 DEF AsyncNext
<1> QED
  BY <1>1, AsyncInvInit, AsyncInvStep, PTL DEF AsyncSpec, StatusFinal
=============================================================================
