------------------------------- MODULE Pipeline -------------------------------
(***************************************************************************)
(* ios_pipeline.m: a caller launches the stages of a pipeline and waits    *)
(* for them; each stage's thread dispatches its command through ios_system *)
(* to yet another thread, then closes the stage's ends of the pipes.  The  *)
(* stages share the session: the root thread, isMainThread, the            *)
(* cancellation (SessionCancel) and the global joinMainThread.             *)
(*                                                                         *)
(* A command reads its input to the end, gives up when it is cancelled, or *)
(* ends by itself.  The data, and a writer's wait for a full pipe, are     *)
(* left out.  A command that is not found is a command as well: ios_system *)
(* runs command_not_found on a thread.                                     *)
(*                                                                         *)
(* A stage that closes a FILE a second time goes to the label "undefined": *)
(* the model follows it no further.                                        *)
(***************************************************************************)
EXTENDS SessionCancel

CONSTANT N  \* num_stages

ASSUME PipelineAssumption == N \in Nat \ {0}

Stages == 1..N

VARIABLES
    joinMainThread, isMainThread,
    share_stderr,   \* the command has a |& : a stage's two outputs are one FILE
    root,           \* current_command_root_thread: 0 or the stage of the command
    status,         \* per stage
    spc, saved,     \* per stage's thread: pc and savedJoinMainThread
    main,           \* per stage: ios_system took the isMainThread branch
    detached,       \* per stage: the command's thread was created detached
    cmd,            \* per stage: where its command is
    in_open, out_open,  \* per stage: its streams are not closed
    input_ends,     \* the first stage's input has an end
    caller,         \* <<what, stage>>
    pkill,          \* ios_pipeline_kill: stage it has seen running, 0 for none
    lifted          \* a stage restored joinMainThread to FALSE while ios_system was
                    \* still to read it for another (history)

pipelineVars == <<status, spc, saved, main, detached, cmd, in_open, out_open,
                  input_ends, share_stderr, caller, pkill, lifted>>
vars == <<joinMainThread, isMainThread, root, pipelineVars, cancelVars>>

Init ==
    /\ CancelInit
    /\ joinMainThread \in BOOLEAN /\ isMainThread = TRUE /\ root = 0
    /\ share_stderr \in BOOLEAN /\ lifted = FALSE
    /\ status = [s \in Stages |-> "pending"]
    /\ spc = [s \in Stages |-> "none"]
    /\ saved = [s \in Stages |-> FALSE]
    /\ main = [s \in Stages |-> FALSE]
    /\ detached = [s \in Stages |-> FALSE]
    /\ cmd = [s \in Stages |-> "none"]
    /\ in_open = [s \in Stages |-> TRUE] /\ out_open = [s \in Stages |-> TRUE]
    /\ input_ends \in BOOLEAN
    /\ caller = <<"launch", 1>> /\ pkill = 0

session == <<joinMainThread, isMainThread, root>>
streams == <<in_open, out_open, input_ends, share_stderr>>
stage == <<saved, main, detached, lifted>>

GotoStage(s, label) == spc' = [spc EXCEPT ![s] = label]
GotoCommand(s, label) == cmd' = [cmd EXCEPT ![s] = label]

-----------------------------------------------------------------------------
(* The caller: ios_pipeline_execute, ios_pipeline_wait and                 *)
(* ios_pipeline_destroy.                                                   *)

\* The next turn of the loop that launches the stages, or that waits for them.
After(what, s) == IF s < N THEN <<what, s + 1>> ELSE
                  IF what = "launch" THEN <<"wait", 1>> ELSE <<"returned", 0>>

Launch(s) ==
    /\ caller = <<"launch", s>>
    /\ GotoStage(s, "begin")
    /\ caller' = After("launch", s)
    /\ UNCHANGED <<session, status, stage, cmd, streams, pkill, cancelVars>>

\* pthread_create fails: nobody closes the stage's streams any more.
LaunchFails(s) ==
    /\ caller = <<"launch", s>>
    /\ status' = [status EXCEPT ![s] = "failed"]
    /\ caller' = After("launch", s)
    /\ UNCHANGED <<session, spc, stage, cmd, streams, pkill, cancelVars>>

\* One turn of the loop of ios_pipeline_wait, which skips a stage that has no thread.
WaitStage(s) ==
    /\ caller = <<"wait", s>>
    /\ spc[s] \in {"none", "exited"}
    /\ GotoStage(s, "none")
    /\ caller' = After("wait", s)
    /\ UNCHANGED <<session, status, stage, cmd, streams, pkill, cancelVars>>

\* completed_count leaves out the stages that were not created, and the second wait
\* that destroy makes for them finds no thread.
Destroy ==
    /\ caller = <<"returned", 0>> /\ pkill = 0
    /\ caller' = <<"freed", 0>>
    /\ UNCHANGED <<session, status, spc, stage, cmd, streams, pkill, cancelVars>>

\* ios_pipeline_kill, from another thread: the signal reaches the stage's thread, which
\* is joining its command and goes on doing so.
KillStage(s) ==
    /\ pkill = 0 /\ kills < MaxKills /\ caller[1] = "wait"
    /\ status[s] = "running" /\ spc[s] # "none"
    /\ pkill' = s /\ kills' = kills + 1
    /\ UNCHANGED <<session, status, spc, stage, cmd, streams, caller, cancel_requested,
                   wake_bytes, kpc, clearing, crossed>>

KillStageStore ==
    /\ pkill # 0
    /\ status' = [status EXCEPT ![pkill] = "killed"]
    /\ pkill' = 0
    /\ UNCHANGED <<session, spc, stage, cmd, streams, caller, cancelVars>>

-----------------------------------------------------------------------------
(* pipeline_stage_thread and, in its middle, ios_system.                   *)

Begin(s) ==
    /\ spc[s] = "begin"
    /\ status' = [status EXCEPT ![s] = "running"]
    /\ saved' = [saved EXCEPT ![s] = joinMainThread]
    /\ GotoStage(s, "force")
    /\ UNCHANGED <<session, main, detached, lifted, cmd, streams, caller, pkill,
                   cancelVars>>

\* Mutant: the setting of the host is left as it is.
ForcedNot == joinMainThread

Forced == TRUE

ForceJoin(s) ==
    /\ spc[s] = "force"
    /\ joinMainThread' = Forced
    /\ GotoStage(s, "clear")
    /\ UNCHANGED <<isMainThread, root, status, stage, cmd, streams, caller, pkill,
                   cancelVars>>

\* ios_system begins by clearing a cancellation, even one meant for the other stages.
Clear(s) ==
    /\ spc[s] = "clear"
    /\ ClearStore(s)
    /\ GotoStage(s, "drain")
    /\ UNCHANGED <<session, status, stage, cmd, streams, caller, pkill>>

Drain(s) ==
    /\ spc[s] = "drain"
    /\ ClearDrain(s)
    /\ GotoStage(s, "dispatch")
    /\ UNCHANGED <<session, status, stage, cmd, streams, caller, pkill>>

\* Under ios_system_mutex: the first stage to come is the main command of the session.
Dispatch(s) ==
    /\ spc[s] = "dispatch"
    /\ main' = [main EXCEPT ![s] = isMainThread]
    /\ detached' = [detached EXCEPT ![s] = ~isMainThread /\ ~joinMainThread]
    /\ isMainThread' = FALSE
    /\ GotoStage(s, "create")
    /\ UNCHANGED <<joinMainThread, root, status, saved, lifted, cmd, streams, caller,
                   pkill, cancelVars>>

\* The early returns: no memory for the parameters, or no word left to execute.
NothingToRun(s) ==
    /\ spc[s] = "dispatch"
    /\ GotoStage(s, "restore")
    /\ UNCHANGED <<session, status, stage, cmd, streams, caller, pkill, cancelVars>>

CreateCommand(s) ==
    /\ spc[s] = "create"
    /\ GotoCommand(s, "start") /\ GotoStage(s, "created")
    /\ UNCHANGED <<session, status, stage, streams, caller, pkill, cancelVars>>

\* isMainThread = true at the end of the branch that made it false.
GiveBackMain(s) == isMainThread' = (isMainThread \/ main[s])

CreateFails(s) ==
    /\ spc[s] = "create"
    /\ GiveBackMain(s)
    /\ GotoStage(s, "restore")
    /\ UNCHANGED <<joinMainThread, root, status, stage, cmd, streams, caller, pkill,
                   cancelVars>>

\* joinMainThread is read again; a join of a detached thread may return at once.
JoinOrNot(s) ==
    /\ spc[s] = "created"
    /\ \/ joinMainThread /\ GotoStage(s, "join")
       \/ (~joinMainThread \/ detached[s]) /\ GotoStage(s, "return")
    /\ UNCHANGED <<session, status, stage, cmd, streams, caller, pkill, cancelVars>>

JoinCommand(s) ==
    /\ spc[s] = "join" /\ cmd[s] = "ended"
    /\ root' = IF main[s] THEN 0 ELSE root
    /\ GotoStage(s, "return")
    /\ UNCHANGED <<joinMainThread, isMainThread, status, stage, cmd, streams, caller,
                   pkill, cancelVars>>

Return(s) ==
    /\ spc[s] = "return"
    /\ GiveBackMain(s)
    /\ GotoStage(s, "restore")
    /\ UNCHANGED <<joinMainThread, root, status, stage, cmd, streams, caller, pkill,
                   cancelVars>>

\* The other stages for which ios_system has joinMainThread still to read.
Relying == {u \in Stages : spc[u] \in {"clear", "drain", "dispatch", "create", "created"}}

Restore(s) ==
    /\ spc[s] = "restore"
    /\ joinMainThread' = saved[s]
    /\ lifted' = (lifted \/ (~saved[s] /\ Relying # {}))
    /\ GotoStage(s, "close_out")
    /\ UNCHANGED <<isMainThread, root, status, saved, main, detached, cmd, streams, caller,
                   pkill, cancelVars>>

\* Mutant: the write end of a pipe stays open.
ClosesOutNever(s) == FALSE

\* The last stage's output belongs to the caller of execute.
ClosesOut(s) == s < N

\* stdout and then stderr: stdout_stream is NULL by then, so the comparison with it
\* holds nothing back and the FILE that |& made both is closed again.  Any other stderr
\* belongs to the caller.
CloseOut(s) ==
    /\ spc[s] = "close_out"
    /\ out_open' = [out_open EXCEPT ![s] = @ /\ ~ClosesOut(s)]
    /\ GotoStage(s, IF share_stderr /\ s < N THEN "undefined" ELSE "close_in")
    /\ UNCHANGED <<session, status, stage, cmd, in_open, input_ends, share_stderr, caller,
                   pkill, cancelVars>>

CloseIn(s) ==
    /\ spc[s] = "close_in"
    /\ in_open' = [in_open EXCEPT ![s] = (s = 1)]
    /\ GotoStage(s, "finish")
    /\ UNCHANGED <<session, status, stage, cmd, out_open, input_ends, share_stderr, caller,
                   pkill, cancelVars>>

\* The status follows the result, over a kill's.
Finish(s) ==
    /\ spc[s] = "finish"
    /\ \E result \in {"completed", "failed"} : status' = [status EXCEPT ![s] = result]
    /\ GotoStage(s, "exited")
    /\ UNCHANGED <<session, stage, cmd, streams, caller, pkill, cancelVars>>

-----------------------------------------------------------------------------
(* The command's thread: run_function, ios_read and cleanup_function.      *)

\* The shell, dash, is no root thread.
StartCommand(s) ==
    /\ cmd[s] = "start"
    /\ root' \in IF main[s] THEN {s, root} ELSE {root}
    /\ GotoCommand(s, "check")
    /\ UNCHANGED <<joinMainThread, isMainThread, status, spc, stage, streams, caller,
                   pkill, cancelVars>>

\* ios_read looks at the flag before it waits.
Check(s) ==
    /\ cmd[s] = "check"
    /\ GotoCommand(s, IF cancel_requested THEN "cleanup" ELSE "poll")
    /\ UNCHANGED <<session, status, spc, stage, streams, caller, pkill, cancelVars>>

\* The writer before s has gone away.
EndOfInput(s) == IF s = 1 THEN input_ends ELSE ~out_open[s - 1]

\* poll returns on the end of the input or on a byte in the cancel pipe.
Poll(s) ==
    /\ cmd[s] = "poll"
    /\ Woken \/ EndOfInput(s)
    /\ GotoCommand(s, "cleanup")
    /\ UNCHANGED <<session, status, spc, stage, streams, caller, pkill, cancelVars>>

\* The command needs no more input.
EndsByItself(s) ==
    /\ cmd[s] = "check"
    /\ GotoCommand(s, "cleanup")
    /\ UNCHANGED <<session, status, spc, stage, streams, caller, pkill, cancelVars>>

Cleanup(s) ==
    /\ cmd[s] = "cleanup"
    /\ root' = IF root = s THEN 0 ELSE root
    /\ GotoCommand(s, "ended")
    /\ UNCHANGED <<joinMainThread, isMainThread, status, spc, stage, streams, caller,
                   pkill, cancelVars>>

-----------------------------------------------------------------------------

StageStep(s) ==
    \/ Begin(s) \/ ForceJoin(s) \/ Clear(s) \/ Drain(s) \/ Dispatch(s) \/ NothingToRun(s)
    \/ CreateCommand(s) \/ CreateFails(s) \/ JoinOrNot(s) \/ JoinCommand(s)
    \/ Return(s) \/ Restore(s) \/ CloseOut(s) \/ CloseIn(s) \/ Finish(s)

CommandStep(s) == StartCommand(s) \/ Check(s) \/ Poll(s) \/ EndsByItself(s) \/ Cleanup(s)

CallerStep == (\E s \in Stages : Launch(s) \/ LaunchFails(s) \/ WaitStage(s)) \/ Destroy

KillerStep == KillerNext(root) /\ UNCHANGED <<session, pipelineVars>>

Next ==
    \/ CallerStep
    \/ \E s \in Stages : StageStep(s) \/ CommandStep(s) \/ KillStage(s)
    \/ KillStageStore
    \/ KillerStep

Spec == Init /\ [][Next]_vars

\* Every thread runs; a read that has nothing to return waits.
FairSpec ==
    /\ Spec
    /\ WF_vars(CallerStep) /\ WF_vars(KillStageStore) /\ KillerFairness
    /\ \A s \in Stages : WF_vars(StageStep(s)) /\ WF_vars(CommandStep(s))

-----------------------------------------------------------------------------

Statuses == {"pending", "running", "completed", "failed", "killed"}

StageLabels == {"none", "begin", "force", "clear", "drain", "dispatch", "create",
                "created", "join", "return", "restore", "close_out",
                "close_in", "finish", "exited", "undefined"}

\* Every variable has its type: statuses and labels are the ones of the code, and the
\* root thread is the command of a stage.
TypeOK ==
    /\ CancelTypeOK(Stages)
    /\ joinMainThread \in BOOLEAN /\ isMainThread \in BOOLEAN
    /\ root \in 0..N
    /\ status \in [Stages -> Statuses]
    /\ spc \in [Stages -> StageLabels]
    /\ {saved, main, detached, in_open, out_open} \subseteq [Stages -> BOOLEAN]
    /\ cmd \in [Stages -> {"none", "start", "check", "poll", "cleanup", "ended"}]
    /\ input_ends \in BOOLEAN /\ share_stderr \in BOOLEAN /\ lifted \in BOOLEAN
    /\ caller \in ({"launch", "wait"} \X Stages) \cup {<<"returned", 0>>, <<"freed", 0>>}
    /\ pkill \in 0..N

Live(s) == cmd[s] \in {"start", "check", "poll", "cleanup"}

StreamsOpen(s) == in_open[s] /\ out_open[s] /\ caller # <<"freed", 0>>

\* A stage's streams stay open, and the pipeline stays allocated, while the stage's
\* command runs, whatever the host's joinMainThread: a stage forces it before ios_system
\* reads it, once to create the thread and once to join it.  Excepted is a run in which
\* another stage restored FALSE between the two (pipeline_stage_thread).  And every
\* variable keeps its type.
StreamsOutliveCommand ==
    TypeOK /\ (~lifted => \A s \in Stages : Live(s) => StreamsOpen(s))

\* pipeline_stage_thread on its joinMainThread = true: "we need the command to finish
\* before we can clean up streams".  A stage that closes its streams has a command that
\* has ended.
CommandFinishesFirst ==
    \A s \in Stages : spc[s] \in {"close_out", "close_in"} => ~Live(s)

\* No stage closes a FILE twice: the condition on stderr_stream, "stage->stderr_stream
\* != stage->stdout_stream", is there for the pipelines that share it
\* (pipeline_stage_thread).
ClosesOnce == \A s \in Stages : spc[s] # "undefined"

\* A stream was closed twice, or under a running command.
Undefined == ~ClosesOnce \/ \E s \in Stages : Live(s) /\ ~StreamsOpen(s)

Created == \A s \in Stages : spc[s] # "none"

\* A wait on a pipeline whose threads were all created returns when the first stage's
\* input ends: the end of input passes down the pipes, whichever stage ended early.
\* Excepted is a run in which a stream was closed twice or under its command
\* (ios_pipeline_wait, pipeline_stage_thread).
WaitReturns ==
    (caller = <<"wait", 1>> /\ Created /\ input_ends)
        ~> (caller = <<"freed", 0>> \/ Undefined)

\* A cancellation accepted after the last stage cleared the one before, with no request
\* or clear crossing, ends every command of the pipeline, the ones without a root thread
\* too, unless a stream was closed twice or under its command
\* (ios_kill_session, ios_wait_for_fd_or_cancel).
CancelReaches ==
    (/\ ~crossed /\ cancel_requested /\ caller[1] # "launch"
     /\ \A s \in Stages : spc[s] \notin {"begin", "force", "clear", "drain"})
        ~> (crossed \/ Undefined \/ \A s \in Stages : ~Live(s))
=============================================================================
