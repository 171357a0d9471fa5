---------------------------- MODULE AsyncCommand ----------------------------
(***************************************************************************)
(* One command of ios_async.m: the handle, the detached thread that runs   *)
(* the command, and the clients that wait for it, kill it, set a callback  *)
(* and give the handle back.                                               *)
(*                                                                         *)
(* A critical section of cmd->mutex is one step; the reference count and   *)
(* the statuses stored outside the mutex are steps of their own.  What     *)
(* happens once freed memory is used is undefined, and the model stops     *)
(* there.                                                                  *)
(*                                                                         *)
(* No name is shared with Pipeline, so that one module can extend both.    *)
(***************************************************************************)
EXTENDS Integers, Sequences

CONSTANTS
    Clients,    \* threads that use the handle
    MaxCalls    \* bound: calls of the clients, the release not counted

ASSUME AsyncCommandAssumption == "command" \notin Clients /\ MaxCalls \in Nat

VARIABLES
    cmd_status,     \* cmd->status
    exit_code, kill_requested,
    callback, callback_invoked,
    ref_count,
    timed,      \* timeout_ms >= 0
    expired,    \* that much time has gone by
    owned,      \* the caller's reference is not given back yet
    frees,      \* how often the handle was freed
    pc,         \* per thread, the command's own included
    calls,
    \* What only the properties look at:
    early,      \* the caller's reference was given back before the thread had its own
    gave_up,    \* a wait has marked the running command as timed out
    runs        \* the calls of the callback: had the command ended?

asyncVars == <<cmd_status, exit_code, kill_requested, callback, callback_invoked,
               ref_count, timed, expired, owned, frees, pc, calls, early, gave_up, runs>>

Threads == Clients \cup {"command"}

Unfinished == {"pending", "running"}

\* The caller's reference; the thread takes its own.
InitialReferences == 1

\* ios_system_async up to pthread_create, with any options.
AsyncInit ==
    /\ cmd_status = "pending" /\ exit_code = "none" /\ kill_requested = FALSE
    /\ callback \in BOOLEAN /\ callback_invoked = FALSE
    /\ ref_count = InitialReferences
    /\ timed \in BOOLEAN /\ expired = FALSE
    /\ owned = TRUE /\ frees = 0
    /\ pc = [t \in Threads |-> IF t = "command" THEN "create" ELSE "none"]
    /\ calls = 0
    /\ early = FALSE /\ gave_up = FALSE /\ runs = <<>>

handle == <<cmd_status, exit_code, kill_requested, callback, callback_invoked>>
lifetime == <<ref_count, owned, frees, early>>
clock == <<timed, expired>>
history == <<gave_up, runs>>

Goto(t, label) == pc' = [pc EXCEPT ![t] = label]

\* t goes on at label; everyone who sleeps on cmd->done wakes up.
GotoBroadcast(t, label) ==
    pc' = [u \in Threads |-> CASE u = t -> label
                               [] u # t /\ pc[u] = "sleep" -> "wait"
                               [] u # t /\ pc[u] = "last_sleep" -> "last_wait"
                               [] OTHER -> pc[u]]

\* The next step of t reads or writes the handle.
Uses(t) ==
    pc[t] \notin {"none", "idle", "create", "running", "ended", "undefined", "null_call"}

\* check_timeout: time passes at any moment.
Expire ==
    /\ timed /\ ~expired /\ frees = 0
    /\ expired' = TRUE
    /\ UNCHANGED <<handle, lifetime, timed, pc, calls, history>>

-----------------------------------------------------------------------------
(* ios_system_async and command_thread_func.                               *)

\* pthread_create, or its failure, which frees the handle.
Create ==
    /\ pc["command"] = "create"
    /\ \/ /\ pc' = [t \in Threads |-> IF t = "command" THEN "created" ELSE "idle"]
          /\ UNCHANGED <<owned, frees>>
       \/ Goto("command", "ended") /\ owned' = FALSE /\ frees' = 1
    /\ UNCHANGED <<handle, ref_count, early, clock, calls, history>>

\* Mutant: the thread takes no reference.
ThreadReferenceForgotten == ref_count

ThreadReference == ref_count + 1

\* The thread has started, and takes a reference of its own.
Retain ==
    /\ pc["command"] = "created" /\ frees = 0
    /\ ref_count' = ThreadReference
    /\ Goto("command", "start")
    /\ UNCHANGED <<handle, owned, frees, early, clock, calls, history>>

\* RUNNING is stored over whatever a wait has stored.
Run ==
    /\ pc["command"] = "start" /\ frees = 0
    /\ cmd_status' = "running"
    /\ Goto("command", "running")
    /\ UNCHANGED <<exit_code, kill_requested, callback, callback_invoked, lifetime,
                   clock, calls, history>>

\* ios_system comes to an end.
CommandEnds ==
    /\ pc["command"] = "running"
    /\ Goto("command", "finish")
    /\ UNCHANGED <<handle, lifetime, clock, calls, history>>

FinalStatus(result) ==
    IF timed /\ expired THEN "timeout"
    ELSE IF kill_requested THEN "killed"
    ELSE IF result = "zero" THEN "completed" ELSE "failed"

\* Exit code and status under the mutex.
FinishCommand ==
    /\ pc["command"] = "finish" /\ frees = 0
    /\ exit_code' \in {"zero", "nonzero"}
    /\ cmd_status' = FinalStatus(exit_code')
    /\ GotoBroadcast("command", "invoke")
    /\ UNCHANGED <<kill_requested, callback, callback_invoked, lifetime, clock, calls,
                   history>>

CloseSession ==
    /\ pc["command"] = "close" /\ frees = 0
    /\ Goto("command", "release")
    /\ UNCHANGED <<handle, lifetime, clock, calls, history>>

-----------------------------------------------------------------------------
(* invoke_callback_if_set, by the command's thread and by set_callback.    *)

AfterInvoke(t) == IF t = "command" THEN "close" ELSE "idle"

\* Mutant: callback_invoked is not looked at.
CallbackDueAgain == callback

CallbackDue == callback /\ ~callback_invoked

Invoke(t) ==
    /\ pc[t] = "invoke" /\ frees = 0
    /\ \/ CallbackDue /\ callback_invoked' = TRUE /\ Goto(t, "callback")
       \/ ~CallbackDue /\ UNCHANGED callback_invoked /\ Goto(t, AfterInvoke(t))
    /\ UNCHANGED <<cmd_status, exit_code, kill_requested, callback, lifetime, clock, calls,
                   history>>

HasEnded ==
    pc["command"] \in {"invoke", "callback", "null_call", "close", "release", "last", "ended"}

\* The call itself, without the mutex: cmd->callback is read again, and the
\* process ends when set_callback(NULL) came in between.
CallBack(t) ==
    /\ pc[t] = "callback" /\ frees = 0
    /\ \/ callback /\ runs' = Append(runs, HasEnded) /\ Goto(t, AfterInvoke(t))
       \/ ~callback /\ UNCHANGED runs /\ Goto(t, "null_call")
    /\ UNCHANGED <<handle, lifetime, clock, calls, gave_up>>

-----------------------------------------------------------------------------
(* ios_command_wait, also inside the last release.                         *)

Asleep(t) == IF pc[t] = "wait" THEN "sleep" ELSE "last_sleep"
Awake(t) == IF pc[t] = "wait" THEN "idle" ELSE "last"

\* Mutant: the deadline is looked at before the status.
StillWaitingTimed == cmd_status \in Unfinished \/ (timed /\ expired)

\* The loop condition.
StillWaiting == cmd_status \in Unfinished

\* One turn of the loop, from the lock or the wakeup on.
WaitTurn(t) ==
    /\ pc[t] \in {"wait", "last_wait"} /\ frees = 0
    /\ \/ ~StillWaiting /\ Goto(t, Awake(t)) /\ UNCHANGED <<cmd_status, gave_up>>
       \/ /\ StillWaiting /\ timed /\ expired
          /\ cmd_status' = "timeout" /\ gave_up' = TRUE
          /\ GotoBroadcast(t, Awake(t))
       \/ /\ StillWaiting /\ ~(timed /\ expired)
          /\ Goto(t, Asleep(t)) /\ UNCHANGED <<cmd_status, gave_up>>
    /\ UNCHANGED <<exit_code, kill_requested, callback, callback_invoked, lifetime,
                   clock, calls, runs>>

-----------------------------------------------------------------------------
(* What clients do.  The reference is given back when no client uses the   *)
(* handle any more.                                                        *)

Call(c, label) ==
    /\ pc[c] = "idle" /\ owned /\ calls < MaxCalls
    /\ calls' = calls + 1
    /\ Goto(c, label)

Wait(c) == Call(c, "wait") /\ UNCHANGED <<handle, lifetime, clock, history>>

\* ios_command_kill: only a command that is RUNNING.
KillCommand(c) ==
    /\ Call(c, "idle") /\ cmd_status = "running"
    /\ kill_requested' = TRUE
    /\ UNCHANGED <<cmd_status, exit_code, callback, callback_invoked, lifetime, clock,
                   history>>

\* Mutant: a command that has ended is left to its thread.
InvokeNever == FALSE

\* already_done && not_invoked
InvokeNow == cmd_status \notin Unfinished /\ ~callback_invoked

\* ios_command_set_callback, with a callback or with NULL: if the status says
\* done, the callback is invoked here.
SetCallback(c) ==
    /\ callback' \in BOOLEAN
    /\ Call(c, IF callback' /\ InvokeNow THEN "invoke" ELSE "idle")
    /\ UNCHANGED <<cmd_status, exit_code, kill_requested, callback_invoked, lifetime,
                   clock, history>>

Unref(t, label) ==
    /\ ref_count' = ref_count - 1
    /\ Goto(t, IF ref_count > 1 THEN label ELSE "last")

ClientRelease(c) ==
    /\ pc[c] = "idle" /\ owned
    /\ \A d \in Clients : pc[d] = "idle"
    /\ Unref(c, "idle")
    /\ owned' = FALSE
    /\ early' = (pc["command"] = "created")
    /\ UNCHANGED <<handle, frees, clock, calls, history>>

ThreadRelease ==
    /\ pc["command"] = "release" /\ frees = 0
    /\ Unref("command", "ended")
    /\ UNCHANGED <<handle, owned, frees, early, clock, calls, history>>

\* The last reference is gone: wait if the command has not ended, and free.
LastRelease(t) ==
    /\ pc[t] = "last" /\ frees = 0
    /\ \/ cmd_status \in Unfinished /\ Goto(t, "last_wait") /\ UNCHANGED frees
       \/ /\ cmd_status \notin Unfinished
          /\ frees' = frees + 1
          /\ Goto(t, IF t = "command" THEN "ended" ELSE "idle")
    /\ UNCHANGED <<handle, ref_count, owned, early, clock, calls, history>>

\* A thread goes on with a handle that is gone.
UseAfterFree(t) ==
    /\ Uses(t) /\ frees > 0
    /\ Goto(t, "undefined")
    /\ UNCHANGED <<handle, lifetime, clock, calls, history>>

-----------------------------------------------------------------------------
Command ==
    Retain \/ Run \/ CommandEnds \/ FinishCommand \/ CloseSession \/ ThreadRelease

Step(t) == Invoke(t) \/ CallBack(t) \/ WaitTurn(t) \/ LastRelease(t)

\* The process has ended in a call of NULL.
Crashed == \E t \in Threads : pc[t] = "null_call"

\* The handle is gone and nobody is inside: nothing is left to do.
Done ==
    /\ \/ ~owned /\ \A t \in Threads : pc[t] \in {"none", "idle", "ended", "undefined"}
       \/ Crashed
    /\ UNCHANGED asyncVars

AsyncNext ==
    \/ Create \/ Command \/ Expire \/ Done
    \/ \E c \in Clients : Wait(c) \/ KillCommand(c) \/ SetCallback(c) \/ ClientRelease(c)
    \/ \E t \in Threads : Step(t) \/ UseAfterFree(t)

AsyncSpec == AsyncInit /\ [][AsyncNext]_asyncVars

\* The command ends, the threads run on and the caller gives its handle back
\* in the end.  Nothing is assumed of the clock.
FairAsyncSpec ==
    /\ AsyncSpec
    /\ WF_asyncVars(Create) /\ WF_asyncVars(Command)
    /\ \A t \in Threads : WF_asyncVars(Step(t) \/ UseAfterFree(t))
    /\ WF_asyncVars(\E c \in Clients : ClientRelease(c))

-----------------------------------------------------------------------------
(* Properties.                                                             *)

\* Every variable keeps its type.
AsyncTypeOK ==
    /\ cmd_status \in Unfinished \cup {"completed", "failed", "killed", "timeout"}
    /\ exit_code \in {"none", "zero", "nonzero"} /\ kill_requested \in BOOLEAN
    /\ callback \in BOOLEAN /\ callback_invoked \in BOOLEAN
    /\ ref_count \in 0 .. 2
    /\ timed \in BOOLEAN /\ expired \in BOOLEAN /\ owned \in BOOLEAN
    /\ frees \in 0 .. 1
    /\ pc \in [Threads -> {"none", "idle", "create", "created", "start", "running",
                           "finish", "invoke", "callback", "null_call", "close",
                           "release", "wait", "sleep", "last", "last_wait", "last_sleep", "ended",
                           "undefined"}]
    /\ calls \in 0 .. MaxCalls
    /\ early \in BOOLEAN /\ gave_up \in BOOLEAN /\ runs \in Seq(BOOLEAN)

\* The comment of command_thread_func: "Increment ref count to prevent early free
\* while thread is still running".  Nobody uses the handle once it is freed.
HandleOutlivesUse == frees > 0 => \A t \in Threads : ~Uses(t) /\ pc[t] # "undefined"

\* That comment holds whenever the thread had its reference before the caller gave
\* its own back: whatever waits, timeouts and callbacks were going on.  And every
\* variable keeps its type.
HandleOutlivesUseOnceStarted == AsyncTypeOK /\ (~early => HandleOutlivesUse)

\* The callback is called at most once, by the command's thread or by
\* set_callback, and only after the command has ended, unless a wait has marked
\* it as timed out before.
CallbackOnce == Len(runs) <= 1 /\ (~gave_up => \A k \in DOMAIN runs : runs[k])

\* A callback that was set is called and the handle is freed in the end: neither
\* falls between set_callback's look at the status and the thread's look at the
\* callback, and no wait is stranded on the way.  (Unless set_callback(NULL) comes
\* between the look at cmd->callback and the call, which ends the process.)
AllDelivered ==
    (pc["command"] = "created")
      ~> (early \/ Crashed \/ (frees = 1 /\ (callback => runs # <<>>)))

\* Once the thread has stored how the command ended, that status stays: neither a
\* late timeout nor a late kill overwrites it.  (Before that, a TIMEOUT that a wait
\* stored may give way to RUNNING.)
StatusFinal == [][HasEnded => cmd_status' = cmd_status]_asyncVars

=============================================================================
