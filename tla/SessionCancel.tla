---------------------------- MODULE SessionCancel ----------------------------
(***************************************************************************)
(* Cooperative cancellation of one session: the flag of ios_kill, the      *)
(* self-pipe whose bytes wake the blocked commands, and the steps that     *)
(* request, clear and look for a cancellation.  Modules that run commands  *)
(* extend this one.                                                        *)
(*                                                                         *)
(* The flag and the pipe are two objects that no lock joins: a request     *)
(* swaps the flag and then writes, a clear stores the flag and then        *)
(* drains.                                                                 *)
(***************************************************************************)
EXTENDS Integers

CONSTANTS
    Killers,    \* threads that call ios_kill_session
    MaxKills    \* bound: calls of ios_kill_session

ASSUME SessionCancelAssumption == MaxKills \in Nat

VARIABLES
    cancel_requested,
    wake_bytes,     \* bytes in the cancel pipe
    kpc,            \* per killer: "idle", "exchange", "write"
    kills,
    clearing,       \* threads between the store and the drain of clear_cancel
    crossed         \* a request and a clear have overlapped (history)

cancelVars == <<cancel_requested, wake_bytes, kpc, kills, clearing, crossed>>

CancelInit ==
    /\ cancel_requested = FALSE /\ wake_bytes = 0
    /\ kpc = [k \in Killers |-> "idle"] /\ kills = 0
    /\ clearing = {} /\ crossed = FALSE

CancelTypeOK(Threads) ==
    /\ cancel_requested \in BOOLEAN
    /\ wake_bytes \in 0..MaxKills
    /\ kpc \in [Killers -> {"idle", "exchange", "write"}]
    /\ kills \in 0..MaxKills
    /\ clearing \subseteq Threads
    /\ crossed \in BOOLEAN

Requesting == \E k \in Killers : kpc[k] = "write"

-----------------------------------------------------------------------------

\* ios_kill and ios_kill_session with a root command: without one they return ESRCH.
\* No command of the core installs a SIGINT handler, so no signal is sent.
Kill(k, root) ==
    /\ kpc[k] = "idle" /\ kills < MaxKills /\ root # 0
    /\ kills' = kills + 1
    /\ kpc' = [kpc EXCEPT ![k] = "exchange"]
    /\ UNCHANGED <<cancel_requested, wake_bytes, clearing, crossed>>

\* Only the first transition writes a byte.
Wakes == ~cancel_requested

RequestExchange(k) ==
    /\ kpc[k] = "exchange"
    /\ cancel_requested' = TRUE
    /\ kpc' = [kpc EXCEPT ![k] = IF Wakes THEN "write" ELSE "idle"]
    /\ crossed' = (crossed \/ clearing # {})
    /\ UNCHANGED <<wake_bytes, kills, clearing>>

RequestWrite(k) ==
    /\ kpc[k] = "write"
    /\ wake_bytes' = wake_bytes + 1
    /\ kpc' = [kpc EXCEPT ![k] = "idle"]
    /\ UNCHANGED <<cancel_requested, kills, clearing, crossed>>

\* ios_session_clear_cancel by thread t, in two steps.
ClearStore(t) ==
    /\ cancel_requested' = FALSE
    /\ clearing' = clearing \cup {t}
    /\ crossed' = (crossed \/ Requesting)
    /\ UNCHANGED <<wake_bytes, kpc, kills>>

\* Mutant: the pipe is not drained.
ClearDrainForgotten(t) ==
    /\ clearing' = clearing \ {t}
    /\ UNCHANGED <<cancel_requested, wake_bytes, kpc, kills, crossed>>

ClearDrain(t) ==
    /\ wake_bytes' = 0
    /\ clearing' = clearing \ {t}
    /\ UNCHANGED <<cancel_requested, kpc, kills, crossed>>

\* Mutant: the cancel descriptor is not polled.
WokenNever == FALSE

\* What poll sees on the cancel descriptor; the byte stays in the pipe.
Woken == wake_bytes > 0

KillerNext(root) ==
    \E k \in Killers : Kill(k, root) \/ RequestExchange(k) \/ RequestWrite(k)

\* The killers run to the end of their calls.
KillerFairness ==
    \A k \in Killers : WF_cancelVars(RequestExchange(k) \/ RequestWrite(k))

-----------------------------------------------------------------------------

\* Unless a request and a clear have overlapped, the flag and the pipe agree whenever
\* nobody is between the two: a waiter that looked at the flag before the request is
\* woken by the byte, one that comes later sees the flag, and a byte that outlived its
\* request cannot interrupt the next command
\* (ios_session_request_cancel, ios_session_clear_cancel).
FlagAndByteAgree ==
    (~crossed /\ ~Requesting /\ clearing = {})
        => wake_bytes = (IF cancel_requested THEN 1 ELSE 0)
=============================================================================
