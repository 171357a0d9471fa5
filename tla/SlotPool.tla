------------------------------ MODULE SlotPool ------------------------------
(***************************************************************************)
(* What an interpreter pool promises: a slot number is granted to one      *)
(* agent at a time, and only slots below the size of the pool are granted. *)
(* The size is fixed once, before the first grant.  Somebody may break the *)
(* pool, and from then on nothing is promised.                             *)
(***************************************************************************)
EXTENDS Integers

CONSTANTS Agents, Sizes

VARIABLES size, grant, broken

vars == <<size, grant, broken>>

Init == size = 0 /\ grant = [a \in Agents |-> -1] /\ broken = FALSE

SetSize ==
    /\ size = 0
    /\ size' \in Sizes
    /\ UNCHANGED grant

Grant(a) ==
    /\ grant[a] = -1
    /\ \E s \in 0 .. size - 1 :
         /\ \A b \in Agents : grant[b] # s
         /\ grant' = [grant EXCEPT ![a] = s]
    /\ UNCHANGED size

Return(a) ==
    /\ grant[a] # -1
    /\ grant' = [grant EXCEPT ![a] = -1]
    /\ UNCHANGED size

Step == SetSize \/ \E a \in Agents : Grant(a) \/ Return(a)

Next == broken' \/ (Step /\ UNCHANGED broken)

Spec == Init /\ [][Next]_vars

=============================================================================
