---------------------------- MODULE QueryPoolInv ----------------------------
(***************************************************************************)
(* The inductive invariants behind the properties of QueryPool: what the   *)
(* frame of a call looks like at each point of the code, and, when threads *)
(* use only their own handles, what a slot holds while its holder works on *)
(* it.                                                                     *)
(***************************************************************************)
EXTENDS QueryPool

\* The program points of a thread that works on no slot.
Unallotted == {"idle", "alloc_lock", "alloc_scan", "alloc_claim"}

\* The frame of thread t at each program point.
FrameAt(t) ==
    /\ pc[t] = "idle" => op[t] = "none" /\ handle[t] = 0
    /\ pc[t] = "alloc_lock" => op[t] = "parse" /\ handle[t] = 0
    /\ pc[t] = "alloc_scan" => op[t] = "parse" /\ handle[t] # 0
    /\ pc[t] = "alloc_claim" => op[t] = "parse" /\ handle[t] \in Slots
    /\ pc[t] \in Unallotted =>
          pending[t] = {} /\ new_level[t] = 0
    /\ pc[t] = "get_context" =>
          \/ /\ op[t] = "parse"
             /\ handle[t] \in Slots /\ pending[t] = Fields /\ new_level[t] = 0
          \/ op[t] \in HandleOps /\ handle[t] \in Handles /\ pending[t] = {}
    /\ pc[t] = "check_stage" => op[t] \in StageOps
    /\ pc[t] = "read_mode" => op[t] = "compile"
    /\ pc[t] = "read_level" => op[t] = "get_safety_level"
    /\ pc[t] \in {"check_stage", "read_mode", "read_level"} =>
          handle[t] \in Slots /\ pending[t] = {}
    /\ pc[t] = "store" =>
          /\ handle[t] \in Slots
          /\ \/ op[t] = "parse" /\ new_level[t] = 0
             \/ op[t] \in StageOps /\ "mode" \notin pending[t]
    /\ pc[t] = "free_slot" =>
          op[t] = "destroy" /\ handle[t] \in Handles /\ pending[t] = {}

FrameOK == \A t \in Threads : FrameAt(t)

\* The thread has a call on slot i under way.
WorksOn(t, i) ==
    pc[t] \notin Unallotted /\ handle[t] = i

\* The thread goes through a pointer to slot i, or has just been allotted it.
Inside(t, i) ==
    handle[t] = i /\ (HasPointer(t) \/ (pc[t] = "get_context" /\ op[t] = "parse"))

\* A slot that a thread is inside is active, and while a thread works on a slot,
\* or is about to claim it, no other works on it.
Exclusive ==
    \A t \in Threads, i \in Slots :
        /\ Inside(t, i) => active[i]
        /\ WorksOn(t, i) \/ (pc[t] = "alloc_claim" /\ handle[t] = i) =>
              \A u \in Threads \ {t} : ~WorksOn(u, i)

\* With "owned" usage a thread works only on slots it holds.
WorkHeld == \A t \in Threads, i \in Slots : WorksOn(t, i) => i \in held[t]

\* A thread that uses only its own handles retains none it destroyed.
NothingRetired == \A t \in Threads : retired[t] = {}

\* What slot i holds while thread t is storing to it.
StoringAt(t, i) ==
    IF op[t] = "parse"
    THEN stage[i] = "parsed" /\ achieved_level[i] = 0
    ELSE /\ stage[i] = IF "stage" \in pending[t] THEN ExpectedStage[op[t]]
                                                 ELSE TargetStage[op[t]]
         /\ achieved_level[i] = IF "level" \in pending[t]
                                THEN LevelAt(mode[i], ExpectedStage[op[t]])
                                ELSE new_level[t]
         /\ new_level[t] = LevelAt(mode[i], TargetStage[op[t]])

\* Slot i is settled, or what it holds is known from its holder's progress.
TrackedAt(i) ==
    /\ \A t \in Threads :
          /\ pc[t] = "store" /\ handle[t] = i => StoringAt(t, i)
          /\ pc[t] = "get_context" /\ op[t] = "parse" /\ handle[t] = i
                => stage[i] = "parsed"
          /\ pc[t] = "read_mode" /\ handle[t] = i => stage[i] = "effect_checked"
    /\ (\A t \in Threads : ~(pc[t] = "store" /\ handle[t] = i))
          => achieved_level[i] = LevelAt(mode[i], stage[i])

SlotsTracked == \A i \in Slots : active[i] => TrackedAt(i)

-----------------------------------------------------------------------------
(* Two disciplines under which slots are exclusive: threads that use only  *)
(* their own handles, and a thread alone, which may pass any.              *)

Disciplined == Usage = "owned" \/ \E t \in Threads : Threads = {t}

\* Who may touch which slot, under "owned" usage.
HeldInv ==
    /\ HandlesDisjoint
    /\ ActiveIffHeld
    /\ WorkHeld
    /\ NothingRetired

\* The inductive invariant under "owned" usage.
OwnedInv == HeldInv /\ SlotsTracked

\* A thread alone has just been allotted nothing but what it holds.
AllottedHeld ==
    \A t \in Threads : pc[t] = "get_context" /\ op[t] = "parse" => handle[t] \in held[t]

\* Of a thread alone, what is active is what it holds, so a handle that it has
\* destroyed opens nothing.
AloneInv == ActiveIffHeld /\ DestroyedHandleRefused /\ AllottedHeld
=============================================================================
