----------------------------- MODULE SharedPool -----------------------------
(***************************************************************************)
(* What is left of the pool's promises when its callers share handles.     *)
(*                                                                         *)
(* Nothing in main.zig ties a handle to a thread, or keeps two calls off   *)
(* the same query: the stage a call tests may be out of date when it       *)
(* stores the next one, and a slot may be freed, and allotted again, under *)
(* a call that has a pointer to it.  This module adds history variables to *)
(* QueryPool that record where that has happened, and states what holds    *)
(* nevertheless.  The history reads the pool and never constrains it.      *)
(***************************************************************************)
EXTENDS QueryPoolInv

VARIABLES
    overlapped,   \* the live queries two calls have worked on at once
    intruded,     \* the live queries begun under a call on the slot's last one
    passed        \* the operations whose stage test the query in a slot has passed

sharedVars == <<vars, overlapped, intruded, passed>>

-----------------------------------------------------------------------------
\* Thread t may still store to slot i: it is in an operation that has its
\* pointer, or in the vqlut_parse that was allotted the slot.
Stores(t, i) ==
    /\ handle[t] = i
    /\ \/ pc[t] \in {"check_stage", "read_mode", "store"}
       \/ pc[t] = "get_context" /\ op[t] = "parse"

TwoStore(i) == \E t, u \in Threads : t # u /\ Stores(t, i) /\ Stores(u, i)

\* Thread t finds slot i at the stage that its operation requires.
PassesTest(t, i) ==
    /\ handle[t] = i
    /\ pc[t] = "check_stage"
    /\ pc'[t] \in {"read_mode", "store"}

Lives(i) == active[i] /\ active'[i]

Remember ==
    /\ overlapped' = {i \in Slots : active'[i] /\ (TwoStore(i)' \/ (active[i] /\ i \in overlapped))}
    /\ intruded' = {i \in Slots :
          active'[i] /\ (i \in intruded \/ (~active[i] /\ \E t \in Threads : Stores(t, i)))}
    /\ passed' = [i \in Slots |->
          IF Lives(i) THEN passed[i] \cup {op[t] : t \in {u \in Threads : PassesTest(u, i)}}
                      ELSE {}]

SharedInit ==
    /\ Init
    /\ overlapped = {}
    /\ intruded = {}
    /\ passed = [i \in Slots |-> {}]

SharedSpec == SharedInit /\ [][Next /\ Remember]_sharedVars
FairSharedSpec == SharedSpec /\ Fairness

-----------------------------------------------------------------------------
\* Every operation up to the stage of slot i, and one that grants at least its
\* level, has found the query in that slot at the stage it requires.
EarnedAt(i) ==
    /\ \A o \in StageOps : Rank[TargetStage[o]] <= Rank[stage[i]] => o \in passed[i]
    /\ achieved_level[i] = 0
       \/ \E o \in passed[i] : achieved_level[i] <= LevelAt(mode[i], TargetStage[o])

\* However calls race on one query, each with a test that may be out of date
\* when it stores (main.zig:238, 247), the query may fall back but is never at a
\* stage, or at a level, that it has not been tested for: no interleaving skips
\* one of the pipeline's checks.  A query begun while a call on the slot's last
\* one still has its pointer is exempt: that call stores by a test of the other.
NothingUnearned ==
    \A i \in Slots : active[i] /\ i \notin intruded => EarnedAt(i)

\* Whatever handles threads pass, a query that no two calls have worked on at
\* once goes through the pipeline as if it were alone.  What a stale test, or a
\* vqlut_destroy between allocSlot and the stores of vqlut_parse (main.zig:206),
\* does to a slot stays with that query: neither other queries nor the next one
\* in the slot are touched, because allocSlot resets what late stores left there.
Intact == INSTANCE QueryPipeline WITH
    query <- [i \in Slots |-> IF i \in overlapped THEN [mode |-> "none", stage |-> "none", level |-> 0]
                                                  ELSE VisibleQuery(i)]

IntactImplementsPipeline == Intact!PipelineSpec
=============================================================================
