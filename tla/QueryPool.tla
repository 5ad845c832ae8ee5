----------------------------- MODULE QueryPool -----------------------------
(***************************************************************************)
(* The query-context pool of src/interface/ffi/src/main.zig: a fixed array *)
(* of contexts behind integer handles, called through the C ABI by any     *)
(* number of threads.                                                      *)
(*                                                                         *)
(* The pool mutex is held only while a slot is looked for, looked up or    *)
(* reset.  getContext returns a pointer, and every operation reads and     *)
(* writes the context through it after the mutex is released, so each of   *)
(* those accesses is a step of its own here.  They are plain loads and     *)
(* stores: nothing orders the stores of one call for another thread, so a  *)
(* call performs its pending stores in any order.                          *)
(*                                                                         *)
(* A slot is named by its handle, one more than its index in the array.    *)
(***************************************************************************)
EXTENDS Naturals, FiniteSets

CONSTANTS
    Threads,      \* the threads that call the library
    NoThread,     \* the value of pool_mutex when it is free
    MaxContexts,  \* MAX_CONTEXTS, 256 in the code
    Modes,        \* the members of QueryMode queries are begun in
    Usage         \* the handles a thread passes: see MayPass

QueryMode == {"slipstream", "dependent_types", "ultimate_type_safe"}

ASSUME PoolAssumption ==
    /\ NoThread \notin Threads
    /\ MaxContexts \in Nat \ {0}
    /\ Modes \subseteq QueryMode
    /\ Usage \in {"owned", "stale", "any"}

Slots == 1..MaxContexts
Handles == 0..MaxContexts   \* 0 stands for every handle out of range

VARIABLES
    active, stage, mode, achieved_level,  \* the fields of each context
    pool_mutex,       \* the thread that holds it, or NoThread
    pc,               \* where each thread is; "idle" outside the library
    op,               \* the operation the thread is in
    handle,           \* its handle; the slot examined while allocSlot scans
    query_mode,       \* the mode argument of vqlut_parse
    new_level,        \* the level the call is about to store
    pending,          \* the fields the call has still to store
    last_error_msg,   \* the threadlocal: whether a message is set
    held,             \* history: handles allotted to a thread and not destroyed by it
    retired           \* history: handles a thread destroyed and still uses

slotVars == <<active, stage, mode, achieved_level>>
frameVars == <<op, handle, query_mode, new_level, pending>>
historyVars == <<held, retired>>
vars == <<slotVars, pool_mutex, pc, frameVars, last_error_msg, historyVars>>

-----------------------------------------------------------------------------
(* The operations: the stage each requires, and what it stores.            *)

Stages == {"parsed", "schema_bound", "type_checked", "effect_checked", "compiled"}
StageOps == {"bind_schema", "check_types", "check_effects", "compile"}
HandleOps == StageOps \cup {"get_safety_level"}
Ops == HandleOps \cup {"none", "parse", "destroy"}
Fields == {"mode", "stage", "level"}

\* A slip in the table: compile accepts a tree whose effects are unchecked.
CompileUnchecked ==
    [bind_schema   |-> "parsed",
     check_types   |-> "schema_bound",
     check_effects |-> "type_checked",
     compile       |-> "type_checked"]

ExpectedStage ==
    [bind_schema   |-> "parsed",
     check_types   |-> "schema_bound",
     check_effects |-> "type_checked",
     compile       |-> "effect_checked"]

\* A slip in the table: binding the schema counts as type checking.
BindChecksTypes ==
    [parse         |-> "parsed",
     bind_schema   |-> "type_checked",
     check_types   |-> "type_checked",
     check_effects |-> "effect_checked",
     compile       |-> "compiled"]

TargetStage ==
    [parse         |-> "parsed",
     bind_schema   |-> "schema_bound",
     check_types   |-> "type_checked",
     check_effects |-> "effect_checked",
     compile       |-> "compiled"]

\* A slip in the table: check_types stops short of injection_proof.
TypesLevelLow == [bind_schema |-> 1, check_types |-> 3, check_effects |-> 7]

TargetLevel == [bind_schema |-> 1, check_types |-> 4, check_effects |-> 7]

\* A slip in the table: a level the enumeration does not have.
CompiledLevelHigh ==
    [slipstream |-> 4, dependent_types |-> 7, ultimate_type_safe |-> 10]

CompiledLevel ==
    [slipstream |-> 4, dependent_types |-> 7, ultimate_type_safe |-> 9]

\* The position of a stage in the pipeline.
Rank ==
    [parsed |-> 0, schema_bound |-> 1, type_checked |-> 2,
     effect_checked |-> 3, compiled |-> 4]

-----------------------------------------------------------------------------
TypeOK ==
    /\ active \in [Slots -> BOOLEAN]
    /\ stage \in [Slots -> Stages]
    /\ mode \in [Slots -> QueryMode]
    /\ achieved_level \in [Slots -> 0..9]
    /\ pool_mutex \in Threads \cup {NoThread}
    /\ pc \in [Threads -> {"idle", "alloc_lock", "alloc_scan", "alloc_claim",
                           "get_context", "check_stage", "read_mode", "store",
                           "read_level", "free_slot"}]
    /\ op \in [Threads -> Ops]
    /\ handle \in [Threads -> 0..(MaxContexts + 1)]
    /\ query_mode \in [Threads -> QueryMode]
    /\ new_level \in [Threads -> 0..9]
    /\ pending \in [Threads -> SUBSET Fields]
    /\ last_error_msg \in [Threads -> BOOLEAN]
    /\ held \in [Threads -> SUBSET Slots]
    /\ retired \in [Threads -> SUBSET Slots]

Init ==
    /\ active = [i \in Slots |-> FALSE]
    /\ stage = [i \in Slots |-> "parsed"]
    /\ mode = [i \in Slots |-> "slipstream"]
    /\ achieved_level = [i \in Slots |-> 0]
    /\ pool_mutex = NoThread
    /\ pc = [t \in Threads |-> "idle"]
    /\ op = [t \in Threads |-> "none"]
    /\ handle = [t \in Threads |-> 0]
    /\ query_mode = [t \in Threads |-> "slipstream"]
    /\ new_level = [t \in Threads |-> 0]
    /\ pending = [t \in Threads |-> {}]
    /\ last_error_msg = [t \in Threads |-> FALSE]
    /\ held = [t \in Threads |-> {}]
    /\ retired = [t \in Threads |-> {}]

-----------------------------------------------------------------------------
(* Calling and returning.  A returning call leaves no frame behind.        *)

\* The handles thread t passes.  "owned": those of its own live queries, what
\* the comments of the exports require; vqlut_parse leaves out_handle unwritten,
\* so that a caller knows its handle only from the first-fit order of the scan.
\* "stale": also those it has destroyed, which only such a thread retains.
\* "any": every handle, another thread's and ones never allotted too.  A
\* handle that names no slot may always be passed: the tests do.
MayPass(t, h) ==
    \/ h \notin Slots
    \/ Usage = "any"
    \/ h \in held[t] \cup retired[t]

Enter(t, o, h, p) ==
    /\ pc[t] = "idle"
    /\ pc' = [pc EXCEPT ![t] = p]
    /\ op' = [op EXCEPT ![t] = o]
    /\ handle' = [handle EXCEPT ![t] = h]

Return(t, failed) ==
    /\ pc' = [pc EXCEPT ![t] = "idle"]
    /\ op' = [op EXCEPT ![t] = "none"]
    /\ handle' = [handle EXCEPT ![t] = 0]
    /\ query_mode' = [query_mode EXCEPT ![t] = "slipstream"]
    /\ new_level' = [new_level EXCEPT ![t] = 0]
    /\ pending' = [pending EXCEPT ![t] = {}]
    /\ last_error_msg' = [last_error_msg EXCEPT ![t] = failed]

\* vqlut_parse with a tag that is no QueryMode.
ParseBadMode(t) ==
    /\ pc[t] = "idle"
    /\ Return(t, TRUE)
    /\ UNCHANGED <<slotVars, pool_mutex, historyVars>>

CallParse(t, m) ==
    /\ Enter(t, "parse", 0, "alloc_lock")
    /\ query_mode' = [query_mode EXCEPT ![t] = m]
    /\ UNCHANGED <<slotVars, pool_mutex, new_level, pending, last_error_msg, historyVars>>

\* One of the four stage operations, or vqlut_get_safety_level.
CallHandleOp(t, o, h) ==
    /\ MayPass(t, h)
    /\ Enter(t, o, h, "get_context")
    /\ UNCHANGED <<slotVars, pool_mutex, query_mode, new_level, pending,
                   last_error_msg, historyVars>>

CallDestroy(t, h) ==
    /\ MayPass(t, h)
    /\ Enter(t, "destroy", h, "free_slot")
    /\ UNCHANGED <<slotVars, pool_mutex, query_mode, new_level, pending,
                   last_error_msg, historyVars>>

-----------------------------------------------------------------------------
(* allocSlot, under the mutex: the first slot that is not active.          *)

\* A mistake: the scan starts without waiting for the mutex.
AllocNoLock(t) ==
    /\ pc[t] = "alloc_lock"
    /\ pool_mutex' = t
    /\ pc' = [pc EXCEPT ![t] = "alloc_scan"]
    /\ handle' = [handle EXCEPT ![t] = 1]
    /\ UNCHANGED <<slotVars, op, query_mode, new_level, pending, last_error_msg, historyVars>>

AllocLock(t) ==
    /\ pc[t] = "alloc_lock"
    /\ pool_mutex = NoThread
    /\ pool_mutex' = t
    /\ pc' = [pc EXCEPT ![t] = "alloc_scan"]
    /\ handle' = [handle EXCEPT ![t] = 1]
    /\ UNCHANGED <<slotVars, op, query_mode, new_level, pending, last_error_msg, historyVars>>

AllocSkip(t) ==
    /\ pc[t] = "alloc_scan"
    /\ handle[t] \in Slots
    /\ active[handle[t]]
    /\ handle' = [handle EXCEPT ![t] = @ + 1]
    /\ UNCHANGED <<slotVars, pool_mutex, pc, op, query_mode, new_level, pending,
                   last_error_msg, historyVars>>

AllocFind(t) ==
    /\ pc[t] = "alloc_scan"
    /\ handle[t] \in Slots
    /\ ~active[handle[t]]
    /\ pc' = [pc EXCEPT ![t] = "alloc_claim"]
    /\ UNCHANGED <<slotVars, pool_mutex, frameVars, last_error_msg, historyVars>>

\* A mistake: a slot is taken as its last query's destroy left it, and the
\* vqlut_parse that is given it stores the mode alone.
AllocClaimBare(t) ==
    LET i == handle[t] IN
    /\ pc[t] = "alloc_claim"
    /\ active' = [active EXCEPT ![i] = TRUE]
    /\ pool_mutex' = NoThread
    /\ pc' = [pc EXCEPT ![t] = "get_context"]
    /\ pending' = [pending EXCEPT ![t] = {"mode"}]
    /\ held' = [held EXCEPT ![t] = @ \cup {i}]
    /\ retired' = [retired EXCEPT ![t] = @ \ {i}]
    /\ UNCHANGED <<stage, mode, achieved_level, op, handle, query_mode, new_level, last_error_msg>>

AllocClaim(t) ==
    LET i == handle[t] IN
    /\ pc[t] = "alloc_claim"
    /\ active' = [active EXCEPT ![i] = TRUE]
    /\ stage' = [stage EXCEPT ![i] = "parsed"]
    /\ mode' = [mode EXCEPT ![i] = "slipstream"]
    /\ achieved_level' = [achieved_level EXCEPT ![i] = 0]
    /\ pool_mutex' = NoThread
    /\ pc' = [pc EXCEPT ![t] = "get_context"]
    /\ pending' = [pending EXCEPT ![t] = Fields]
    /\ held' = [held EXCEPT ![t] = @ \cup {i}]
    /\ retired' = [retired EXCEPT ![t] = @ \ {i}]
    /\ UNCHANGED <<op, handle, query_mode, new_level, last_error_msg>>

\* A mistake: no unlock on the way out of a full pool.
ExhaustedLocked(t) ==
    /\ pc[t] = "alloc_scan"
    /\ handle[t] \notin Slots
    /\ Return(t, TRUE)
    /\ UNCHANGED <<slotVars, pool_mutex, historyVars>>

\* "Context pool exhausted".
AllocExhausted(t) ==
    /\ pc[t] = "alloc_scan"
    /\ handle[t] \notin Slots
    /\ pool_mutex' = NoThread
    /\ Return(t, TRUE)
    /\ UNCHANGED <<slotVars, historyVars>>

-----------------------------------------------------------------------------
(* getContext: only the active flag is read, and only it under the mutex,  *)
(* so lock, read and unlock are one step.                                  *)

\* Where an operation goes on with the pointer it was given.
AfterContext(o) ==
    IF o = "parse" THEN "store"
    ELSE IF o = "get_safety_level" THEN "read_level"
    ELSE "check_stage"

\* A mistake: the active flag is not looked at.
FoundUnchecked(t) ==
    /\ pc[t] = "get_context"
    /\ handle[t] \in Slots
    /\ pool_mutex = NoThread
    /\ pc' = [pc EXCEPT ![t] = AfterContext(op[t])]
    /\ UNCHANGED <<slotVars, pool_mutex, frameVars, last_error_msg, historyVars>>

ContextFound(t) ==
    /\ pc[t] = "get_context"
    /\ handle[t] \in Slots
    /\ pool_mutex = NoThread
    /\ active[handle[t]]
    /\ pc' = [pc EXCEPT ![t] = AfterContext(op[t])]
    /\ UNCHANGED <<slotVars, pool_mutex, frameVars, last_error_msg, historyVars>>

\* No context: vqlut_parse skips its stores and still returns ok, every
\* other operation reports its handle as invalid.
ContextMissing(t) ==
    /\ pc[t] = "get_context"
    /\ handle[t] \in Slots => pool_mutex = NoThread /\ ~active[handle[t]]
    /\ Return(t, op[t] # "parse")
    /\ UNCHANGED <<slotVars, pool_mutex, historyVars>>

-----------------------------------------------------------------------------
(* The accesses through the pointer, after the mutex is released.          *)

WrongStage(t) ==
    /\ pc[t] = "check_stage"
    /\ stage[handle[t]] # ExpectedStage[op[t]]
    /\ Return(t, TRUE)
    /\ UNCHANGED <<slotVars, pool_mutex, historyVars>>

\* A mistake: the operation does not insist on its stage.
AnyStage(t) ==
    /\ pc[t] = "check_stage"
    /\ op[t] # "compile"
    /\ pc' = [pc EXCEPT ![t] = "store"]
    /\ new_level' = [new_level EXCEPT ![t] = TargetLevel[op[t]]]
    /\ pending' = [pending EXCEPT ![t] = {"stage", "level"}]
    /\ UNCHANGED <<slotVars, pool_mutex, op, handle, query_mode, last_error_msg, historyVars>>

RightStage(t) ==
    /\ pc[t] = "check_stage"
    /\ op[t] # "compile"
    /\ stage[handle[t]] = ExpectedStage[op[t]]
    /\ pc' = [pc EXCEPT ![t] = "store"]
    /\ new_level' = [new_level EXCEPT ![t] = TargetLevel[op[t]]]
    /\ pending' = [pending EXCEPT ![t] = {"stage", "level"}]
    /\ UNCHANGED <<slotVars, pool_mutex, op, handle, query_mode, last_error_msg, historyVars>>

RightStageCompile(t) ==
    /\ pc[t] = "check_stage"
    /\ op[t] = "compile"
    /\ stage[handle[t]] = ExpectedStage[op[t]]
    /\ pc' = [pc EXCEPT ![t] = "read_mode"]
    /\ UNCHANGED <<slotVars, pool_mutex, frameVars, last_error_msg, historyVars>>

\* A mistake: the level comes from the frame and not from the context.
ReadFrameMode(t) ==
    /\ pc[t] = "read_mode"
    /\ pc' = [pc EXCEPT ![t] = "store"]
    /\ new_level' = [new_level EXCEPT ![t] = CompiledLevel[query_mode[t]]]
    /\ pending' = [pending EXCEPT ![t] = {"stage", "level"}]
    /\ UNCHANGED <<slotVars, pool_mutex, op, handle, query_mode, last_error_msg, historyVars>>

ReadMode(t) ==
    /\ pc[t] = "read_mode"
    /\ pc' = [pc EXCEPT ![t] = "store"]
    /\ new_level' = [new_level EXCEPT ![t] = CompiledLevel[mode[handle[t]]]]
    /\ pending' = [pending EXCEPT ![t] = {"stage", "level"}]
    /\ UNCHANGED <<slotVars, pool_mutex, op, handle, query_mode, last_error_msg, historyVars>>

Stored(t, f) ==
    /\ pc[t] = "store"
    /\ f \in pending[t]
    /\ pending' = [pending EXCEPT ![t] = @ \ {f}]
    /\ UNCHANGED <<active, pool_mutex, pc, op, handle, query_mode, new_level,
                   last_error_msg, historyVars>>

StoreMode(t) ==
    /\ Stored(t, "mode")
    /\ mode' = [mode EXCEPT ![handle[t]] = query_mode[t]]
    /\ UNCHANGED <<stage, achieved_level>>

\* A mistake: the stage after the one the query is in by now, and not after the
\* one that was tested.
StoreNextStage(t) ==
    /\ Stored(t, "stage")
    /\ stage' = [stage EXCEPT ![handle[t]] =
          [parsed         |-> IF op[t] = "parse" THEN "parsed" ELSE "schema_bound",
           schema_bound   |-> "type_checked",
           type_checked   |-> "effect_checked",
           effect_checked |-> "compiled",
           compiled       |-> "compiled"][@]]
    /\ UNCHANGED <<mode, achieved_level>>

StoreStage(t) ==
    /\ Stored(t, "stage")
    /\ stage' = [stage EXCEPT ![handle[t]] = TargetStage[op[t]]]
    /\ UNCHANGED <<mode, achieved_level>>

StoreLevel(t) ==
    /\ Stored(t, "level")
    /\ achieved_level' = [achieved_level EXCEPT ![handle[t]] = new_level[t]]
    /\ UNCHANGED <<mode, stage>>

ReturnOk(t) ==
    /\ pc[t] = "store"
    /\ pending[t] = {}
    /\ Return(t, FALSE)
    /\ UNCHANGED <<slotVars, pool_mutex, historyVars>>

\* A mistake: the level is read under the mutex, which a scan may hold.
ReadLevelLocked(t) ==
    /\ pc[t] = "read_level"
    /\ pool_mutex = NoThread
    /\ Return(t, FALSE)
    /\ UNCHANGED <<slotVars, pool_mutex, historyVars>>

\* vqlut_get_safety_level reads the level and returns it.
ReadLevel(t) ==
    /\ pc[t] = "read_level"
    /\ Return(t, FALSE)
    /\ UNCHANGED <<slotVars, pool_mutex, historyVars>>

-----------------------------------------------------------------------------
(* vqlut_destroy: freeSlot resets the context whether or not it is active, *)
(* and a handle out of range is a no-op; both clear the thread's error.    *)

\* A mistake: the slot is reset without the mutex, under a running scan.
FreeUnlocked(t) ==
    LET i == handle[t] IN
    /\ pc[t] = "free_slot"
    /\ i \in Slots
    /\ active' = [active EXCEPT ![i] = FALSE]
    /\ stage' = [stage EXCEPT ![i] = "parsed"]
    /\ mode' = [mode EXCEPT ![i] = "slipstream"]
    /\ achieved_level' = [achieved_level EXCEPT ![i] = 0]
    /\ held' = [held EXCEPT ![t] = @ \ {i}]
    /\ Return(t, FALSE)
    /\ UNCHANGED <<pool_mutex, retired>>

\* A mistake: the reset leaves the slot active.
FreeStillActive(t) ==
    LET i == handle[t] IN
    /\ pc[t] = "free_slot"
    /\ i \in Slots
    /\ pool_mutex = NoThread
    /\ held' = [held EXCEPT ![t] = @ \ {i}]
    /\ Return(t, FALSE)
    /\ UNCHANGED <<slotVars, pool_mutex, retired>>

FreeSlot(t) ==
    LET i == handle[t] IN
    /\ pc[t] = "free_slot"
    /\ i \in Slots
    /\ pool_mutex = NoThread
    /\ active' = [active EXCEPT ![i] = FALSE]
    /\ stage' = [stage EXCEPT ![i] = "parsed"]
    /\ mode' = [mode EXCEPT ![i] = "slipstream"]
    /\ achieved_level' = [achieved_level EXCEPT ![i] = 0]
    /\ held' = [held EXCEPT ![t] = @ \ {i}]
    /\ Return(t, FALSE)
    /\ retired' = [retired EXCEPT ![t] = IF Usage = "stale" THEN @ \cup {i} ELSE @]
    /\ UNCHANGED pool_mutex

FreeNothing(t) ==
    /\ pc[t] = "free_slot"
    /\ handle[t] \notin Slots
    /\ Return(t, FALSE)
    /\ UNCHANGED <<slotVars, pool_mutex, historyVars>>

-----------------------------------------------------------------------------
Call(t) ==
    \/ ParseBadMode(t)
    \/ \E m \in Modes : CallParse(t, m)
    \/ \E o \in HandleOps, h \in Handles : CallHandleOp(t, o, h)
    \/ \E h \in Handles : CallDestroy(t, h)

Run(t) ==
    \/ AllocLock(t) \/ AllocSkip(t) \/ AllocFind(t) \/ AllocClaim(t) \/ AllocExhausted(t)
    \/ ContextFound(t) \/ ContextMissing(t)
    \/ WrongStage(t) \/ RightStage(t) \/ RightStageCompile(t) \/ ReadMode(t)
    \/ StoreMode(t) \/ StoreStage(t) \/ StoreLevel(t) \/ ReturnOk(t)
    \/ ReadLevel(t)
    \/ FreeSlot(t) \/ FreeNothing(t)

Next == \E t \in Threads : Call(t) \/ Run(t)

Spec == Init /\ [][Next]_vars

\* A thread inside the library keeps running; nothing makes a thread call.
Fairness == \A t \in Threads : WF_vars(Run(t))
FairSpec == Spec /\ Fairness

-----------------------------------------------------------------------------
(* Properties.                                                             *)

\* Some call has still to store a field of slot i.
InFlux(i) == \E t \in Threads : handle[t] = i /\ pending[t] # {}

\* Slot i was allotted by a vqlut_parse that has not yet configured it.
Parsing(i) == \E t \in Threads : handle[t] = i /\ op[t] = "parse" /\ pending[t] # {}

\* The thread works on a context through a pointer getContext gave it.
HasPointer(t) == pc[t] \in {"check_stage", "read_mode", "store", "read_level"}

\* The level a query of mode m has earned at stage s.
LevelAt(m, s) ==
    IF s = "compiled"
    THEN [slipstream |-> 4, dependent_types |-> 7, ultimate_type_safe |-> 9][m]
    ELSE [parsed |-> 0, schema_bound |-> 1, type_checked |-> 4, effect_checked |-> 7][s]

\* The mutex is held by a thread exactly while that thread looks for a slot,
\* so no two threads do at once: `defer unlock` covers every way out of
\* allocSlot, the exhausted pool's too.
MutexHeldByScanner ==
    \A t \in Threads : pc[t] \in {"alloc_scan", "alloc_claim"} <=> pool_mutex = t

\* Every slot the scan has passed is still active, and the one it has found
\* still inactive, when the scan ends: the slot claimed is the first free
\* one, and a pool reported exhausted is full, whatever the others do.
ScanCurrent ==
    \A t \in Threads :
        /\ pc[t] \in {"alloc_scan", "alloc_claim"} =>
              \A i \in Slots : i < handle[t] => active[i]
        /\ pc[t] = "alloc_claim" => ~active[handle[t]]

\* No two threads have been allotted the same live handle.
HandlesDisjoint ==
    \A t, u \in Threads : t # u => held[t] \cap held[u] = {}

\* A slot is active exactly while some thread holds its handle: none leaks
\* and none is pulled from under its holder.
ActiveIffHeld ==
    \A i \in Slots : active[i] <=> \E t \in Threads : i \in held[t]

\* Between calls a query's level is the one its stage and mode have earned,
\* although every operation stores stage, level and mode separately and
\* outside the mutex.
LevelMatchesStage ==
    \A i \in Slots :
        active[i] /\ ~InFlux(i) => achieved_level[i] = LevelAt(mode[i], stage[i])

\* The stage of a live query never goes back.
StageNeverRegresses ==
    [][\A i \in Slots :
          active[i] /\ active'[i] => Rank[stage[i]] <= Rank[stage'[i]]]_vars

\* achieved_level is the "Highest safety level achieved so far": it never
\* goes down while the query lives.
LevelNeverDecreases ==
    [][\A i \in Slots :
          active[i] /\ active'[i] => achieved_level[i] <= achieved_level'[i]]_vars

\* "After destroy, the handle is invalid": a thread that gets a pointer for a
\* handle still holds that handle.
DestroyedHandleRefused ==
    \A t \in Threads : HasPointer(t) => handle[t] \in held[t]

\* "out_handle: receives handle on success" (main.zig:193).  vqlut_parse writes
\* nothing there, so a caller has its handle only by inference: "The handle is
\* the first free slot + 1" (main.zig:390), the first one that it does not
\* hold itself.  When a vqlut_parse is about to return ok, that is its handle.
CallerKnowsHandle ==
    \A t \in Threads :
        op[t] = "parse" /\ pc[t] = "store" /\ pending[t] = {} =>
            \A i \in Slots : i < handle[t] => i \in held[t]

\* The mutex is always released again.
MutexReleased == (pool_mutex # NoThread) ~> (pool_mutex = NoThread)

\* A call that has its pointer returns, whatever the other threads do: it
\* needs the mutex no more.
PointerCallReturns == \A t \in Threads : HasPointer(t) ~> pc[t] = "idle"

-----------------------------------------------------------------------------
(* Refinement: the pool implements independent queries.  A stage operation *)
(* takes effect at its last store, a parse when the context is configured. *)

VisibleStage(i) ==
    IF InFlux(i)
    THEN ExpectedStage[op[CHOOSE t \in Threads : handle[t] = i /\ pending[t] # {}]]
    ELSE stage[i]

VisibleLevel(i) ==
    IF InFlux(i) THEN LevelAt(mode[i], VisibleStage(i)) ELSE achieved_level[i]

VisibleQuery(i) ==
    IF ~active[i] \/ Parsing(i)
    THEN [mode |-> "none", stage |-> "none", level |-> 0]
    ELSE [mode |-> mode[i], stage |-> VisibleStage(i), level |-> VisibleLevel(i)]

Queries == INSTANCE QueryPipeline WITH query <- [i \in Slots |-> VisibleQuery(i)]

\* Every behaviour of the pool is one of the pipeline of independent queries.
ImplementsPipeline == Queries!PipelineSpec
=============================================================================
