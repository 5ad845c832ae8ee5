-------------------------- MODULE QueryPoolProofs --------------------------
(***************************************************************************)
(* Proofs about QueryPool, for any set of threads and any number of slots. *)
(*                                                                         *)
(* TypeOK needs FrameOK: what a call stores is read off tables that are    *)
(* indexed by its operation, so the operation a thread is in at each       *)
(* program point must be known.                                            *)
(***************************************************************************)
EXTENDS SharedPool, TLAPS

USE PoolAssumption DEF Slots, Handles, Unallotted

TypeInv == TypeOK /\ FrameOK

LEMMA InitTypeInv == Init => TypeInv
  BY DEF Init, TypeInv, TypeOK, FrameOK, FrameAt, Stages, QueryMode, Ops, HandleOps,
         StageOps, Fields

-----------------------------------------------------------------------------
(* Typing.  One lemma per group of actions. *)

LEMMA CallTypeInv ==
  ASSUME TypeInv, NEW t \in Threads, Call(t)
  PROVE  TypeInv'
<1> USE DEF TypeInv, TypeOK, FrameOK, FrameAt, Stages, QueryMode, Ops, HandleOps,
            StageOps, Fields, slotVars, historyVars, Enter, Return
<1>1. CASE ParseBadMode(t)
  BY <1>1 DEF ParseBadMode
<1>2. ASSUME NEW m \in Modes, CallParse(t, m) PROVE TypeInv'
  BY <1>2 DEF CallParse
<1>3. ASSUME NEW o \in HandleOps, NEW h \in Handles, CallHandleOp(t, o, h) PROVE TypeInv'
  BY <1>3 DEF CallHandleOp
<1>4. ASSUME NEW h \in Handles, CallDestroy(t, h) PROVE TypeInv'
  BY <1>4 DEF CallDestroy
<1> QED
  BY <1>1, <1>2, <1>3, <1>4 DEF Call

LEMMA AllocTypeInv ==
  ASSUME TypeInv, NEW t \in Threads,
         \/ AllocLock(t) \/ AllocSkip(t) \/ AllocFind(t) \/ AllocClaim(t)
         \/ AllocExhausted(t)
  PROVE  TypeInv'
<1> USE DEF TypeInv, TypeOK, FrameOK, FrameAt, Stages, QueryMode, Ops, HandleOps,
            StageOps, Fields, slotVars, historyVars, Return
<1>1. CASE AllocLock(t)
  BY <1>1 DEF AllocLock
<1>2. CASE AllocSkip(t)
  BY <1>2 DEF AllocSkip
<1>3. CASE AllocFind(t)
  BY <1>3 DEF AllocFind, frameVars
<1>4. CASE AllocClaim(t)
  BY <1>4 DEF AllocClaim
<1>5. CASE AllocExhausted(t)
  BY <1>5 DEF AllocExhausted
<1> QED
  BY <1>1, <1>2, <1>3, <1>4, <1>5

LEMMA PointerTypeInv ==
  ASSUME TypeInv, NEW t \in Threads,
         \/ ContextFound(t) \/ ContextMissing(t) \/ WrongStage(t) \/ RightStage(t)
         \/ RightStageCompile(t) \/ ReadMode(t) \/ ReadLevel(t)
  PROVE  TypeInv'
<1> USE DEF TypeInv, TypeOK, FrameOK, FrameAt, Stages, QueryMode, Ops, HandleOps,
            StageOps, Fields, slotVars, historyVars, frameVars, Return
<1>1. CASE ContextFound(t)
  BY <1>1 DEF ContextFound, AfterContext
<1>2. CASE ContextMissing(t)
  BY <1>2 DEF ContextMissing
<1>3. CASE WrongStage(t)
  BY <1>3 DEF WrongStage
<1>4. CASE RightStage(t)
  BY <1>4 DEF RightStage, TargetLevel
<1>5. CASE RightStageCompile(t)
  BY <1>5 DEF RightStageCompile
<1>6. CASE ReadMode(t)
  BY <1>6 DEF ReadMode, CompiledLevel
<1>7. CASE ReadLevel(t)
  BY <1>7 DEF ReadLevel
<1> QED
  BY <1>1, <1>2, <1>3, <1>4, <1>5, <1>6, <1>7

LEMMA StoreTypeInv ==
  ASSUME TypeInv, NEW t \in Threads,
         \/ StoreMode(t) \/ StoreStage(t) \/ StoreLevel(t) \/ ReturnOk(t)
         \/ FreeSlot(t) \/ FreeNothing(t)
  PROVE  TypeInv'
<1> USE DEF TypeInv, TypeOK, FrameOK, FrameAt, Stages, QueryMode, Ops, HandleOps,
            StageOps, Fields, slotVars, historyVars, Return, Stored
<1>1. CASE StoreMode(t)
  BY <1>1 DEF StoreMode
<1>2. CASE StoreStage(t)
  BY <1>2 DEF StoreStage, TargetStage
<1>3. CASE StoreLevel(t)
  BY <1>3 DEF StoreLevel
<1>4. CASE ReturnOk(t)
  BY <1>4 DEF ReturnOk
<1>5. CASE FreeSlot(t)
  BY <1>5 DEF FreeSlot
<1>6. CASE FreeNothing(t)
  BY <1>6 DEF FreeNothing
<1> QED
  BY <1>1, <1>2, <1>3, <1>4, <1>5, <1>6

LEMMA NextTypeInv == TypeInv /\ [Next]_vars => TypeInv'
<1>1. ASSUME TypeInv, NEW t \in Threads, Run(t) PROVE TypeInv'
  BY <1>1, AllocTypeInv, PointerTypeInv, StoreTypeInv DEF Run
<1>2. ASSUME TypeInv, UNCHANGED vars PROVE TypeInv'
  BY <1>2 DEF TypeInv, TypeOK, FrameOK, FrameAt, vars, slotVars, frameVars, historyVars
<1> QED
  BY <1>1, <1>2, CallTypeInv DEF Next

LEMMA SpecTypeInv == Spec => []TypeInv
  BY InitTypeInv, NextTypeInv, PTL DEF Spec

\* Every field of every context, and every frame, keeps its type whatever
\* handles the threads pass.
THEOREM TypeCorrect == Spec => []TypeOK
  BY SpecTypeInv, PTL DEF TypeInv

-----------------------------------------------------------------------------
(* The mutex.  What the scan has passed stays active because a slot is     *)
(* reset only under the mutex, which the scanning thread holds.            *)

ScanInv == MutexHeldByScanner /\ ScanCurrent

LEMMA InitScanInv == Init => ScanInv
  BY DEF Init, ScanInv, MutexHeldByScanner, ScanCurrent

\* A step of t into and out of no scan.
LEMMA ScanKept ==
  ASSUME TypeInv, ScanInv, NEW t \in Threads,
         pc[t] \notin {"alloc_scan", "alloc_claim"},
         pc'[t] \notin {"alloc_scan", "alloc_claim"},
         \A u \in Threads : u # t => pc'[u] = pc[u] /\ handle'[u] = handle[u],
         UNCHANGED <<active, pool_mutex>>
  PROVE  ScanInv'
  BY DEF ScanInv, MutexHeldByScanner, ScanCurrent

LEMMA AllocScanInv ==
  ASSUME TypeInv, ScanInv, NEW t \in Threads,
         \/ AllocLock(t) \/ AllocSkip(t) \/ AllocFind(t) \/ AllocClaim(t)
         \/ AllocExhausted(t)
  PROVE  ScanInv'
<1> USE DEF TypeInv, TypeOK, ScanInv, MutexHeldByScanner, ScanCurrent, slotVars
<1>1. CASE AllocLock(t)
  BY <1>1 DEF AllocLock
<1>2. CASE AllocSkip(t)
  BY <1>2 DEF AllocSkip
<1>3. CASE AllocFind(t)
  BY <1>3 DEF AllocFind, frameVars
<1>4. CASE AllocClaim(t)
  BY <1>4 DEF AllocClaim
<1>5. CASE AllocExhausted(t)
  BY <1>5 DEF AllocExhausted, Return
<1> QED
  BY <1>1, <1>2, <1>3, <1>4, <1>5

LEMMA NextScanInv == TypeInv /\ ScanInv /\ [Next]_vars => ScanInv'
<1> SUFFICES ASSUME TypeInv, ScanInv, [Next]_vars
             PROVE  ScanInv'
  OBVIOUS
<1> USE DEF TypeInv, TypeOK, slotVars, frameVars, Enter, Return
<1>1. ASSUME NEW t \in Threads, ParseBadMode(t) PROVE ScanInv'
  BY <1>1, ScanKept DEF ParseBadMode
<1>2. ASSUME NEW t \in Threads, NEW m \in Modes, CallParse(t, m) PROVE ScanInv'
  BY <1>2, ScanKept DEF CallParse
<1>3. ASSUME NEW t \in Threads, NEW o \in HandleOps, NEW h \in Handles, CallHandleOp(t, o, h)
      PROVE  ScanInv'
  BY <1>3, ScanKept DEF CallHandleOp
<1>4. ASSUME NEW t \in Threads, NEW h \in Handles, CallDestroy(t, h) PROVE ScanInv'
  BY <1>4, ScanKept DEF CallDestroy
<1>5. ASSUME NEW t \in Threads, ContextFound(t) PROVE ScanInv'
  BY <1>5, ScanKept DEF ContextFound, AfterContext
<1>6. ASSUME NEW t \in Threads,
             \/ ContextMissing(t) \/ WrongStage(t) \/ ReturnOk(t)
             \/ ReadLevel(t) \/ FreeNothing(t)
      PROVE  ScanInv'
  BY <1>6, ScanKept DEF ContextMissing, WrongStage, ReturnOk, ReadLevel, FreeNothing
<1>7. ASSUME NEW t \in Threads, RightStage(t) \/ RightStageCompile(t) \/ ReadMode(t)
      PROVE  ScanInv'
  BY <1>7, ScanKept DEF RightStage, RightStageCompile, ReadMode
<1>8. ASSUME NEW t \in Threads, StoreMode(t) \/ StoreStage(t) \/ StoreLevel(t)
      PROVE  ScanInv'
  BY <1>8, ScanKept DEF StoreMode, StoreStage, StoreLevel, Stored
<1>9. ASSUME NEW t \in Threads, FreeSlot(t) PROVE ScanInv'
  BY <1>9 DEF FreeSlot, ScanInv, MutexHeldByScanner, ScanCurrent
<1>10. CASE UNCHANGED vars
  BY <1>10 DEF vars, ScanInv, MutexHeldByScanner, ScanCurrent
<1> QED
  BY <1>1, <1>2, <1>3, <1>4, <1>5, <1>6, <1>7, <1>8, <1>9, <1>10, AllocScanInv
  DEF Next, Call, Run

LEMMA SpecScanInv == Spec => []ScanInv
  BY SpecTypeInv, InitScanInv, NextScanInv, PTL DEF Spec

\* allocSlot holds the mutex alone, and lets it go on every path.
THEOREM MutexCorrect == Spec => []MutexHeldByScanner
  BY SpecScanInv, PTL DEF ScanInv

\* vqlut_parse takes the first free slot, and says "exhausted" only of a
\* full pool.
THEOREM FirstFit == Spec => []ScanCurrent
  BY SpecScanInv, PTL DEF ScanInv

-----------------------------------------------------------------------------
(* Threads that use only their own handles.  HeldInv says who may touch a  *)
(* slot: its holder alone, because a slot is claimed while inactive, that  *)
(* is, held by nobody, and destroyed by its holder.                        *)

LEMMA InitHeldInv == Init => HeldInv
  BY DEF Init, HeldInv, HandlesDisjoint, ActiveIffHeld, WorkHeld, WorksOn, NothingRetired

LEMMA CallHeldInv ==
  ASSUME Usage = "owned", TypeInv, HeldInv, NEW t \in Threads, Call(t)
  PROVE  HeldInv'
<1> USE DEF TypeInv, TypeOK, HeldInv, HandlesDisjoint, ActiveIffHeld, WorkHeld, WorksOn,
            NothingRetired, slotVars, historyVars
<1>1. CASE ParseBadMode(t)
  BY <1>1 DEF ParseBadMode, Return
<1>2. ASSUME NEW m \in Modes, CallParse(t, m) PROVE HeldInv'
  BY <1>2 DEF CallParse, Enter
<1>3. ASSUME NEW o \in HandleOps, NEW h \in Handles, CallHandleOp(t, o, h) PROVE HeldInv'
  BY <1>3 DEF CallHandleOp, Enter, MayPass
<1>4. ASSUME NEW h \in Handles, CallDestroy(t, h) PROVE HeldInv'
  BY <1>4 DEF CallDestroy, Enter, MayPass
<1> QED
  BY <1>1, <1>2, <1>3, <1>4 DEF Call

LEMMA RunHeldInv ==
  ASSUME Usage = "owned", TypeInv, ScanInv, HeldInv, NEW t \in Threads, Run(t)
  PROVE  HeldInv'
<1> USE DEF TypeInv, TypeOK, HeldInv, HandlesDisjoint, ActiveIffHeld, WorkHeld, WorksOn,
            NothingRetired, slotVars, historyVars
<1>1. CASE AllocLock(t)
  BY <1>1 DEF AllocLock
<1>2. CASE AllocSkip(t)
  BY <1>2 DEF AllocSkip
<1>3. CASE AllocClaim(t)
  <2> DEFINE i == handle[t]
  <2>1. i \in Slots /\ \A u \in Threads : i \notin held[u]
    BY <1>3 DEF AllocClaim, ScanInv, ScanCurrent, FrameOK, FrameAt
  <2>2. HandlesDisjoint'
    BY <1>3, <2>1 DEF AllocClaim
  <2>3. ActiveIffHeld'
    BY <1>3, <2>1 DEF AllocClaim
  <2>4. WorkHeld'
    BY <1>3, <2>1 DEF AllocClaim
  <2>5. NothingRetired'
    BY <1>3 DEF AllocClaim
  <2> QED
    BY <2>2, <2>3, <2>4, <2>5
<1>4. CASE AllocExhausted(t)
  BY <1>4 DEF AllocExhausted, Return
<1>5. CASE FreeSlot(t)
  <2> DEFINE i == handle[t]
  <2>1. i \in held[t] /\ \A u \in Threads : u # t => i \notin held[u]
    BY <1>5 DEF FreeSlot
  <2>2. HandlesDisjoint'
    BY <1>5 DEF FreeSlot
  <2>3. ActiveIffHeld'
    BY <1>5, <2>1 DEF FreeSlot
  <2>4. WorkHeld'
    BY <1>5, <2>1 DEF FreeSlot, Return
  <2>5. NothingRetired'
    BY <1>5 DEF FreeSlot
  <2> QED
    BY <2>2, <2>3, <2>4, <2>5
<1>6. CASE \/ ContextMissing(t) \/ WrongStage(t) \/ ReturnOk(t)
           \/ ReadLevel(t) \/ FreeNothing(t)
  <2>1. /\ pc' = [pc EXCEPT ![t] = "idle"]
        /\ handle' = [handle EXCEPT ![t] = 0]
        /\ UNCHANGED <<active, held, retired>>
    BY <1>6 DEF ContextMissing, WrongStage, ReturnOk, ReadLevel, FreeNothing, Return
  <2> QED
    BY <2>1
<1>7. CASE \/ ContextFound(t) \/ RightStage(t) \/ RightStageCompile(t) \/ ReadMode(t)
           \/ StoreMode(t) \/ StoreStage(t) \/ StoreLevel(t)
  <2>1. /\ pc[t] \notin Unallotted
        /\ \A u \in Threads : u # t => pc'[u] = pc[u]
        /\ UNCHANGED <<handle, active, held, retired>>
    BY <1>7 DEF ContextFound, RightStage, RightStageCompile, ReadMode,
                StoreMode, StoreStage, StoreLevel, Stored, frameVars
  <2> QED
    BY <2>1
<1>8. CASE AllocFind(t)
  BY <1>8 DEF AllocFind, frameVars
<1> QED
  BY <1>1, <1>2, <1>3, <1>4, <1>5, <1>6, <1>7, <1>8 DEF Run

-----------------------------------------------------------------------------
(* SlotsTracked.  A step of the holder of slot i changes slot i alone, and *)
(* no other thread is inside a call on slot i.                             *)

\* A step of t that leaves slot i alone, and ends in no call on it whose
\* progress tells what the slot holds, keeps what is known of the slot.
LEMMA OtherSlot ==
  ASSUME TypeInv, NEW t \in Threads, NEW i \in Slots,
         TrackedAt(i),
         \A u \in Threads : u # t =>
            /\ pc'[u] = pc[u] /\ op'[u] = op[u] /\ handle'[u] = handle[u]
            /\ pending'[u] = pending[u] /\ new_level'[u] = new_level[u],
         stage'[i] = stage[i], mode'[i] = mode[i], achieved_level'[i] = achieved_level[i],
         ~(pc[t] = "store" /\ handle[t] = i),
         handle'[t] = i => /\ pc'[t] \notin {"store", "read_mode"}
                           /\ ~(pc'[t] = "get_context" /\ op'[t] = "parse")
  PROVE  TrackedAt(i)'
  BY DEF TrackedAt, StoringAt

\* The frames of the other threads are untouched by a step of t.
FramesKept(t) ==
    \A u \in Threads : u # t =>
        /\ pc'[u] = pc[u] /\ op'[u] = op[u] /\ handle'[u] = handle[u]
        /\ pending'[u] = pending[u] /\ new_level'[u] = new_level[u]

LEMMA InitTracked == Init => SlotsTracked
  BY DEF Init, SlotsTracked

LEMMA CallTracked ==
  ASSUME TypeInv, SlotsTracked, NEW t \in Threads, Call(t)
  PROVE  SlotsTracked'
<1> DEFINE Entered ==
      /\ FramesKept(t)
      /\ pc[t] = "idle"
      /\ pc'[t] \notin {"store", "read_mode"}
      /\ ~(pc'[t] = "get_context" /\ op'[t] = "parse")
      /\ UNCHANGED slotVars
<1>1. Entered
  <2> USE DEF TypeInv, TypeOK, FramesKept, slotVars
  <2>1. CASE ParseBadMode(t)
    BY <2>1 DEF ParseBadMode, Return
  <2>2. ASSUME NEW m \in Modes, CallParse(t, m) PROVE Entered
    BY <2>2 DEF CallParse, Enter
  <2>3. ASSUME NEW o \in HandleOps, NEW h \in Handles, CallHandleOp(t, o, h) PROVE Entered
    BY <2>3 DEF CallHandleOp, Enter, HandleOps, StageOps
  <2>4. ASSUME NEW h \in Handles, CallDestroy(t, h) PROVE Entered
    BY <2>4 DEF CallDestroy, Enter
  <2> QED
    BY <2>1, <2>2, <2>3, <2>4 DEF Call
<1> QED
  BY <1>1, OtherSlot DEF SlotsTracked, FramesKept, slotVars

\* The steps of a running call that tell nothing new of any slot.
LEMMA QuietTracked ==
  ASSUME TypeInv, SlotsTracked, NEW t \in Threads,
         \/ AllocLock(t) \/ AllocSkip(t) \/ AllocFind(t) \/ AllocExhausted(t)
         \/ ContextMissing(t) \/ WrongStage(t) \/ ReadLevel(t) \/ FreeNothing(t)
  PROVE  SlotsTracked'
<1>1. /\ FramesKept(t)
      /\ pc[t] # "store"
      /\ pc'[t] \in {"idle", "alloc_scan", "alloc_claim"}
      /\ UNCHANGED slotVars
  <2> USE DEF TypeInv, TypeOK, FramesKept, slotVars, Return
  <2>1. CASE AllocLock(t)
    BY <2>1 DEF AllocLock
  <2>2. CASE AllocSkip(t)
    BY <2>2 DEF AllocSkip
  <2>3. CASE AllocExhausted(t)
    BY <2>3 DEF AllocExhausted
  <2>4. CASE ContextMissing(t)
    BY <2>4 DEF ContextMissing
  <2>5. CASE WrongStage(t)
    BY <2>5 DEF WrongStage
  <2>6. CASE ReadLevel(t)
    BY <2>6 DEF ReadLevel
  <2>7. CASE FreeNothing(t)
    BY <2>7 DEF FreeNothing
  <2>8. CASE AllocFind(t)
    BY <2>8 DEF AllocFind, frameVars
  <2> QED
    BY <2>1, <2>2, <2>3, <2>4, <2>5, <2>6, <2>7, <2>8
<1> QED
  BY <1>1, OtherSlot DEF SlotsTracked, FramesKept, slotVars

\* A step of t inside a call on slot i tells nothing new of another slot.
LEMMA ElsewhereTracked ==
  ASSUME TypeInv, SlotsTracked, NEW t \in Threads, NEW i \in Slots, NEW j \in Slots,
         j # i, active[j], handle[t] = i, handle'[t] \in {0, i}, FramesKept(t),
         stage'[j] = stage[j], mode'[j] = mode[j], achieved_level'[j] = achieved_level[j]
  PROVE  TrackedAt(j)'
  BY OtherSlot DEF SlotsTracked, FramesKept

\* A thread on an active slot is alone there: what is known of the slot.
LEMMA HolderKnows ==
  ASSUME TypeInv, Exclusive, SlotsTracked, NEW t \in Threads, NEW i \in Slots,
         WorksOn(t, i), active[i] \/ Inside(t, i)
  PROVE  /\ active[i]
         /\ TrackedAt(i)
         /\ \A u \in Threads : u # t => ~WorksOn(u, i)
         /\ pc[t] # "store" => achieved_level[i] = LevelAt(mode[i], stage[i])
<1>1. active[i] /\ TrackedAt(i)
  BY DEF Exclusive, SlotsTracked
<1>2. \A u \in Threads : u # t => ~WorksOn(u, i)
  BY DEF Exclusive
<1>3. ASSUME pc[t] # "store" PROVE achieved_level[i] = LevelAt(mode[i], stage[i])
  <2>1. \A u \in Threads : ~(pc[u] = "store" /\ handle[u] = i)
    BY <1>2, <1>3 DEF WorksOn
  <2> QED
    BY <1>1, <2>1 DEF TrackedAt
<1> QED
  BY <1>1, <1>2, <1>3

LEMMA ContextTracked ==
  ASSUME TypeInv, Exclusive, SlotsTracked, NEW t \in Threads, NEW i \in Slots,
         handle[t] = i, ContextFound(t)
  PROVE  SlotsTracked'
<1> USE DEF TypeInv, TypeOK, slotVars, frameVars
<1>1. FramesKept(t) /\ UNCHANGED slotVars /\ UNCHANGED frameVars /\ WorksOn(t, i)
      /\ active[i]
  BY DEF ContextFound, FramesKept, WorksOn
<1>2. /\ TrackedAt(i)
      /\ \A u \in Threads : u # t => ~WorksOn(u, i)
      /\ achieved_level[i] = LevelAt(mode[i], stage[i])
  BY <1>1, HolderKnows DEF ContextFound
<1>3. \A u \in Threads : u # t => pc'[u] = pc[u]
  BY <1>1 DEF FramesKept
<1>4. TrackedAt(i)'
  <2>1. CASE op[t] = "parse"
    <3>1. stage[i] = "parsed" /\ achieved_level[i] = 0
      BY <1>2, <2>1 DEF ContextFound, TrackedAt, LevelAt
    <3> QED
      BY <1>1, <1>2, <1>3, <2>1, <3>1
      DEF ContextFound, AfterContext, TrackedAt, StoringAt, WorksOn
  <2>2. CASE op[t] # "parse"
    BY <1>1, <1>2, <1>3, <2>2 DEF ContextFound, AfterContext, TrackedAt, StoringAt, WorksOn
  <2> QED
    BY <2>1, <2>2
<1>5. ASSUME NEW j \in Slots, active'[j], j # i PROVE TrackedAt(j)'
  BY <1>1, <1>5, ElsewhereTracked
<1> QED
  BY <1>4, <1>5 DEF SlotsTracked

LEMMA StartStoreTracked ==
  ASSUME TypeInv, Exclusive, SlotsTracked, NEW t \in Threads, NEW i \in Slots,
         handle[t] = i, RightStage(t) \/ RightStageCompile(t) \/ ReadMode(t)
  PROVE  SlotsTracked'
<1> USE DEF TypeInv, TypeOK, slotVars, frameVars
<1>1. FramesKept(t) /\ UNCHANGED slotVars /\ UNCHANGED <<op, handle>> /\ WorksOn(t, i)
      /\ Inside(t, i)
  BY DEF RightStage, RightStageCompile, ReadMode, FramesKept, WorksOn, Inside, HasPointer
<1>2. /\ TrackedAt(i)
      /\ \A u \in Threads : u # t => ~WorksOn(u, i)
      /\ achieved_level[i] = LevelAt(mode[i], stage[i])
  BY <1>1, HolderKnows DEF RightStage, RightStageCompile, ReadMode
<1>3. \A u \in Threads : u # t => pc'[u] = pc[u]
  BY <1>1 DEF FramesKept
<1>4. \A u \in Threads : u # t =>
         ~(handle'[u] = i /\ pc'[u] \in {"store", "get_context", "read_mode"})
  BY <1>1, <1>2, <1>3 DEF WorksOn
<1>5. FrameAt(t)
  BY DEF FrameOK
<1>6. TrackedAt(i)'
  <2>1. CASE RightStage(t)
    BY <1>1, <1>2, <1>4, <1>5, <2>1
    DEF RightStage, FrameAt, StageOps, TrackedAt, StoringAt, LevelAt,
        TargetLevel, TargetStage, ExpectedStage
  <2>2. CASE RightStageCompile(t)
    BY <1>1, <1>2, <1>4, <2>2 DEF RightStageCompile, TrackedAt, StoringAt, ExpectedStage
  <2>3. CASE ReadMode(t)
    <3>1. op[t] = "compile" /\ stage[i] = "effect_checked"
      BY <1>2, <1>5, <2>3 DEF ReadMode, FrameAt, TrackedAt
    <3>2. CompiledLevel[mode[i]] = LevelAt(mode[i], "compiled")
      BY DEF CompiledLevel, LevelAt, QueryMode
    <3> QED
      BY <1>1, <1>2, <1>4, <2>3, <3>1, <3>2
      DEF ReadMode, TrackedAt, StoringAt, TargetStage, ExpectedStage
  <2> QED
    BY <2>1, <2>2, <2>3
<1>7. ASSUME NEW j \in Slots, active'[j], j # i PROVE TrackedAt(j)'
  BY <1>1, <1>7, ElsewhereTracked
<1> QED
  BY <1>6, <1>7 DEF SlotsTracked

LEMMA StoreTracked ==
  ASSUME TypeInv, Exclusive, SlotsTracked, NEW t \in Threads, NEW i \in Slots,
         handle[t] = i, StoreMode(t) \/ StoreStage(t) \/ StoreLevel(t)
  PROVE  SlotsTracked'
<1> USE DEF TypeInv, TypeOK
<1>1. /\ FramesKept(t) /\ UNCHANGED <<active, pc, op, handle, new_level>>
      /\ pc[t] = "store" /\ WorksOn(t, i) /\ Inside(t, i)
      /\ \A j \in Slots : j # i => /\ stage'[j] = stage[j] /\ mode'[j] = mode[j]
                                  /\ achieved_level'[j] = achieved_level[j]
  BY DEF StoreMode, StoreStage, StoreLevel, Stored, FramesKept, WorksOn, Inside, HasPointer
<1>2. /\ StoringAt(t, i)
      /\ \A u \in Threads : u # t => ~WorksOn(u, i)
  BY <1>1, HolderKnows DEF TrackedAt
<1>3. FrameAt(t)
  BY DEF FrameOK
<1>4. StoringAt(t, i)'
  <2>1. CASE StoreMode(t)
    <3>1. op[t] = "parse"
      BY <1>1, <1>3, <2>1 DEF StoreMode, Stored, FrameAt
    <3> QED
      BY <1>1, <1>2, <2>1, <3>1 DEF StoreMode, StoringAt
  <2>2. CASE StoreStage(t)
    <3>1. stage'[i] = TargetStage[op[t]] /\ "stage" \notin pending'[t]
          /\ ("level" \in pending'[t] <=> "level" \in pending[t])
          /\ UNCHANGED <<mode, achieved_level>>
      BY <2>2 DEF StoreStage, Stored
    <3> QED
      BY <1>1, <1>2, <3>1 DEF StoringAt, TargetStage
  <2>3. CASE StoreLevel(t)
    <3>1. achieved_level'[i] = new_level[t] /\ "level" \notin pending'[t]
          /\ ("stage" \in pending'[t] <=> "stage" \in pending[t])
          /\ UNCHANGED <<mode, stage>>
      BY <2>3 DEF StoreLevel, Stored
    <3> QED
      BY <1>1, <1>2, <1>3, <3>1 DEF StoringAt, FrameAt, StageOps
  <2> QED
    BY <2>1, <2>2, <2>3
<1>5. TrackedAt(i)'
  BY <1>1, <1>2, <1>4 DEF TrackedAt, WorksOn
<1>6. ASSUME NEW j \in Slots, active'[j], j # i PROVE TrackedAt(j)'
  BY <1>1, <1>6, ElsewhereTracked
<1> QED
  BY <1>5, <1>6 DEF SlotsTracked

LEMMA ReturnTracked ==
  ASSUME TypeInv, Exclusive, SlotsTracked, NEW t \in Threads, NEW i \in Slots,
         handle[t] = i, ReturnOk(t)
  PROVE  SlotsTracked'
<1> USE DEF TypeInv, TypeOK, slotVars
<1>1. /\ FramesKept(t) /\ UNCHANGED slotVars /\ pc[t] = "store" /\ pending[t] = {}
      /\ WorksOn(t, i) /\ Inside(t, i) /\ pc'[t] = "idle" /\ handle'[t] = 0
  BY DEF ReturnOk, Return, FramesKept, WorksOn, Inside, HasPointer
<1>2. /\ StoringAt(t, i)
      /\ \A u \in Threads : u # t => ~WorksOn(u, i)
  BY <1>1, HolderKnows DEF TrackedAt
<1>3. achieved_level[i] = LevelAt(mode[i], stage[i])
  <2>1. CASE op[t] = "parse"
    BY <1>2, <2>1 DEF StoringAt, LevelAt
  <2>2. CASE op[t] # "parse"
    BY <1>1, <1>2, <2>2 DEF StoringAt
  <2> QED
    BY <2>1, <2>2
<1>4. TrackedAt(i)'
  BY <1>1, <1>2, <1>3 DEF TrackedAt, WorksOn, FramesKept
<1>5. ASSUME NEW j \in Slots, active'[j], j # i PROVE TrackedAt(j)'
  BY <1>1, <1>5, ElsewhereTracked
<1> QED
  BY <1>4, <1>5 DEF SlotsTracked

LEMMA ClaimTracked ==
  ASSUME TypeInv, Exclusive, SlotsTracked, NEW t \in Threads, NEW i \in Slots,
         handle[t] = i, AllocClaim(t)
  PROVE  SlotsTracked'
<1> USE DEF TypeInv, TypeOK
<1>1. /\ FramesKept(t) /\ handle'[t] = i /\ pc[t] = "alloc_claim" /\ pc'[t] = "get_context"
      /\ \A j \in Slots : j # i => /\ active'[j] = active[j]
                                  /\ stage'[j] = stage[j] /\ mode'[j] = mode[j]
                                  /\ achieved_level'[j] = achieved_level[j]
      /\ stage'[i] = "parsed" /\ mode'[i] = "slipstream" /\ achieved_level'[i] = 0
  BY DEF AllocClaim, FramesKept
<1>2. \A u \in Threads : u # t => ~WorksOn(u, i)
  BY DEF AllocClaim, Exclusive
<1>3. TrackedAt(i)'
  <2>1. \A u \in Threads : u # t =>
           ~(handle'[u] = i /\ pc'[u] \in {"store", "get_context", "read_mode"})
    BY <1>1, <1>2 DEF WorksOn, FramesKept
  <2>2. LevelAt("slipstream", "parsed") = 0
    BY DEF LevelAt
  <2> QED
    BY <1>1, <2>1, <2>2 DEF TrackedAt
<1>4. ASSUME NEW j \in Slots, active'[j], j # i PROVE TrackedAt(j)'
  BY <1>1, <1>4, ElsewhereTracked
<1> QED
  BY <1>3, <1>4 DEF SlotsTracked

LEMMA FreeTracked ==
  ASSUME TypeInv, SlotsTracked, NEW t \in Threads, FreeSlot(t)
  PROVE  SlotsTracked'
<1> USE DEF TypeInv, TypeOK
<1>1. ASSUME NEW j \in Slots, active'[j] PROVE TrackedAt(j)'
  <2>1. /\ FramesKept(t) /\ handle[t] # j /\ handle'[t] = 0 /\ active[j]
        /\ stage'[j] = stage[j] /\ mode'[j] = mode[j]
        /\ achieved_level'[j] = achieved_level[j]
    BY <1>1 DEF FreeSlot, Return, FramesKept
  <2> QED
    BY <2>1, ElsewhereTracked DEF FreeSlot
<1> QED
  BY <1>1 DEF SlotsTracked

LEMMA RunTracked ==
  ASSUME TypeInv, Exclusive, SlotsTracked, NEW t \in Threads, Run(t)
  PROVE  SlotsTracked'
<1>1. CASE AllocClaim(t)
  <2>1. handle[t] \in Slots
    BY <1>1 DEF TypeInv, FrameOK, FrameAt, AllocClaim
  <2> QED
    BY <1>1, <2>1, ClaimTracked
<1>2. CASE ContextFound(t)
  BY <1>2, ContextTracked DEF ContextFound
<1>3. CASE RightStage(t) \/ RightStageCompile(t) \/ ReadMode(t)
  <2>1. handle[t] \in Slots
    BY <1>3 DEF TypeInv, FrameOK, FrameAt, RightStage, RightStageCompile, ReadMode
  <2> QED
    BY <1>3, <2>1, StartStoreTracked
<1>4. CASE StoreMode(t) \/ StoreStage(t) \/ StoreLevel(t) \/ ReturnOk(t)
  <2>1. handle[t] \in Slots
    BY <1>4 DEF TypeInv, FrameOK, FrameAt, StoreMode, StoreStage, StoreLevel, Stored, ReturnOk
  <2> QED
    BY <1>4, <2>1, StoreTracked, ReturnTracked
<1>5. CASE FreeSlot(t)
  BY <1>5, FreeTracked
<1> QED
  BY <1>1, <1>2, <1>3, <1>4, <1>5, QuietTracked DEF Run

\* Threads that pass only their own handles work only on slots they hold, and
\* nobody holds a slot that is about to be claimed.
LEMMA OwnedExclusive == TypeInv /\ ScanInv /\ HeldInv => Exclusive
<1> SUFFICES ASSUME TypeInv, ScanInv, HeldInv, NEW t \in Threads, NEW i \in Slots
             PROVE  /\ Inside(t, i) => active[i]
                    /\ WorksOn(t, i) \/ (pc[t] = "alloc_claim" /\ handle[t] = i) =>
                          \A u \in Threads \ {t} : ~WorksOn(u, i)
  BY DEF Exclusive
<1>1. Inside(t, i) => WorksOn(t, i)
  BY DEF Inside, WorksOn, HasPointer
<1>2. \A u \in Threads : WorksOn(u, i) => i \in held[u] /\ active[i]
  BY DEF HeldInv, WorkHeld, ActiveIffHeld
<1>3. pc[t] = "alloc_claim" /\ handle[t] = i => ~active[i]
  BY DEF ScanInv, ScanCurrent
<1> QED
  BY <1>1, <1>2, <1>3 DEF HeldInv, HandlesDisjoint

LEMMA NextOwnedInv == Usage = "owned" /\ TypeInv /\ ScanInv /\ OwnedInv /\ [Next]_vars => OwnedInv'
<1>1. ASSUME Usage = "owned", TypeInv, ScanInv, OwnedInv, NEW t \in Threads, Call(t) \/ Run(t)
      PROVE  OwnedInv'
  BY <1>1, CallHeldInv, RunHeldInv, CallTracked, OwnedExclusive, RunTracked DEF OwnedInv
<1>2. ASSUME OwnedInv, UNCHANGED vars PROVE OwnedInv'
  BY <1>2 DEF OwnedInv, HeldInv, HandlesDisjoint, ActiveIffHeld, WorkHeld, WorksOn,
              NothingRetired, SlotsTracked, TrackedAt, StoringAt,
              vars, slotVars, frameVars, historyVars
<1> QED
  BY <1>1, <1>2 DEF Next

\* The invariant behind the theorems below: threads that use only their own
\* handles work on slots that are theirs alone, and a slot whose fields are
\* stored one by one holds what its holder's progress says.
THEOREM OwnedCorrect ==
  ASSUME Usage = "owned"
  PROVE  Spec => []OwnedInv
<1>1. Init => OwnedInv
  BY InitHeldInv, InitTracked DEF OwnedInv
<1>2. TypeInv /\ ScanInv /\ OwnedInv /\ [Next]_vars => OwnedInv'
  BY NextOwnedInv
<1> QED
  BY <1>1, <1>2, SpecTypeInv, SpecScanInv, PTL DEF Spec

\* Two threads that use only their own handles are never given the same
\* slot, and a slot is in use exactly while a thread holds it.
THEOREM NoSharedHandle ==
  ASSUME Usage = "owned"
  PROVE  Spec => [](HandlesDisjoint /\ ActiveIffHeld)
  BY OwnedCorrect, PTL DEF OwnedInv, HeldInv

-----------------------------------------------------------------------------
(* A thread alone, which may pass any handle: what is active is what it    *)
(* holds, so a handle it has destroyed opens nothing.                      *)

LEMMA AloneStep ==
  ASSUME TypeInv, AloneInv, NEW t \in Threads, Threads = {t}, Call(t) \/ Run(t)
  PROVE  AloneInv'
<1> USE DEF TypeInv, TypeOK, AloneInv, ActiveIffHeld, DestroyedHandleRefused, AllottedHeld,
            HasPointer
<1>1. CASE Call(t)
  <2>1. UNCHANGED <<active, held>> /\ ~HasPointer(t)' /\ ~(pc'[t] = "get_context" /\ op'[t] = "parse")
    BY <1>1 DEF Call, ParseBadMode, CallParse, CallHandleOp, CallDestroy, Enter, Return,
                slotVars, historyVars, HandleOps, StageOps
  <2> QED
    BY <2>1
<1>2. CASE AllocClaim(t)
  BY <1>2 DEF AllocClaim
<1>3. CASE FreeSlot(t)
  BY <1>3 DEF FreeSlot, Return
<1>4. CASE ContextFound(t)
  BY <1>4 DEF ContextFound, slotVars, frameVars, historyVars
<1>5. CASE \/ AllocLock(t) \/ AllocSkip(t) \/ AllocFind(t) \/ AllocExhausted(t)
           \/ ContextMissing(t) \/ WrongStage(t) \/ ReturnOk(t) \/ ReadLevel(t)
           \/ FreeNothing(t)
  <2>1. UNCHANGED <<active, held>> /\ pc'[t] \in {"idle", "alloc_scan", "alloc_claim"}
    BY <1>5 DEF AllocLock, AllocSkip, AllocFind, AllocExhausted, ContextMissing, WrongStage,
                ReturnOk, ReadLevel, FreeNothing, Return, slotVars, historyVars, frameVars
  <2> QED
    BY <2>1
<1>6. CASE \/ RightStage(t) \/ RightStageCompile(t) \/ ReadMode(t)
           \/ StoreMode(t) \/ StoreStage(t) \/ StoreLevel(t)
  <2>1. UNCHANGED <<active, held, handle>> /\ HasPointer(t) /\ pc'[t] # "get_context"
    BY <1>6 DEF RightStage, RightStageCompile, ReadMode, StoreMode, StoreStage, StoreLevel,
                Stored, slotVars, historyVars, frameVars
  <2> QED
    BY <2>1
<1> QED
  BY <1>1, <1>2, <1>3, <1>4, <1>5, <1>6 DEF Run

LEMMA SpecAloneInv ==
  ASSUME NEW t \in Threads, Threads = {t}
  PROVE  Spec => []AloneInv
<1>1. Init => AloneInv
  BY DEF Init, AloneInv, ActiveIffHeld, DestroyedHandleRefused, AllottedHeld, HasPointer
<1>2. TypeInv /\ AloneInv /\ [Next]_vars => AloneInv'
  <2>1. ASSUME TypeInv, AloneInv, Call(t) \/ Run(t) PROVE AloneInv'
    BY <2>1, AloneStep
  <2>2. ASSUME AloneInv, UNCHANGED vars PROVE AloneInv'
    BY <2>2 DEF AloneInv, ActiveIffHeld, DestroyedHandleRefused, AllottedHeld, HasPointer,
                vars, slotVars, frameVars, historyVars
  <2> QED
    BY <2>1, <2>2 DEF Next
<1> QED
  BY <1>1, <1>2, SpecTypeInv, PTL DEF Spec

\* A thread alone is inside only slots that it holds, and those are active.
LEMMA AloneExclusive ==
  ASSUME NEW t \in Threads, Threads = {t}, AloneInv
  PROVE  Exclusive
<1> SUFFICES ASSUME NEW i \in Slots, Inside(t, i)
             PROVE  active[i]
  BY DEF Exclusive
<1>1. i \in held[t]
  BY DEF Inside, AloneInv, DestroyedHandleRefused, AllottedHeld
<1> QED
  BY <1>1 DEF AloneInv, ActiveIffHeld

LEMMA SpecAloneTracked ==
  ASSUME NEW t \in Threads, Threads = {t}
  PROVE  Spec => []SlotsTracked
<1>1. TypeInv /\ AloneInv /\ SlotsTracked /\ [Next]_vars => SlotsTracked'
  <2>1. ASSUME TypeInv, AloneInv, SlotsTracked, Call(t) \/ Run(t) PROVE SlotsTracked'
    BY <2>1, AloneExclusive, CallTracked, RunTracked
  <2>2. ASSUME SlotsTracked, UNCHANGED vars PROVE SlotsTracked'
    BY <2>2 DEF SlotsTracked, TrackedAt, StoringAt, vars, slotVars, frameVars
  <2> QED
    BY <2>1, <2>2 DEF Next
<1> QED
  BY <1>1, InitTracked, SpecTypeInv, SpecAloneInv, PTL DEF Spec

\* One thread keeps every slot in order, whatever handles it passes: a slot is
\* in use exactly while the thread holds it, none is lost and none comes back.
THEOREM AloneNothingLeaks ==
  ASSUME NEW t \in Threads, Threads = {t}
  PROVE  Spec => []ActiveIffHeld
  BY SpecAloneInv, PTL DEF AloneInv

\* One thread may pass any handle it likes: a destroyed one, or one that was
\* never allotted, gives it no context, however large the pool.
THEOREM StaleRefused ==
  ASSUME NEW t \in Threads, Threads = {t}
  PROVE  Spec => []DestroyedHandleRefused
  BY SpecAloneInv, PTL DEF AloneInv

\* Where a vqlut_parse that has its slot stands, everything before the slot is
\* the caller's.
KnowsInv ==
    \A t \in Threads :
        op[t] = "parse" /\ pc[t] \in {"get_context", "store"} =>
            \A i \in Slots : i < handle[t] => i \in held[t]

LEMMA KnowsStep ==
  ASSUME TypeInv, ScanInv, AloneInv, KnowsInv,
         NEW t \in Threads, Threads = {t}, Call(t) \/ Run(t)
  PROVE  KnowsInv'
<1> USE DEF TypeInv, TypeOK, FrameOK, FrameAt, KnowsInv
<1>1. CASE Call(t)
  BY <1>1 DEF Call, ParseBadMode, CallParse, CallHandleOp, CallDestroy, Enter, Return, HandleOps,
              StageOps
<1>2. CASE AllocClaim(t)
  <2>1. \A i \in Slots : i < handle[t] => i \in held[t]
    BY <1>2 DEF AllocClaim, ScanInv, ScanCurrent, AloneInv, ActiveIffHeld
  <2> QED
    BY <1>2, <2>1 DEF AllocClaim
<1>3. CASE \/ ContextFound(t) \/ StoreMode(t) \/ StoreStage(t) \/ StoreLevel(t)
  <2>1. /\ UNCHANGED <<op, handle, held>>
        /\ pc[t] \in {"get_context", "store"}
    BY <1>3 DEF ContextFound, StoreMode, StoreStage, StoreLevel, Stored, frameVars, historyVars
  <2> QED
    BY <2>1
<1>4. CASE \/ RightStage(t) \/ RightStageCompile(t) \/ ReadMode(t)
  <2>1. op[t] # "parse" /\ UNCHANGED op
    BY <1>4 DEF RightStage, RightStageCompile, ReadMode, frameVars, StageOps
  <2> QED
    BY <2>1
<1>5. CASE \/ AllocLock(t) \/ AllocSkip(t) \/ AllocFind(t) \/ AllocExhausted(t)
           \/ ContextMissing(t) \/ WrongStage(t) \/ ReturnOk(t) \/ ReadLevel(t)
           \/ FreeSlot(t) \/ FreeNothing(t)
  <2>1. pc'[t] \in {"alloc_scan", "alloc_claim", "idle"}
    BY <1>5 DEF AllocLock, AllocSkip, AllocFind, AllocExhausted, ContextMissing, WrongStage,
                ReturnOk, ReadLevel, FreeSlot, FreeNothing, Return
  <2> QED
    BY <2>1
<1> QED
  BY <1>1, <1>2, <1>3, <1>4, <1>5 DEF Run

\* One thread that calls alone knows its handle although vqlut_parse does not
\* tell it: every slot before the one it was allotted is its own.
THEOREM HandleKnown ==
  ASSUME NEW t \in Threads, Threads = {t}
  PROVE  Spec => []CallerKnowsHandle
<1>1. Init => KnowsInv
  BY DEF Init, KnowsInv
<1>2. TypeInv /\ ScanInv /\ AloneInv /\ KnowsInv /\ [Next]_vars => KnowsInv'
  <2>1. ASSUME TypeInv, ScanInv, AloneInv, KnowsInv, Call(t) \/ Run(t) PROVE KnowsInv'
    BY <2>1, KnowsStep
  <2>2. ASSUME KnowsInv, UNCHANGED vars PROVE KnowsInv'
    BY <2>2 DEF KnowsInv, vars, slotVars, frameVars, historyVars
  <2> QED
    BY <2>1, <2>2 DEF Next
<1>3. KnowsInv => CallerKnowsHandle
  BY DEF KnowsInv, CallerKnowsHandle
<1> QED
  BY <1>1, <1>2, <1>3, SpecTypeInv, SpecScanInv, SpecAloneInv, PTL DEF Spec

-----------------------------------------------------------------------------
(* The two disciplines together.  Under either a slot is worked on by one  *)
(* thread at a time, which is all that what a slot holds depends on.       *)

PoolInv == TypeInv /\ ScanInv /\ Exclusive /\ SlotsTracked

LEMMA SpecPoolInv ==
  ASSUME Disciplined
  PROVE  Spec => []PoolInv
<1>1. CASE Usage = "owned"
  <2>1. Spec => []OwnedInv
    BY <1>1, OwnedCorrect
  <2>2. TypeInv /\ ScanInv /\ OwnedInv => PoolInv
    BY OwnedExclusive DEF OwnedInv, PoolInv
  <2> QED
    BY <2>1, <2>2, SpecTypeInv, SpecScanInv, PTL
<1>2. ASSUME NEW t \in Threads, Threads = {t}
      PROVE  Spec => []PoolInv
  <2>1. Spec => []AloneInv
    BY <1>2, SpecAloneInv
  <2>2. Spec => []SlotsTracked
    BY <1>2, SpecAloneTracked
  <2>3. TypeInv /\ ScanInv /\ AloneInv /\ SlotsTracked => PoolInv
    BY <1>2, AloneExclusive DEF PoolInv
  <2> QED
    BY <2>1, <2>2, <2>3, SpecTypeInv, SpecScanInv, PTL
<1> QED
  BY <1>1, <1>2 DEF Disciplined

\* Under either discipline the level of a query at rest is the one its stage
\* and mode have earned: for any number of threads with their own handles, and
\* for one thread with any.
THEOREM LevelCorrect ==
  ASSUME Disciplined
  PROVE  Spec => []LevelMatchesStage
<1>1. PoolInv => LevelMatchesStage
  <2> SUFFICES ASSUME PoolInv, NEW i \in Slots, active[i], ~InFlux(i)
               PROVE  achieved_level[i] = LevelAt(mode[i], stage[i])
    BY DEF LevelMatchesStage
  <2>1. TrackedAt(i)
    BY DEF PoolInv, SlotsTracked
  <2>2. CASE \E t \in Threads : pc[t] = "store" /\ handle[t] = i
    <3>1. PICK t \in Threads : pc[t] = "store" /\ handle[t] = i
      BY <2>2
    <3>2. StoringAt(t, i) /\ pending[t] = {}
      BY <2>1, <3>1 DEF TrackedAt, InFlux
    <3>3. FrameAt(t)
      BY DEF PoolInv, TypeInv, FrameOK
    <3>4. CASE op[t] = "parse"
      BY <3>2, <3>4 DEF StoringAt, LevelAt
    <3>5. CASE op[t] # "parse"
      BY <3>2, <3>5 DEF StoringAt
    <3> QED
      BY <3>4, <3>5
  <2>3. CASE ~\E t \in Threads : pc[t] = "store" /\ handle[t] = i
    BY <2>1, <2>3 DEF TrackedAt
  <2> QED
    BY <2>2, <2>3
<1> QED
  BY <1>1, SpecPoolInv, PTL

\* Under either discipline the stage of a live query never goes back: the stage
\* a call has tested is still the one there when it stores the next.
THEOREM StageForward ==
  ASSUME Disciplined
  PROVE  Spec => StageNeverRegresses
<1>1. PoolInv /\ [Next]_vars =>
         [\A i \in Slots : active[i] /\ active'[i] => Rank[stage[i]] <= Rank[stage'[i]]]_vars
  <2> SUFFICES ASSUME PoolInv, NEW t \in Threads, Call(t) \/ Run(t),
                      NEW i \in Slots, active[i], active'[i]
               PROVE  Rank[stage[i]] <= Rank[stage'[i]]
    BY DEF Next
  <2>1. stage[i] \in Stages
    BY DEF PoolInv, TypeInv, TypeOK
  <2>2. CASE StoreStage(t) /\ handle[t] = i
    <3>1. pc[t] = "store" /\ "stage" \in pending[t] /\ stage'[i] = TargetStage[op[t]]
      BY <2>2 DEF StoreStage, Stored, PoolInv, TypeInv, TypeOK
    <3>2. StoringAt(t, i)
      BY <3>1, <2>2 DEF PoolInv, SlotsTracked, TrackedAt
    <3>3. op[t] = "parse" \/ op[t] \in StageOps
      BY <3>1 DEF PoolInv, TypeInv, FrameOK, FrameAt
    <3> QED
      BY <3>1, <3>2, <3>3 DEF StoringAt, Rank, TargetStage, ExpectedStage, StageOps
  <2>3. CASE ~(StoreStage(t) /\ handle[t] = i)
    <3>1. stage'[i] = stage[i]
      <4>1. CASE Call(t)
        BY <4>1 DEF Call, ParseBadMode, CallParse, CallHandleOp, CallDestroy, slotVars
      <4>2. CASE AllocClaim(t)
        BY <4>2 DEF AllocClaim, PoolInv, ScanInv, ScanCurrent, TypeInv, TypeOK
      <4>3. CASE FreeSlot(t)
        BY <4>3 DEF FreeSlot, PoolInv, TypeInv, TypeOK
      <4>4. CASE StoreStage(t)
        BY <2>3, <4>4 DEF StoreStage, PoolInv, TypeInv, TypeOK
      <4>5. CASE Run(t) /\ ~AllocClaim(t) /\ ~FreeSlot(t) /\ ~StoreStage(t)
        BY <4>5 DEF Run, AllocLock, AllocSkip, AllocFind, AllocExhausted, ContextFound,
                    ContextMissing, WrongStage, RightStage, RightStageCompile, ReadMode,
                    StoreMode, StoreLevel, ReturnOk, ReadLevel, FreeNothing, slotVars
      <4> QED
        BY <4>1, <4>2, <4>3, <4>4, <4>5
    <3> QED
      BY <2>1, <3>1 DEF Stages, Rank
  <2> QED
    BY <2>2, <2>3
<1> QED
  BY <1>1, SpecPoolInv, PTL DEF Spec, StageNeverRegresses

-----------------------------------------------------------------------------
(* The pool implements the pipeline of independent queries, when threads   *)
(* use only their own handles and when one thread uses any: every step is  *)
(* a stutter but the last store of a vqlut_parse (Begin), the last store   *)
(* of a stage operation (Advance) and the reset by vqlut_destroy of a slot *)
(* in use (Discard).                                                       *)

\* Thread t has stores to slot i pending.
StoresTo(t, i) == handle[t] = i /\ pending[t] # {}

\* A pending store is part of a call on the slot, and no other thread has a call
\* on it, so at most one thread stores to a slot.
LEMMA OneStores ==
  ASSUME PoolInv, NEW i \in Slots, NEW t \in Threads, StoresTo(t, i)
  PROVE  /\ WorksOn(t, i)
         /\ \A u \in Threads : StoresTo(u, i) => u = t
<1>1. \A u \in Threads : StoresTo(u, i) => WorksOn(u, i)
  BY DEF PoolInv, TypeInv, FrameOK, FrameAt, StoresTo, WorksOn
<1> QED
  BY <1>1 DEF PoolInv, Exclusive

\* What is to be seen of a slot while a thread stores to it, and while none does.
LEMMA SeenStoring ==
  ASSUME PoolInv, NEW i \in Slots, NEW t \in Threads, StoresTo(t, i)
  PROVE  VisibleQuery(i) =
            IF ~active[i] \/ op[t] = "parse" THEN Queries!Free
            ELSE Queries!QueryAt(mode[i], ExpectedStage[op[t]])
<1>1. \A u \in Threads : StoresTo(u, i) => u = t
  BY OneStores
<1>2. (CHOOSE u \in Threads : handle[u] = i /\ pending[u] # {}) = t
  BY <1>1 DEF StoresTo
<1>3. InFlux(i) /\ (Parsing(i) <=> op[t] = "parse")
  BY <1>1 DEF InFlux, Parsing, StoresTo
<1>4. VisibleStage(i) = ExpectedStage[op[t]]
  BY <1>2, <1>3 DEF VisibleStage
<1> QED
  BY <1>3, <1>4
  DEF VisibleQuery, VisibleLevel, Queries!QueryAt, Queries!Free, LevelAt, Queries!LevelAt

LEMMA SeenSettled ==
  ASSUME NEW i \in Slots, \A t \in Threads : ~StoresTo(t, i)
  PROVE  VisibleQuery(i) =
            IF active[i]
            THEN [mode |-> mode[i], stage |-> stage[i], level |-> achieved_level[i]]
            ELSE Queries!Free
<1>1. ~InFlux(i) /\ ~Parsing(i)
  BY DEF InFlux, Parsing, StoresTo
<1> QED
  BY <1>1 DEF VisibleQuery, VisibleStage, VisibleLevel, Queries!Free

\* The two together: what is to be seen of every slot, in this state and, by
\* the same lemmas, in the next.
Seen ==
    \A i \in Slots :
        /\ \A t \in Threads :
              StoresTo(t, i) =>
                 VisibleQuery(i) =
                    IF ~active[i] \/ op[t] = "parse" THEN Queries!Free
                    ELSE Queries!QueryAt(mode[i], ExpectedStage[op[t]])
        /\ (\A t \in Threads : ~StoresTo(t, i)) =>
              VisibleQuery(i) =
                 IF active[i]
                 THEN [mode |-> mode[i], stage |-> stage[i], level |-> achieved_level[i]]
                 ELSE Queries!Free

LEMMA AllSeen == PoolInv => Seen
  BY SeenStoring, SeenSettled DEF Seen

LEMMA AllSeenNext == PoolInv' => Seen'
  BY AllSeen, PTL

\* A slot looks as it did if its fields are as they were and nobody begins or
\* ends to store to it.
LEMMA LooksTheSame ==
  ASSUME PoolInv, PoolInv', NEW i \in Slots,
         active'[i] = active[i], stage'[i] = stage[i], mode'[i] = mode[i],
         achieved_level'[i] = achieved_level[i],
         \A t \in Threads : StoresTo(t, i)' <=> StoresTo(t, i),
         \A t \in Threads : StoresTo(t, i) => op'[t] = op[t]
  PROVE  VisibleQuery(i)' = VisibleQuery(i)
<1>1. Seen /\ Seen'
  BY AllSeen, AllSeenNext
<1>2. CASE \E t \in Threads : StoresTo(t, i)
  <2>1. PICK t \in Threads : StoresTo(t, i)
    BY <1>2
  <2> QED
    BY <1>1, <2>1 DEF Seen, Queries!QueryAt, Queries!Free, Queries!LevelAt
<1>3. CASE \A t \in Threads : ~StoresTo(t, i)
  BY <1>1, <1>3 DEF Seen, Queries!Free
<1> QED
  BY <1>2, <1>3

\* A step of t in a call on slot i, or on none, leaves the other slots as they look.
LEMMA OthersLookTheSame ==
  ASSUME PoolInv, PoolInv', NEW t \in Threads, NEW i \in Slots, NEW j \in Slots, j # i,
         FramesKept(t),
         active'[j] = active[j], stage'[j] = stage[j], mode'[j] = mode[j],
         achieved_level'[j] = achieved_level[j],
         handle[t] = i, handle'[t] \in {0, i}
  PROVE  VisibleQuery(j)' = VisibleQuery(j)
<1>1. \A u \in Threads : StoresTo(u, j)' <=> StoresTo(u, j)
  BY DEF FramesKept, StoresTo, Slots
<1>2. \A u \in Threads : StoresTo(u, j) => op'[u] = op[u]
  BY DEF FramesKept, StoresTo
<1> QED
  BY <1>1, <1>2, LooksTheSame

\* The table of visible queries is unchanged.
Stutter == \A i \in Slots : VisibleQuery(i)' = VisibleQuery(i)

LEMMA CallStutters ==
  ASSUME PoolInv, PoolInv', NEW t \in Threads, Call(t)
  PROVE  Stutter
<1>1. /\ FramesKept(t) /\ UNCHANGED slotVars
      /\ pending[t] = {} /\ pending'[t] = {}
  <2> USE DEF PoolInv, TypeInv, TypeOK, FrameOK, FrameAt, Unallotted, FramesKept
  <2>1. CASE ParseBadMode(t)
    BY <2>1 DEF ParseBadMode, Return, slotVars
  <2>2. ASSUME NEW m \in Modes, CallParse(t, m)
        PROVE  FramesKept(t) /\ UNCHANGED slotVars /\ pending[t] = {} /\ pending'[t] = {}
    BY <2>2 DEF CallParse, Enter, slotVars
  <2>3. ASSUME NEW o \in HandleOps, NEW h \in Handles, CallHandleOp(t, o, h)
        PROVE  FramesKept(t) /\ UNCHANGED slotVars /\ pending[t] = {} /\ pending'[t] = {}
    BY <2>3 DEF CallHandleOp, Enter, slotVars
  <2>4. ASSUME NEW h \in Handles, CallDestroy(t, h)
        PROVE  FramesKept(t) /\ UNCHANGED slotVars /\ pending[t] = {} /\ pending'[t] = {}
    BY <2>4 DEF CallDestroy, Enter, slotVars
  <2> QED
    BY <2>1, <2>2, <2>3, <2>4 DEF Call
<1>2. \A i \in Slots, u \in Threads : StoresTo(u, i)' <=> StoresTo(u, i)
  BY <1>1 DEF FramesKept, StoresTo
<1>3. \A i \in Slots, u \in Threads : StoresTo(u, i) => op'[u] = op[u]
  BY <1>1 DEF FramesKept, StoresTo
<1> QED
  BY <1>1, <1>2, <1>3, LooksTheSame DEF Stutter, slotVars

\* A call that looks for a slot, fails, returns or only reads.
LEMMA QuietStutters ==
  ASSUME PoolInv, PoolInv', NEW t \in Threads,
         \/ AllocLock(t) \/ AllocSkip(t) \/ AllocFind(t) \/ AllocExhausted(t)
         \/ ContextMissing(t) \/ WrongStage(t) \/ ReadLevel(t) \/ ReturnOk(t)
         \/ FreeNothing(t)
  PROVE  Stutter
<1>1. /\ FramesKept(t) /\ UNCHANGED slotVars
      /\ pending[t] = {} /\ pending'[t] = {}
  <2> USE DEF PoolInv, TypeInv, TypeOK, FrameOK, FrameAt, Unallotted, FramesKept, Return
  <2>1. CASE AllocLock(t)
    BY <2>1 DEF AllocLock, slotVars
  <2>2. CASE AllocSkip(t)
    BY <2>2 DEF AllocSkip, slotVars
  <2>3. CASE AllocFind(t)
    BY <2>3 DEF AllocFind, frameVars, slotVars
  <2>4. CASE AllocExhausted(t)
    BY <2>4 DEF AllocExhausted, slotVars
  <2>5. CASE ContextMissing(t)
    <3>1. handle[t] \in Slots => op[t] # "parse"
      BY <2>5 DEF ContextMissing, Exclusive, Inside
    <3> QED
      BY <2>5, <3>1 DEF ContextMissing, slotVars
  <2>6. CASE WrongStage(t)
    BY <2>6 DEF WrongStage, slotVars
  <2>7. CASE ReadLevel(t)
    BY <2>7 DEF ReadLevel, slotVars
  <2>8. CASE ReturnOk(t)
    BY <2>8 DEF ReturnOk, slotVars
  <2>9. CASE FreeNothing(t)
    BY <2>9 DEF FreeNothing, slotVars
  <2> QED
    BY <2>1, <2>2, <2>3, <2>4, <2>5, <2>6, <2>7, <2>8, <2>9
<1>2. \A i \in Slots, u \in Threads : StoresTo(u, i)' <=> StoresTo(u, i)
  BY <1>1 DEF FramesKept, StoresTo
<1>3. \A i \in Slots, u \in Threads : StoresTo(u, i) => op'[u] = op[u]
  BY <1>1 DEF FramesKept, StoresTo
<1> QED
  BY <1>1, <1>2, <1>3, LooksTheSame DEF Stutter, slotVars

\* A call that finds its slot, or goes on to read its mode.
LEMMA GoesOnStutters ==
  ASSUME PoolInv, PoolInv', NEW t \in Threads, ContextFound(t) \/ RightStageCompile(t)
  PROVE  Stutter
<1>1. UNCHANGED <<slotVars, frameVars>>
  BY DEF ContextFound, RightStageCompile
<1>2. \A i \in Slots, u \in Threads : StoresTo(u, i)' <=> StoresTo(u, i)
  BY <1>1 DEF frameVars, StoresTo
<1> QED
  BY <1>1, <1>2, LooksTheSame DEF Stutter, slotVars, frameVars

\* The slot is claimed: it is not yet a query.
LEMMA ClaimStutters ==
  ASSUME PoolInv, PoolInv', NEW t \in Threads, NEW i \in Slots,
         handle[t] = i, AllocClaim(t)
  PROVE  Stutter
<1>1. ~active[i]
  BY DEF AllocClaim, PoolInv, ScanInv, ScanCurrent
<1>2. /\ FramesKept(t) /\ handle'[t] = i
      /\ op'[t] = "parse" /\ pending'[t] = Fields
      /\ \A j \in Slots : j # i => /\ active'[j] = active[j] /\ mode'[j] = mode[j]
                                  /\ stage'[j] = stage[j]
                                  /\ achieved_level'[j] = achieved_level[j]
  BY DEF AllocClaim, FramesKept, PoolInv, TypeInv, TypeOK, FrameOK, FrameAt
<1>3. VisibleQuery(i) = Queries!Free
  BY <1>1, AllSeen DEF Seen
<1>4. StoresTo(t, i)'
  BY <1>2 DEF StoresTo, Fields
<1>5. VisibleQuery(i)' = Queries!Free
  <2>1. \A k \in Slots, u \in Threads :
           StoresTo(u, k)' /\ op'[u] = "parse" => VisibleQuery(k)' = Queries!Free
    BY AllSeenNext DEF Seen, Queries!Free
  <2> QED
    BY <1>1, <1>2, <1>4, <2>1
<1>6. ASSUME NEW j \in Slots, j # i PROVE VisibleQuery(j)' = VisibleQuery(j)
  BY <1>1, <1>2, <1>6, OthersLookTheSame
<1> QED
  BY <1>3, <1>5, <1>6 DEF Stutter

\* A stage operation that has tested its stage, or read the mode, has changed
\* nothing: what is to be seen is what it has tested.
LEMMA StartStutters ==
  ASSUME PoolInv, PoolInv', NEW t \in Threads, NEW i \in Slots,
         handle[t] = i, RightStage(t) \/ ReadMode(t)
  PROVE  Stutter
<1>1. /\ WorksOn(t, i) /\ Inside(t, i) /\ pending[t] = {}
      /\ op[t] \in StageOps /\ op'[t] = op[t] /\ handle'[t] = i
      /\ pending'[t] = {"stage", "level"}
      /\ FramesKept(t) /\ UNCHANGED slotVars
  BY DEF RightStage, ReadMode, FramesKept, WorksOn, Inside, HasPointer, Unallotted, PoolInv, TypeInv, TypeOK,
         FrameOK, FrameAt, StageOps
<1>2. /\ active[i] /\ TrackedAt(i)
      /\ \A u \in Threads : u # t => ~WorksOn(u, i)
      /\ achieved_level[i] = LevelAt(mode[i], stage[i])
  BY <1>1, HolderKnows DEF RightStage, ReadMode, PoolInv
<1>3. stage[i] = ExpectedStage[op[t]]
  <2>1. CASE RightStage(t)
    BY <2>1 DEF RightStage
  <2>2. CASE ReadMode(t)
    BY <1>2, <2>2 DEF ReadMode, TrackedAt, ExpectedStage, PoolInv, TypeInv, FrameOK, FrameAt
  <2> QED
    BY <2>1, <2>2
<1>4. VisibleQuery(i) = Queries!QueryAt(mode[i], ExpectedStage[op[t]])
  <2>1. \A u \in Threads : ~StoresTo(u, i)
    BY <1>1, <1>2, OneStores DEF StoresTo
  <2> QED
    BY <1>1, <1>2, <1>3, <2>1, AllSeen DEF Seen, Queries!QueryAt, LevelAt, Queries!LevelAt
<1>5. VisibleQuery(i)' = Queries!QueryAt(mode[i], ExpectedStage[op[t]])
  <2>1. StoresTo(t, i)'
    BY <1>1 DEF StoresTo
  <2>2. \A k \in Slots : StoresTo(t, k)' /\ active'[k] /\ op'[t] # "parse" =>
           VisibleQuery(k)' = Queries!QueryAt(mode[k], ExpectedStage[op[t]])'
    BY AllSeenNext DEF Seen
  <2> QED
    BY <1>1, <1>2, <2>1, <2>2 DEF StageOps, slotVars, Queries!QueryAt, Queries!LevelAt
<1>6. ASSUME NEW j \in Slots, j # i PROVE VisibleQuery(j)' = VisibleQuery(j)
  BY <1>1, <1>6, OthersLookTheSame DEF slotVars
<1> QED
  BY <1>4, <1>5, <1>6 DEF Stutter

-----------------------------------------------------------------------------
(* The three steps that are seen.                                          *)

\* Slot i alone looks different after a step.
OnlySlot(i) == \A j \in Slots : j # i => VisibleQuery(j)' = VisibleQuery(j)

\* vqlut_destroy: a query at rest is discarded, and the reset of a slot that is
\* in no use is not to be seen.
LEMMA FreeDiscards ==
  ASSUME PoolInv, PoolInv', NEW t \in Threads, NEW i \in Slots,
         handle[t] = i, FreeSlot(t)
  PROVE  /\ active[i] <=> VisibleQuery(i) # Queries!Free
         /\ VisibleQuery(i)' = Queries!Free
         /\ OnlySlot(i)
<1>1. /\ WorksOn(t, i) /\ pending[t] = {} /\ handle'[t] = 0 /\ pending'[t] = {}
      /\ FramesKept(t) /\ ~active'[i]
      /\ \A j \in Slots : j # i => /\ active'[j] = active[j] /\ mode'[j] = mode[j]
                                  /\ stage'[j] = stage[j]
                                  /\ achieved_level'[j] = achieved_level[j]
  BY DEF FreeSlot, Return, FramesKept, WorksOn, Unallotted, PoolInv, TypeInv, TypeOK,
         FrameOK, FrameAt
<1>2. \A u \in Threads : u # t => ~WorksOn(u, i)
  BY <1>1 DEF PoolInv, Exclusive
<1>3. \A u \in Threads : ~StoresTo(u, i)
  BY <1>1, <1>2, OneStores DEF StoresTo
<1>4. active[i] <=> VisibleQuery(i) # Queries!Free
  <2>1. VisibleQuery(i) =
           IF active[i]
           THEN [mode |-> mode[i], stage |-> stage[i], level |-> achieved_level[i]]
           ELSE Queries!Free
    BY <1>3, AllSeen DEF Seen
  <2>2. mode[i] # "none"
    BY DEF PoolInv, TypeInv, TypeOK, QueryMode
  <2> QED
    BY <2>1, <2>2 DEF Queries!Free
<1>5. VisibleQuery(i)' = Queries!Free
  BY <1>1, AllSeenNext DEF Seen, Queries!Free
<1>6. OnlySlot(i)
  BY <1>1, OthersLookTheSame DEF OnlySlot
<1> QED
  BY <1>4, <1>5, <1>6

\* A store: nothing is to be seen of it but if it is the call's last.
LEMMA StoreIsSeen ==
  ASSUME PoolInv, PoolInv', NEW t \in Threads, NEW i \in Slots,
         handle[t] = i, StoreMode(t) \/ StoreStage(t) \/ StoreLevel(t)
  PROVE  /\ OnlySlot(i)
         /\ \/ VisibleQuery(i)' = VisibleQuery(i)
            \/ /\ VisibleQuery(i) = Queries!Free
               /\ \E m \in QueryMode : VisibleQuery(i)' = Queries!QueryAt(m, "parsed")
            \/ \E m \in QueryMode, o \in StageOps :
                  /\ VisibleQuery(i) = Queries!QueryAt(m, ExpectedStage[o])
                  /\ VisibleQuery(i)' = Queries!QueryAt(m, TargetStage[o])
<1>1. /\ FramesKept(t) /\ UNCHANGED <<active, pc, op, handle>>
      /\ pc[t] = "store" /\ StoresTo(t, i) /\ WorksOn(t, i) /\ Inside(t, i)
      /\ \A j \in Slots : j # i => /\ mode'[j] = mode[j] /\ stage'[j] = stage[j]
                                  /\ achieved_level'[j] = achieved_level[j]
  BY DEF StoreMode, StoreStage, StoreLevel, Stored, StoresTo, FramesKept, WorksOn, Inside,
         HasPointer, Unallotted, PoolInv, TypeInv, TypeOK
<1>2. active[i] /\ active'[i] /\ \A u \in Threads : u # t => ~WorksOn(u, i)
  BY <1>1, HolderKnows DEF PoolInv
<1>3. StoringAt(t, i)'
  BY <1>1, <1>2 DEF PoolInv, SlotsTracked, TrackedAt
<1>4. OnlySlot(i)
  BY <1>1, OthersLookTheSame DEF OnlySlot
<1>5. VisibleQuery(i) = IF op[t] = "parse" THEN Queries!Free
                        ELSE Queries!QueryAt(mode[i], ExpectedStage[op[t]])
  BY <1>1, <1>2, AllSeen DEF Seen
<1>6. op[t] = "parse" \/ (op[t] \in StageOps /\ UNCHANGED mode)
  BY <1>1 DEF StoreMode, StoreStage, StoreLevel, Stored, PoolInv, TypeInv, FrameOK, FrameAt
<1>7. CASE pending'[t] # {}
  <2>1. VisibleQuery(i)' = IF op[t] = "parse" THEN Queries!Free
                           ELSE Queries!QueryAt(mode'[i], ExpectedStage[op[t]])
    <3>1. StoresTo(t, i)'
      BY <1>1, <1>7 DEF StoresTo
    <3> QED
      BY <1>1, <1>2, <3>1, AllSeenNext DEF Seen, Queries!QueryAt, Queries!Free, Queries!LevelAt
  <2> QED
    BY <1>4, <1>5, <1>6, <2>1
<1>8. CASE pending'[t] = {}
  <2>1. VisibleQuery(i)' =
           [mode |-> mode'[i], stage |-> stage'[i], level |-> achieved_level'[i]]
    <3>1. \A u \in Threads : ~StoresTo(u, i)'
      BY <1>1, <1>2, <1>8, OneStores DEF StoresTo, FramesKept
    <3> QED
      BY <1>2, <3>1, AllSeenNext DEF Seen
  <2>2. mode'[i] \in QueryMode
    BY DEF PoolInv, TypeInv, TypeOK
  <2>3. CASE op[t] = "parse"
    <3>1. VisibleQuery(i)' = Queries!QueryAt(mode'[i], "parsed")
      BY <1>1, <1>3, <2>1, <2>3 DEF StoringAt, Queries!QueryAt, Queries!LevelAt
    <3> QED
      BY <1>4, <1>5, <2>2, <2>3, <3>1
  <2>4. CASE op[t] \in StageOps
    <3>1. /\ stage'[i] = TargetStage[op[t]]
          /\ achieved_level'[i] = LevelAt(mode'[i], TargetStage[op[t]])
      BY <1>1, <1>3, <1>8, <2>4 DEF StoringAt, StageOps, LevelAt
    <3>2. VisibleQuery(i)' = Queries!QueryAt(mode'[i], TargetStage[op[t]])
      BY <2>1, <3>1 DEF Queries!QueryAt, Queries!LevelAt, LevelAt
    <3>3. op[t] # "parse" /\ UNCHANGED mode
      BY <1>6, <2>4 DEF StageOps
    <3> QED
      BY <1>4, <1>5, <2>2, <2>4, <3>2, <3>3
  <2> QED
    BY <1>6, <2>3, <2>4
<1> QED
  BY <1>7, <1>8

LEMMA StoreRefines ==
  ASSUME PoolInv, PoolInv', NEW t \in Threads, NEW i \in Slots,
         handle[t] = i, StoreMode(t) \/ StoreStage(t) \/ StoreLevel(t)
  PROVE  Stutter \/ Queries!PipelineNext
<1>1. OnlySlot(i)
  BY StoreIsSeen
<1>2. CASE VisibleQuery(i)' = VisibleQuery(i)
  BY <1>1, <1>2 DEF OnlySlot, Stutter
<1>3. ASSUME VisibleQuery(i) = Queries!Free,
             NEW m \in QueryMode, VisibleQuery(i)' = Queries!QueryAt(m, "parsed")
      PROVE  Queries!PipelineNext
  <2>1. Queries!Begin(i, m)
    BY <1>1, <1>3 DEF Queries!Begin, OnlySlot
  <2> QED
    BY <2>1 DEF Queries!PipelineNext, Queries!QueryMode, QueryMode
<1>4. ASSUME NEW m \in QueryMode, NEW o \in StageOps,
             VisibleQuery(i) = Queries!QueryAt(m, ExpectedStage[o]),
             VisibleQuery(i)' = Queries!QueryAt(m, TargetStage[o])
      PROVE  Queries!PipelineNext
  <2>1. /\ VisibleQuery(i).mode = m
        /\ VisibleQuery(i).stage = ExpectedStage[o]
    BY <1>4 DEF Queries!QueryAt
  <2>2. /\ ExpectedStage[o] \in DOMAIN Queries!Successor
        /\ Queries!Successor[ExpectedStage[o]] = TargetStage[o]
    BY DEF StageOps, ExpectedStage, TargetStage, Queries!Successor
  <2>3. Queries!Advance(i)
    BY <1>1, <1>4, <2>1, <2>2 DEF Queries!Advance, OnlySlot
  <2> QED
    BY <2>3 DEF Queries!PipelineNext
<1> QED
  BY <1>2, <1>3, <1>4, StoreIsSeen

LEMMA FreeRefines ==
  ASSUME PoolInv, PoolInv', NEW t \in Threads, NEW i \in Slots,
         handle[t] = i, FreeSlot(t)
  PROVE  Stutter \/ Queries!PipelineNext
<1>1. CASE active[i]
  <2>1. Queries!Discard(i)
    BY <1>1, FreeDiscards DEF Queries!Discard, OnlySlot
  <2> QED
    BY <2>1 DEF Queries!PipelineNext
<1>2. CASE ~active[i]
  BY <1>2, FreeDiscards DEF OnlySlot, Stutter
<1> QED
  BY <1>1, <1>2

LEMMA StepRefines ==
  ASSUME PoolInv, PoolInv', NEW t \in Threads, Call(t) \/ Run(t)
  PROVE  Stutter \/ Queries!PipelineNext
<1>1. CASE Call(t)
  BY <1>1, CallStutters
<1>2. CASE AllocClaim(t) \/ RightStage(t) \/ ReadMode(t)
  <2>1. handle[t] \in Slots
    BY <1>2 DEF PoolInv, TypeInv, FrameOK, FrameAt, AllocClaim, RightStage, ReadMode
  <2> QED
    BY <1>2, <2>1, ClaimStutters, StartStutters
<1>3. CASE StoreMode(t) \/ StoreStage(t) \/ StoreLevel(t)
  <2>1. handle[t] \in Slots
    BY <1>3 DEF PoolInv, TypeInv, FrameOK, FrameAt, StoreMode, StoreStage, StoreLevel, Stored
  <2> QED
    BY <1>3, <2>1, StoreRefines
<1>4. CASE FreeSlot(t)
  BY <1>4, FreeRefines DEF FreeSlot
<1> QED
  BY <1>1, <1>2, <1>3, <1>4, QuietStutters, GoesOnStutters DEF Run

\* The pool, with its separate unlocked stores, is to its callers a table of
\* independent queries that take one indivisible step at a time: to any number
\* of threads with their own handles, and to one thread with any, for any
\* number of slots.
THEOREM PoolRefines ==
  ASSUME Disciplined
  PROVE  Spec => ImplementsPipeline
<1>1. Init => Queries!PipelineInit
  <2> SUFFICES ASSUME Init, NEW i \in Slots PROVE VisibleQuery(i) = Queries!Free
    BY DEF Queries!PipelineInit
  <2> QED
    BY DEF Init, VisibleQuery, Queries!Free
<1>2. PoolInv /\ PoolInv' /\ [Next]_vars
         => [Queries!PipelineNext]_[i \in Slots |-> VisibleQuery(i)]
  <2>1. ASSUME PoolInv, PoolInv', NEW t \in Threads, Call(t) \/ Run(t)
        PROVE  \/ Queries!PipelineNext
               \/ UNCHANGED [i \in Slots |-> VisibleQuery(i)]
    BY <2>1, StepRefines DEF Stutter
  <2>2. ASSUME PoolInv, PoolInv', UNCHANGED vars
        PROVE  UNCHANGED [i \in Slots |-> VisibleQuery(i)]
    <3>1. \A i \in Slots, t \in Threads : StoresTo(t, i)' <=> StoresTo(t, i)
      BY <2>2 DEF vars, frameVars, StoresTo
    <3>2. Stutter
      BY <2>2, <3>1, LooksTheSame DEF Stutter, vars, slotVars, frameVars
    <3> QED
      BY <3>2 DEF Stutter
  <2> QED
    BY <2>1, <2>2 DEF Next
<1>3. Spec => []PoolInv
  BY SpecPoolInv
<1> QED
  BY <1>1, <1>2, <1>3, PTL DEF Spec, ImplementsPipeline, Queries!PipelineSpec

-----------------------------------------------------------------------------
(***************************************************************************)
(* Shared handles.  What slot i tells of a query that no call on an        *)
(* earlier one can store to, from the tests that it has passed.            *)
(***************************************************************************)

\* Thread t is in the vqlut_parse that began the query in slot i.
Begins(t, i) ==
    handle[t] = i /\ op[t] = "parse" /\ pc[t] \in {"get_context", "store"}

\* Thread t is to store to slot i what its operation's test allows.
Advances(t, i) ==
    handle[t] = i /\ op[t] \in StageOps /\ pc[t] \in {"read_mode", "store"}

\* What is known of thread t's call on the query in slot i.
CallAt(t, i) ==
    /\ Advances(t, i) =>
          /\ op[t] \in passed[i]
          /\ pc[t] = "store" => new_level[t] <= LevelAt(mode[i], TargetStage[op[t]])
    /\ Begins(t, i) =>
          /\ "mode" \in pending[t] => mode[i] = "slipstream"
          /\ \A u \in Threads : Begins(u, i) => u = t

\* An operation has passed its test only after those before it.
InOrderAt(i) ==
    /\ passed[i] \subseteq StageOps
    /\ \A o \in passed[i], p \in StageOps :
          Rank[TargetStage[p]] <= Rank[TargetStage[o]] => p \in passed[i]

TestedAt(i) == EarnedAt(i) /\ InOrderAt(i) /\ \A t \in Threads : CallAt(t, i)

SharedInv == \A i \in Slots : active[i] /\ i \notin intruded => TestedAt(i)

\* A step of thread t in the life of the query in slot i.
StepIn(t, i) ==
    /\ TypeInv /\ TypeInv'
    /\ active[i] /\ active'[i] /\ i \in Slots /\ t \in Threads
    /\ TestedAt(i)
    /\ Remember

SlotKept(i) ==
    stage'[i] = stage[i] /\ mode'[i] = mode[i] /\ achieved_level'[i] = achieved_level[i]

\* The history of tests is of thread t's own step.
LEMMA PassedByOne ==
  ASSUME NEW t, NEW i, StepIn(t, i), FramesKept(t)
  PROVE  passed'[i] = IF PassesTest(t, i) THEN passed[i] \cup {op[t]} ELSE passed[i]
<1>1. \A u \in Threads : u # t => ~PassesTest(u, i)
  BY DEF FramesKept, PassesTest
<1>2. passed'[i] = passed[i] \cup {op[u] : u \in {v \in Threads : PassesTest(v, i)}}
  BY DEF StepIn, Remember, Lives
<1> QED
  BY <1>1, <1>2 DEF StepIn

\* A call whose frame is untouched by a step that stores nothing to the slot.
LEMMA OtherCall ==
  ASSUME NEW t, NEW i, StepIn(t, i), NEW u \in Threads, u # t, FramesKept(t),
         SlotKept(i), passed[i] \subseteq passed'[i],
         Begins(t, i)' => Begins(t, i)
  PROVE  CallAt(u, i)'
<1>1. CallAt(u, i)
  BY DEF StepIn, TestedAt
<1>2. \A v \in Threads : Begins(v, i)' => Begins(v, i)
  BY DEF FramesKept, Begins
<1> QED
  BY <1>1, <1>2 DEF FramesKept, SlotKept, CallAt, Advances, Begins

\* A step of t that passes no test, stores nothing to the slot, and leaves t
\* in no call that does.
LEMMA QuietTested ==
  ASSUME NEW t, NEW i, StepIn(t, i), FramesKept(t), SlotKept(i), ~PassesTest(t, i),
         ~Advances(t, i)', ~Begins(t, i)'
  PROVE  TestedAt(i)'
<1>1. passed'[i] = passed[i]
  BY PassedByOne
<1>2. EarnedAt(i)' /\ InOrderAt(i)'
  BY <1>1 DEF StepIn, TestedAt, EarnedAt, InOrderAt, SlotKept
<1>3. CallAt(t, i)'
  BY DEF CallAt
<1> QED
  BY <1>1, <1>2, <1>3, OtherCall DEF TestedAt

\* A call begins with no pointer.
LEMMA CallTested ==
  ASSUME NEW t, NEW i, StepIn(t, i), Call(t)
  PROVE  TestedAt(i)'
<1> DEFINE Aside == /\ FramesKept(t) /\ SlotKept(i) /\ ~PassesTest(t, i)
                    /\ ~Advances(t, i)' /\ ~Begins(t, i)'
<1>1. Aside
  <2> USE DEF FramesKept, SlotKept, PassesTest, Advances, Begins, StepIn, TypeInv, TypeOK,
              slotVars
  <2>1. CASE ParseBadMode(t)
    BY <2>1 DEF ParseBadMode, Return
  <2>2. ASSUME NEW m \in Modes, CallParse(t, m) PROVE Aside
    BY <2>2 DEF CallParse, Enter
  <2>3. ASSUME NEW o \in HandleOps, NEW h \in Handles, CallHandleOp(t, o, h) PROVE Aside
    BY <2>3 DEF CallHandleOp, Enter, HandleOps, StageOps
  <2>4. ASSUME NEW h \in Handles, CallDestroy(t, h) PROVE Aside
    BY <2>4 DEF CallDestroy, Enter
  <2> QED
    BY <2>1, <2>2, <2>3, <2>4 DEF Call
<1> QED
  BY <1>1, QuietTested

\* Every step that neither goes on with a query nor stores to one.
LEMMA AsideTested ==
  ASSUME NEW t, NEW i, StepIn(t, i),
         \/ AllocLock(t) \/ AllocSkip(t) \/ AllocFind(t) \/ AllocExhausted(t)
         \/ AllocClaim(t) /\ handle[t] # i
         \/ ContextMissing(t) \/ WrongStage(t) \/ ReadLevel(t) \/ ReturnOk(t)
         \/ FreeSlot(t) \/ FreeNothing(t)
  PROVE  TestedAt(i)'
<1>1. /\ FramesKept(t) /\ SlotKept(i) /\ ~PassesTest(t, i)
      /\ ~Advances(t, i)' /\ ~Begins(t, i)'
  <2> USE DEF FramesKept, SlotKept, PassesTest, Advances, Begins, StepIn, TypeInv, TypeOK,
              FrameOK, FrameAt, slotVars, frameVars, Return
  <2>1. CASE AllocLock(t)
    BY <2>1 DEF AllocLock
  <2>2. CASE AllocSkip(t)
    BY <2>2 DEF AllocSkip
  <2>3. CASE AllocFind(t)
    BY <2>3 DEF AllocFind
  <2>4. CASE AllocExhausted(t)
    BY <2>4 DEF AllocExhausted
  <2>5. CASE AllocClaim(t) /\ handle[t] # i
    BY <2>5 DEF AllocClaim
  <2>6. CASE ContextMissing(t)
    BY <2>6 DEF ContextMissing
  <2>7. CASE WrongStage(t)
    BY <2>7 DEF WrongStage
  <2>8. CASE ReadLevel(t)
    BY <2>8 DEF ReadLevel
  <2>9. CASE ReturnOk(t)
    BY <2>9 DEF ReturnOk
  <2>10. CASE FreeSlot(t)
    BY <2>10 DEF FreeSlot
  <2>11. CASE FreeNothing(t)
    BY <2>11 DEF FreeNothing
  <2> QED
    BY <2>1, <2>2, <2>3, <2>4, <2>5, <2>6, <2>7, <2>8, <2>9, <2>10, <2>11
<1> QED
  BY <1>1, QuietTested

\* getContext gives t its pointer.
LEMMA FoundTested ==
  ASSUME NEW t, NEW i, StepIn(t, i), ContextFound(t)
  PROVE  TestedAt(i)'
<1>1. /\ FramesKept(t) /\ SlotKept(i) /\ ~PassesTest(t, i)
      /\ ~Advances(t, i)'
      /\ Begins(t, i)' => Begins(t, i)
      /\ pending'[t] = pending[t]
  BY DEF ContextFound, AfterContext, StepIn, TypeInv, TypeOK, FrameOK, FrameAt, FramesKept,
         SlotKept, PassesTest, Advances, Begins, slotVars, frameVars, HandleOps, StageOps
<1>2. passed'[i] = passed[i]
  BY <1>1, PassedByOne
<1>3. EarnedAt(i)' /\ InOrderAt(i)'
  BY <1>1, <1>2 DEF StepIn, TestedAt, EarnedAt, InOrderAt, SlotKept
<1>4. CallAt(t, i)'
  <2>1. \A u \in Threads : Begins(u, i)' => Begins(u, i)
    BY <1>1 DEF FramesKept, Begins
  <2> QED
    BY <1>1, <2>1 DEF StepIn, TestedAt, CallAt, SlotKept
<1> QED
  BY <1>1, <1>2, <1>3, <1>4, OtherCall DEF TestedAt

\* An operation finds the query at the stage it requires, so every operation
\* before it has: its own test is the next to be recorded.
LEMMA TestTested ==
  ASSUME NEW t, NEW i, StepIn(t, i), RightStage(t) \/ RightStageCompile(t)
  PROVE  TestedAt(i)'
<1>1. /\ FramesKept(t) /\ SlotKept(i) /\ ~Begins(t, i)'
      /\ op[t] \in StageOps /\ op'[t] = op[t] /\ handle'[t] = handle[t]
      /\ stage[handle[t]] = ExpectedStage[op[t]]
      /\ PassesTest(t, i) <=> handle[t] = i
      /\ pc'[t] = "store" => new_level'[t] = TargetLevel[op[t]] /\ op[t] # "compile"
  BY DEF RightStage, RightStageCompile, StepIn, TypeInv, TypeOK, FrameOK, FrameAt, FramesKept,
         SlotKept, PassesTest, Begins, slotVars, frameVars, StageOps
<1>2. CASE handle[t] # i
  BY <1>1, <1>2, QuietTested DEF Advances
<1>3. CASE handle[t] = i
  <2>1. passed'[i] = passed[i] \cup {op[t]}
    BY <1>1, <1>3, PassedByOne
  <2>2. EarnedAt(i)'
    BY <1>1, <2>1 DEF StepIn, TestedAt, EarnedAt, SlotKept
  <2>3. InOrderAt(i)'
    <3>1. \A p \in StageOps : Rank[TargetStage[p]] <= Rank[TargetStage[op[t]]]
             => p = op[t] \/ Rank[TargetStage[p]] <= Rank[stage[i]]
      BY <1>1, <1>3 DEF StageOps, Rank, TargetStage, ExpectedStage
    <3>2. \A p \in StageOps : Rank[TargetStage[p]] <= Rank[TargetStage[op[t]]]
             => p \in passed'[i]
      BY <2>1, <3>1 DEF StepIn, TestedAt, EarnedAt
    <3> QED
      BY <1>1, <2>1, <3>2 DEF StepIn, TestedAt, InOrderAt
  <2>4. CallAt(t, i)'
    <3>1. op'[t] \in passed'[i]
      BY <1>1, <2>1
    <3>2. pc'[t] = "store" => new_level'[t] <= LevelAt(mode'[i], TargetStage[op'[t]])
      BY <1>1 DEF StageOps, TargetLevel, TargetStage, LevelAt
    <3> QED
      BY <1>1, <3>1, <3>2 DEF CallAt
  <2> QED
    BY <1>1, <2>1, <2>2, <2>3, <2>4, OtherCall DEF TestedAt
<1> QED
  BY <1>2, <1>3

\* vqlut_compile reads the mode of the query it is to store the level of.
LEMMA ModeTested ==
  ASSUME NEW t, NEW i, StepIn(t, i), ReadMode(t)
  PROVE  TestedAt(i)'
<1>1. /\ FramesKept(t) /\ SlotKept(i) /\ ~Begins(t, i)' /\ ~PassesTest(t, i)
      /\ op[t] = "compile" /\ op'[t] = op[t] /\ handle'[t] = handle[t]
      /\ pc[t] = "read_mode"
      /\ new_level'[t] = CompiledLevel[mode[handle[t]]]
  BY DEF ReadMode, StepIn, TypeInv, TypeOK, FrameOK, FrameAt, FramesKept, SlotKept,
         PassesTest, Begins, slotVars, StageOps
<1>2. CASE handle[t] # i
  BY <1>1, <1>2, QuietTested DEF Advances
<1>3. CASE handle[t] = i
  <2>1. passed'[i] = passed[i]
    BY <1>1, PassedByOne
  <2>2. EarnedAt(i)' /\ InOrderAt(i)'
    BY <1>1, <2>1 DEF StepIn, TestedAt, EarnedAt, InOrderAt, SlotKept
  <2>3. CallAt(t, i)'
    <3>1. op'[t] \in passed'[i]
      BY <1>1, <1>3, <2>1 DEF StepIn, TestedAt, CallAt, Advances, StageOps
    <3>2. new_level'[t] <= LevelAt(mode'[i], TargetStage[op'[t]])
      BY <1>1, <1>3 DEF SlotKept, StepIn, TypeInv, TypeOK, QueryMode, CompiledLevel,
         TargetStage, LevelAt
    <3> QED
      BY <1>1, <3>1, <3>2 DEF CallAt
  <2> QED
    BY <1>1, <2>1, <2>2, <2>3, OtherCall DEF TestedAt
<1> QED
  BY <1>2, <1>3
\* The vqlut_parse of the query stores its mode, and no other does.
LEMMA StoreModeTested ==
  ASSUME NEW t, NEW i, StepIn(t, i), StoreMode(t)
  PROVE  TestedAt(i)'
<1>1. /\ FramesKept(t) /\ ~PassesTest(t, i) /\ UNCHANGED <<stage, achieved_level, pc, op, handle, new_level>>
      /\ op[t] = "parse" /\ pc[t] = "store" /\ "mode" \in pending[t] /\ "mode" \notin pending'[t]
      /\ mode' = [mode EXCEPT ![handle[t]] = query_mode[t]]
  BY DEF StoreMode, Stored, StepIn, TypeInv, TypeOK, FrameOK, FrameAt, FramesKept, PassesTest
<1>2. passed'[i] = passed[i]
  BY <1>1, PassedByOne
<1>3. mode[i] \in QueryMode /\ mode'[i] \in QueryMode
  BY DEF StepIn, TypeInv, TypeOK
<1>4. mode'[i] = mode[i] \/ (Begins(t, i) /\ mode[i] = "slipstream")
  BY <1>1 DEF StepIn, TypeInv, TypeOK, TestedAt, CallAt, Begins
<1>5. \A o \in StageOps : LevelAt(mode[i], TargetStage[o]) <= LevelAt(mode'[i], TargetStage[o])
  BY <1>3, <1>4 DEF StageOps, QueryMode, TargetStage, LevelAt
<1>6. \A o \in StageOps : LevelAt(mode[i], TargetStage[o]) \in Nat /\ LevelAt(mode'[i], TargetStage[o]) \in Nat
  BY <1>3 DEF StageOps, QueryMode, TargetStage, LevelAt
<1>7. InOrderAt(i)'
  BY <1>2 DEF StepIn, TestedAt, InOrderAt
<1>8. EarnedAt(i)'
  <2>1. achieved_level[i] \in 0..9
    BY DEF StepIn, TypeInv, TypeOK
  <2>2. passed[i] \subseteq StageOps
    BY DEF StepIn, TestedAt, InOrderAt
  <2> QED
    BY <1>1, <1>2, <1>5, <1>6, <2>1, <2>2 DEF StepIn, TestedAt, EarnedAt
<1>9. ASSUME NEW u \in Threads PROVE CallAt(u, i)'
  <2>1. Advances(u, i)' => /\ op'[u] \in passed'[i]
                           /\ pc'[u] = "store" => new_level'[u] <= LevelAt(mode'[i], TargetStage[op'[u]])
    <3>1. new_level[u] \in 0..9
      BY DEF StepIn, TypeInv, TypeOK
    <3> QED
      BY <1>1, <1>2, <1>5, <1>6, <3>1 DEF StepIn, TestedAt, CallAt, Advances
  <2>2. Begins(u, i)' => /\ "mode" \in pending'[u] => mode'[i] = "slipstream"
                         /\ \A v \in Threads : Begins(v, i)' => v = u
    BY <1>1, <1>4 DEF StepIn, TestedAt, CallAt, Begins, FramesKept
  <2> QED
    BY <2>1, <2>2 DEF CallAt
<1> QED
  BY <1>7, <1>8, <1>9 DEF TestedAt

\* A stage that is stored is one whose operation has passed its test, and a
\* level is the one that operation grants.
LEMMA StoreTested ==
  ASSUME NEW t, NEW i, StepIn(t, i), StoreStage(t) \/ StoreLevel(t)
  PROVE  TestedAt(i)'
<1>1. /\ FramesKept(t) /\ ~PassesTest(t, i) /\ UNCHANGED <<mode, pc, op, handle, new_level>>
      /\ pc[t] = "store" /\ pending'[t] \subseteq pending[t]
      /\ op[t] = "parse" \/ op[t] \in StageOps
  BY DEF StoreStage, StoreLevel, Stored, StepIn, TypeInv, TypeOK, FrameOK, FrameAt, FramesKept,
         PassesTest, StageOps
<1>2. passed'[i] = passed[i]
  BY <1>1, PassedByOne
<1>3. InOrderAt(i)'
  BY <1>2 DEF StepIn, TestedAt, InOrderAt
<1>4. ASSUME NEW u \in Threads PROVE CallAt(u, i)'
  <2>1. CallAt(u, i)
    BY DEF StepIn, TestedAt
  <2>2. \A v \in Threads : Begins(v, i)' <=> Begins(v, i)
    BY <1>1 DEF Begins
  <2>3. pending'[u] \subseteq pending[u]
    BY <1>1 DEF FramesKept
  <2> QED
    BY <1>1, <1>2, <2>1, <2>2, <2>3 DEF CallAt, Advances
<1>5. (handle[t] = i /\ op[t] \in StageOps) =>
         op[t] \in passed[i] /\ new_level[t] <= LevelAt(mode[i], TargetStage[op[t]])
  BY <1>1 DEF StepIn, TestedAt, CallAt, Advances
<1>6. \A o \in StageOps : Rank[TargetStage[o]] <= Rank[stage'[i]] => o \in passed[i]
  <2>1. CASE stage'[i] = stage[i]
    BY <2>1 DEF StepIn, TestedAt, EarnedAt
  <2>2. CASE stage'[i] # stage[i]
    <3>1. handle[t] = i /\ stage'[i] = TargetStage[op[t]]
      BY <2>2 DEF StoreStage, StoreLevel, StepIn, TypeInv, TypeOK
    <3>2. CASE op[t] = "parse"
      BY <3>1, <3>2 DEF StageOps, Rank, TargetStage
    <3>3. CASE op[t] \in StageOps
      BY <1>5, <3>1, <3>3 DEF StepIn, TestedAt, InOrderAt
    <3> QED
      BY <1>1, <3>2, <3>3
  <2> QED
    BY <2>1, <2>2
<1>7. achieved_level'[i] = 0 \/ \E o \in passed[i] : achieved_level'[i] <= LevelAt(mode[i], TargetStage[o])
  <2>1. CASE achieved_level'[i] = achieved_level[i]
    BY <2>1 DEF StepIn, TestedAt, EarnedAt
  <2>2. CASE achieved_level'[i] # achieved_level[i]
    <3>1. handle[t] = i /\ achieved_level'[i] = new_level[t]
      BY <2>2 DEF StoreStage, StoreLevel, StepIn, TypeInv, TypeOK
    <3>2. op[t] = "parse" => new_level[t] = 0
      BY <1>1 DEF StepIn, TypeInv, FrameOK, FrameAt, StageOps
    <3> QED
      BY <1>1, <1>5, <3>1, <3>2
  <2> QED
    BY <2>1, <2>2
<1>8. EarnedAt(i)'
  BY <1>1, <1>2, <1>6, <1>7 DEF EarnedAt
<1> QED
  BY <1>3, <1>4, <1>8 DEF TestedAt

\* The query begins: nothing has been tested, and no call can store by a test
\* of another query.
LEMMA BegunTested ==
  ASSUME TypeInv, TypeInv', NEW t \in Threads, NEW i \in Slots,
         Remember, ~active[i], i \notin intruded', AllocClaim(t), handle[t] = i
  PROVE  TestedAt(i)'
<1>1. /\ FramesKept(t) /\ active'[i] /\ stage'[i] = "parsed" /\ mode'[i] = "slipstream"
      /\ achieved_level'[i] = 0 /\ pc'[t] = "get_context"
  BY DEF AllocClaim, FramesKept, TypeInv, TypeOK
<1>2. passed'[i] = {}
  BY DEF Remember, Lives
<1>3. \A u \in Threads : ~Stores(u, i)
  BY <1>1 DEF Remember
<1>4. \A u \in Threads : u # t => ~Advances(u, i)' /\ ~Begins(u, i)'
  BY <1>1, <1>3 DEF FramesKept, Advances, Begins, Stores
<1>5. EarnedAt(i)' /\ InOrderAt(i)'
  BY <1>1, <1>2 DEF EarnedAt, InOrderAt, StageOps, Rank, TargetStage
<1>6. \A u \in Threads : CallAt(u, i)'
  BY <1>1, <1>4 DEF CallAt, Advances
<1> QED
  BY <1>5, <1>6 DEF TestedAt

LEMMA NextSharedInv ==
  ASSUME TypeInv, TypeInv', ScanInv, SharedInv, Next, Remember
  PROVE  SharedInv'
<1> SUFFICES ASSUME NEW i \in Slots, active'[i], i \notin intruded'
             PROVE  TestedAt(i)'
  BY DEF SharedInv
<1>1. PICK t \in Threads : Call(t) \/ Run(t)
  BY DEF Next
<1>2. CASE active[i]
  <2>1. i \notin intruded
    BY DEF Remember
  <2>2. StepIn(t, i)
    BY <1>2, <2>1 DEF StepIn, SharedInv
  <2>3. ~(AllocClaim(t) /\ handle[t] = i)
    BY <1>2 DEF AllocClaim, ScanInv, ScanCurrent
  <2> QED
    BY <1>1, <2>2, <2>3, CallTested, AsideTested, FoundTested, TestTested, ModeTested,
       StoreModeTested, StoreTested DEF Run
<1>3. CASE ~active[i]
  <2>1. AllocClaim(t) /\ handle[t] = i
    <3>1. active'[i] # active[i]
      BY <1>3
    <3>2. CASE Call(t)
      BY <3>1, <3>2 DEF Call, ParseBadMode, CallParse, CallHandleOp, CallDestroy, slotVars
    <3>3. CASE Run(t)
      BY <1>3, <3>1, <3>3 DEF Run, AllocLock, AllocSkip, AllocFind, AllocClaim, AllocExhausted,
         ContextFound, ContextMissing, WrongStage, RightStage, RightStageCompile, ReadMode,
         StoreMode, StoreStage, StoreLevel, Stored, ReturnOk, ReadLevel, FreeSlot, FreeNothing,
         slotVars, TypeInv, TypeOK
    <3> QED
      BY <1>1, <3>2, <3>3
  <2> QED
    BY <1>3, <2>1, BegunTested
<1> QED
  BY <1>2, <1>3

\* The history only watches: a behavior of the shared pool is one of the pool.
LEMMA SharedIsPool == SharedSpec => Spec
<1>1. SharedInit => Init
  BY DEF SharedInit
<1>2. [Next /\ Remember]_sharedVars => [Next]_vars
  BY DEF sharedVars
<1> QED
  BY <1>1, <1>2, PTL DEF SharedSpec, Spec

\* Whatever handles any number of threads pass, and however their calls race on
\* a query, it is at no stage and no level that it has not been tested for,
\* unless a call on the slot's last query was still under way when it began.
THEOREM TestsHold == SharedSpec => []NothingUnearned
<1>1. SharedInit => SharedInv
  BY DEF SharedInit, Init, SharedInv
<1>2. TypeInv /\ TypeInv' /\ ScanInv /\ SharedInv /\ [Next /\ Remember]_sharedVars => SharedInv'
  <2>1. ASSUME SharedInv, UNCHANGED sharedVars PROVE SharedInv'
    BY <2>1 DEF SharedInv, TestedAt, EarnedAt, InOrderAt, CallAt, Advances, Begins, sharedVars,
       vars, slotVars, frameVars
  <2> QED
    BY <2>1, NextSharedInv
<1>3. SharedSpec => []TypeInv /\ []ScanInv
  BY SharedIsPool, SpecTypeInv, SpecScanInv, PTL
<1>4. SharedInv => NothingUnearned
  BY DEF SharedInv, TestedAt, NothingUnearned
<1> QED
  BY <1>1, <1>2, <1>3, <1>4, PTL DEF SharedSpec

-----------------------------------------------------------------------------
(***************************************************************************)
(* Shared handles, and the pipeline.  A slot that only one call may store  *)
(* to is, while its query lives, a query of the pipeline.                  *)
(***************************************************************************)

Solo(i) == \A t, u \in Threads : Stores(t, i) /\ Stores(u, i) => t = u

\* What is to be seen of slot i.
SeenAt(i) ==
    /\ \A t \in Threads :
          StoresTo(t, i) =>
             VisibleQuery(i) =
                IF ~active[i] \/ op[t] = "parse" THEN Queries!Free
                ELSE Queries!QueryAt(mode[i], ExpectedStage[op[t]])
    /\ (\A t \in Threads : ~StoresTo(t, i)) =>
          VisibleQuery(i) =
             IF active[i]
             THEN [mode |-> mode[i], stage |-> stage[i], level |-> achieved_level[i]]
             ELSE Queries!Free

SoloSeen == \A i \in Slots : Solo(i) => SeenAt(i)

LEMMA EverySoloSeen == TypeInv => SoloSeen
<1> SUFFICES ASSUME NEW i \in Slots, TypeInv, Solo(i) PROVE SeenAt(i)
  BY DEF SoloSeen
<1>1. ASSUME NEW t \in Threads, StoresTo(t, i)
      PROVE  VisibleQuery(i) =
                IF ~active[i] \/ op[t] = "parse" THEN Queries!Free
                ELSE Queries!QueryAt(mode[i], ExpectedStage[op[t]])
  <2>1. \A u \in Threads : StoresTo(u, i) => Stores(u, i)
    BY DEF TypeInv, TypeOK, FrameOK, FrameAt, StoresTo, Stores
  <2>2. \A u \in Threads : StoresTo(u, i) => u = t
    BY <1>1, <2>1 DEF Solo
  <2>3. (CHOOSE u \in Threads : handle[u] = i /\ pending[u] # {}) = t
    BY <1>1, <2>2 DEF StoresTo
  <2>4. InFlux(i) /\ (Parsing(i) <=> op[t] = "parse")
    BY <1>1, <2>2 DEF InFlux, Parsing, StoresTo
  <2>5. VisibleStage(i) = ExpectedStage[op[t]]
    BY <2>3, <2>4 DEF VisibleStage
  <2> QED
    BY <2>4, <2>5
    DEF VisibleQuery, VisibleLevel, Queries!QueryAt, Queries!Free, LevelAt, Queries!LevelAt
<1> QED
  BY <1>1, SeenSettled DEF SeenAt

LEMMA EverySoloSeenNext == TypeInv' => SoloSeen'
  BY EverySoloSeen, PTL

\* A step of t, in a slot that no other call stores to before or after it.
SoloStep(t, i) ==
    /\ TypeInv /\ TypeInv'
    /\ t \in Threads /\ i \in Slots
    /\ active[i] /\ active'[i]
    /\ Solo(i) /\ Solo(i)'
    /\ TrackedAt(i)

Same(i) == VisibleQuery(i)' = VisibleQuery(i)

\* Nothing is begun, stored or ended in slot i by thread t.
Apart(t, i) ==
    /\ FramesKept(t) /\ SlotKept(i) /\ active'[i] = active[i]
    /\ ~(pc[t] = "store" /\ handle[t] = i)
    /\ ~Stores(t, i)' /\ ~StoresTo(t, i) /\ ~StoresTo(t, i)'

LEMMA ApartKept ==
  ASSUME TypeInv, TypeInv', NEW t \in Threads, NEW i \in Slots, Apart(t, i),
         active[i], Solo(i), TrackedAt(i)
  PROVE  Solo(i)' /\ TrackedAt(i)' /\ Same(i)
<1>1. \A u \in Threads : Stores(u, i)' => Stores(u, i)
  BY DEF Apart, FramesKept, Stores
<1>2. Solo(i)'
  BY <1>1 DEF Solo
<1>3. TrackedAt(i)'
  BY OtherSlot DEF Apart, FramesKept, SlotKept, Stores
<1>4. Same(i)
  <2>1. \A u \in Threads : StoresTo(u, i)' <=> StoresTo(u, i)
    BY DEF Apart, FramesKept, StoresTo
  <2>2. \A u \in Threads : StoresTo(u, i) => op'[u] = op[u]
    BY DEF Apart, FramesKept, StoresTo
  <2>3. SeenAt(i) /\ SeenAt(i)'
    BY <1>2, EverySoloSeen, EverySoloSeenNext DEF SoloSeen
  <2>4. active'[i] = active[i] /\ SlotKept(i)
    BY DEF Apart
  <2>5. CASE \E u \in Threads : StoresTo(u, i)
    <3>1. PICK u \in Threads : StoresTo(u, i)
      BY <2>5
    <3> QED
      BY <2>1, <2>2, <2>3, <2>4, <3>1
      DEF SeenAt, SlotKept, Same, Queries!QueryAt, Queries!Free, Queries!LevelAt
  <2>6. CASE \A u \in Threads : ~StoresTo(u, i)
    BY <2>1, <2>3, <2>4, <2>6 DEF SeenAt, SlotKept, Same, Queries!Free
  <2> QED
    BY <2>5, <2>6
<1> QED
  BY <1>2, <1>3, <1>4

\* Every step is apart from every slot but the one its call is on, and most
\* are from that one.
LEMMA CallApart ==
  ASSUME TypeInv, TypeInv', NEW t \in Threads, NEW i \in Slots, Call(t)
  PROVE  Apart(t, i)
<1> USE DEF Apart, FramesKept, SlotKept, Stores, StoresTo, TypeInv, TypeOK, FrameOK, FrameAt,
            slotVars
<1>1. CASE ParseBadMode(t)
  BY <1>1 DEF ParseBadMode, Return
<1>2. ASSUME NEW m \in Modes, CallParse(t, m) PROVE Apart(t, i)
  BY <1>2 DEF CallParse, Enter
<1>3. ASSUME NEW o \in HandleOps, NEW h \in Handles, CallHandleOp(t, o, h) PROVE Apart(t, i)
  BY <1>3 DEF CallHandleOp, Enter, HandleOps, StageOps
<1>4. ASSUME NEW h \in Handles, CallDestroy(t, h) PROVE Apart(t, i)
  BY <1>4 DEF CallDestroy, Enter
<1> QED
  BY <1>1, <1>2, <1>3, <1>4 DEF Call

LEMMA QuietApart ==
  ASSUME TypeInv, TypeInv', NEW t \in Threads, NEW i \in Slots,
         \/ AllocLock(t) \/ AllocSkip(t) \/ AllocFind(t) \/ AllocExhausted(t)
         \/ WrongStage(t) \/ ReadLevel(t) \/ FreeNothing(t)
         \/ ContextMissing(t) /\ (handle[t] = i => active[i])
  PROVE  Apart(t, i)
<1> USE DEF Apart, FramesKept, SlotKept, Stores, StoresTo, TypeInv, TypeOK, FrameOK, FrameAt,
            slotVars, Return
<1>1. CASE AllocLock(t)
  BY <1>1 DEF AllocLock
<1>2. CASE AllocSkip(t)
  BY <1>2 DEF AllocSkip
<1>3. CASE AllocFind(t)
  BY <1>3 DEF AllocFind, frameVars
<1>4. CASE AllocExhausted(t)
  BY <1>4 DEF AllocExhausted
<1>5. CASE WrongStage(t)
  BY <1>5 DEF WrongStage
<1>6. CASE ReadLevel(t)
  BY <1>6 DEF ReadLevel
<1>7. CASE FreeNothing(t)
  BY <1>7 DEF FreeNothing
<1>8. CASE ContextMissing(t) /\ (handle[t] = i => active[i])
  BY <1>8 DEF ContextMissing
<1> QED
  BY <1>1, <1>2, <1>3, <1>4, <1>5, <1>6, <1>7, <1>8

LEMMA ElsewhereFields ==
  ASSUME TypeOK, NEW t \in Threads, NEW i \in Slots, handle[t] # i,
         AllocClaim(t) \/ FreeSlot(t)
  PROVE  SlotKept(i) /\ active'[i] = active[i]
<1>1. CASE AllocClaim(t)
  BY <1>1 DEF AllocClaim, SlotKept, TypeOK
<1>2. CASE FreeSlot(t)
  <2>1. /\ active' = [active EXCEPT ![handle[t]] = FALSE]
        /\ stage' = [stage EXCEPT ![handle[t]] = "parsed"]
        /\ mode' = [mode EXCEPT ![handle[t]] = "slipstream"]
        /\ achieved_level' = [achieved_level EXCEPT ![handle[t]] = 0]
    BY <1>2 DEF FreeSlot
  <2> QED
    BY <2>1 DEF SlotKept, TypeOK
<1> QED
  BY <1>1, <1>2

LEMMA ElsewhereApart ==
  ASSUME TypeInv, TypeInv', NEW t \in Threads, NEW i \in Slots, handle[t] # i, Run(t)
  PROVE  Apart(t, i)
<1>0. CASE \/ AllocLock(t) \/ AllocSkip(t) \/ AllocFind(t) \/ AllocExhausted(t)
           \/ WrongStage(t) \/ ReadLevel(t) \/ FreeNothing(t) \/ ContextMissing(t)
  BY <1>0, QuietApart
<1> USE DEF Apart, FramesKept, SlotKept, Stores, StoresTo, TypeInv, TypeOK, FrameOK, FrameAt,
            slotVars, frameVars, Return
<1>1. CASE AllocClaim(t)
  <2>1. FramesKept(t) /\ handle'[t] # i /\ pc[t] # "store"
    BY <1>1 DEF AllocClaim
  <2>2. SlotKept(i) /\ active'[i] = active[i]
    BY <1>1, ElsewhereFields
  <2> QED
    BY <2>1, <2>2
<1>2. CASE ContextFound(t)
  BY <1>2 DEF ContextFound
<1>3. CASE RightStage(t)
  BY <1>3 DEF RightStage
<1>4. CASE RightStageCompile(t)
  BY <1>4 DEF RightStageCompile
<1>5. CASE ReadMode(t)
  BY <1>5 DEF ReadMode
<1>6. CASE StoreMode(t)
  BY <1>6 DEF StoreMode, Stored
<1>7. CASE StoreStage(t)
  BY <1>7 DEF StoreStage, Stored
<1>8. CASE StoreLevel(t)
  BY <1>8 DEF StoreLevel, Stored
<1>9. CASE ReturnOk(t)
  BY <1>9 DEF ReturnOk
<1>10. CASE FreeSlot(t)
  <2>1. /\ pc[t] = "free_slot" /\ pc'[t] = "idle" /\ handle'[t] = 0 /\ pending'[t] = {}
        /\ FramesKept(t)
    BY <1>10 DEF FreeSlot
  <2>2. SlotKept(i) /\ active'[i] = active[i]
    BY <1>10, ElsewhereFields
  <2>3. ~Stores(t, i)' /\ ~StoresTo(t, i) /\ ~StoresTo(t, i)'
    BY <2>1
  <2> QED
    BY <2>1, <2>2, <2>3
<1> QED
  BY <1>0, <1>1, <1>2, <1>3, <1>4, <1>5, <1>6, <1>7, <1>8, <1>9, <1>10 DEF Run

\* A call finds its slot.
LEMMA FoundSolo ==
  ASSUME NEW t, NEW i, SoloStep(t, i), handle[t] = i, ContextFound(t)
  PROVE  TrackedAt(i)' /\ Same(i)
<1> USE DEF SoloStep, slotVars, frameVars
<1>1. /\ FramesKept(t) /\ SlotKept(i) /\ UNCHANGED frameVars
      /\ pc[t] = "get_context" /\ pc'[t] = AfterContext(op[t])
  BY DEF ContextFound, FramesKept, SlotKept, TypeInv, TypeOK
<1>2. TrackedAt(i)'
  <2>1. CASE op[t] = "parse"
    <3>1. \A u \in Threads : u # t => ~(handle[u] = i /\ pc[u] \in {"read_mode", "store"})
      BY <1>1, <2>1 DEF Solo, Stores
    <3>2. \A u \in Threads : u # t =>
             ~(handle[u] = i /\ pc[u] = "get_context" /\ op[u] = "parse")
      BY <1>1, <2>1 DEF Solo, Stores
    <3>3. stage[i] = "parsed" /\ achieved_level[i] = LevelAt(mode[i], stage[i])
      BY <1>1, <2>1, <3>1 DEF TrackedAt
    <3>4. StoringAt(t, i)'
      BY <1>1, <2>1, <3>3 DEF StoringAt, SlotKept, LevelAt
    <3>5. pc'[t] = "store"
      BY <1>1, <2>1 DEF AfterContext
    <3> QED
      BY <1>1, <3>1, <3>2, <3>4, <3>5 DEF TrackedAt, FramesKept
  <2>2. CASE op[t] # "parse"
    <3>1. pc'[t] \notin {"store", "read_mode", "get_context"}
      BY <1>1, <2>2 DEF AfterContext
    <3> QED
      BY <1>1, <3>1, OtherSlot DEF FramesKept, SlotKept
  <2> QED
    BY <2>1, <2>2
<1>3. Same(i)
  <2>1. \A u \in Threads : StoresTo(u, i)' <=> StoresTo(u, i)
    BY <1>1 DEF StoresTo
  <2>2. SeenAt(i) /\ SeenAt(i)'
    BY EverySoloSeen, EverySoloSeenNext DEF SoloSeen
  <2>3. active'[i] = active[i] /\ UNCHANGED op
    BY <1>1 DEF ContextFound
  <2>4. CASE \E u \in Threads : StoresTo(u, i)
    <3>1. PICK u \in Threads : StoresTo(u, i)
      BY <2>4
    <3> QED
      BY <1>1, <2>1, <2>2, <2>3, <3>1
      DEF SeenAt, SlotKept, Same, Queries!QueryAt, Queries!Free, Queries!LevelAt
  <2>5. CASE \A u \in Threads : ~StoresTo(u, i)
    BY <1>1, <2>1, <2>2, <2>3, <2>5 DEF SeenAt, SlotKept, Same, Queries!Free
  <2> QED
    BY <2>4, <2>5
<1> QED
  BY <1>2, <1>3

\* Of the calls on the slot only t's may store: what is known of the slot
\* before t has begun to.
LEMMA SoloKnows ==
  ASSUME TypeInv, NEW t \in Threads, NEW i \in Slots, Solo(i), TrackedAt(i), Stores(t, i)
  PROVE  /\ \A u \in Threads : u # t => ~Stores(u, i) /\ ~StoresTo(u, i)
         /\ pc[t] # "store" => achieved_level[i] = LevelAt(mode[i], stage[i])
         /\ pc[t] = "store" => StoringAt(t, i)
<1>1. \A u \in Threads : StoresTo(u, i) => Stores(u, i)
  BY DEF TypeInv, TypeOK, FrameOK, FrameAt, StoresTo, Stores
<1>2. \A u \in Threads : u # t => ~Stores(u, i)
  BY DEF Solo
<1>3. ASSUME pc[t] # "store" PROVE achieved_level[i] = LevelAt(mode[i], stage[i])
  <2>1. \A u \in Threads : ~(pc[u] = "store" /\ handle[u] = i)
    BY <1>2, <1>3 DEF Stores
  <2> QED
    BY <2>1 DEF TrackedAt
<1>4. pc[t] = "store" => StoringAt(t, i)
  BY DEF TrackedAt, Stores
<1> QED
  BY <1>1, <1>2, <1>3, <1>4

\* A stage operation is about to store, and what is to be seen is what it tested.
LEMMA StartSolo ==
  ASSUME NEW t, NEW i, SoloStep(t, i), handle[t] = i,
         RightStage(t) \/ RightStageCompile(t) \/ ReadMode(t)
  PROVE  TrackedAt(i)' /\ Same(i)
<1> USE DEF SoloStep
<1>1. /\ FramesKept(t) /\ SlotKept(i) /\ Stores(t, i) /\ Stores(t, i)' /\ ~StoresTo(t, i)
      /\ pc[t] # "store"
      /\ op[t] \in StageOps /\ op'[t] = op[t] /\ handle'[t] = i
      /\ active'[i] = active[i]
  BY DEF RightStage, RightStageCompile, ReadMode, FramesKept, SlotKept, Stores, StoresTo,
         StageOps, TypeInv, TypeOK, FrameOK, FrameAt, slotVars, frameVars
<1>2. /\ \A u \in Threads : u # t => /\ ~Stores(u, i) /\ ~StoresTo(u, i)
                                    /\ ~Stores(u, i)' /\ ~StoresTo(u, i)'
      /\ achieved_level[i] = LevelAt(mode[i], stage[i])
  <2>1. \A u \in Threads : u # t => ~Stores(u, i) /\ ~StoresTo(u, i)
    BY <1>1, SoloKnows
  <2>2. achieved_level[i] = LevelAt(mode[i], stage[i])
    BY <1>1, SoloKnows
  <2> QED
    BY <1>1, <2>1, <2>2 DEF FramesKept, Stores, StoresTo
<1>3. stage[i] = ExpectedStage[op[t]]
  <2>1. ReadMode(t) => op[t] = "compile" /\ stage[i] = "effect_checked"
    BY DEF ReadMode, TrackedAt, TypeInv, FrameOK, FrameAt
  <2> QED
    BY <2>1 DEF RightStage, RightStageCompile, ExpectedStage
<1>4. TrackedAt(i)'
  <2>1. \A u \in Threads : u # t =>
           /\ ~(handle'[u] = i /\ pc'[u] \in {"store", "read_mode"})
           /\ ~(handle'[u] = i /\ pc'[u] = "get_context" /\ op'[u] = "parse")
    BY <1>2 DEF Stores
  <2>2. CASE RightStageCompile(t)
    BY <1>1, <1>2, <1>3, <2>1, <2>2
    DEF RightStageCompile, TrackedAt, ExpectedStage, SlotKept, TypeInv, TypeOK
  <2>3. CASE RightStage(t) \/ ReadMode(t)
    <3>1. pc'[t] = "store" /\ pending'[t] = {"stage", "level"}
      BY <2>3 DEF RightStage, ReadMode, TypeInv, TypeOK
    <3>2. new_level'[t] = LevelAt(mode[i], TargetStage[op[t]])
      <4>1. CASE RightStage(t)
        BY <1>1, <4>1
        DEF RightStage, TypeInv, TypeOK, StageOps, LevelAt, TargetLevel, TargetStage
      <4>2. CASE ReadMode(t)
        <5>1. op[t] = "compile" /\ new_level'[t] = CompiledLevel[mode[i]] /\ mode[i] \in QueryMode
          BY <4>2 DEF ReadMode, TypeInv, TypeOK, FrameOK, FrameAt
        <5> QED
          BY <5>1 DEF CompiledLevel, LevelAt, QueryMode, TargetStage
      <4> QED
        BY <2>3, <4>1, <4>2
    <3>3. StoringAt(t, i)'
      BY <1>1, <1>2, <1>3, <3>1, <3>2 DEF StoringAt, SlotKept, StageOps
    <3> QED
      BY <1>1, <2>1, <3>1, <3>3 DEF TrackedAt
  <2> QED
    BY <2>2, <2>3
<1>5. Same(i)
  <2>1. SeenAt(i) /\ SeenAt(i)'
    BY EverySoloSeen, EverySoloSeenNext DEF SoloSeen
  <2>2. VisibleQuery(i) = Queries!QueryAt(mode[i], ExpectedStage[op[t]])
    BY <1>1, <1>2, <1>3, <2>1 DEF SeenAt, Queries!QueryAt, LevelAt, Queries!LevelAt
  <2>3. op[t] # "parse"
    BY <1>1 DEF StageOps
  <2>4. CASE StoresTo(t, i)'
    BY <1>1, <2>1, <2>2, <2>3, <2>4 DEF SeenAt, SlotKept, Same, Queries!QueryAt, Queries!LevelAt
  <2>5. CASE ~StoresTo(t, i)'
    <3>1. VisibleQuery(i) = [mode |-> mode[i], stage |-> stage[i], level |-> achieved_level[i]]
      BY <1>1, <1>2, <2>1 DEF SeenAt
    <3> QED
      BY <1>1, <1>2, <2>1, <2>5, <3>1 DEF SeenAt, SlotKept, Same
  <2> QED
    BY <2>4, <2>5
<1> QED
  BY <1>4, <1>5

\* A step of the only call that stores to slot i ends or goes on with its stores:
\* the query begins, or advances, when the last of them is done.
BeginsAt(i) ==
    /\ VisibleQuery(i) = Queries!Free
    /\ \E m \in QueryMode : VisibleQuery(i)' = Queries!QueryAt(m, "parsed")

AdvancesAt(i) ==
    \E m \in QueryMode, o \in StageOps :
        /\ VisibleQuery(i) = Queries!QueryAt(m, ExpectedStage[o])
        /\ VisibleQuery(i)' = Queries!QueryAt(m, TargetStage[o])

LEMMA StoreSolo ==
  ASSUME NEW t, NEW i, SoloStep(t, i), handle[t] = i,
         StoreMode(t) \/ StoreStage(t) \/ StoreLevel(t)
  PROVE  TrackedAt(i)' /\ (Same(i) \/ BeginsAt(i) \/ AdvancesAt(i))
<1> USE DEF SoloStep
<1>1. /\ FramesKept(t) /\ UNCHANGED <<active, pc, op, handle, new_level>>
      /\ pc[t] = "store" /\ Stores(t, i) /\ StoresTo(t, i)
  BY DEF StoreMode, StoreStage, StoreLevel, Stored, FramesKept, Stores, StoresTo, TypeInv, TypeOK
<1>2. /\ StoringAt(t, i)
      /\ \A u \in Threads : u # t => ~Stores(u, i) /\ ~StoresTo(u, i)
  BY <1>1, SoloKnows
<1>3. \A u \in Threads : u # t => ~Stores(u, i)' /\ ~StoresTo(u, i)'
  BY <1>1, <1>2 DEF FramesKept, Stores, StoresTo
<1>4. FrameAt(t)
  BY DEF TypeInv, FrameOK
<1>5. StoringAt(t, i)'
  <2>1. CASE StoreMode(t)
    <3>1. op[t] = "parse"
      BY <1>1, <1>4, <2>1 DEF StoreMode, Stored, FrameAt
    <3> QED
      BY <1>1, <1>2, <2>1, <3>1 DEF StoreMode, StoringAt
  <2>2. CASE StoreStage(t)
    <3>1. stage'[i] = TargetStage[op[t]] /\ "stage" \notin pending'[t]
          /\ ("level" \in pending'[t] <=> "level" \in pending[t])
          /\ UNCHANGED <<mode, achieved_level>>
      BY <2>2 DEF StoreStage, Stored, TypeInv, TypeOK
    <3> QED
      BY <1>1, <1>2, <3>1 DEF StoringAt, TargetStage
  <2>3. CASE StoreLevel(t)
    <3>1. achieved_level'[i] = new_level[t] /\ "level" \notin pending'[t]
          /\ ("stage" \in pending'[t] <=> "stage" \in pending[t])
          /\ UNCHANGED <<mode, stage>>
      BY <2>3 DEF StoreLevel, Stored, TypeInv, TypeOK
    <3> QED
      BY <1>1, <1>2, <1>4, <3>1 DEF StoringAt, FrameAt, StageOps
  <2> QED
    BY <2>1, <2>2, <2>3
<1>6. TrackedAt(i)'
  <2>1. \A u \in Threads : u # t =>
           ~(handle'[u] = i /\ (pc'[u] \in {"store", "read_mode"}
                                \/ (pc'[u] = "get_context" /\ op'[u] = "parse")))
    BY <1>3 DEF Stores
  <2> QED
    BY <1>1, <1>5, <2>1 DEF TrackedAt
<1>7. SeenAt(i) /\ SeenAt(i)'
  BY EverySoloSeen, EverySoloSeenNext DEF SoloSeen
<1>8. VisibleQuery(i) = IF op[t] = "parse" THEN Queries!Free
                        ELSE Queries!QueryAt(mode[i], ExpectedStage[op[t]])
  BY <1>1, <1>7 DEF SeenAt
<1>9. op[t] = "parse" \/ (op[t] \in StageOps /\ op[t] # "parse" /\ UNCHANGED mode)
  BY <1>1, <1>4 DEF StoreMode, StoreStage, StoreLevel, Stored, FrameAt, StageOps
<1>10. CASE pending'[t] # {}
  <2>1. StoresTo(t, i)'
    BY <1>1, <1>10 DEF StoresTo
  <2>2. VisibleQuery(i)' = IF op[t] = "parse" THEN Queries!Free
                           ELSE Queries!QueryAt(mode'[i], ExpectedStage[op[t]])
    BY <1>1, <1>7, <2>1 DEF SeenAt, Queries!QueryAt, Queries!Free, Queries!LevelAt
  <2>3. Same(i)
    BY <1>8, <1>9, <2>2 DEF Same
  <2> QED
    BY <1>6, <2>3
<1>11. CASE pending'[t] = {}
  <2>1. \A u \in Threads : ~StoresTo(u, i)'
    BY <1>3, <1>11 DEF StoresTo
  <2>2. VisibleQuery(i)' =
           [mode |-> mode'[i], stage |-> stage'[i], level |-> achieved_level'[i]]
    BY <1>7, <2>1 DEF SeenAt
  <2>3. mode'[i] \in QueryMode
    BY DEF TypeInv, TypeOK
  <2>4. CASE op[t] = "parse"
    <3>1. VisibleQuery(i)' = Queries!QueryAt(mode'[i], "parsed")
      BY <1>1, <1>5, <2>2, <2>4 DEF StoringAt, Queries!QueryAt, Queries!LevelAt
    <3>2. BeginsAt(i)
      BY <1>8, <2>3, <2>4, <3>1 DEF BeginsAt
    <3> QED
      BY <1>6, <3>2
  <2>5. CASE op[t] # "parse"
    <3>1. /\ stage'[i] = TargetStage[op[t]]
          /\ achieved_level'[i] = LevelAt(mode'[i], TargetStage[op[t]])
      BY <1>1, <1>5, <1>11, <2>5 DEF StoringAt
    <3>2. VisibleQuery(i)' = Queries!QueryAt(mode'[i], TargetStage[op[t]])
      BY <2>2, <3>1 DEF Queries!QueryAt, Queries!LevelAt, LevelAt
    <3>3. AdvancesAt(i)
      BY <1>8, <1>9, <2>3, <2>5, <3>2 DEF AdvancesAt
    <3> QED
      BY <1>6, <3>3
  <2> QED
    BY <2>4, <2>5
<1> QED
  BY <1>10, <1>11

LEMMA ReturnSolo ==
  ASSUME NEW t, NEW i, SoloStep(t, i), handle[t] = i, ReturnOk(t)
  PROVE  TrackedAt(i)' /\ Same(i)
<1> USE DEF SoloStep
<1>1. /\ FramesKept(t) /\ UNCHANGED slotVars /\ pc[t] = "store" /\ pending[t] = {}
      /\ pc'[t] = "idle" /\ handle'[t] = 0 /\ Stores(t, i)
  BY DEF ReturnOk, Return, FramesKept, Stores, TypeInv, TypeOK
<1>2. /\ StoringAt(t, i)
      /\ \A u \in Threads : u # t => ~Stores(u, i) /\ ~StoresTo(u, i)
  BY <1>1, SoloKnows
<1>3. achieved_level[i] = LevelAt(mode[i], stage[i])
  <2>1. CASE op[t] = "parse"
    BY <1>2, <2>1 DEF StoringAt, LevelAt
  <2>2. CASE op[t] # "parse"
    BY <1>1, <1>2, <2>2 DEF StoringAt
  <2> QED
    BY <2>1, <2>2
<1>4. \A u \in Threads : ~Stores(u, i)'
  BY <1>1, <1>2 DEF FramesKept, Stores
<1>5. TrackedAt(i)'
  BY <1>1, <1>3, <1>4 DEF TrackedAt, Stores, slotVars
<1>6. SeenAt(i) /\ SeenAt(i)'
  BY EverySoloSeen, EverySoloSeenNext DEF SoloSeen
<1>7. \A u \in Threads : ~StoresTo(u, i) /\ ~StoresTo(u, i)'
  BY <1>1, <1>2 DEF FramesKept, StoresTo
<1>8. Same(i)
  BY <1>1, <1>6, <1>7 DEF SeenAt, Same, slotVars, Queries!Free
<1> QED
  BY <1>5, <1>8

\* Only allocSlot begins a query.
LEMMA ClaimStarts ==
  ASSUME TypeInv, NEW t \in Threads, Call(t) \/ Run(t), NEW i \in Slots, ~active[i], active'[i]
  PROVE  AllocClaim(t) /\ handle[t] = i
<1>1. active'[i] # active[i]
  OBVIOUS
<1>2. CASE Call(t)
  BY <1>1, <1>2 DEF Call, ParseBadMode, CallParse, CallHandleOp, CallDestroy, slotVars
<1>3. CASE Run(t)
  BY <1>1, <1>3 DEF Run, AllocLock, AllocSkip, AllocFind, AllocClaim, AllocExhausted,
     ContextFound, ContextMissing, WrongStage, RightStage, RightStageCompile, ReadMode,
     StoreMode, StoreStage, StoreLevel, Stored, ReturnOk, ReadLevel, FreeSlot, FreeNothing,
     slotVars, TypeInv, TypeOK
<1> QED
  BY <1>2, <1>3

\* Every step in the life of a query that no two calls store to.
LEMMA LifeSolo ==
  ASSUME NEW t, NEW i, SoloStep(t, i), ScanInv, Call(t) \/ Run(t)
  PROVE  TrackedAt(i)' /\ (Same(i) \/ BeginsAt(i) \/ AdvancesAt(i))
<1> USE DEF SoloStep
<1>1. ASSUME Apart(t, i) PROVE TrackedAt(i)' /\ Same(i)
  BY <1>1, ApartKept
<1>2. CASE Call(t)
  BY <1>1, <1>2, CallApart
<1>3. CASE Run(t) /\ handle[t] # i
  BY <1>1, <1>3, ElsewhereApart
<1>4. CASE Run(t) /\ handle[t] = i
  <2>1. ~AllocClaim(t)
    BY <1>4 DEF AllocClaim, ScanInv, ScanCurrent
  <2>2. ~FreeSlot(t)
    BY <1>4 DEF FreeSlot, TypeInv, TypeOK
  <2>3. CASE \/ AllocLock(t) \/ AllocSkip(t) \/ AllocFind(t) \/ AllocExhausted(t)
             \/ WrongStage(t) \/ ReadLevel(t) \/ FreeNothing(t) \/ ContextMissing(t)
    BY <1>1, <2>3, QuietApart
  <2>4. CASE ContextFound(t)
    BY <1>4, <2>4, FoundSolo
  <2>5. CASE RightStage(t) \/ RightStageCompile(t) \/ ReadMode(t)
    BY <1>4, <2>5, StartSolo
  <2>6. CASE StoreMode(t) \/ StoreStage(t) \/ StoreLevel(t)
    BY <1>4, <2>6, StoreSolo
  <2>7. CASE ReturnOk(t)
    BY <1>4, <2>7, ReturnSolo
  <2> QED
    BY <1>4, <2>1, <2>2, <2>3, <2>4, <2>5, <2>6, <2>7 DEF Run
<1> QED
  BY <1>2, <1>3, <1>4

\* A slot is allotted, with no other call that may still store to it.
LEMMA ClaimSolo ==
  ASSUME TypeInv, TypeInv', NEW t \in Threads, NEW i \in Slots, Solo(i)',
         handle[t] = i, AllocClaim(t)
  PROVE  TrackedAt(i)' /\ VisibleQuery(i)' = Queries!Free
<1>1. /\ FramesKept(t) /\ handle'[t] = i /\ pc'[t] = "get_context" /\ op'[t] = "parse"
      /\ stage'[i] = "parsed" /\ mode'[i] = "slipstream" /\ achieved_level'[i] = 0
      /\ pending'[t] = Fields
  BY DEF AllocClaim, FramesKept, TypeInv, TypeOK, FrameOK, FrameAt
<1>2. \A u \in Threads : u # t => ~Stores(u, i)'
  BY <1>1 DEF Solo, Stores
<1>3. TrackedAt(i)'
  <2>1. LevelAt("slipstream", "parsed") = 0
    BY DEF LevelAt
  <2> QED
    BY <1>1, <1>2, <2>1 DEF TrackedAt, Stores
<1>4. VisibleQuery(i)' = Queries!Free
  <2>1. StoresTo(t, i)'
    BY <1>1 DEF StoresTo, Fields
  <2>2. SeenAt(i)'
    BY EverySoloSeenNext DEF SoloSeen
  <2> QED
    BY <1>1, <2>1, <2>2 DEF SeenAt, Queries!Free
<1> QED
  BY <1>3, <1>4

-----------------------------------------------------------------------------
\* A slot with no query shows none.
LEMMA InactiveFree ==
  ASSUME NEW i, ~active[i] PROVE VisibleQuery(i) = Queries!Free
  BY DEF VisibleQuery, Queries!Free

LEMMA NextInactiveFree ==
  ASSUME NEW i, ~active'[i] PROVE VisibleQuery(i)' = Queries!Free
  BY DEF VisibleQuery, Queries!Free

\* What the pipeline is shown of slot i.
Shown(i) == IF i \in overlapped THEN Queries!Free ELSE VisibleQuery(i)

\* A query that no two calls have worked on at once has one call at most that
\* stores to its slot, and that call's progress tells what is in it.
ClearAt(i) == active[i] /\ i \notin overlapped => Solo(i) /\ TrackedAt(i)

ClearInv == \A i \in Slots : ClearAt(i)

\* What a step makes of slot i, as the pipeline is shown it.
SlotMoves(i) ==
    \/ Shown(i)' = Shown(i)
    \/ Shown(i)' = Queries!Free
    \/ /\ Shown(i) = Queries!Free
       /\ \E m \in QueryMode : Shown(i)' = Queries!QueryAt(m, "parsed")
    \/ \E m \in QueryMode, o \in StageOps :
          /\ Shown(i) = Queries!QueryAt(m, ExpectedStage[o])
          /\ Shown(i)' = Queries!QueryAt(m, TargetStage[o])

\* The pool in a state that shared handles can bring it to.
SharedPoolInv == TypeInv /\ ScanInv /\ ClearInv

LEMMA SlotStep ==
  ASSUME SharedPoolInv, TypeInv', NEW t \in Threads, NEW i \in Slots,
         Call(t) \/ Run(t), Remember
  PROVE  ClearAt(i)' /\ SlotMoves(i)
<1> USE DEF SharedPoolInv
<1>1. i \in overlapped' <=> active'[i] /\ (TwoStore(i)' \/ (active[i] /\ i \in overlapped))
  BY DEF Remember
<1>2. TwoStore(i)' <=> ~Solo(i)'
  BY DEF TwoStore, Solo
<1>3. CASE ~active'[i]
  <2>1. Shown(i)' = Queries!Free
    BY <1>3, NextInactiveFree DEF Shown, Queries!Free
  <2> QED
    BY <1>3, <2>1 DEF ClearAt, SlotMoves
<1>4. CASE i \in overlapped'
  BY <1>4 DEF ClearAt, SlotMoves, Shown, Queries!Free
<1>5. CASE active[i] /\ active'[i] /\ i \notin overlapped'
  <2>1. Solo(i)' /\ i \notin overlapped
    BY <1>1, <1>2, <1>5
  <2>2. SoloStep(t, i)
    BY <1>5, <2>1 DEF SoloStep, ClearInv, ClearAt
  <2>3. TrackedAt(i)' /\ (Same(i) \/ BeginsAt(i) \/ AdvancesAt(i))
    BY <2>2, LifeSolo
  <2>4. Shown(i) = VisibleQuery(i) /\ Shown(i)' = VisibleQuery(i)'
    BY <1>5, <2>1 DEF Shown
  <2> QED
    BY <2>1, <2>3, <2>4 DEF ClearAt, SlotMoves, Same, BeginsAt, AdvancesAt
<1>6. CASE ~active[i] /\ active'[i] /\ i \notin overlapped'
  <2>1. AllocClaim(t) /\ handle[t] = i
    BY <1>6, ClaimStarts
  <2>2. Solo(i)'
    BY <1>1, <1>2, <1>6
  <2>3. TrackedAt(i)' /\ Shown(i)' = Queries!Free
    BY <1>6, <2>1, <2>2, ClaimSolo DEF Shown
  <2> QED
    BY <2>2, <2>3 DEF ClearAt, SlotMoves
<1> QED
  BY <1>3, <1>4, <1>5, <1>6

\* Only the slot that a step's call is on is shown to change.
LEMMA OtherSlotsShown ==
  ASSUME SharedPoolInv, TypeInv', NEW t \in Threads, NEW i \in Slots,
         Call(t) \/ (Run(t) /\ handle[t] # i), Remember
  PROVE  Shown(i)' = Shown(i)
<1> USE DEF SharedPoolInv
<1>1. Apart(t, i)
  BY CallApart, ElsewhereApart
<1>2. active'[i] = active[i] /\ \A u \in Threads : Stores(u, i)' => Stores(u, i)
  BY <1>1 DEF Apart, FramesKept, Stores
<1>3. CASE ~active[i]
  BY <1>2, <1>3, InactiveFree, NextInactiveFree DEF Shown, Queries!Free
<1>4. CASE active[i] /\ i \in overlapped
  <2>1. i \in overlapped'
    BY <1>2, <1>4 DEF Remember
  <2> QED
    BY <1>4, <2>1 DEF Shown, Queries!Free
<1>5. CASE active[i] /\ i \notin overlapped
  <2>1. Solo(i) /\ TrackedAt(i)
    BY <1>5 DEF ClearInv, ClearAt
  <2>2. Same(i)
    BY <1>1, <1>5, <2>1, ApartKept
  <2>3. i \notin overlapped'
    BY <1>2, <1>5, <2>1 DEF Remember, TwoStore, Solo
  <2> QED
    BY <1>5, <2>2, <2>3 DEF Shown, Same
<1> QED
  BY <1>3, <1>4, <1>5

LEMMA SharedStep ==
  ASSUME SharedPoolInv, TypeInv', Next, Remember
  PROVE  ClearInv' /\ (Intact!PipelineNext \/ \A i \in Slots : Shown(i)' = Shown(i))
<1>1. PICK t \in Threads : Call(t) \/ Run(t)
  BY DEF Next
<1>2. ClearInv'
  BY <1>1, SlotStep DEF ClearInv
<1>3. CASE \A i \in Slots : Shown(i)' = Shown(i)
  BY <1>2, <1>3
<1>4. ASSUME NEW i \in Slots, Shown(i)' # Shown(i)
      PROVE  Intact!PipelineNext
  <2>1. \A j \in Slots : j # i => Shown(j)' = Shown(j)
    <3>1. Run(t) /\ handle[t] = i
      BY <1>1, <1>4, OtherSlotsShown
    <3> QED
      BY <3>1, OtherSlotsShown
  <2>2. SlotMoves(i)
    BY <1>1, SlotStep
  <2>3. CASE Shown(i)' = Queries!Free
    <3>1. Intact!Discard(i)
      BY <1>4, <2>1, <2>3 DEF Intact!Discard, Intact!Free, Queries!Free, Shown
    <3> QED
      BY <3>1 DEF Intact!PipelineNext
  <2>4. ASSUME Shown(i) = Queries!Free,
               NEW m \in QueryMode, Shown(i)' = Queries!QueryAt(m, "parsed")
        PROVE  Intact!PipelineNext
    <3>1. Intact!QueryAt(m, "parsed") = Queries!QueryAt(m, "parsed")
      BY DEF Intact!QueryAt, Intact!LevelAt, Queries!QueryAt, Queries!LevelAt
    <3>2. Intact!Begin(i, m)
      BY <2>1, <2>4, <3>1 DEF Intact!Begin, Intact!Free, Queries!Free, Shown
    <3> QED
      BY <3>2 DEF Intact!PipelineNext, Intact!QueryMode, QueryMode
  <2>5. ASSUME NEW m \in QueryMode, NEW o \in StageOps,
               Shown(i) = Queries!QueryAt(m, ExpectedStage[o]),
               Shown(i)' = Queries!QueryAt(m, TargetStage[o])
        PROVE  Intact!PipelineNext
    <3>1. /\ Shown(i).mode = m
          /\ Shown(i).stage = ExpectedStage[o]
      BY <2>5 DEF Queries!QueryAt
    <3>2. /\ ExpectedStage[o] \in DOMAIN Intact!Successor
          /\ Intact!Successor[ExpectedStage[o]] = TargetStage[o]
      BY DEF StageOps, ExpectedStage, TargetStage, Intact!Successor
    <3>3. Intact!QueryAt(m, TargetStage[o]) = Queries!QueryAt(m, TargetStage[o])
      BY DEF Intact!QueryAt, Intact!LevelAt, Queries!QueryAt, Queries!LevelAt
    <3>4. Intact!Advance(i)
      BY <2>1, <2>5, <3>1, <3>2, <3>3 DEF Intact!Advance, Shown, Queries!Free
    <3> QED
      BY <3>4 DEF Intact!PipelineNext
  <2> QED
    BY <1>4, <2>2, <2>3, <2>4, <2>5 DEF SlotMoves
<1> QED
  BY <1>2, <1>3, <1>4

\* However threads share handles, a query that no two calls have worked on at
\* once is one of the pipeline: it is begun settled in its mode, advances one
\* tested stage at a time and ends, for any number of threads and slots.
THEOREM IntactQueriesRefine == SharedSpec => IntactImplementsPipeline
<1>1. SharedInit => ClearInv /\ Intact!PipelineInit
  <2>1. SharedInit => ClearInv
    BY DEF SharedInit, Init, ClearInv, ClearAt
  <2>2. SharedInit => Intact!PipelineInit
    BY DEF SharedInit, Init, VisibleQuery, Intact!PipelineInit, Intact!Free
  <2> QED
    BY <2>1, <2>2
<1>2. SharedPoolInv /\ TypeInv' /\ [Next /\ Remember]_sharedVars
         => /\ ClearInv'
            /\ [Intact!PipelineNext]_[i \in Slots |-> IF i \in overlapped
                  THEN [mode |-> "none", stage |-> "none", level |-> 0] ELSE VisibleQuery(i)]
  <2>1. ASSUME SharedPoolInv, UNCHANGED sharedVars
        PROVE  ClearInv' /\ \A i \in Slots : Shown(i)' = Shown(i)
    <3>1. ClearInv'
      BY <2>1 DEF SharedPoolInv, ClearInv, ClearAt, Solo, Stores, TrackedAt, StoringAt,
         sharedVars, vars, slotVars, frameVars
    <3>2. \A i \in Slots : Shown(i)' = Shown(i)
      BY <2>1 DEF Shown, VisibleQuery, VisibleStage, VisibleLevel, InFlux, Parsing, Queries!Free,
         sharedVars, vars, slotVars, frameVars
    <3> QED
      BY <3>1, <3>2
  <2>2. (\A i \in Slots : Shown(i)' = Shown(i))
           => UNCHANGED [i \in Slots |-> IF i \in overlapped
                 THEN [mode |-> "none", stage |-> "none", level |-> 0] ELSE VisibleQuery(i)]
    BY DEF Shown, Queries!Free
  <2> QED
    BY <2>1, <2>2, SharedStep
<1>3. SharedSpec => []TypeInv /\ []ScanInv
  BY SharedIsPool, SpecTypeInv, SpecScanInv, PTL
<1> QED
  BY <1>1, <1>2, <1>3, PTL
  DEF SharedSpec, SharedPoolInv, IntactImplementsPipeline, Intact!PipelineSpec
=============================================================================
