---------------------------- MODULE OpcacheProofs ----------------------------
(***************************************************************************)
(* Theorems about module Opcache, for any number of workers and files and  *)
(* any size of the segment.                                                *)
(***************************************************************************)
EXTENDS Opcache, FiniteSetTheorems, TLAPS

(* Byte 0 is held in exactly the phases that change the segment.            *)
Holding ==
  Restarting \cup Discarding \cup Scheduling \cup Publishing \cup {"killing"}

Locks == \A p \in Proc : allocLock = p <=> pc[p] \in Holding

(* Phases in which a worker has a script it has found, in which it has a    *)
(* file, and in which it has a block that it fills.                         *)
Looked == {"validating", "discarding", "forgetting"} \cup Discarding
Busy   == {"looking", "counting", "validating", "discarding", "forgetting",
           "stamping", "compiling", "storing", "flag", "finding"}
          \cup Publishing

Working ==
  /\ \A p \in Proc : pc[p] \in Busy => file[p] \in Files
  /\ \A p \in Proc : pc[p] \in Looked => found[p] \in Blocks
  /\ \A p \in Proc : pc[p] \in Publishing => top \in Blocks

Typed == TypeOK /\ Locks /\ Working

-------------------------------------------------------------------------------
(* The type of the script a worker stores, and of one it changes.           *)
LEMMA ScriptTypes ==
  ASSUME TypeOK
  PROVE  /\ Zeroed \in Script
         /\ \A f \in Files, s, c \in Versions :
              [file |-> f, stamp |-> s, content |-> c, corrupted |-> FALSE,
               size |-> 0] \in Script
         /\ \A b \in Blocks :
              /\ [mem EXCEPT ![b].corrupted = TRUE] \in [Blocks -> Script]
              /\ [mem EXCEPT ![b].stamp = 0] \in [Blocks -> Script]
              /\ [mem EXCEPT ![b].size = 1] \in [Blocks -> Script]
<1> USE OpcacheAssumption DEF Versions
<1>1. 0 \in Versions
  OBVIOUS
<1>2. Zeroed \in Script
  BY DEF Zeroed, Script
<1>3. ASSUME NEW b \in Blocks
      PROVE  /\ [mem EXCEPT ![b].corrupted = TRUE] \in [Blocks -> Script]
             /\ [mem EXCEPT ![b].stamp = 0] \in [Blocks -> Script]
             /\ [mem EXCEPT ![b].size = 1] \in [Blocks -> Script]
  <2>1. mem \in [Blocks -> Script] /\ mem[b] \in Script
    BY DEF TypeOK, SegmentOK
  <2>2. [mem EXCEPT ![b].corrupted = TRUE] \in [Blocks -> Script]
    BY <2>1 DEF Script
  <2>3. [mem EXCEPT ![b].stamp = 0] \in [Blocks -> Script]
    BY <2>1, <1>1 DEF Script
  <2>4. [mem EXCEPT ![b].size = 1] \in [Blocks -> Script]
    BY <2>1 DEF Script
  <2> QED
    BY <2>2, <2>3, <2>4
<1> QED
  BY <1>2, <1>3 DEF Script

LEMMA TypedInit == Init => Typed
<1> SUFFICES ASSUME Init PROVE Typed
  OBVIOUS
<1> USE OpcacheAssumption DEF Init
<1>1. Zeroed \in Script /\ 0 \in Versions /\ 1 \in Versions
  BY DEF Zeroed, Script, Versions
<1>2. FlagsOK
  BY DEF FlagsOK
<1>3. SegmentOK
  BY <1>1 DEF SegmentOK
<1>4. LocksOK
  BY DEF LocksOK
<1>5. pc \in [Proc -> Phases] /\ LocalsOK
  BY <1>1 DEF LocalsOK, Phases
<1>6. RequestsOK
  BY DEF RequestsOK
<1>7. WorldOK
  BY <1>1 DEF WorldOK
<1>8. BoundsOK
  BY DEF BoundsOK
<1>9. Locks /\ Working
  BY DEF Locks, Working, Holding, Restarting, Discarding, Scheduling, Publishing,
         Busy, Looked
<1> QED
  BY <1>2, <1>3, <1>4, <1>5, <1>6, <1>7, <1>8, <1>9 DEF TypeOK, Typed

-------------------------------------------------------------------------------
(* What the operators that actions share do to the types.                   *)
LEMMA ReturnTyped ==
  ASSUME LocalsOK, NEW p \in Proc, Return(p)
  PROVE  LocalsOK'
<1>1. 0 \in Versions /\ 0 \in 0 .. Capacity
  BY OpcacheAssumption DEF Versions
<1> QED
  BY <1>1 DEF LocalsOK, Return

LEMMA ForgetTyped ==
  ASSUME LocalsOK, RequestsOK, LocksOK, NEW p \in Proc, Forget(p)
  PROVE  LocalsOK' /\ RequestsOK' /\ usage' \subseteq Proc
<1>1. LocalsOK'
  BY ReturnTyped DEF Forget
<1>2. [f \in Files |-> 0] \in [Files -> 0 .. Capacity]
  BY OpcacheAssumption
<1>3. RequestsOK'
  BY <1>2 DEF RequestsOK, Forget
<1> QED
  BY <1>1, <1>3 DEF Forget, LocksOK

LEMMA LoadTyped ==
  ASSUME RequestsOK, NEW p \in Proc, NEW b \in 0 .. Capacity, Load(p, b),
         UNCHANGED <<on, counted, tried, exposed>>
  PROVE  RequestsOK'
<1>1. loaded \in [Proc -> [Files -> 0 .. Capacity]]
  BY DEF RequestsOK
<1>2. loaded' \in [Proc -> [Files -> 0 .. Capacity]]
  BY <1>1 DEF Load
<1> QED
  BY <1>2 DEF RequestsOK

(* Byte 0 changes hands: p goes from one phase to another and takes it, or  *)
(* keeps it, or gives it back.                                              *)
LEMMA LockPassed ==
  ASSUME Typed, NEW p \in Proc, NEW to \in Phases,
         pc' = [pc EXCEPT ![p] = to], allocLock \in {p, None},
         allocLock' = IF to \in Holding THEN p ELSE None
  PROVE  Locks' /\ allocLock' \in Proc \cup {None} /\ pc' \in [Proc -> Phases]
BY OpcacheAssumption DEF Typed, TypeOK, LocksOK, Locks

LEMMA LockLeft ==
  ASSUME Typed, NEW p \in Proc, NEW to \in Phases,
         pc' = [pc EXCEPT ![p] = to], allocLock' = allocLock,
         pc[p] \in Holding <=> to \in Holding
  PROVE  Locks' /\ allocLock' \in Proc \cup {None} /\ pc' \in [Proc -> Phases]
BY OpcacheAssumption DEF Typed, TypeOK, LocksOK, Locks

(* A worker that may schedule a restart does so, or goes on.                *)
LEMMA ScheduleMoves ==
  ASSUME NEW p \in Proc, NEW reason, Schedule(p, reason)
  PROVE  \E to \in {"scheduling", "running", "stamping"} :
           /\ pc' = [pc EXCEPT ![p] = to]
           /\ allocLock' = IF to = "scheduling" THEN p ELSE None
           /\ to = "scheduling" <=> reason /\ ~pending
           /\ to = "stamping" => file[p] # None
           /\ to = "running" => file[p] = None
<1>1. CASE reason /\ ~pending
  BY <1>1 DEF Schedule
<1>2. CASE ~(reason /\ ~pending)
  <2>1. CASE file[p] = None
    BY <1>2, <2>1 DEF Schedule, Unlock
  <2>2. CASE file[p] # None
    BY <1>2, <2>2 DEF Schedule, Unlock
  <2> QED
    BY <2>1, <2>2
<1> QED
  BY <1>1, <1>2

-------------------------------------------------------------------------------
(* RINIT, and how it restarts the cache.                                    *)
StartStep(p) ==
  \/ RequestStart(p) \/ ReadPending(p) \/ AcquireAlloc(p) \/ BeginRestart(p)
  \/ SkipRestart(p) \/ BeginKilling(p) \/ StopKilling(p) \/ EnterRestart(p)
  \/ CleanHash(p) \/ RestoreState(p) \/ LeaveRestart(p) \/ CopyEnabled(p)

LEMMA TypedStart ==
  ASSUME Typed, NEW p \in Proc, StartStep(p)
  PROVE  Typed'
<1> USE OpcacheAssumption
    DEF Typed, TypeOK, Step, switch, memory, local, request, world, StartStep,
        RequestStart, ReadPending, AcquireAlloc, BeginRestart, SkipRestart,
        BeginKilling, StopKilling, EnterRestart, CleanHash, RestoreState,
        LeaveRestart, CopyEnabled
<1>1. pc' \in [Proc -> Phases]
  BY DEF Phases, Restarting
<1>2. FlagsOK'
  BY DEF FlagsOK
<1>3. SegmentOK'
  BY DEF SegmentOK
<1>4. LocksOK' /\ LocalsOK' /\ WorldOK' /\ BoundsOK'
  BY DEF LocksOK, LocalsOK, WorldOK, BoundsOK
<1>5. RequestsOK'
  <2>1. CASE BeginRestart(p)
    BY <2>1 DEF RequestsOK
  <2>2. CASE CopyEnabled(p)
    <3>1. (~Quiet) \in BOOLEAN
      BY DEF Quiet
    <3> QED
      BY <2>2, <3>1 DEF RequestsOK, FlagsOK
  <2>3. CASE UNCHANGED request
    BY <2>3 DEF RequestsOK
  <2> QED
    BY <2>1, <2>2, <2>3
<1>6. Locks'
  <2> USE DEF Phases, Holding, Restarting, Discarding, Scheduling, Publishing
  <2>1. CASE RequestStart(p) \/ ReadPending(p) \/ CopyEnabled(p)
    <3>1. \E to \in Phases \ Holding : /\ pc' = [pc EXCEPT ![p] = to]
                                      /\ allocLock' = allocLock /\ pc[p] \notin Holding
      BY <2>1
    <3> QED
      BY <3>1, LockLeft DEF Typed
  <2>2. CASE AcquireAlloc(p)
    BY <2>2, LockPassed DEF Typed
  <2>3. CASE SkipRestart(p) \/ StopKilling(p) \/ LeaveRestart(p)
    <3>1. /\ pc' = [pc EXCEPT ![p] = "copying"] /\ allocLock' = None
          /\ pc[p] \in Holding
      BY <2>3
    <3>2. allocLock = p /\ "copying" \in Phases \ Holding
      BY <3>1 DEF Locks
    <3> QED
      BY <3>1, <3>2, LockPassed DEF Typed
  <2>4. CASE \/ BeginRestart(p) \/ BeginKilling(p) \/ EnterRestart(p)
             \/ CleanHash(p) \/ RestoreState(p)
    <3>1. \E to \in Phases \cap Holding : /\ pc' = [pc EXCEPT ![p] = to]
                                         /\ allocLock' = allocLock /\ pc[p] \in Holding
      BY <2>4
    <3> QED
      BY <3>1, LockLeft DEF Typed
  <2> QED
    BY <2>1, <2>2, <2>3, <2>4
<1>7. Working'
  <2>1. /\ pc'[p] \notin Busy \cup Looked \cup Publishing
        /\ \A q \in Proc \ {p} : pc'[q] = pc[q]
    BY DEF Busy, Looked, Discarding, Publishing
  <2>2. file' = file /\ found' = found
    OBVIOUS
  <2>3. top' = top \/ RestoreState(p)
    OBVIOUS
  <2>4. RestoreState(p) => \A q \in Proc \ {p} : pc[q] \notin Publishing
    BY DEF Locks, Holding, Restarting
  <2> QED
    BY <2>1, <2>2, <2>3, <2>4 DEF Working, Blocks
<1> QED
  BY <1>1, <1>2, <1>3, <1>4, <1>5, <1>6, <1>7

(* Compiling a file, up to the point where it has to be stored.             *)
CompileStep(p) ==
  LookUp(p) \/ Count(p) \/ Hit(p) \/ Outdated(p) \/ Miss(p) \/ Compile(p)

LEMMA TypedCompile ==
  ASSUME Typed, NEW p \in Proc, CompileStep(p)
  PROVE  Typed'
<1> USE OpcacheAssumption
    DEF Typed, TypeOK, Step, switch, memory, local, request, world, CompileStep
<1>1. file[p] \in Files
  BY DEF Working, Busy, LookUp, Count, Hit, Outdated, Miss, Compile
<1>2. PICK to \in {"counting", "validating", "running", "discarding", "stamping",
                   "compiling", "storing"} :
        pc' = [pc EXCEPT ![p] = to]
  BY DEF LookUp, Count, Hit, Outdated, Miss, Compile
<1>3. FlagsOK' /\ SegmentOK'
  BY DEF FlagsOK, SegmentOK, LookUp, Count, Hit, Outdated, Miss, Compile
<1>4. LocksOK' /\ WorldOK' /\ BoundsOK'
  BY DEF LocksOK, WorldOK, BoundsOK, LookUp, Count, Hit, Outdated, Miss, Compile
<1>5. LocalsOK'
  <2>1. CASE LookUp(p)
    BY <1>1, <2>1 DEF LookUp, LocalsOK, SegmentOK
  <2>2. CASE Return(p)
    BY <2>2, ReturnTyped
  <2>3. CASE UNCHANGED local
    BY <2>3 DEF LocalsOK
  <2>4. CASE stamp' = [stamp EXCEPT ![p] = disk[file[p]]]
             /\ UNCHANGED <<file, found, content>>
    BY <1>1, <2>4 DEF LocalsOK, WorldOK
  <2>5. CASE Compile(p)
    BY <1>1, <2>5 DEF Compile, LocalsOK, WorldOK
  <2> QED
    BY <2>1, <2>2, <2>3, <2>4, <2>5 DEF Count, Hit, Outdated, Miss
<1>6. RequestsOK'
  <2>1. CASE Hit(p)
    BY <1>1, <2>1, LoadTyped DEF Hit, LocalsOK
  <2>2. CASE Count(p)
    BY <2>2 DEF Count, RequestsOK
  <2>3. CASE UNCHANGED request
    BY <2>3 DEF RequestsOK
  <2> QED
    BY <2>1, <2>2, <2>3 DEF LookUp, Outdated, Miss, Compile
<1>7. Locks' /\ pc' \in [Proc -> Phases]
  <2>1. to \in Phases \ Holding
    BY DEF Phases, Holding, Restarting, Discarding, Scheduling, Publishing
  <2>2. pc[p] \notin Holding /\ allocLock' = allocLock
    BY DEF Holding, Restarting, Discarding, Scheduling, Publishing, LookUp, Count,
           Hit, Outdated, Miss, Compile
  <2> QED
    BY <1>2, <2>1, <2>2, LockLeft
<1>8. Working'
  <2>1. \A q \in Proc \ {p} : /\ pc'[q] = pc[q] /\ file'[q] = file[q]
                              /\ found'[q] = found[q]
    BY <1>2 DEF LookUp, Count, Hit, Outdated, Miss, Compile, Return, LocalsOK
  <2>2. pc'[p] = to /\ to \notin Publishing /\ top' = top
    BY <1>2 DEF Publishing, LookUp, Count, Hit, Outdated, Miss, Compile
  <2>3. to \in Busy => file'[p] \in Files
    BY <1>1, <1>2 DEF LookUp, Count, Hit, Outdated, Miss, Compile, Busy, Publishing
  <2>4. to \in Looked => found'[p] \in Blocks
    BY <1>2 DEF LookUp, Count, Hit, Outdated, Miss, Compile, Looked, Discarding,
                LocalsOK, Blocks, Working
  <2> QED
    BY <2>1, <2>2, <2>3, <2>4 DEF Working
<1> QED
  BY <1>3, <1>4, <1>5, <1>6, <1>7, <1>8

(* Discarding a script.                                                     *)
DiscardStep(p) == Discard(p) \/ Invalidate(p) \/ ClearDate(p) \/ AddWaste(p)

LEMMA DiscardMoves ==
  ASSUME Typed, NEW p \in Proc, DiscardStep(p)
  PROVE  /\ found[p] \in Blocks
         /\ \A q \in Proc \ {p} : file'[q] = file[q] /\ found'[q] = found[q]
         /\ file'[p] = file[p] \/ (Invalidate(p) /\ file'[p] = None)
         /\ \E to \in {"dating", "wasting", "scheduling", "stamping", "running"} :
              /\ pc' = [pc EXCEPT ![p] = to]
              /\ allocLock' = IF to \in Discarding \cup Scheduling THEN p ELSE None
              /\ to \in Discarding => found'[p] = found[p]
              /\ to = "stamping" => file[p] \in Files /\ ~Invalidate(p)
              /\ to = "running" => file'[p] = None
              /\ to = "scheduling" => ~pending
<1> USE DEF DiscardStep, Typed, TypeOK, LocalsOK, Step, Discarding, Scheduling
<1>1. found[p] \in Blocks
  BY DEF Working, Looked, Discard, Invalidate, ClearDate, AddWaste
<1>2. /\ \A q \in Proc \ {p} : file'[q] = file[q] /\ found'[q] = found[q]
      /\ file'[p] = file[p] \/ (Invalidate(p) /\ file'[p] = None)
  BY DEF Discard, Invalidate, ClearDate, AddWaste, Mark, local
<1>3. \E to \in {"dating", "wasting", "scheduling", "stamping", "running"} :
        /\ pc' = [pc EXCEPT ![p] = to]
        /\ allocLock' = IF to \in Discarding \cup Scheduling THEN p ELSE None
        /\ to \in Discarding => found'[p] = found[p]
        /\ to = "stamping" => file[p] \in Files /\ ~Invalidate(p)
        /\ to = "running" => file'[p] = None
        /\ to = "scheduling" => ~pending
  <2>1. CASE Discard(p)
    <3>1. file[p] \in Files /\ ~Invalidate(p)
      BY <2>1 DEF Working, Busy, Discard, Invalidate
    <3> QED
      BY <2>1, <3>1 DEF Discard, Mark
  <2>2. CASE Invalidate(p)
    BY <2>2 DEF Invalidate, Mark
  <2>3. CASE ClearDate(p)
    <3>1. allocLock = p
      BY <2>3 DEF ClearDate, Locks, Holding
    <3> QED
      BY <2>3, <3>1 DEF ClearDate, local
  <2>4. CASE AddWaste(p)
    <3>1. ~Invalidate(p)
      BY <2>4 DEF AddWaste, Invalidate
    <3> QED
      BY <2>4, <3>1, ScheduleMoves DEF AddWaste
  <2> QED
    BY <2>1, <2>2, <2>3, <2>4
<1> QED
  BY <1>1, <1>2, <1>3

LEMMA DiscardMemory ==
  ASSUME Typed, NEW p \in Proc, DiscardStep(p)
  PROVE  /\ mem' \in [Blocks -> Script] /\ UNCHANGED <<switch, exhausted, top, hash>>
         /\ \A b \in Blocks : /\ mem'[b].file = mem[b].file
                              /\ mem'[b].content = mem[b].content
                              /\ mem'[b].stamp \in {0, mem[b].stamp}
                              /\ mem'[b].size = mem[b].size
                              /\ mem[b].corrupted => mem'[b].corrupted
                              /\ mem'[b].corrupted => mem[b].corrupted \/ b = found[p]
<1>1. mem \in [Blocks -> Script] /\ found[p] \in Blocks
  BY DiscardMoves DEF Typed, TypeOK, SegmentOK
<1>2. UNCHANGED <<switch, exhausted, top, hash>>
  BY DEF DiscardStep, Discard, Invalidate, ClearDate, AddWaste, memory
<1>3. \/ mem' = mem
      \/ mem' = [mem EXCEPT ![found[p]].corrupted = TRUE]
      \/ mem' = [mem EXCEPT ![found[p]].stamp = 0]
  BY DEF DiscardStep, Discard, Invalidate, ClearDate, AddWaste, Mark
<1>4. mem' \in [Blocks -> Script]
  BY <1>1, <1>3, ScriptTypes DEF Typed
<1>5. ASSUME NEW b \in Blocks
      PROVE  /\ mem'[b].file = mem[b].file
             /\ mem'[b].content = mem[b].content
             /\ mem'[b].stamp \in {0, mem[b].stamp}
             /\ mem'[b].size = mem[b].size
             /\ mem[b].corrupted => mem'[b].corrupted
             /\ mem'[b].corrupted => mem[b].corrupted \/ b = found[p]
  BY <1>1, <1>3 DEF Script
<1> QED
  BY <1>2, <1>4, <1>5

LEMMA TypedDiscard ==
  ASSUME Typed, NEW p \in Proc, DiscardStep(p)
  PROVE  Typed'
<1>0. TypeOK /\ Locks /\ Working
  BY DEF Typed
<1>1. PICK to \in {"dating", "wasting", "scheduling", "stamping", "running"} :
        /\ pc' = [pc EXCEPT ![p] = to]
        /\ allocLock' = IF to \in Discarding \cup Scheduling THEN p ELSE None
        /\ to \in Discarding => found'[p] = found[p]
        /\ to = "stamping" => file[p] \in Files /\ ~Invalidate(p)
  BY DiscardMoves
<1>2. FlagsOK' /\ SegmentOK'
  <2>1. UNCHANGED <<switch, exhausted, top, hash>> /\ mem' \in [Blocks -> Script]
    BY DiscardMemory
  <2>2. wasted' \in Nat
    <3>1. wasted \in Nat /\ mem[found[p]].size \in {0, 1}
      BY <1>0, DiscardMoves DEF TypeOK, SegmentOK, Script
    <3> QED
      BY <3>1 DEF DiscardStep, Discard, Invalidate, ClearDate, AddWaste
  <2> QED
    BY <1>0, <2>1, <2>2 DEF TypeOK, FlagsOK, SegmentOK, switch
<1>3. Locks' /\ allocLock' \in Proc \cup {None} /\ pc' \in [Proc -> Phases]
  <2>1. allocLock \in {p, None}
    BY <1>0 DEF DiscardStep, Discard, Invalidate, ClearDate, AddWaste, Mark, Step,
                Locks, Holding, Discarding
  <2>2. to \in Phases /\ (to \in Holding <=> to \in Discarding \cup Scheduling)
    BY DEF Phases, Unfinished, Holding, Restarting, Discarding, Scheduling, Publishing
  <2> QED
    BY <1>1, <2>1, <2>2, LockPassed
<1>4. UNCHANGED <<usage, restartLock, stamp, content, request, world>>
  BY DEF DiscardStep, Discard, Invalidate, ClearDate, AddWaste, local
<1>5. LocksOK' /\ RequestsOK' /\ WorldOK' /\ BoundsOK'
  BY <1>0, <1>3, <1>4 DEF TypeOK, LocksOK, RequestsOK, WorldOK, BoundsOK, request, world
<1>6. LocalsOK'
  <2>1. \/ file' = file
        \/ file' = [file EXCEPT ![p] = None]
    BY DEF DiscardStep, Discard, Invalidate, ClearDate, AddWaste, local
  <2>2. \/ found' = found
        \/ found' = [found EXCEPT ![p] = 0]
    BY DEF DiscardStep, Discard, Invalidate, ClearDate, AddWaste, Mark, local
  <2> QED
    BY <1>0, <1>4, <2>1, <2>2, OpcacheAssumption DEF TypeOK, LocalsOK
<1>7. Working'
  <2>1. /\ \A q \in Proc \ {p} : /\ pc'[q] = pc[q] /\ file'[q] = file[q]
                                 /\ found'[q] = found[q]
        /\ top' = top /\ pc'[p] = to
    BY <1>0, <1>1, DiscardMoves, DiscardMemory DEF TypeOK
  <2>2. to \in Busy => file'[p] \in Files
    BY <1>1, DiscardMoves DEF Busy, Publishing
  <2>3. to \in Looked => found'[p] \in Blocks
    BY <1>1, DiscardMoves DEF Looked
  <2>4. to \notin Publishing
    BY DEF Publishing
  <2> QED
    BY <1>0, <2>1, <2>2, <2>3, <2>4 DEF Working
<1> QED
  BY <1>2, <1>3, <1>5, <1>6, <1>7 DEF Typed, TypeOK

(* Scheduling a restart.                                                    *)
ScheduleStep(p) ==
  SetPending(p) \/ RememberStatus(p) \/ SwitchOff(p) \/ SetForceTime(p)

LEMMA ScheduleStepMoves ==
  ASSUME Typed, NEW p \in Proc, ScheduleStep(p)
  PROVE  /\ pc[p] \in Scheduling /\ allocLock = p
         /\ UNCHANGED <<inProgress, memory, usage, restartLock, local, request, world>>
         /\ \E to \in {"remembering", "switching", "arming", "running", "stamping"} :
              /\ pc' = [pc EXCEPT ![p] = to]
              /\ allocLock' = IF to \in Scheduling THEN p ELSE None
              /\ to = "stamping" => file[p] # None
              /\ to = "running" => file[p] = None
<1> USE DEF ScheduleStep, Step, Scheduling
<1>1. pc[p] \in Scheduling /\ allocLock = p
  BY DEF Typed, Locks, Holding, SetPending, RememberStatus, SwitchOff, SetForceTime
<1>2. CASE SetForceTime(p)
  <2>1. CASE file[p] = None
    BY <1>1, <1>2, <2>1 DEF SetForceTime, Unlock
  <2>2. CASE file[p] # None
    BY <1>1, <1>2, <2>2 DEF SetForceTime, Unlock
  <2> QED
    BY <2>1, <2>2
<1>3. CASE SetPending(p) \/ RememberStatus(p) \/ SwitchOff(p)
  BY <1>1, <1>3 DEF SetPending, RememberStatus, SwitchOff
<1> QED
  BY <1>2, <1>3

LEMMA TypedSchedule ==
  ASSUME Typed, NEW p \in Proc, ScheduleStep(p)
  PROVE  Typed'
<1>0. TypeOK /\ Locks /\ Working
  BY DEF Typed
<1>1. PICK to \in {"remembering", "switching", "arming", "running", "stamping"} :
        /\ pc' = [pc EXCEPT ![p] = to]
        /\ allocLock' = IF to \in Scheduling THEN p ELSE None
        /\ to = "stamping" => file[p] # None
  BY ScheduleStepMoves
<1>2. UNCHANGED <<inProgress, memory, usage, restartLock, local, request, world>>
  BY ScheduleStepMoves
<1>3. Locks' /\ allocLock' \in Proc \cup {None} /\ pc' \in [Proc -> Phases]
  <2>1. to \in Phases /\ (to \in Holding <=> to \in Scheduling)
    BY DEF Phases, Unfinished, Holding, Restarting, Discarding, Scheduling, Publishing
  <2> QED
    BY <1>1, <2>1, ScheduleStepMoves, LockPassed
<1>4. FlagsOK'
  BY <1>0, <1>2, OpcacheAssumption
     DEF TypeOK, FlagsOK, memory, ScheduleStep, SetPending, RememberStatus,
         SwitchOff, SetForceTime
<1>5. SegmentOK' /\ LocksOK' /\ LocalsOK' /\ RequestsOK' /\ WorldOK' /\ BoundsOK'
  BY <1>0, <1>2, <1>3 DEF TypeOK, SegmentOK, LocksOK, LocalsOK, RequestsOK, WorldOK,
                          BoundsOK, memory, local, request, world
<1>6. Working'
  <2>1. /\ \A q \in Proc \ {p} : pc'[q] = pc[q]
        /\ pc'[p] = to /\ to \notin Looked \cup Publishing
        /\ to \in Busy => to = "stamping"
    BY <1>0, <1>1 DEF TypeOK, Looked, Discarding, Publishing, Busy
  <2>2. to = "stamping" => file[p] \in Files
    BY <1>0, <1>1 DEF TypeOK, LocalsOK
  <2> QED
    BY <1>0, <1>2, <2>1, <2>2 DEF Working, local, memory
<1> QED
  BY <1>3, <1>4, <1>5, <1>6 DEF Typed, TypeOK

(* Storing a script.                                                        *)
StoreStep(p) ==
  \/ UseExisting(p) \/ NoRoom(p) \/ Allocate(p) \/ CopyIn(p) \/ Publish(p)
  \/ Measure(p)

LEMMA NextBlock ==
  ASSUME NEW n \in 0 .. Capacity, n < Capacity
  PROVE  n + 1 \in 0 .. Capacity /\ n + 1 \in Blocks
BY OpcacheAssumption DEF Blocks

LEMMA StoreMoves ==
  ASSUME Typed, NEW p \in Proc, StoreStep(p)
  PROVE  /\ file[p] \in Files /\ allocLock \in {p, None}
         /\ \E to \in {"running", "scheduling", "copying in", "linking", "measuring"} :
              /\ pc' = [pc EXCEPT ![p] = to]
              /\ allocLock' = IF to = "running" THEN None ELSE p
              /\ to = "copying in" <=> Allocate(p)
              /\ to = "linking" <=> CopyIn(p)
              /\ to = "measuring" <=> Publish(p)
              /\ to = "scheduling" => NoRoom(p) /\ ~pending
<1> USE DEF Step, StoreStep
<1>1. file[p] \in Files
  BY DEF Typed, Working, Busy, Publishing, UseExisting, NoRoom, Allocate, CopyIn,
         Publish, Measure
<1>2. CASE UseExisting(p) \/ NoRoom(p) \/ Allocate(p)
  <2>1. allocLock = None /\ ~CopyIn(p) /\ ~Publish(p)
    BY <1>2 DEF UseExisting, NoRoom, Allocate, CopyIn, Publish
  <2>2. (UseExisting(p) \/ NoRoom(p)) => ~Allocate(p)
    BY DEF Typed, TypeOK, UseExisting, NoRoom, Allocate
  <2> QED
    BY <1>1, <1>2, <2>1, <2>2 DEF UseExisting, NoRoom, Allocate
<1>3. CASE CopyIn(p) \/ Publish(p) \/ Measure(p)
  <2>1. allocLock = p /\ ~Allocate(p)
    BY <1>3 DEF Typed, Locks, Holding, Publishing, CopyIn, Publish, Measure, Allocate
  <2>2. /\ CopyIn(p) => ~Publish(p) /\ ~Measure(p)
        /\ Publish(p) => ~Measure(p)
    BY DEF CopyIn, Publish, Measure
  <2> QED
    BY <1>1, <1>3, <2>1, <2>2 DEF CopyIn, Publish, Measure
<1> QED
  BY <1>2, <1>3

LEMMA TypedStore ==
  ASSUME Typed, NEW p \in Proc, StoreStep(p)
  PROVE  Typed'
<1> USE OpcacheAssumption
    DEF Typed, TypeOK, Step, switch, memory, local, request, world
<1>1. file[p] \in Files /\ allocLock \in {p, None}
  BY StoreMoves
<1>2. PICK to \in {"running", "scheduling", "copying in", "linking", "measuring"} :
        /\ pc' = [pc EXCEPT ![p] = to]
        /\ allocLock' = IF to = "running" THEN None ELSE p
        /\ to = "copying in" <=> Allocate(p)
        /\ to = "linking" <=> CopyIn(p)
        /\ to = "measuring" <=> Publish(p)
        /\ to = "scheduling" => NoRoom(p)
  BY StoreMoves
<1>3. FlagsOK'
  <2>1. exhausted' \in BOOLEAN
    BY DEF FlagsOK, StoreStep, UseExisting, NoRoom, Allocate, CopyIn, Publish,
           Measure, UsedUp
  <2>2. UNCHANGED switch
    BY DEF StoreStep, UseExisting, NoRoom, Allocate, CopyIn, Publish, Measure
  <2> QED
    BY <2>1, <2>2 DEF FlagsOK
<1>4. SegmentOK'
  <2>1. CASE Allocate(p)
    <3>0. top \in 0 .. Capacity /\ top < Capacity
      BY <2>1 DEF Allocate, SegmentOK
    <3>1. top + 1 \in 0 .. Capacity
      BY <3>0, NextBlock
    <3>2. mem' \in [Blocks -> Script]
      BY <2>1, ScriptTypes DEF Allocate, SegmentOK
    <3> QED
      BY <2>1, <3>1, <3>2 DEF Allocate, SegmentOK
  <2>2. CASE CopyIn(p)
    <3>1. [file |-> file[p], stamp |-> stamp[p], content |-> content[p],
           corrupted |-> FALSE, size |-> 0] \in Script
      BY <1>1, ScriptTypes DEF LocalsOK
    <3>2. mem' \in [Blocks -> Script]
      BY <2>2, <3>1 DEF CopyIn, SegmentOK
    <3> QED
      BY <2>2, <3>2 DEF CopyIn, SegmentOK
  <2>3. CASE Publish(p)
    BY <2>3 DEF Publish, SegmentOK
  <2>4. CASE Measure(p)
    <3>1. top \in Blocks
      BY <2>4 DEF Measure, Working, Publishing
    <3> QED
      BY <2>4, <3>1, ScriptTypes DEF Measure, SegmentOK
  <2>5. CASE UNCHANGED <<wasted, top, mem, hash>>
    BY <2>5 DEF SegmentOK
  <2> QED
    BY <2>1, <2>2, <2>3, <2>4, <2>5 DEF StoreStep, UseExisting, NoRoom
<1>5. Locks' /\ allocLock' \in Proc \cup {None} /\ pc' \in [Proc -> Phases]
  <2>1. to \in Phases /\ (to \in Holding <=> to # "running")
    BY DEF Phases, Unfinished, Holding, Restarting, Discarding, Scheduling, Publishing
  <2> QED
    BY <1>1, <1>2, <2>1, LockPassed
<1>6. LocksOK' /\ WorldOK' /\ BoundsOK'
  BY <1>5 DEF LocksOK, WorldOK, BoundsOK, StoreStep, UseExisting, NoRoom, Allocate,
              CopyIn, Publish, Measure
<1>7. LocalsOK'
  <2>1. CASE UNCHANGED local
    BY <2>1 DEF LocalsOK
  <2>2. CASE Return(p)
    BY <2>2, ReturnTyped
  <2> QED
    BY <2>1, <2>2 DEF StoreStep, UseExisting, NoRoom, Allocate, CopyIn, Publish, Measure
<1>8. RequestsOK'
  <2>1. CASE UseExisting(p)
    <3>1. hash[file[p]] \in 0 .. Capacity
      BY <1>1 DEF SegmentOK
    <3> QED
      BY <2>1, <3>1, LoadTyped DEF UseExisting
  <2>2. CASE Measure(p)
    BY <2>2, LoadTyped DEF Measure, SegmentOK
  <2>3. CASE UNCHANGED request
    BY <2>3 DEF RequestsOK
  <2> QED
    BY <2>1, <2>2, <2>3 DEF StoreStep, NoRoom, Allocate, CopyIn, Publish
<1>9. Working'
  <2>1. \A q \in Proc \ {p} : /\ pc'[q] = pc[q] /\ file'[q] = file[q]
                              /\ found'[q] = found[q]
    BY <1>2 DEF StoreStep, UseExisting, NoRoom, Allocate, CopyIn, Publish, Measure,
                Return, LocalsOK
  <2>2. pc'[p] = to /\ to \notin Looked
    BY <1>2 DEF Looked, Discarding
  <2>3. to \in Busy => file'[p] \in Files
    BY <1>1, <1>2 DEF Busy, Publishing, Allocate, CopyIn, Publish
  <2>4. top' = top \/ Allocate(p)
    BY DEF StoreStep, UseExisting, NoRoom, CopyIn, Publish, Measure
  <2>5. Allocate(p) => top' \in Blocks
    <3>1. top \in 0 .. Capacity
      BY DEF SegmentOK
    <3>2. Allocate(p) => top < Capacity /\ top' = top + 1
      BY DEF Allocate
    <3> QED
      BY <3>1, <3>2, NextBlock
  <2>6. to \in Publishing => Allocate(p) \/ top \in Blocks
    BY <1>2 DEF Publishing, CopyIn, Publish, Working
  <2> QED
    BY <2>1, <2>2, <2>3, <2>4, <2>5, <2>6 DEF Working
<1> QED
  BY <1>3, <1>4, <1>5, <1>6, <1>7, <1>8, <1>9

(* Calls of scripts.                                                        *)
CallStep(p) ==
  \/ CallReset(p) \/ Reset(p) \/ CheckFlag(p) \/ Find(p)
  \/ \E f \in Files : Include(p, f) \/ CallInvalidate(p, f)

LEMMA CallMoves ==
  ASSUME Typed, NEW p \in Proc, CallStep(p)
  PROVE  \/ pc' = pc /\ allocLock' = allocLock /\ UNCHANGED local
         \/ \E to \in {"looking", "resetting", "scheduling", "stamping", "running",
                       "finding", "flag", "forgetting"} :
              /\ pc' = [pc EXCEPT ![p] = to]
              /\ pc[p] \notin Holding
              /\ \/ allocLock' = allocLock /\ to # "scheduling"
                 \/ /\ allocLock = None /\ Reset(p)
                    /\ allocLock' = IF to = "scheduling" THEN p ELSE None
              /\ to = "stamping" => file[p] # None /\ Reset(p)
              /\ to = "scheduling" => ~pending /\ Reset(p)
<1> USE DEF CallStep, Step, Holding, Restarting, Discarding, Scheduling, Publishing
<1>1. CASE CallReset(p) \/ CheckFlag(p) \/ Find(p)
  BY <1>1 DEF CallReset, CheckFlag, Find
<1>2. CASE Reset(p)
  <2>1. pc[p] \notin Holding /\ allocLock = None
    BY <1>2 DEF Reset
  <2>2. \E to \in {"scheduling", "running", "stamping"} :
           /\ pc' = [pc EXCEPT ![p] = to]
           /\ allocLock' = IF to = "scheduling" THEN p ELSE None
           /\ to = "stamping" => file[p] # None
           /\ to = "scheduling" => ~pending
    BY <1>2, ScheduleMoves DEF Reset
  <2> QED
    BY <1>2, <2>1, <2>2
<1>3. ASSUME NEW f \in Files, Include(p, f)
      PROVE  \/ pc' = pc /\ allocLock' = allocLock /\ UNCHANGED local
             \/ /\ pc' = [pc EXCEPT ![p] = "looking"] /\ pc[p] \notin Holding
                /\ allocLock' = allocLock
  BY <1>3 DEF Include, local
<1>4. ASSUME NEW f \in Files, CallInvalidate(p, f)
      PROVE  \E to \in {"finding", "flag"} :
               /\ pc' = [pc EXCEPT ![p] = to] /\ pc[p] \notin Holding
               /\ allocLock' = allocLock
  BY <1>4 DEF CallInvalidate
<1> QED
  BY <1>1, <1>2, <1>3, <1>4

LEMMA TypedCall ==
  ASSUME Typed, NEW p \in Proc, CallStep(p)
  PROVE  Typed'
<1> USE OpcacheAssumption
    DEF Typed, TypeOK, Step, switch, memory, local, request, world, CallStep
<1>1. Locks' /\ allocLock' \in Proc \cup {None} /\ pc' \in [Proc -> Phases]
  <2>1. CASE pc' = pc /\ allocLock' = allocLock
    BY <2>1 DEF Locks, LocksOK
  <2>2. ASSUME NEW to \in {"looking", "resetting", "scheduling", "stamping", "running",
                           "finding", "flag", "forgetting"},
               pc' = [pc EXCEPT ![p] = to], pc[p] \notin Holding,
               \/ allocLock' = allocLock /\ to # "scheduling"
               \/ allocLock = None /\ allocLock' = IF to = "scheduling" THEN p ELSE None
        PROVE  Locks' /\ allocLock' \in Proc \cup {None} /\ pc' \in [Proc -> Phases]
    <3>1. to \in Phases /\ (to \in Holding <=> to = "scheduling")
      BY DEF Phases, Unfinished, Holding, Restarting, Discarding, Scheduling, Publishing
    <3>2. CASE allocLock' = allocLock /\ to # "scheduling"
      BY <2>2, <3>1, <3>2, LockLeft
    <3>3. CASE allocLock = None /\ allocLock' = IF to = "scheduling" THEN p ELSE None
      BY <2>2, <3>1, <3>3, LockPassed
    <3> QED
      BY <2>2, <3>2, <3>3
  <2> QED
    BY <2>1, <2>2, CallMoves
<1>2. FlagsOK' /\ SegmentOK'
  <2>1. CASE \E f \in Files : Include(p, f)
    BY <2>1 DEF Include, FlagsOK, SegmentOK
  <2>2. CASE UNCHANGED <<switch, memory>>
    BY <2>2 DEF FlagsOK, SegmentOK
  <2> QED
    BY <2>1, <2>2 DEF CallReset, Reset, CheckFlag, Find, CallInvalidate
<1>3. LocksOK' /\ WorldOK'
  BY <1>1 DEF LocksOK, WorldOK, CallReset, Reset, CheckFlag, Find, Include,
              CallInvalidate
<1>4. BoundsOK'
  <2>1. \/ calls' = calls
        \/ calls < MaxCalls /\ calls' = calls + 1
    BY DEF CallReset, Reset, CheckFlag, Find, Include, CallInvalidate
  <2>2. deaths' = deaths
    BY DEF CallReset, Reset, CheckFlag, Find, Include, CallInvalidate
  <2>3. calls \in 0 .. MaxCalls /\ deaths \in 0 .. MaxDeaths
    BY DEF BoundsOK
  <2>4. calls' \in 0 .. MaxCalls
    BY ONLY <2>1, <2>3, OpcacheAssumption
  <2> QED
    BY <2>2, <2>3, <2>4 DEF BoundsOK
<1>5. LocalsOK'
  <2>1. CASE Return(p)
    BY <2>1, ReturnTyped
  <2>2. CASE UNCHANGED local
    BY <2>2 DEF LocalsOK
  <2>3. CASE \E f \in Files : Include(p, f) \/ CallInvalidate(p, f)
    BY <2>3 DEF Include, CallInvalidate, LocalsOK
  <2>4. CASE Find(p) /\ UNCHANGED <<file, stamp, content>>
    <3>1. file[p] \in Files
      BY <2>4 DEF Find, Working, Busy
    <3>2. hash[file[p]] \in 0 .. Capacity
      BY <3>1 DEF SegmentOK
    <3>3. found' = [found EXCEPT ![p] = hash[file[p]]] \/ Return(p)
      BY <2>4 DEF Find
    <3> QED
      BY <2>1, <2>4, <3>2, <3>3 DEF LocalsOK
  <2> QED
    BY <2>1, <2>2, <2>3, <2>4 DEF CallReset, Reset, CheckFlag, Find
<1>6. RequestsOK'
  <2>1. CASE \E f \in Files : Include(p, f)
    BY <2>1 DEF Include, RequestsOK
  <2>2. CASE CheckFlag(p)
    BY <2>2 DEF CheckFlag, RequestsOK
  <2>3. CASE UNCHANGED request
    BY <2>3 DEF RequestsOK
  <2> QED
    BY <2>1, <2>2, <2>3 DEF CallReset, Reset, Find, CallInvalidate
<1>7. Working'
  <2>1. \A q \in Proc \ {p} : /\ pc'[q] = pc[q] /\ file'[q] = file[q]
                              /\ found'[q] = found[q]
    BY DEF LocalsOK, Return, CallReset, Reset, CheckFlag, Find, Include, CallInvalidate,
           Schedule, Unlock
  <2>2. top' = top
    BY DEF CallReset, Reset, CheckFlag, Find, Include, CallInvalidate
  <2>3. CASE UNCHANGED <<pc, file, found>>
    BY <2>2, <2>3 DEF Working
  <2>4. CASE pc'[p] \notin Busy \cup Looked \cup Publishing
    BY <2>1, <2>2, <2>4 DEF Working
  <2>5. CASE pc'[p] \in {"looking", "finding", "flag", "forgetting", "stamping"}
             /\ file'[p] \in Files
             /\ (pc'[p] = "forgetting" => found'[p] \in Blocks)
    BY <2>1, <2>2, <2>5 DEF Working, Busy, Looked, Discarding, Publishing
  <2>6. CASE CallReset(p)
    BY <2>4, <2>6 DEF CallReset, Busy, Looked, Discarding, Publishing
  <2>7. CASE Reset(p)
    <3>1. \E to \in {"scheduling", "running", "stamping"} :
             /\ pc' = [pc EXCEPT ![p] = to]
             /\ to = "stamping" => file[p] # None
      BY <2>7, ScheduleMoves DEF Reset
    <3>2. file'[p] = file[p] /\ (file[p] # None => file[p] \in Files)
      BY <2>7 DEF Reset, LocalsOK
    <3> QED
      BY <2>4, <2>5, <3>1, <3>2 DEF Busy, Looked, Discarding, Publishing
  <2>8. CASE CheckFlag(p)
    <3>1. file[p] \in Files
      BY <2>8 DEF CheckFlag, Working, Busy
    <3>2. pc'[p] = "running" \/ (pc'[p] = "finding" /\ file'[p] = file[p])
      BY <2>8 DEF CheckFlag
    <3> QED
      BY <2>4, <2>5, <3>1, <3>2 DEF Busy, Looked, Discarding, Publishing
  <2>9. CASE Find(p)
    <3>1. file[p] \in Files
      BY <2>9 DEF Find, Working, Busy
    <3>2. \/ pc'[p] = "running"
          \/ /\ Stored(file[p]) /\ pc'[p] = "forgetting" /\ file'[p] = file[p]
             /\ found'[p] = hash[file[p]]
      BY <2>9 DEF Find, LocalsOK
    <3>3. Stored(file[p]) => hash[file[p]] \in Blocks
      BY <3>1 DEF Stored, SegmentOK, Blocks
    <3> QED
      BY <2>4, <2>5, <3>1, <3>2, <3>3 DEF Busy, Looked, Discarding, Publishing
  <2>10. ASSUME NEW f \in Files, Include(p, f) \/ CallInvalidate(p, f)
         PROVE  Working'
    <3>1. \/ UNCHANGED <<pc, file, found>>
          \/ /\ pc'[p] \in {"looking", "finding", "flag"}
             /\ file'[p] = f
      BY <2>10 DEF Include, CallInvalidate, LocalsOK
    <3> QED
      BY <2>3, <2>5, <3>1
  <2> QED
    BY <2>6, <2>7, <2>8, <2>9, <2>10
<1> QED
  BY <1>1, <1>2, <1>3, <1>4, <1>5, <1>6, <1>7

(* Worker q stops: at the end of a request, by dying, or killed by p.       *)
StopStep(q) == RequestEnd(q) \/ Die(q) \/ \E p \in Proc : KillLocker(p, q)

LEMMA StopTyped ==
  ASSUME Typed, NEW q \in Proc, StopStep(q)
  PROVE  Typed'
<1> USE OpcacheAssumption
    DEF Typed, TypeOK, switch, memory, world, StopStep
<1>1. Forget(q) /\ pc' = [pc EXCEPT ![q] = "idle"] /\ UNCHANGED <<switch, memory>>
  BY DEF RequestEnd, Die, KillLocker
<1>2. LocalsOK' /\ RequestsOK' /\ usage' \subseteq Proc
  BY <1>1, ForgetTyped
<1>3. pc' \in [Proc -> Phases] /\ FlagsOK' /\ SegmentOK'
  BY <1>1 DEF Phases, FlagsOK, SegmentOK
<1>4. LocksOK'
  BY <1>2 DEF LocksOK, RequestEnd, Die, KillLocker
<1>5. WorldOK'
  BY DEF WorldOK, RequestEnd, Die, KillLocker
<1>6. BoundsOK'
  BY DEF BoundsOK, RequestEnd, Die, KillLocker
<1>7. Locks'
  <2> USE DEF Holding, Restarting, Discarding, Scheduling, Publishing
  <2>1. CASE RequestEnd(q)
    BY <1>1, <2>1 DEF RequestEnd, Locks
  <2>2. CASE Die(q)
    BY <1>1, <2>2 DEF Die, Locks, LocksOK
  <2>3. ASSUME NEW p \in Proc, KillLocker(p, q)
        PROVE  Locks'
    BY <1>1, <2>3 DEF KillLocker, Others, Locks
  <2> QED
    BY <2>1, <2>2, <2>3
<1>8. Working'
  BY <1>1 DEF Forget, Return, Working, Busy, Looked, Discarding, Publishing, LocalsOK
<1> QED
  BY <1>2, <1>3, <1>4, <1>5, <1>6, <1>7, <1>8

(* Somebody edits a file.                                                   *)
LEMMA EditTyped ==
  ASSUME Typed, NEW f \in Files, Edit(f)
  PROVE  Typed'
<1> USE OpcacheAssumption
    DEF Typed, TypeOK, switch, memory, local, request, Edit
<1>1. WorldOK'
  BY DEF WorldOK, Versions
<1>2. FlagsOK' /\ SegmentOK' /\ LocksOK' /\ LocalsOK'
  BY DEF FlagsOK, SegmentOK, LocksOK, LocalsOK
<1>3. RequestsOK' /\ BoundsOK'
  BY DEF RequestsOK, BoundsOK
<1>4. Locks' /\ Working'
  BY DEF Locks, Working
<1> QED
  BY <1>1, <1>2, <1>3, <1>4

(* Every step is one of these.                                              *)
WorkStep(p) ==
  \/ StartStep(p) \/ CompileStep(p) \/ DiscardStep(p) \/ ScheduleStep(p)
  \/ StoreStep(p) \/ CallStep(p)

LEMMA Steps ==
  ASSUME [Next]_vars
  PROVE  \/ \E p \in Proc : WorkStep(p) \/ StopStep(p)
         \/ \E f \in Files : Edit(f)
         \/ UNCHANGED vars
BY DEF Next, WorkStep, StartStep, CompileStep, DiscardStep, ScheduleStep, StoreStep,
       CallStep, StopStep

LEMMA TypedStutter ==
  ASSUME Typed, UNCHANGED vars
  PROVE  Typed'
<1> USE DEF Typed, TypeOK, vars, switch, memory, local, request, world
<1>1. FlagsOK' /\ SegmentOK' /\ LocksOK' /\ LocalsOK'
  BY DEF FlagsOK, SegmentOK, LocksOK, LocalsOK
<1>2. RequestsOK' /\ WorldOK' /\ BoundsOK'
  BY DEF RequestsOK, WorldOK, BoundsOK
<1>3. Locks' /\ Working'
  BY DEF Locks, Working
<1> QED
  BY <1>1, <1>2, <1>3

LEMMA TypedStep == Typed /\ [Next]_vars => Typed'
BY Steps, TypedStart, TypedCompile, TypedDiscard, TypedSchedule, TypedStore,
   TypedCall, StopTyped, EditTyped, TypedStutter DEF WorkStep

LEMMA AlwaysTyped == Spec => []Typed
BY TypedInit, TypedStep, PTL DEF Spec

(* The segment, the locks and the workers keep their types.                 *)
THEOREM OpcacheTypes == Spec => []TypeOK
<1>1. Typed => TypeOK
  BY DEF Typed
<1> QED
  BY <1>1, AlwaysTyped, PTL

-------------------------------------------------------------------------------
(* The switch and the schedule of restarts.                                 *)

(* Only one worker at a time holds byte 0, and while it is free nobody      *)
(* empties the cache.                                                       *)
LEMMA OneHolder ==
  ASSUME Typed, NEW p \in Proc, NEW q \in Proc,
         pc[p] \in Holding, pc[q] \in Holding
  PROVE  p = q
BY DEF Typed, Locks

LEMMA Holders ==
  Wiping \subseteq Holding /\ Unfinished \subseteq Holding /\ TurningOff \subseteq Holding
BY DEF Holding, Restarting, Unfinished, Wiping, Discarding, Scheduling, Publishing,
       TurningOff

LEMMA FreeIsQuiet ==
  ASSUME Typed, allocLock = None
  PROVE  Quiet
BY OpcacheAssumption DEF Typed, Locks, Holding, Restarting, Wiping, Quiet

LEMMA HolderAlone ==
  ASSUME Typed, NEW p \in Proc, pc[p] \in Holding \/ allocLock = None
  PROVE  /\ \A q \in Proc \ {p} : pc[q] \notin Holding
         /\ pc[p] \notin Wiping => Quiet
<1>1. \A q \in Proc \ {p} : pc[q] \notin Holding
  BY OpcacheAssumption DEF Typed, Locks
<1> QED
  BY <1>1, Holders DEF Quiet

(* A step of p between phases on the same side of a set of phases.          *)
LEMMA PhasesKept ==
  ASSUME Typed, NEW p \in Proc, NEW to, pc' = [pc EXCEPT ![p] = to],
         NEW S, pc[p] \in S <=> to \in S
  PROVE  \A q \in Proc : pc'[q] \in S <=> pc[q] \in S
BY DEF Typed, TypeOK

LEMMA QuietKept ==
  ASSUME Typed, NEW p \in Proc, NEW to, pc' = [pc EXCEPT ![p] = to],
         pc[p] \in Wiping <=> to \in Wiping
  PROVE  Quiet' <=> Quiet
BY PhasesKept DEF Quiet

(* The steps that do not touch the switch.  Some of them find that a restart*)
(* is due, while none is scheduled.                                         *)
RestartStep(p) ==
  \/ BeginRestart(p) \/ EnterRestart(p) \/ CleanHash(p) \/ RestoreState(p)
  \/ LeaveRestart(p)

PlainStep(p) ==
  \/ StartStep(p) /\ ~RestartStep(p)
  \/ CompileStep(p) \/ DiscardStep(p) \/ StoreStep(p) \/ CallStep(p)

LEMMA PlainMoves ==
  ASSUME Typed, NEW p \in Proc, PlainStep(p)
  PROVE  /\ UNCHANGED <<pending, enabled, statusBefore, lost, deaths>>
         /\ \/ pc' = pc
            \/ \E to : /\ pc' = [pc EXCEPT ![p] = to]
                       /\ pc[p] \notin Wiping \cup Scheduling
                       /\ to \notin Wiping \cup (Scheduling \ {"scheduling"})
                       /\ to = "scheduling" => ~pending
<1> USE DEF Wiping, Scheduling, Step
<1>1. CASE StartStep(p) /\ ~RestartStep(p)
  BY <1>1 DEF StartStep, RestartStep, RequestStart, ReadPending, AcquireAlloc,
              SkipRestart, BeginKilling, StopKilling, CopyEnabled, switch, world
<1>2. CASE CompileStep(p)
  BY <1>2 DEF CompileStep, LookUp, Count, Hit, Outdated, Miss, Compile, switch, world
<1>3. CASE DiscardStep(p)
  <2>1. pc[p] \notin Wiping \cup Scheduling
    BY <1>3 DEF DiscardStep, Discard, Invalidate, ClearDate, AddWaste
  <2>2. UNCHANGED <<pending, enabled, statusBefore, lost, deaths>>
    BY <1>3 DEF DiscardStep, Discard, Invalidate, ClearDate, AddWaste, switch, world
  <2>3. \E to \in {"dating", "wasting", "scheduling", "stamping", "running"} :
          /\ pc' = [pc EXCEPT ![p] = to]
          /\ to = "scheduling" => ~pending
    BY <1>3, DiscardMoves
  <2> QED
    BY <2>1, <2>2, <2>3
<1>4. CASE StoreStep(p)
  <2>1. pc[p] \notin Wiping \cup Scheduling
    BY <1>4 DEF StoreStep, UseExisting, NoRoom, Allocate, CopyIn, Publish, Measure
  <2>2. UNCHANGED <<pending, enabled, statusBefore, lost, deaths>>
    BY <1>4 DEF StoreStep, UseExisting, NoRoom, Allocate, CopyIn, Publish, Measure,
                switch, world
  <2>3. \E to \in {"running", "scheduling", "copying in", "linking", "measuring"} :
          /\ pc' = [pc EXCEPT ![p] = to]
          /\ to = "scheduling" => ~pending
    BY <1>4, StoreMoves
  <2> QED
    BY <2>1, <2>2, <2>3
<1>5. CASE CallStep(p)
  <2>1. UNCHANGED <<pending, enabled, statusBefore, lost, deaths>>
    BY <1>5 DEF CallStep, CallReset, Reset, CheckFlag, Find, Include, CallInvalidate,
                switch, world
  <2>2. \/ pc' = pc
        \/ \E to \in {"looking", "resetting", "scheduling", "stamping", "running",
                      "finding", "flag", "forgetting"} :
             /\ pc' = [pc EXCEPT ![p] = to]
             /\ pc[p] \notin Holding
             /\ to = "scheduling" => ~pending
    BY <1>5, CallMoves
  <2> QED
    BY <2>1, <2>2 DEF Holding, Restarting
<1> QED
  BY <1>1, <1>2, <1>3, <1>4, <1>5 DEF PlainStep

(* What is left half done by a worker that stops.                           *)
LEMMA StopLoses ==
  ASSUME Typed, NEW q \in Proc, StopStep(q)
  PROVE  /\ Forget(q) /\ pc' = [pc EXCEPT ![q] = "idle"]
         /\ UNCHANGED <<switch, memory>>
         /\ lost' = lost \cup (Unfinished \cap {pc[q]})
         /\ deaths' = deaths + 1 \/ (deaths' = deaths /\ pc[q] \notin Holding)
<1>1. CASE RequestEnd(q)
  BY <1>1 DEF RequestEnd, world, Unfinished, Wiping, Discarding, Scheduling,
              Publishing, Holding, Restarting
<1>2. CASE Die(q)
  BY <1>2 DEF Die
<1>3. ASSUME NEW p \in Proc, KillLocker(p, q)
      PROVE  /\ Forget(q) /\ pc' = [pc EXCEPT ![q] = "idle"]
             /\ UNCHANGED <<switch, memory>>
             /\ lost' = lost \cup (Unfinished \cap {pc[q]})
             /\ deaths' = deaths /\ pc[q] \notin Holding
  <2>1. pc[q] \notin Holding
    BY <1>3, HolderAlone DEF KillLocker, Others, Holding
  <2> QED
    BY <1>3, <2>1, Holders DEF KillLocker, world
<1> QED
  BY <1>1, <1>2, <1>3 DEF StopStep

LEMMA WholeStop ==
  ASSUME NEW S, S \subseteq Unfinished, NEW q \in Proc,
         lost' = lost \cup (Unfinished \cap {pc[q]}), Whole(S)'
  PROVE  Whole(S) /\ pc[q] \notin S
BY DEF Whole

LEMMA Changes ==
  /\ Wiping \cup TurningOff \subseteq Unfinished
  /\ Wiping \cup {"scheduling"} \subseteq Unfinished
  /\ Wiping \cup {"linking"} \subseteq Unfinished
  /\ Discarding \cup Publishing \subseteq Unfinished
BY DEF Unfinished, Wiping, TurningOff, Scheduling, Discarding, Publishing

(* A restart is scheduled while nobody empties the cache; what it takes over*)
(* is the switch, which is on.  The worker that empties the cache hands this*)
(* on.                                                                      *)
SwitchInv ==
  /\ SwitchFollowsRestart
  /\ Whole(Wiping \cup TurningOff) /\ (pending \/ ~Quiet) =>
       statusBefore \/ \E p \in Proc : pc[p] = "remembering"
  /\ ~Quiet => ~pending
  /\ \A p \in Proc : /\ pc[p] = "scheduling" => ~pending
                     /\ pc[p] \in TurningOff \cup {"arming"} => pending

LEMMA SwitchSame ==
  ASSUME SwitchInv, UNCHANGED <<pending, enabled, statusBefore>>,
         Whole(Wiping \cup TurningOff)' => Whole(Wiping \cup TurningOff),
         Quiet' <=> Quiet,
         \A q \in Proc : /\ pc'[q] = "remembering" <=> pc[q] = "remembering"
                         /\ pc'[q] \in TurningOff <=> pc[q] \in TurningOff
                         /\ pc'[q] = "arming" => pc[q] = "arming"
                         /\ pc'[q] = "scheduling" => pc[q] = "scheduling" \/ ~pending
  PROVE  SwitchInv'
<1>1. (\E q \in Proc : pc'[q] \in TurningOff) <=> (\E q \in Proc : pc[q] \in TurningOff)
  OBVIOUS
<1>2. (\E q \in Proc : pc'[q] = "remembering") <=> (\E q \in Proc : pc[q] = "remembering")
  OBVIOUS
<1>3. SwitchFollowsRestart'
  BY <1>1 DEF SwitchInv, SwitchFollowsRestart
<1>4. (\A q \in Proc : /\ pc[q] = "scheduling" => ~pending
                       /\ pc[q] \in TurningOff \cup {"arming"} => pending)'
  BY DEF SwitchInv
<1> QED
  BY <1>2, <1>3, <1>4 DEF SwitchInv

LEMMA SwitchPlain ==
  ASSUME Typed, SwitchInv, NEW p \in Proc, PlainStep(p)
  PROVE  SwitchInv'
<1>1. UNCHANGED <<pending, enabled, statusBefore, lost>>
  BY PlainMoves
<1>2. Whole(Wiping \cup TurningOff)' <=> Whole(Wiping \cup TurningOff)
  BY <1>1 DEF Whole
<1>3. CASE pc' = pc
  BY <1>1, <1>2, <1>3, SwitchSame DEF Quiet
<1>4. ASSUME NEW to, pc' = [pc EXCEPT ![p] = to],
             pc[p] \notin Wiping \cup Scheduling,
             to \notin Wiping \cup (Scheduling \ {"scheduling"}),
             to = "scheduling" => ~pending
      PROVE  SwitchInv'
  <2>1. Quiet' <=> Quiet
    BY <1>4, QuietKept
  <2>2. \A q \in Proc : /\ pc'[q] = "remembering" <=> pc[q] = "remembering"
                        /\ pc'[q] \in TurningOff <=> pc[q] \in TurningOff
                        /\ pc'[q] = "arming" => pc[q] = "arming"
                        /\ pc'[q] = "scheduling" => pc[q] = "scheduling" \/ ~pending
    BY <1>4 DEF Typed, TypeOK, Scheduling, TurningOff
  <2> QED
    BY <1>1, <1>2, <2>1, <2>2, SwitchSame
<1> QED
  BY <1>3, <1>4, PlainMoves

LEMMA SwitchSchedule ==
  ASSUME Typed, SwitchInv, NEW p \in Proc, ScheduleStep(p)
  PROVE  SwitchInv'
<1>0. pc \in [Proc -> Phases] /\ FlagsOK
  BY DEF Typed, TypeOK
<1>1. pc[p] \in Scheduling /\ pc[p] \in Holding /\ pc[p] \notin Wiping /\ lost' = lost
  BY ScheduleStepMoves DEF Holding, Scheduling, Wiping, world
<1>2. \A q \in Proc \ {p} : pc'[q] = pc[q] /\ pc[q] \notin Holding
  BY <1>0, <1>1, HolderAlone, ScheduleStepMoves
<1>3. pc'[p] \notin Wiping
  BY <1>0, ScheduleStepMoves DEF Wiping
<1>4. Quiet /\ Quiet'
  BY <1>1, <1>2, <1>3, Holders DEF Quiet
<1>5. Whole(Wiping \cup TurningOff)' <=> Whole(Wiping \cup TurningOff)
  BY <1>1 DEF Whole
<1>6. \A q \in Proc \ {p} : pc[q] \notin Scheduling
  BY <1>2 DEF Holding
<1> USE DEF Scheduling, TurningOff
<1>7. CASE SetPending(p)
  <2>1. pc[p] = "scheduling" /\ pc'[p] = "remembering" /\ pending'
        /\ UNCHANGED <<enabled, statusBefore>>
    BY <1>0, <1>7 DEF SetPending, Step
  <2>2. ~pending /\ \A q \in Proc : pc[q] \notin TurningOff
    BY <1>6, <2>1 DEF SwitchInv
  <2>3. Whole(Wiping \cup TurningOff) => enabled
    BY <1>4, <2>2 DEF SwitchInv, SwitchFollowsRestart
  <2>4. SwitchFollowsRestart'
    BY <1>5, <2>1, <2>3 DEF SwitchFollowsRestart
  <2>5. (\A q \in Proc : /\ pc[q] = "scheduling" => ~pending
                         /\ pc[q] \in TurningOff \cup {"arming"} => pending)'
    BY <1>2, <1>6, <2>1
  <2> QED
    BY <1>4, <2>1, <2>4, <2>5 DEF SwitchInv
<1>8. CASE RememberStatus(p)
  <2>1. pc[p] = "remembering" /\ pc'[p] = "switching" /\ statusBefore' = enabled
        /\ UNCHANGED <<enabled, pending>>
    BY <1>0, <1>8 DEF RememberStatus, Step
  <2>2. pending
    BY <2>1 DEF SwitchInv
  <2>3. Whole(Wiping \cup TurningOff) => enabled
    BY <2>1 DEF SwitchInv, SwitchFollowsRestart
  <2>4. SwitchFollowsRestart'
    BY <1>5, <2>1, <2>3 DEF SwitchFollowsRestart
  <2>5. (\A q \in Proc : /\ pc[q] = "scheduling" => ~pending
                         /\ pc[q] \in TurningOff \cup {"arming"} => pending)'
    BY <1>2, <1>6, <2>1, <2>2
  <2> QED
    BY <1>4, <1>5, <2>1, <2>3, <2>4, <2>5 DEF SwitchInv
<1>9. CASE SwitchOff(p)
  <2>1. pc[p] = "switching" /\ pc'[p] = "arming" /\ ~enabled'
        /\ UNCHANGED <<statusBefore, pending>>
    BY <1>0, <1>9 DEF SwitchOff, Step
  <2>2. pending
    BY <2>1 DEF SwitchInv
  <2>3. Whole(Wiping \cup TurningOff) => statusBefore
    BY <1>6, <2>1, <2>2 DEF SwitchInv
  <2>4. \A q \in Proc : pc'[q] \notin TurningOff
    BY <1>2, <1>6, <2>1
  <2>5. SwitchFollowsRestart'
    BY <2>1, <2>2, <2>4 DEF SwitchFollowsRestart
  <2>6. (\A q \in Proc : /\ pc[q] = "scheduling" => ~pending
                         /\ pc[q] \in TurningOff \cup {"arming"} => pending)'
    BY <1>2, <1>6, <2>1, <2>2
  <2> QED
    BY <1>4, <1>5, <2>1, <2>3, <2>5, <2>6 DEF SwitchInv
<1>10. CASE SetForceTime(p)
  <2>1. pc[p] = "arming" /\ UNCHANGED <<enabled, statusBefore, pending>>
    BY <1>10 DEF SetForceTime
  <2>2. pc'[p] \in {"running", "stamping"}
    BY <1>0, <1>10 DEF SetForceTime, Unlock
  <2>3. \A q \in Proc : /\ pc'[q] = "remembering" <=> pc[q] = "remembering"
                        /\ pc'[q] \in TurningOff <=> pc[q] \in TurningOff
                        /\ pc'[q] = "arming" => pc[q] = "arming"
                        /\ pc'[q] = "scheduling" => pc[q] = "scheduling" \/ ~pending
    BY <1>2, <2>1, <2>2
  <2> QED
    BY <1>4, <1>5, <2>1, <2>3, SwitchSame
<1> QED
  BY <1>7, <1>8, <1>9, <1>10 DEF ScheduleStep

LEMMA SwitchRestart ==
  ASSUME Typed, SwitchInv, NEW p \in Proc, RestartStep(p)
  PROVE  SwitchInv'
<1>0. pc \in [Proc -> Phases]
  BY DEF Typed, TypeOK
<1>1. pc[p] \in Restarting /\ lost' = lost /\ pc'[p] \in Wiping \cup {"leaving", "copying"}
  BY <1>0 DEF RestartStep, BeginRestart, EnterRestart, CleanHash, RestoreState,
              LeaveRestart, Step, Restarting, Wiping, world
<1>2. \A q \in Proc \ {p} : pc'[q] = pc[q] /\ pc[q] \notin Holding
  BY <1>0, <1>1, HolderAlone
     DEF RestartStep, BeginRestart, EnterRestart, CleanHash, RestoreState,
         LeaveRestart, Step, Holding
<1>3. \A q \in Proc : pc'[q] \notin Scheduling /\ pc[q] \notin Scheduling
  BY <1>1, <1>2 DEF Holding, Restarting, Scheduling, Wiping
<1>4. Whole(Wiping \cup TurningOff)' <=> Whole(Wiping \cup TurningOff)
  BY <1>1 DEF Whole
<1>5. \A q \in Proc : /\ pc'[q] \notin TurningOff \cup {"arming", "scheduling", "remembering"}
                      /\ pc[q] \notin TurningOff \cup {"arming", "scheduling", "remembering"}
  BY <1>3 DEF TurningOff, Scheduling
<1>6. CASE BeginRestart(p)
  <2>1. ~Quiet'
    BY <1>0, <1>6 DEF BeginRestart, Step, Quiet, Wiping
  <2>2. pending /\ ~pending' /\ UNCHANGED <<enabled, statusBefore>>
    BY <1>6 DEF BeginRestart
  <2> QED
    BY <1>4, <1>5, <2>1, <2>2 DEF SwitchInv, SwitchFollowsRestart
<1>7. CASE EnterRestart(p) \/ CleanHash(p)
  <2>1. ~Quiet /\ ~Quiet'
    BY <1>0, <1>7 DEF EnterRestart, CleanHash, Step, Quiet, Wiping
  <2>2. ~pending /\ ~pending' /\ UNCHANGED <<enabled, statusBefore>>
    BY <1>7, <2>1 DEF EnterRestart, CleanHash, SwitchInv
  <2> QED
    BY <1>4, <1>5, <2>1, <2>2 DEF SwitchInv, SwitchFollowsRestart
<1>8. CASE RestoreState(p)
  <2>1. ~Quiet
    BY <1>8 DEF RestoreState, Step, Quiet, Wiping
  <2>2. pc'[p] = "leaving"
    BY <1>0, <1>8 DEF RestoreState, Step
  <2>3. Quiet'
    BY <1>2, <2>2, Holders DEF Quiet, Wiping
  <2>4. enabled' = statusBefore /\ UNCHANGED <<pending, statusBefore>>
    BY <1>8 DEF RestoreState
  <2> QED
    BY <1>4, <1>5, <2>1, <2>3, <2>4 DEF SwitchInv, SwitchFollowsRestart
<1>9. CASE LeaveRestart(p)
  <2>1. Quiet' <=> Quiet
    BY <1>9, QuietKept DEF LeaveRestart, Step, Wiping
  <2> QED
    BY <1>4, <1>5, <1>9, <2>1, SwitchSame DEF LeaveRestart
<1> QED
  BY <1>6, <1>7, <1>8, <1>9 DEF RestartStep

LEMMA SwitchStop ==
  ASSUME Typed, SwitchInv, NEW q \in Proc, StopStep(q)
  PROVE  SwitchInv'
<1>0. pc \in [Proc -> Phases]
  BY DEF Typed, TypeOK
<1>1. /\ pc'[q] = "idle" /\ \A r \in Proc \ {q} : pc'[r] = pc[r]
      /\ UNCHANGED <<pending, enabled, statusBefore>>
  BY <1>0, StopLoses DEF switch
<1>2. "idle" \notin Wiping \cup TurningOff \cup {"remembering", "arming", "scheduling"}
  BY DEF Wiping, TurningOff
<1>3. CASE pc[q] \in Wiping \cup TurningOff
  <2>1. ~Whole(Wiping \cup TurningOff)'
    BY <1>3, StopLoses, WholeStop, Changes
  <2>2. Quiet => Quiet'
    BY <1>1, <1>2 DEF Quiet
  <2>3. SwitchFollowsRestart'
    BY <2>1 DEF SwitchFollowsRestart
  <2> QED
    BY <1>1, <1>2, <2>1, <2>2, <2>3 DEF SwitchInv
<1>4. CASE pc[q] \notin Wiping \cup TurningOff
  <2>1. Whole(Wiping \cup TurningOff)' => Whole(Wiping \cup TurningOff)
    BY StopLoses, WholeStop, Changes
  <2>2. Quiet' <=> Quiet
    BY <1>1, <1>2, <1>4 DEF Quiet
  <2>3. \A r \in Proc : /\ pc'[r] = "remembering" <=> pc[r] = "remembering"
                        /\ pc'[r] \in TurningOff <=> pc[r] \in TurningOff
                        /\ pc'[r] = "arming" => pc[r] = "arming"
                        /\ pc'[r] = "scheduling" => pc[r] = "scheduling" \/ ~pending
    BY <1>1, <1>2, <1>4 DEF TurningOff
  <2> QED
    BY <1>1, <2>1, <2>2, <2>3, SwitchSame
<1> QED
  BY <1>3, <1>4

LEMMA SwitchStep == Typed /\ SwitchInv /\ [Next]_vars => SwitchInv'
<1> SUFFICES ASSUME Typed, SwitchInv, [Next]_vars
             PROVE  SwitchInv'
  OBVIOUS
<1>1. ASSUME NEW f \in Files, Edit(f)
      PROVE  SwitchInv'
  BY <1>1, SwitchSame DEF Edit, switch, Quiet, Whole
<1>2. CASE UNCHANGED vars
  BY <1>2, SwitchSame DEF vars, switch, world, Quiet, Whole
<1>3. ASSUME NEW p \in Proc, WorkStep(p)
      PROVE  PlainStep(p) \/ RestartStep(p) \/ ScheduleStep(p)
  BY <1>3 DEF WorkStep, PlainStep
<1> QED
  BY <1>1, <1>2, <1>3, Steps, SwitchPlain, SwitchRestart, SwitchSchedule, SwitchStop

LEMMA SwitchInit == Init => SwitchInv
BY DEF Init, SwitchInv, SwitchFollowsRestart, Quiet, Wiping, TurningOff

LEMMA SwitchAlways == Spec => [](Typed /\ SwitchInv)
BY SwitchInit, SwitchStep, AlwaysTyped, PTL DEF Spec

(* Until a worker dies while it schedules or carries out a restart, the     *)
(* cache is off exactly while one is scheduled or under way, but for the    *)
(* moment in which it is being switched off, whoever else dies or is killed.*)
THEOREM SwitchCorrect == Spec => []SwitchFollowsRestart
<1>1. SwitchInv => SwitchFollowsRestart
  BY DEF SwitchInv
<1> QED
  BY <1>1, SwitchAlways, PTL

-------------------------------------------------------------------------------
(* A cache that is out of memory.                                           *)

LEMMA ExhaustedSame ==
  ASSUME ExhaustedIsScheduled, UNCHANGED <<exhausted, wasted, pending>>,
         Whole(Wiping \cup {"scheduling"})' => Whole(Wiping \cup {"scheduling"}),
         Quiet' => Quiet,
         \A q \in Proc : pc[q] = "scheduling" => pc'[q] = "scheduling"
  PROVE  ExhaustedIsScheduled'
BY DEF ExhaustedIsScheduled

LEMMA ExhaustedPlain ==
  ASSUME Typed, ExhaustedIsScheduled, NEW p \in Proc, PlainStep(p)
  PROVE  ExhaustedIsScheduled'
<1>0. pc \in [Proc -> Phases]
  BY DEF Typed, TypeOK
<1>1. CASE AddWaste(p)
  <2>1. PICK to \in {"scheduling", "running", "stamping"} :
          /\ pc' = [pc EXCEPT ![p] = to]
          /\ to = "scheduling" <=> (exhausted /\ wasted' >= WasteLimit) /\ ~pending
    BY <1>1, ScheduleMoves DEF AddWaste
  <2>2. exhausted' = exhausted /\ pending' = pending
    BY <1>1 DEF AddWaste, switch
  <2>3. exhausted' /\ wasted' >= WasteLimit => pending' \/ pc'[p] = "scheduling"
    BY <1>0, <2>1, <2>2
  <2> QED
    BY <2>3 DEF ExhaustedIsScheduled
<1>2. CASE NoRoom(p)
  <2>1. wasted' = wasted /\ pending' = pending
    BY <1>2 DEF NoRoom, switch
  <2>2. wasted >= WasteLimit => pending \/ pc'[p] = "scheduling"
    BY <1>0, <1>2 DEF NoRoom
  <2> QED
    BY <2>1, <2>2 DEF ExhaustedIsScheduled
<1>3. CASE ~AddWaste(p) /\ ~NoRoom(p)
  <2>1. UNCHANGED <<exhausted, wasted>>
    BY <1>3 DEF PlainStep, StartStep, RestartStep, RequestStart, ReadPending,
         AcquireAlloc, SkipRestart, BeginKilling, StopKilling, CopyEnabled,
         CompileStep, LookUp, Count, Hit, Outdated, Miss, Compile,
         DiscardStep, Discard, Invalidate, ClearDate,
         StoreStep, UseExisting, Allocate, CopyIn, Publish, Measure,
         CallStep, CallReset, Reset, CheckFlag, Find, Include, CallInvalidate, memory
  <2>2. UNCHANGED <<pending, lost>>
    BY PlainMoves
  <2>3. (Quiet' <=> Quiet) /\ \A q \in Proc : pc[q] = "scheduling" => pc'[q] = "scheduling"
    <3>1. CASE pc' = pc
      BY <3>1 DEF Quiet
    <3>2. ASSUME NEW to, pc' = [pc EXCEPT ![p] = to],
                 pc[p] \notin Wiping \cup Scheduling,
                 to \notin Wiping
          PROVE  (Quiet' <=> Quiet)
                 /\ \A q \in Proc : pc[q] = "scheduling" => pc'[q] = "scheduling"
      BY <1>0, <3>2, QuietKept DEF Scheduling
    <3> QED
      BY <3>1, <3>2, PlainMoves
  <2> QED
    BY <2>1, <2>2, <2>3, ExhaustedSame DEF Whole
<1> QED
  BY <1>1, <1>2, <1>3

LEMMA ExhaustedStep ==
  Typed /\ ExhaustedIsScheduled /\ [Next]_vars => ExhaustedIsScheduled'
<1> SUFFICES ASSUME Typed, ExhaustedIsScheduled, [Next]_vars
             PROVE  ExhaustedIsScheduled'
  OBVIOUS
<1>0. pc \in [Proc -> Phases]
  BY DEF Typed, TypeOK
<1>1. ASSUME NEW p \in Proc, RestartStep(p)
      PROVE  ExhaustedIsScheduled'
  <2>1. CASE RestoreState(p)
    BY <2>1 DEF RestoreState, ExhaustedIsScheduled
  <2>2. CASE LeaveRestart(p)
    <3>1. Quiet' <=> Quiet
      BY <2>2, QuietKept DEF LeaveRestart, Step, Wiping
    <3> QED
      BY <1>0, <2>2, <3>1, ExhaustedSame DEF LeaveRestart, Step, world, memory, Whole
  <2>3. CASE BeginRestart(p) \/ EnterRestart(p) \/ CleanHash(p)
    <3>1. ~Quiet'
      BY <1>0, <2>3 DEF BeginRestart, EnterRestart, CleanHash, Step, Quiet, Wiping
    <3> QED
      BY <3>1 DEF ExhaustedIsScheduled
  <2> QED
    BY <1>1, <2>1, <2>2, <2>3 DEF RestartStep
<1>2. ASSUME NEW p \in Proc, ScheduleStep(p)
      PROVE  ExhaustedIsScheduled'
  <2>1. CASE SetPending(p)
    BY <2>1 DEF SetPending, ExhaustedIsScheduled
  <2>2. CASE ~SetPending(p)
    <3>1. pc[p] # "scheduling" /\ pending' = pending
      BY <1>2, <2>2 DEF ScheduleStep, RememberStatus, SwitchOff, SetForceTime, Step
    <3>2. UNCHANGED <<exhausted, wasted, lost>>
      BY <1>2, ScheduleStepMoves DEF memory, world
    <3>3. \A q \in Proc : pc[q] = "scheduling" => pc'[q] = "scheduling"
      BY <1>0, <1>2, <3>1, ScheduleStepMoves
    <3>4. Quiet' <=> Quiet
      BY <1>2, ScheduleStepMoves, QuietKept DEF Scheduling, Wiping
    <3> QED
      BY <3>1, <3>2, <3>3, <3>4, ExhaustedSame DEF Whole
  <2> QED
    BY <2>1, <2>2
<1>3. ASSUME NEW q \in Proc, StopStep(q)
      PROVE  ExhaustedIsScheduled'
  <2>1. CASE pc[q] \in Wiping \cup {"scheduling"}
    BY <1>3, <2>1, StopLoses, WholeStop, Changes DEF ExhaustedIsScheduled
  <2>2. CASE pc[q] \notin Wiping \cup {"scheduling"}
    <3>1. Whole(Wiping \cup {"scheduling"})' => Whole(Wiping \cup {"scheduling"})
      BY <1>3, StopLoses, WholeStop, Changes
    <3>2. Quiet' <=> Quiet
      BY <1>3, <2>2, StopLoses, QuietKept DEF Wiping
    <3>3. \A r \in Proc : pc[r] = "scheduling" => pc'[r] = "scheduling"
      BY <1>0, <1>3, <2>2, StopLoses
    <3> QED
      BY <1>3, <3>1, <3>2, <3>3, StopLoses, ExhaustedSame DEF switch, memory
  <2> QED
    BY <2>1, <2>2
<1>4. ASSUME NEW f \in Files, Edit(f)
      PROVE  ExhaustedIsScheduled'
  BY <1>4, ExhaustedSame DEF Edit, switch, memory, Quiet, Whole
<1>5. CASE UNCHANGED vars
  BY <1>5, ExhaustedSame DEF vars, switch, memory, world, Quiet, Whole
<1>6. ASSUME NEW p \in Proc, WorkStep(p)
      PROVE  PlainStep(p) \/ RestartStep(p) \/ ScheduleStep(p)
  BY <1>6 DEF WorkStep, PlainStep
<1> QED
  BY <1>1, <1>2, <1>3, <1>4, <1>5, <1>6, Steps, ExhaustedPlain

(* Once memory is used up and enough of it is wasted, a restart is scheduled*)
(* or about to be, as long as no worker has died just before it scheduled   *)
(* one, or while it emptied the cache.                                      *)
THEOREM ExhaustedCorrect == Spec => []ExhaustedIsScheduled
<1>1. Init => ExhaustedIsScheduled
  BY DEF Init, ExhaustedIsScheduled
<1> QED
  BY <1>1, ExhaustedStep, AlwaysTyped, PTL DEF Spec

-------------------------------------------------------------------------------
(* Timestamps.                                                              *)

(* What has been stored, or is about to be, is not from before its          *)
(* timestamp, and versions only grow.                                       *)
Dated(f, s, c) ==
  /\ s <= disk[f] /\ c <= disk[f]
  /\ s = disk[f] => c = disk[f]

Compiled == {"storing", "copying in"}

DatesInv ==
  /\ \A f \in Files : disk[f] > 0
  /\ \A b \in Blocks : \A f \in Files :
       mem[b].file = f => Dated(f, mem[b].stamp, mem[b].content)
  /\ \A p \in Proc : pc[p] = "compiling" => stamp[p] <= disk[file[p]]
  /\ \A p \in Proc : pc[p] \in Compiled => Dated(file[p], stamp[p], content[p])

LEMMA DatesTypes ==
  ASSUME Typed
  PROVE  /\ pc \in [Proc -> Phases] /\ disk \in [Files -> Nat]
         /\ stamp \in [Proc -> Nat] /\ content \in [Proc -> Nat]
         /\ file \in [Proc -> Files \cup {None}]
         /\ mem \in [Blocks -> Script]
         /\ \A b \in Blocks : mem[b].stamp \in Nat /\ mem[b].content \in Nat
<1>1. Versions \subseteq Nat
  BY OpcacheAssumption DEF Versions
<1> QED
  BY <1>1 DEF Typed, TypeOK, WorldOK, LocalsOK, SegmentOK, Script

(* A step of p that stores nothing and after which p has nothing to store,  *)
(* or what it had; blocks may lose their timestamps or be zeroed.           *)
LEMMA DatesMove ==
  ASSUME Typed, DatesInv, NEW p \in Proc, disk' = disk,
         \A q \in Proc \ {p} : /\ pc'[q] = pc[q] /\ stamp'[q] = stamp[q]
                               /\ file'[q] = file[q] /\ content'[q] = content[q],
         \/ pc'[p] \notin Compiled \cup {"compiling"}
         \/ /\ pc[p] \in Compiled /\ pc'[p] \in Compiled
            /\ stamp'[p] = stamp[p] /\ file'[p] = file[p] /\ content'[p] = content[p],
         \A b \in Blocks :
           \/ mem'[b].file = None
           \/ /\ mem'[b].file = mem[b].file /\ mem'[b].content = mem[b].content
              /\ mem'[b].stamp \in {0, mem[b].stamp}
  PROVE  DatesInv'
<1>1. \A f \in Files : disk[f] > 0 /\ disk[f] \in Nat
  BY DatesTypes DEF DatesInv
<1>2. ASSUME NEW b \in Blocks, NEW f \in Files, mem'[b].file = f
      PROVE  Dated(f, mem[b].stamp, mem[b].content)'
  <2>1. mem[b].file = f /\ mem'[b].content = mem[b].content
        /\ mem'[b].stamp \in {0, mem[b].stamp}
    BY <1>2, OpcacheAssumption
  <2>2. Dated(f, mem[b].stamp, mem[b].content)
    BY <2>1 DEF DatesInv
  <2>3. mem[b].stamp \in Nat /\ mem[b].content \in Nat
    BY DatesTypes
  <2> QED
    BY <1>1, <2>1, <2>2, <2>3 DEF Dated
<1>3. \A q \in Proc : pc'[q] = "compiling" => stamp'[q] <= disk'[file'[q]]
  BY DEF DatesInv, Compiled
<1>4. \A q \in Proc : pc'[q] \in Compiled => Dated(file[q], stamp[q], content[q])'
  BY DEF DatesInv, Dated
<1> QED
  BY <1>1, <1>2, <1>3, <1>4 DEF DatesInv

(* Nothing that dates depend on changes.                                    *)
LEMMA DatesIdle ==
  ASSUME Typed, DatesInv, NEW p \in Proc, disk' = disk, mem' = mem,
         \/ pc' = pc /\ UNCHANGED local
         \/ /\ \A q \in Proc \ {p} : /\ pc'[q] = pc[q] /\ stamp'[q] = stamp[q]
                                     /\ file'[q] = file[q] /\ content'[q] = content[q]
            /\ pc'[p] \notin Compiled \cup {"compiling"}
  PROVE  DatesInv'
<1>1. CASE pc' = pc /\ UNCHANGED local
  BY <1>1 DEF DatesInv, Dated, local
<1>2. CASE /\ \A q \in Proc \ {p} : /\ pc'[q] = pc[q] /\ stamp'[q] = stamp[q]
                                    /\ file'[q] = file[q] /\ content'[q] = content[q]
           /\ pc'[p] \notin Compiled \cup {"compiling"}
  BY <1>2, DatesMove
<1> QED
  BY <1>1, <1>2

LEMMA DatesCompile ==
  ASSUME Typed, DatesInv, NEW p \in Proc, CompileStep(p)
  PROVE  DatesInv'
<1> USE DEF Compiled
<1>0. /\ pc \in [Proc -> Phases] /\ disk \in [Files -> Nat]
      /\ stamp \in [Proc -> Nat] /\ content \in [Proc -> Nat]
      /\ file \in [Proc -> Files \cup {None}]
  BY DatesTypes
<1>1. UNCHANGED <<mem, disk>>
  BY DEF CompileStep, memory, world, LookUp, Count, Hit, Outdated, Miss, Compile
<1>2. \A q \in Proc \ {p} : /\ pc'[q] = pc[q] /\ stamp'[q] = stamp[q]
                            /\ file'[q] = file[q] /\ content'[q] = content[q]
  BY <1>0 DEF CompileStep, local, Return, Step, LookUp, Count, Hit, Outdated, Miss,
              Compile
<1>3. CASE LookUp(p) \/ Count(p) \/ Hit(p) \/ Outdated(p)
  <2>1. pc'[p] \notin Compiled \cup {"compiling"}
    BY <1>0, <1>3 DEF Step, LookUp, Count, Hit, Outdated
  <2> QED
    BY <1>1, <1>2, <2>1, DatesIdle
<1>4. CASE Miss(p)
  <2>1. CASE exhausted \/ pending
    <3>1. pc'[p] \notin Compiled \cup {"compiling"}
      BY <1>0, <1>4, <2>1 DEF Miss, Step
    <3> QED
      BY <1>1, <1>2, <3>1, DatesIdle
  <2>2. CASE ~(exhausted \/ pending)
    <3>1. /\ pc'[p] = "compiling" /\ stamp'[p] = disk[file[p]]
          /\ file'[p] = file[p] /\ file[p] \in Files
      BY <1>0, <1>4, <2>2 DEF Miss, Step, Typed, Working, Busy
    <3>2. \A q \in Proc : pc'[q] = "compiling" => stamp'[q] <= disk'[file'[q]]
      <4>1. disk[file[p]] \in Nat /\ disk' = disk
        BY <1>0, <1>1, <3>1
      <4>2. stamp'[p] <= disk'[file'[p]]
        BY <3>1, <4>1
      <4> QED
        BY <1>2, <4>1, <4>2 DEF DatesInv
    <3>3. \A q \in Proc : pc'[q] \in Compiled => Dated(file[q], stamp[q], content[q])'
      BY <1>1, <1>2, <3>1 DEF DatesInv, Dated
    <3> QED
      BY <1>1, <3>2, <3>3 DEF DatesInv, Dated
  <2> QED
    BY <2>1, <2>2
<1>5. CASE Compile(p)
  <2>1. /\ pc[p] = "compiling" /\ pc'[p] = "storing"
        /\ content'[p] = disk[file[p]]
        /\ stamp'[p] = stamp[p] /\ file'[p] = file[p] /\ file[p] \in Files
    BY <1>0, <1>5 DEF Compile, Step, Typed, Working, Busy
  <2>2. stamp[p] <= disk[file[p]] /\ disk[file[p]] \in Nat
    BY <1>0, <2>1 DEF DatesInv
  <2>3. Dated(file[p], stamp[p], content[p])'
    BY <1>1, <2>1, <2>2 DEF Dated
  <2>4. \A q \in Proc : pc'[q] \in Compiled => Dated(file[q], stamp[q], content[q])'
    BY <1>1, <1>2, <2>3 DEF DatesInv, Dated
  <2>5. \A q \in Proc : pc'[q] = "compiling" => stamp'[q] <= disk'[file'[q]]
    BY <1>1, <1>2, <2>1 DEF DatesInv
  <2> QED
    BY <1>1, <2>4, <2>5 DEF DatesInv, Dated
<1> QED
  BY <1>3, <1>4, <1>5 DEF CompileStep

LEMMA DatesStore ==
  ASSUME Typed, DatesInv, NEW p \in Proc, StoreStep(p)
  PROVE  DatesInv'
<1> USE DEF Compiled
<1>0. /\ pc \in [Proc -> Phases] /\ disk \in [Files -> Nat]
      /\ stamp \in [Proc -> Nat] /\ content \in [Proc -> Nat]
      /\ file \in [Proc -> Files \cup {None}] /\ mem \in [Blocks -> Script]
  BY DatesTypes
<1>1. disk' = disk
  BY DEF StoreStep, world, UseExisting, NoRoom, Allocate, CopyIn, Publish, Measure
<1>2. \A q \in Proc \ {p} : /\ pc'[q] = pc[q] /\ stamp'[q] = stamp[q]
                            /\ file'[q] = file[q] /\ content'[q] = content[q]
  BY <1>0 DEF StoreStep, local, Return, Step, UseExisting, NoRoom, Allocate, CopyIn,
              Publish, Measure
<1>3. CASE UseExisting(p) \/ NoRoom(p) \/ Publish(p)
  <2>1. pc'[p] \notin Compiled \cup {"compiling"} /\ mem' = mem
    BY <1>0, <1>3 DEF Step, UseExisting, NoRoom, Publish, memory
  <2> QED
    BY <1>1, <1>2, <2>1, DatesIdle
<1>4. CASE Allocate(p)
  <2>1. \A b \in Blocks : mem'[b] = mem[b] \/ mem'[b].file = None
    BY <1>0, <1>4 DEF Allocate, Zeroed
  <2>2. /\ pc[p] \in Compiled /\ pc'[p] \in Compiled
        /\ stamp'[p] = stamp[p] /\ file'[p] = file[p] /\ content'[p] = content[p]
    BY <1>0, <1>4 DEF Allocate, Step, local
  <2> QED
    BY <1>1, <1>2, <2>1, <2>2, DatesMove
<1>5. CASE Measure(p)
  <2>1. \A b \in Blocks : /\ mem'[b].file = mem[b].file
                          /\ mem'[b].content = mem[b].content
                          /\ mem'[b].stamp = mem[b].stamp
    BY <1>0, <1>5 DEF Measure, Script
  <2>2. pc'[p] \notin Compiled \cup {"compiling"}
    BY <1>0, <1>5 DEF Measure, Step
  <2> QED
    BY <1>1, <1>2, <2>1, <2>2, DatesMove
<1>6. CASE CopyIn(p)
  <2>1. Dated(file[p], stamp[p], content[p])
    BY <1>6 DEF CopyIn, Step, DatesInv
  <2>2. \A b \in Blocks :
          \/ mem'[b] = mem[b]
          \/ /\ mem'[b].file = file[p] /\ mem'[b].stamp = stamp[p]
             /\ mem'[b].content = content[p]
    BY <1>0, <1>6 DEF CopyIn
  <2>3. \A b \in Blocks : \A f \in Files :
          mem'[b].file = f => Dated(f, mem[b].stamp, mem[b].content)'
    BY <1>1, <2>1, <2>2 DEF DatesInv, Dated
  <2>4. pc'[p] \notin Compiled \cup {"compiling"}
    BY <1>0, <1>6 DEF CopyIn, Step
  <2> QED
    BY <1>1, <1>2, <2>3, <2>4 DEF DatesInv, Dated
<1> QED
  BY <1>3, <1>4, <1>5, <1>6 DEF StoreStep

LEMMA DatesStep == Typed /\ DatesInv /\ [Next]_vars => DatesInv'
<1> SUFFICES ASSUME Typed, DatesInv, [Next]_vars
             PROVE  DatesInv'
  OBVIOUS
<1>0. /\ pc \in [Proc -> Phases] /\ disk \in [Files -> Nat]
      /\ stamp \in [Proc -> Nat] /\ content \in [Proc -> Nat]
      /\ file \in [Proc -> Files \cup {None}] /\ mem \in [Blocks -> Script]
      /\ \A b \in Blocks : mem[b].stamp \in Nat /\ mem[b].content \in Nat
  BY DatesTypes
<1> USE DEF Compiled
<1>1. ASSUME NEW p \in Proc, StartStep(p)
      PROVE  DatesInv'
  <2>1. UNCHANGED <<mem, disk, local>>
    BY <1>1 DEF StartStep, memory, world, RequestStart, ReadPending,
         AcquireAlloc, BeginRestart, SkipRestart, BeginKilling, StopKilling,
         EnterRestart, CleanHash, RestoreState, LeaveRestart, CopyEnabled
  <2>2. /\ \A q \in Proc \ {p} : pc'[q] = pc[q]
        /\ pc'[p] \notin Compiled \cup {"compiling"}
    BY <1>0, <1>1 DEF StartStep, Step, RequestStart, ReadPending,
         AcquireAlloc, BeginRestart, SkipRestart, BeginKilling, StopKilling,
         EnterRestart, CleanHash, RestoreState, LeaveRestart, CopyEnabled
  <2> QED
    BY <2>1, <2>2, DatesIdle DEF local
<1>2. ASSUME NEW p \in Proc, DiscardStep(p)
      PROVE  DatesInv'
  <2>1. \A b \in Blocks : /\ mem'[b].file = mem[b].file
                          /\ mem'[b].content = mem[b].content
                          /\ mem'[b].stamp \in {0, mem[b].stamp}
    BY <1>2, DiscardMemory
  <2>2. \A q \in Proc \ {p} : pc'[q] = pc[q] /\ file'[q] = file[q]
    BY <1>0, <1>2, DiscardMoves
  <2>3. UNCHANGED <<disk, stamp, content>>
    BY <1>2 DEF DiscardStep, Discard, Invalidate, ClearDate, AddWaste, world, local
  <2>4. pc'[p] \notin Compiled \cup {"compiling"}
    BY <1>0, <1>2, DiscardMoves
  <2> QED
    BY <2>1, <2>2, <2>3, <2>4, DatesMove
<1>3. ASSUME NEW p \in Proc, ScheduleStep(p)
      PROVE  DatesInv'
  <2>1. UNCHANGED <<mem, disk, local>>
    BY <1>3, ScheduleStepMoves DEF memory, world
  <2>2. /\ \A q \in Proc \ {p} : pc'[q] = pc[q]
        /\ pc'[p] \notin Compiled \cup {"compiling"}
    BY <1>0, <1>3, ScheduleStepMoves
  <2> QED
    BY <2>1, <2>2, DatesIdle DEF local
<1>4. ASSUME NEW p \in Proc, CallStep(p)
      PROVE  DatesInv'
  <2>1. UNCHANGED <<mem, disk>>
    BY <1>4 DEF CallStep, memory, world, CallReset, Reset, CheckFlag, Find, Include,
                CallInvalidate
  <2>2. \A q \in Proc \ {p} : /\ stamp'[q] = stamp[q] /\ file'[q] = file[q]
                              /\ content'[q] = content[q]
    BY <1>0, <1>4 DEF CallStep, local, Return, CallReset, Reset, CheckFlag, Find,
                      Include, CallInvalidate
  <2>3. \/ pc' = pc /\ UNCHANGED local
        \/ /\ \A q \in Proc \ {p} : pc'[q] = pc[q]
           /\ pc'[p] \notin Compiled \cup {"compiling"}
    BY <1>0, <1>4, CallMoves
  <2> QED
    BY <2>1, <2>2, <2>3, DatesIdle
<1>5. ASSUME NEW q \in Proc, StopStep(q)
      PROVE  DatesInv'
  <2>1. Forget(q) /\ pc' = [pc EXCEPT ![q] = "idle"] /\ UNCHANGED <<mem, disk>>
    BY <1>5, StopLoses DEF StopStep, RequestEnd, Die, KillLocker, memory, world
  <2>2. \A r \in Proc \ {q} : /\ stamp'[r] = stamp[r] /\ file'[r] = file[r]
                              /\ content'[r] = content[r] /\ pc'[r] = pc[r]
    BY <1>0, <2>1 DEF Forget, Return
  <2>3. pc'[q] \notin Compiled \cup {"compiling"}
    BY <1>0, <2>1
  <2> QED
    BY <2>1, <2>2, <2>3, DatesIdle
<1>6. ASSUME NEW f \in Files, Edit(f)
      PROVE  DatesInv'
  <2>1. UNCHANGED <<mem, pc, local>> /\ disk' = [disk EXCEPT ![f] = disk[f] + 1]
    BY <1>6 DEF Edit, memory
  <2>2. \A g \in Files : disk'[g] \in {disk[g], disk[g] + 1}
    BY <1>0, <2>1
  <2>3. \A g \in Files, s, c \in Nat : Dated(g, s, c) => Dated(g, s, c)'
    BY <1>0, <2>2 DEF Dated
  <2>4. \A p \in Proc : pc[p] \in Compiled \cup {"compiling"} => file[p] \in Files
    BY DEF Typed, Working, Busy, Publishing
  <2>5. /\ \A g \in Files : disk'[g] > 0
        /\ \A b \in Blocks : \A g \in Files :
             mem'[b].file = g => Dated(g, mem[b].stamp, mem[b].content)'
    <3>1. ASSUME NEW g \in Files
          PROVE  disk'[g] > 0
      <4>1. disk[g] \in Nat /\ disk[g] > 0
        BY <1>0 DEF DatesInv
      <4>2. disk'[g] \in {disk[g], disk[g] + 1}
        BY <2>2
      <4> QED
        BY ONLY <4>1, <4>2
    <3>2. ASSUME NEW b \in Blocks, NEW g \in Files, mem'[b].file = g
          PROVE  Dated(g, mem[b].stamp, mem[b].content)'
      <4>1. mem'[b] = mem[b] /\ Dated(g, mem[b].stamp, mem[b].content)
        BY <2>1, <3>2 DEF DatesInv
      <4>2. mem[b].stamp \in Nat /\ mem[b].content \in Nat
        BY <1>0
      <4>3. disk[g] \in Nat
        BY <1>0
      <4> QED
        BY <2>2, <4>1, <4>2, <4>3 DEF Dated
    <3> QED
      BY <3>1, <3>2
  <2>6. \A p \in Proc : pc'[p] = "compiling" => stamp'[p] <= disk'[file'[p]]
    <3> SUFFICES ASSUME NEW p \in Proc, pc'[p] = "compiling"
                 PROVE  stamp'[p] <= disk'[file'[p]]
      OBVIOUS
    <3>1. /\ stamp'[p] = stamp[p] /\ file'[p] = file[p] /\ file[p] \in Files
          /\ stamp[p] <= disk[file[p]]
      BY <2>1, <2>4 DEF DatesInv, local
    <3>2. stamp[p] \in Nat /\ disk[file[p]] \in Nat
      BY <1>0, <3>1
    <3>3. disk'[file[p]] \in {disk[file[p]], disk[file[p]] + 1}
      BY <2>2, <3>1
    <3> QED
      BY ONLY <3>1, <3>2, <3>3
  <2>7. \A p \in Proc : pc'[p] \in Compiled
          => Dated(file[p], stamp[p], content[p])'
    BY <1>0, <2>1, <2>3, <2>4 DEF DatesInv, local
  <2> QED
    BY <2>5, <2>6, <2>7 DEF DatesInv
<1>7. CASE UNCHANGED vars
  BY <1>7 DEF vars, memory, local, world, DatesInv, Dated
<1> QED
  BY <1>1, <1>2, <1>3, <1>4, <1>5, <1>6, <1>7, Steps, DatesCompile, DatesStore
     DEF WorkStep

LEMMA DatesAlways == Spec => [](Typed /\ DatesInv)
<1>1. Init => DatesInv
  BY OpcacheAssumption DEF Init, DatesInv, Dated, Zeroed, Compiled
<1> QED
  BY <1>1, DatesStep, AlwaysTyped, PTL DEF Spec

(* A script whose timestamp is that of the file is the file's present       *)
(* version, whenever the file changes while it is being compiled.           *)
THEOREM TimestampCorrect == Spec => []TimestampProtects
<1>1. Typed /\ DatesInv => TimestampProtects
  <2> SUFFICES ASSUME Typed, DatesInv, NEW b \in 1 .. top, NEW f \in Files,
                      mem[b].file = f, mem[b].stamp = disk[f]
               PROVE  mem[b].content = disk[f]
    BY DEF TimestampProtects
  <2>1. b \in Blocks
    BY OpcacheAssumption DEF Typed, TypeOK, SegmentOK, Blocks
  <2> QED
    BY <2>1 DEF DatesInv, Dated
<1> QED
  BY <1>1, DatesAlways, PTL

(* What a request takes from the cache is the file as it is on disk, unless *)
(* it has been discarded since it was found.                                *)
THEOREM HitCorrect == Spec => HitIsCurrent
<1>1. Typed /\ DatesInv =>
        \A p \in Proc : Hit(p) =>
          \/ mem[found[p]].stamp = 0
          \/ /\ mem[found[p]].file = file[p]
             /\ mem[found[p]].content = disk[file[p]]
  <2> SUFFICES ASSUME Typed, DatesInv, NEW p \in Proc, Hit(p),
                      mem[found[p]].stamp # 0
               PROVE  /\ mem[found[p]].file = file[p]
                      /\ mem[found[p]].content = disk[file[p]]
    OBVIOUS
  <2>1. /\ pc[p] = "validating"
        /\ mem[found[p]].file = file[p] /\ mem[found[p]].stamp = disk[file[p]]
    BY DEF Hit, Valid, Step
  <2>2. found[p] \in Blocks /\ file[p] \in Files
    BY <2>1 DEF Typed, Working, Looked, Busy
  <2> QED
    BY <2>1, <2>2 DEF DatesInv, Dated
<1> QED
  BY <1>1, DatesAlways, PTL DEF HitIsCurrent

-------------------------------------------------------------------------------
(* What requests execute.                                                   *)

Holds(f, b) == b \in 1 .. top /\ mem[b].file = f

(* Phases of a request that uses the cache, and those in which it may touch *)
(* the segment and therefore has its read lock.                             *)
InRequest == Busy \cup Discarding \cup Scheduling \cup {"running", "resetting"}

Reads(p) ==
  \/ pc[p] \in (Busy \ {"looking", "counting"}) \cup Discarding
  \/ pc[p] \in Scheduling /\ file[p] # None

(* The hash table is right about the blocks given out, and so is a worker   *)
(* about the block that it fills.                                           *)
SegmentInv ==
  /\ \A f \in Files : hash[f] # 0 => Holds(f, hash[f])
  /\ \A p \in Proc : pc[p] = "restoring" => \A f \in Files : hash[f] = 0
  /\ \A p \in Proc : pc[p] = "copying in" => mem[top].file = None
  /\ \A p \in Proc : pc[p] \in {"linking", "measuring"} => mem[top].file = file[p]

(* A request that uses the cache while it is emptied is exposed: it had no  *)
(* read lock when the restart began, or it began later.  The others have    *)
(* found, and execute, what they asked for.                                 *)
Own(p) ==
  /\ on[p] => pc[p] \in InRequest
  /\ file[p] # None => pc[p] \in Busy \cup Discarding \cup Scheduling
  /\ Reads(p) => p \in usage /\ (counted[p] <=> pc[p] # "flag")
  /\ \A f \in Files :
       loaded[p][f] # 0 => p \in usage /\ counted[p] /\ pc[p] \in InRequest
  /\ on[p] /\ ~Quiet => exposed[p]
  /\ on[p] /\ ~exposed[p] =>
       /\ \A f \in Files : loaded[p][f] # 0 => Holds(f, loaded[p][f])
       /\ pc[p] \in {"counting", "validating"} /\ found[p] # 0
            => Holds(file[p], found[p])

OwnInv == SegmentInv /\ \A p \in Proc : Own(p)

(* Blocks keep what they hold, and a process that does nothing keeps what   *)
(* it has.                                                                  *)
BlocksKept ==
  \A f \in Files : \A b \in 0 .. Capacity : Holds(f, b) => Holds(f, b)'

SameLocals(q) ==
  /\ pc'[q] = pc[q] /\ file'[q] = file[q] /\ found'[q] = found[q]
  /\ on'[q] = on[q] /\ counted'[q] = counted[q] /\ loaded'[q] = loaded[q]
  /\ exposed'[q] = exposed[q] /\ (q \in usage' <=> q \in usage)

LEMMA OwnKept ==
  ASSUME Typed, NEW q \in Proc, Own(q), SameLocals(q), Quiet => Quiet', BlocksKept
  PROVE  Own(q)'
<1>1. /\ \A f \in Files : loaded[q][f] \in 0 .. Capacity
      /\ found[q] \in 0 .. Capacity
  BY DEF Typed, TypeOK, RequestsOK, LocalsOK
<1>2. pc[q] \in {"counting", "validating"} => file[q] \in Files
  BY DEF Typed, Working, Busy
<1>3. (on[q] => pc[q] \in InRequest)'
      /\ (file[q] # None => pc[q] \in Busy \cup Discarding \cup Scheduling)'
      /\ (Reads(q) => q \in usage /\ (counted[q] <=> pc[q] # "flag"))'
  BY DEF Own, SameLocals, Reads
<1>4. (\A f \in Files :
         loaded[q][f] # 0 => q \in usage /\ counted[q] /\ pc[q] \in InRequest)'
      /\ (on[q] /\ ~Quiet => exposed[q])'
  BY DEF Own, SameLocals
<1>5. ASSUME on'[q] /\ ~exposed'[q]
      PROVE  /\ \A f \in Files : loaded'[q][f] # 0 => Holds(f, loaded[q][f])'
             /\ pc'[q] \in {"counting", "validating"} /\ found'[q] # 0
                  => Holds(file[q], found[q])'
  <2>1. on[q] /\ ~exposed[q]
    BY <1>5 DEF SameLocals
  <2>2. ASSUME NEW f \in Files, loaded'[q][f] # 0
        PROVE  Holds(f, loaded[q][f])'
    <3>1. Holds(f, loaded[q][f]) /\ loaded'[q] = loaded[q]
      BY <2>1, <2>2 DEF Own, SameLocals
    <3>2. \A b \in 0 .. Capacity : Holds(f, b) => Holds(f, b)'
      BY DEF BlocksKept
    <3> QED
      BY <1>1, <3>1, <3>2 DEF Holds
  <2>3. ASSUME pc'[q] \in {"counting", "validating"}, found'[q] # 0
        PROVE  Holds(file[q], found[q])'
    <3>1. Holds(file[q], found[q]) /\ found'[q] = found[q] /\ file'[q] = file[q]
          /\ file[q] \in Files
      BY <1>2, <2>1, <2>3 DEF Own, SameLocals
    <3>2. \A b \in 0 .. Capacity : Holds(file[q], b) => Holds(file[q], b)'
      BY <3>1 DEF BlocksKept
    <3> QED
      BY <1>1, <3>1, <3>2 DEF Holds
  <2> QED
    BY <2>2, <2>3
<1> QED
  BY <1>3, <1>4, <1>5 DEF Own

(* A worker outside of requests has nothing to answer for.                  *)
LEMMA OwnOutside ==
  ASSUME NEW q \in Proc, ~on'[q], pc'[q] \notin InRequest, file'[q] = None,
         \A f \in Files : loaded'[q][f] = 0
  PROVE  Own(q)'
<1>1. ~Reads(q)'
  BY DEF Reads, InRequest
<1> QED
  BY <1>1 DEF Own

LEMMA OutsideEmpty ==
  ASSUME Typed, NEW q \in Proc, Own(q), pc[q] \notin InRequest
  PROVE  ~on[q] /\ file[q] = None /\ \A f \in Files : loaded[q][f] = 0
BY DEF Own, InRequest

(* The segment is left alone by p.                                          *)
LEMMA SegmentSame ==
  ASSUME SegmentInv, NEW p \in Proc, UNCHANGED <<mem, hash, top>>,
         pc'[p] \notin Publishing \cup {"restoring"},
         \A q \in Proc \ {p} : pc'[q] = pc[q] /\ file'[q] = file[q]
  PROVE  SegmentInv' /\ BlocksKept
<1>1. BlocksKept
  BY DEF BlocksKept, Holds
<1>2. \A f \in Files : hash'[f] # 0 => Holds(f, hash[f])'
  BY DEF SegmentInv, Holds
<1>3. \A q \in Proc : pc'[q] \in Publishing \cup {"restoring"} =>
        q # p /\ pc'[q] = pc[q] /\ file'[q] = file[q]
  OBVIOUS
<1> QED
  BY <1>1, <1>2, <1>3 DEF SegmentInv, Publishing

LEMMA OwnStart ==
  ASSUME Typed, OwnInv, NEW p \in Proc, StartStep(p)
  PROVE  OwnInv'
<1> USE DEF Step, memory, local, request, world
<1>0. pc \in [Proc -> Phases] /\ RequestsOK
  BY DEF Typed, TypeOK
<1>1. pc[p] \notin InRequest /\ pc'[p] \in Restarting \cup {"rinit", "waiting", "copying",
        "killing", "running"}
  BY <1>0 DEF StartStep, RequestStart, ReadPending, AcquireAlloc, BeginRestart,
         SkipRestart, BeginKilling, StopKilling, EnterRestart, CleanHash,
         RestoreState, LeaveRestart, CopyEnabled, InRequest, Busy, Publishing,
         Discarding, Scheduling, Restarting
<1>2. ~on[p] /\ file[p] = None /\ \A f \in Files : loaded[p][f] = 0
  BY <1>1, OutsideEmpty DEF OwnInv
<1>3. /\ \A q \in Proc \ {p} : pc'[q] = pc[q]
      /\ UNCHANGED <<usage, mem, counted, loaded, found, file>>
  BY <1>0 DEF StartStep, RequestStart, ReadPending, AcquireAlloc, BeginRestart,
         SkipRestart, BeginKilling, StopKilling, EnterRestart, CleanHash,
         RestoreState, LeaveRestart, CopyEnabled
<1>4. pc'[p] # "running" => pc'[p] \notin InRequest
  BY <1>1 DEF InRequest, Busy, Publishing, Discarding, Scheduling, Restarting
<1>5. CASE CleanHash(p) \/ RestoreState(p)
  <2>1. pc[p] \in Wiping /\ ~Quiet /\ pc[p] \in Holding /\ pc'[p] # "running"
    BY <1>0, <1>5 DEF CleanHash, RestoreState, Wiping, Quiet, Holding, Restarting
  <2>2. UNCHANGED <<on, exposed>>
    BY <1>5 DEF CleanHash, RestoreState
  <2>3. \A f \in Files : hash'[f] = 0
    BY <1>5 DEF CleanHash, RestoreState, OwnInv, SegmentInv
  <2>4. \A q \in Proc : pc'[q] \notin Publishing
    BY <1>1, <1>3, <2>1, HolderAlone DEF Holding, Publishing, Restarting
  <2>5. SegmentInv'
    BY <2>3, <2>4 DEF SegmentInv, Publishing
  <2>6. ASSUME NEW q \in Proc, q # p
        PROVE  Own(q)'
    BY <1>3, <2>1, <2>2, <2>6 DEF OwnInv, Own, Reads
  <2>7. Own(p)'
    BY <1>2, <1>3, <1>4, <2>1, <2>2, OwnOutside
  <2> QED
    BY <2>5, <2>6, <2>7 DEF OwnInv
<1>6. CASE ~CleanHash(p) /\ ~RestoreState(p)
  <2>1. UNCHANGED <<hash, top>> /\ pc'[p] \notin Publishing \cup {"restoring"}
    BY <1>0, <1>6 DEF StartStep, RequestStart, ReadPending, AcquireAlloc, BeginRestart,
         SkipRestart, BeginKilling, StopKilling, EnterRestart, LeaveRestart,
         CopyEnabled, Publishing
  <2>2. SegmentInv' /\ BlocksKept
    BY <1>3, <2>1, SegmentSame DEF OwnInv
  <2>3. CASE BeginRestart(p)
    <3>1. /\ on' = on /\ pc'[p] = "entering"
          /\ \A q \in Proc : exposed'[q] <=> q \notin usage
          /\ \A q \in Proc \ {p} : q \notin usage
      BY <1>0, <2>3 DEF BeginRestart, Others
    <3>2. ASSUME NEW q \in Proc, q # p
          PROVE  Own(q)'
      BY <1>3, <3>1, <3>2 DEF OwnInv, Own, Reads
    <3>3. Own(p)'
      BY <1>2, <1>3, <1>4, <3>1, OwnOutside
    <3> QED
      BY <2>2, <3>2, <3>3 DEF OwnInv
  <2>4. CASE CopyEnabled(p)
    <3>1. pc'[p] = "running" /\ (Quiet' <=> Quiet) /\ (exposed'[p] <=> ~Quiet)
      BY <1>0, <2>4, QuietKept DEF CopyEnabled, Wiping, RequestsOK
    <3>2. \A q \in Proc \ {p} : SameLocals(q)
      BY <1>0, <1>3, <2>4 DEF CopyEnabled, SameLocals, RequestsOK
    <3>3. Own(p)'
      BY <1>2, <1>3, <3>1
         DEF Own, InRequest, Reads, Busy, Publishing, Discarding, Scheduling
    <3> QED
      BY <2>2, <3>1, <3>2, <3>3, OwnKept DEF OwnInv
  <2>5. CASE ~BeginRestart(p) /\ ~CopyEnabled(p)
    <3>1. UNCHANGED <<on, exposed>> /\ pc'[p] # "running"
      BY <1>0, <1>6, <2>5 DEF StartStep, RequestStart, ReadPending, AcquireAlloc,
         SkipRestart, BeginKilling, StopKilling, EnterRestart, LeaveRestart
    <3>2. pc'[p] \in Wiping => pc[p] \in Wiping
      BY <1>0, <1>6, <2>5 DEF StartStep, RequestStart, ReadPending, AcquireAlloc,
         SkipRestart, BeginKilling, StopKilling, EnterRestart, LeaveRestart, Wiping
    <3>3. Quiet => Quiet'
      BY <1>3, <3>2 DEF Quiet
    <3>4. \A q \in Proc \ {p} : SameLocals(q)
      BY <1>3, <3>1 DEF SameLocals
    <3>5. Own(p)'
      BY <1>2, <1>3, <1>4, <3>1, OwnOutside
    <3> QED
      BY <2>2, <3>3, <3>4, <3>5, OwnKept DEF OwnInv
  <2> QED
    BY <2>3, <2>4, <2>5
<1> QED
  BY <1>5, <1>6

(* A step of p leaves the others alone.                                     *)
LEMMA OwnFrom ==
  ASSUME Typed, OwnInv, NEW p \in Proc, \A q \in Proc \ {p} : SameLocals(q),
         Quiet => Quiet', BlocksKept, SegmentInv', Own(p)'
  PROVE  OwnInv'
BY OwnKept DEF OwnInv

(* A step of p within its request.                                          *)
LEMMA OwnMoves ==
  ASSUME Typed, NEW p \in Proc, Own(p), NEW to \in InRequest,
         pc[p] \in InRequest, pc'[p] = to, on'[p] = on[p], exposed'[p] = exposed[p],
         Quiet => Quiet', BlocksKept,
         file'[p] # None => to \in Busy \cup Discarding \cup Scheduling,
         Reads(p)' => p \in usage' /\ (counted'[p] <=> to # "flag"),
         p \in usage /\ counted[p] => p \in usage' /\ counted'[p],
         \A f \in Files :
           \/ loaded'[p][f] = loaded[p][f]
           \/ /\ p \in usage' /\ counted'[p]
              /\ on[p] /\ ~exposed[p] => Holds(f, loaded[p][f])',
         on[p] /\ ~exposed[p] /\ to \in {"counting", "validating"} /\ found'[p] # 0
           => Holds(file[p], found[p])'
  PROVE  Own(p)'
<1>1. \A f \in Files : loaded[p][f] \in 0 .. Capacity
  BY DEF Typed, TypeOK, RequestsOK
<1>2. (\A f \in Files :
         loaded[p][f] # 0 => p \in usage /\ counted[p] /\ pc[p] \in InRequest)'
  BY DEF Own
<1>3. ASSUME on[p], ~exposed[p], NEW f \in Files, loaded'[p][f] # 0
      PROVE  Holds(f, loaded[p][f])'
  <2>1. CASE loaded'[p][f] = loaded[p][f]
    <3>1. Holds(f, loaded[p][f])
      BY <1>3, <2>1 DEF Own
    <3>2. \A b \in 0 .. Capacity : Holds(f, b) => Holds(f, b)'
      BY DEF BlocksKept
    <3> QED
      BY <1>1, <2>1, <3>1, <3>2 DEF Holds
  <2>2. CASE loaded'[p][f] # loaded[p][f]
    BY <1>3, <2>2
  <2> QED
    BY <2>1, <2>2
<1>4. (on[p] /\ ~Quiet => exposed[p])'
  BY DEF Own
<1> QED
  BY <1>2, <1>3, <1>4 DEF Own

LEMMA OwnCompile ==
  ASSUME Typed, OwnInv, NEW p \in Proc, CompileStep(p)
  PROVE  OwnInv'
<1> USE DEF Step, memory, local, request
<1>0. pc \in [Proc -> Phases] /\ RequestsOK /\ LocalsOK /\ SegmentInv /\ Own(p)
  BY DEF Typed, TypeOK, OwnInv
<1>1. PICK to \in {"counting", "validating", "running", "discarding", "stamping",
                   "compiling", "storing"} :
        pc' = [pc EXCEPT ![p] = to]
  BY DEF CompileStep, LookUp, Count, Hit, Outdated, Miss, Compile
<1>2. /\ pc[p] \in Busy \ Publishing /\ pc[p] # "flag" /\ pc[p] \in InRequest /\ file[p] \in Files
      /\ to \in InRequest /\ to \notin Publishing \cup {"restoring"}
      /\ pc'[p] = to /\ \A q \in Proc \ {p} : pc'[q] = pc[q]
  <2>1. pc[p] \in {"looking", "counting", "validating", "stamping", "compiling"}
    BY DEF CompileStep, LookUp, Count, Hit, Outdated, Miss, Compile
  <2> QED
    BY <1>0, <1>1, <2>1 DEF InRequest, Busy, Publishing, Typed, Working
<1>3. UNCHANGED <<mem, hash, top, on, exposed>>
  BY DEF CompileStep, LookUp, Count, Hit, Outdated, Miss, Compile
<1>4. \A q \in Proc \ {p} : SameLocals(q)
  <2>1. \A q \in Proc \ {p} :
          /\ file'[q] = file[q] /\ found'[q] = found[q] /\ loaded'[q] = loaded[q]
          /\ counted'[q] = counted[q] /\ (q \in usage' <=> q \in usage)
    BY <1>0 DEF CompileStep, LookUp, Count, Hit, Outdated, Miss, Compile, Return, Load,
                LocalsOK, RequestsOK
  <2> QED
    BY <1>2, <1>3, <2>1 DEF SameLocals
<1>5. SegmentInv' /\ BlocksKept
  BY <1>0, <1>2, <1>3, <1>4, SegmentSame DEF SameLocals
<1>6. Quiet => Quiet'
  <2>1. pc[p] \notin Wiping /\ to \notin Wiping
    BY <1>1, <1>2 DEF Wiping, Busy
  <2> QED
    BY <1>1, <2>1, QuietKept
<1>7. file'[p] # None => to \in Busy \cup Discarding \cup Scheduling
  <2>1. CASE Return(p)
    BY <1>0, <2>1 DEF Return, LocalsOK
  <2>2. CASE to # "running"
    BY <1>1, <2>2 DEF Busy
  <2>3. to = "running" => Return(p)
    BY <1>1, <1>2 DEF CompileStep, LookUp, Count, Hit, Outdated, Miss, Compile
  <2> QED
    BY <2>1, <2>2, <2>3
<1>8. CASE LookUp(p)
  <2>1. to = "counting" /\ pc[p] = "looking" /\ UNCHANGED <<usage, counted, loaded, file>>
    BY <1>2, <1>8 DEF LookUp
  <2>2. ~Reads(p)'
    BY <1>2, <2>1 DEF Reads, Discarding, Scheduling
  <2>3. found'[p] \in {0, hash[file[p]]}
    BY <1>0, <1>8 DEF LookUp, LocalsOK
  <2>4. found'[p] # 0 => Holds(file[p], found[p])'
    BY <1>0, <1>2, <1>3, <2>1, <2>3 DEF SegmentInv, Holds
  <2>5. Own(p)'
    BY <1>0, <1>2, <1>3, <1>5, <1>6, <1>7, <2>1, <2>2, <2>4, OwnMoves
  <2> QED
    BY <1>4, <1>5, <1>6, <2>5, OwnFrom
<1>9. CASE Count(p)
  <2>1. to \in {"validating", "stamping"} /\ pc[p] = "counting"
        /\ UNCHANGED <<loaded, file, found>> /\ p \in usage' /\ counted'[p]
    BY <1>0, <1>2, <1>9 DEF Count, RequestsOK
  <2>2. on[p] /\ ~exposed[p] /\ found'[p] # 0 => Holds(file[p], found[p])'
    BY <1>0, <1>3, <2>1 DEF Own, Holds
  <2>3. Own(p)'
    BY <1>0, <1>2, <1>3, <1>5, <1>6, <1>7, <2>1, <2>2, OwnMoves
  <2> QED
    BY <1>4, <1>5, <1>6, <2>3, OwnFrom
<1>10. CASE Hit(p) \/ Outdated(p) \/ Miss(p) \/ Compile(p)
  <2>1. /\ Reads(p) /\ pc[p] # "flag" /\ UNCHANGED <<usage, counted>>
        /\ to \in {"running", "discarding", "stamping", "compiling", "storing"}
    <3>1. pc[p] \in {"validating", "stamping", "compiling"}
      BY <1>10 DEF Hit, Outdated, Miss, Compile
    <3>2. Reads(p) /\ pc[p] # "flag"
      BY ONLY <3>1 DEF Reads, Busy
    <3>3. UNCHANGED <<usage, counted>>
      BY <1>10 DEF Hit, Outdated, Miss, Compile
    <3>4. pc'[p] \in {"running", "discarding", "stamping", "compiling", "storing"}
      BY <1>0, <1>10 DEF Hit, Outdated, Miss, Compile
    <3> QED
      BY <1>2, <3>2, <3>3, <3>4
  <2>2. p \in usage' /\ counted'[p] /\ to # "flag"
    BY <1>0, <2>1 DEF Own
  <2>3. ASSUME NEW f \in Files, loaded'[p][f] # loaded[p][f], on[p], ~exposed[p]
        PROVE  Holds(f, loaded[p][f])'
    <3>1. Hit(p)
      BY <1>10, <2>3 DEF Outdated, Miss, Compile
    <3>2. f = file[p] /\ loaded'[p][f] = found[p]
      BY <1>0, <1>2, <2>3, <3>1 DEF Hit, Load, RequestsOK
    <3>3. pc[p] = "validating" /\ found[p] \in Blocks
      BY <3>1 DEF Hit, Typed, Working, Looked
    <3>4. Holds(file[p], found[p])
      BY <1>0, <2>3, <3>3, OpcacheAssumption DEF Own, Blocks
    <3> QED
      BY <1>3, <3>2, <3>4 DEF Holds
  <2>4. Own(p)'
    BY <1>0, <1>2, <1>3, <1>5, <1>6, <1>7, <2>1, <2>2, <2>3, OwnMoves
  <2> QED
    BY <1>4, <1>5, <1>6, <2>4, OwnFrom
<1> QED
  BY <1>8, <1>9, <1>10 DEF CompileStep

LEMMA OwnDiscard ==
  ASSUME Typed, OwnInv, NEW p \in Proc, DiscardStep(p)
  PROVE  OwnInv'
<1>0. pc \in [Proc -> Phases] /\ RequestsOK /\ LocalsOK /\ SegmentOK /\ SegmentInv /\ Own(p)
  BY DEF Typed, TypeOK, OwnInv
<1>1. PICK to \in {"dating", "wasting", "scheduling", "stamping", "running"} :
        /\ pc' = [pc EXCEPT ![p] = to]
        /\ to = "running" => file'[p] = None
  BY DiscardMoves
<1>2. /\ pc[p] \in {"discarding", "forgetting"} \cup Discarding
      /\ UNCHANGED <<usage, request>>
  BY DEF DiscardStep, Discard, Invalidate, ClearDate, AddWaste, Step, Discarding
<1>3. /\ pc[p] \in InRequest /\ to \in InRequest /\ to \notin Publishing \cup Wiping
      /\ pc'[p] = to /\ \A q \in Proc \ {p} : pc'[q] = pc[q]
      /\ Reads(p) /\ pc[p] \notin Wiping /\ pc[p] # "flag"
  BY <1>0, <1>1, <1>2
     DEF InRequest, Busy, Publishing, Wiping, Discarding, Scheduling, Reads
<1>4. p \in usage /\ counted[p]
  BY <1>0, <1>3 DEF Own
<1>5. \A q \in Proc \ {p} : SameLocals(q)
  BY <1>2, <1>3, DiscardMoves DEF SameLocals, request
<1>6. /\ UNCHANGED <<top, hash>>
      /\ \A b \in Blocks : mem'[b].file = mem[b].file
  BY DiscardMemory
<1>7. \A b \in 1 .. top : b \in Blocks
  BY <1>0, OpcacheAssumption DEF SegmentOK, Blocks
<1>8. \A f \in Files : \A b : Holds(f, b) <=> Holds(f, b)'
  BY <1>6, <1>7 DEF Holds
<1>9. BlocksKept
  BY <1>8 DEF BlocksKept
<1>10. SegmentInv'
  <2>1. \A f \in Files : hash'[f] # 0 => Holds(f, hash[f])'
    BY <1>0, <1>6, <1>8 DEF SegmentInv, Holds
  <2>2. \A q \in Proc : pc'[q] \notin Publishing \cup {"restoring"}
    <3>1. \A q \in Proc \ {p} : pc[q] \notin Holding
      <4>1. pc[p] \in Holding \/ allocLock = None
        BY <1>2 DEF DiscardStep, Discard, Invalidate, ClearDate, AddWaste, Mark, Step,
                    Holding, Discarding
      <4> QED
        BY <4>1, HolderAlone
    <3> QED
      BY <1>3, <3>1, Holders DEF Holding, Wiping, Restarting
  <2> QED
    BY <1>6, <2>1, <2>2 DEF SegmentInv, Publishing
<1>11. Quiet => Quiet'
  BY <1>1, <1>3, QuietKept
<1>12. Own(p)'
  <2>1. file'[p] # None => to \in Busy \cup Discarding \cup Scheduling
    BY <1>1 DEF Busy, Discarding, Scheduling
  <2>2. to \notin {"counting", "validating", "flag"}
    BY <1>1
  <2> QED
    BY <1>0, <1>2, <1>3, <1>4, <1>9, <1>11, <2>1, <2>2, OwnMoves DEF request
<1> QED
  BY <1>5, <1>9, <1>10, <1>11, <1>12, OwnFrom

LEMMA OwnSchedule ==
  ASSUME Typed, OwnInv, NEW p \in Proc, ScheduleStep(p)
  PROVE  OwnInv'
<1>0. pc \in [Proc -> Phases] /\ SegmentInv /\ Own(p)
  BY DEF Typed, TypeOK, OwnInv
<1>1. /\ pc[p] \in Scheduling
      /\ UNCHANGED <<memory, usage, local, request>>
  BY ScheduleStepMoves
<1>2. PICK to \in {"remembering", "switching", "arming", "running", "stamping"} :
        /\ pc' = [pc EXCEPT ![p] = to]
        /\ to = "stamping" => file[p] # None
        /\ to = "running" => file[p] = None
  BY ScheduleStepMoves
<1>3. /\ pc[p] \in InRequest /\ to \in InRequest
      /\ pc[p] \notin Wiping /\ to \notin Wiping
      /\ pc'[p] = to /\ \A q \in Proc \ {p} : pc'[q] = pc[q]
      /\ to \notin Publishing \cup {"restoring", "flag", "counting", "validating"}
  BY <1>0, <1>1, <1>2 DEF InRequest, Busy, Publishing, Wiping, Scheduling
<1>4. \A q \in Proc \ {p} : SameLocals(q)
  BY <1>1, <1>3 DEF SameLocals, local, request
<1>5. SegmentInv' /\ BlocksKept
  BY <1>0, <1>1, <1>3, SegmentSame DEF memory, local
<1>6. Quiet => Quiet'
  BY <1>2, <1>3, QuietKept
<1>7. Reads(p)' => Reads(p) /\ pc[p] # "flag"
  <2>1. pc[p] # "flag" /\ file' = file
    BY <1>1 DEF Scheduling, local
  <2>2. file[p] # None => Reads(p)
    BY <1>1 DEF Reads
  <2>3. file[p] = None => to \notin Busy \cup Discarding
    BY <1>2, <1>3 DEF Busy, Discarding
  <2> QED
    BY <1>3, <2>1, <2>2, <2>3 DEF Reads
<1>8. Own(p)'
  <2>1. Reads(p)' => p \in usage' /\ (counted'[p] <=> to # "flag")
    BY <1>0, <1>1, <1>3, <1>7 DEF Own, request
  <2>2. file'[p] # None => to \in Busy \cup Discarding \cup Scheduling
    BY <1>1, <1>2 DEF Busy, Scheduling, local
  <2> QED
    BY <1>0, <1>1, <1>3, <1>5, <1>6, <2>1, <2>2, OwnMoves DEF request
<1> QED
  BY <1>4, <1>5, <1>6, <1>8, OwnFrom

LEMMA GivenOut ==
  ASSUME NEW n \in 0 .. Capacity
  PROVE  /\ \A b \in 1 .. n : b \in Blocks /\ b # n + 1 /\ b \in 1 .. n + 1
         /\ n \in Blocks => n \in 1 .. n
         /\ n # 0 => n \in Blocks
         /\ \A b \in 1 .. n + 1 : b # n + 1 => b \in 1 .. n
BY OpcacheAssumption DEF Blocks

LEMMA OwnStore ==
  ASSUME Typed, OwnInv, NEW p \in Proc, StoreStep(p)
  PROVE  OwnInv'
<1>0. pc \in [Proc -> Phases] /\ RequestsOK /\ LocalsOK /\ SegmentOK /\ SegmentInv /\ Own(p)
  BY DEF Typed, TypeOK, OwnInv
<1>1. PICK to \in {"running", "scheduling", "copying in", "linking", "measuring"} :
        /\ pc' = [pc EXCEPT ![p] = to]
        /\ to = "copying in" <=> Allocate(p)
        /\ to = "linking" <=> CopyIn(p)
        /\ to = "measuring" <=> Publish(p)
        /\ to = "scheduling" => NoRoom(p)
  BY StoreMoves
<1>2. pc[p] \in {"storing"} \cup Publishing /\ file[p] \in Files
      /\ UNCHANGED <<usage, on, counted, exposed>>
  BY StoreMoves DEF StoreStep, UseExisting, NoRoom, Allocate, CopyIn, Publish, Measure,
     Step, Publishing, request
<1>3. /\ pc[p] \in InRequest /\ to \in InRequest
      /\ to \notin Wiping \cup {"flag", "counting", "validating"} /\ pc[p] \notin Wiping
      /\ Reads(p) /\ pc[p] # "flag"
      /\ pc'[p] = to /\ \A q \in Proc \ {p} : pc'[q] = pc[q]
  BY <1>0, <1>1, <1>2 DEF InRequest, Busy, Publishing, Wiping, Scheduling, Reads
<1>4. p \in usage /\ counted[p]
  BY <1>0, <1>3 DEF Own
<1>5. \A q \in Proc \ {p} : SameLocals(q)
  <2>1. \A q \in Proc \ {p} :
          file'[q] = file[q] /\ found'[q] = found[q] /\ loaded'[q] = loaded[q]
    BY <1>0 DEF StoreStep, UseExisting, NoRoom, Allocate, CopyIn, Publish, Measure,
                Return, Load, LocalsOK, RequestsOK, local, request
  <2> QED
    BY <1>2, <1>3, <2>1 DEF SameLocals
<1>6. Quiet => Quiet'
  BY <1>1, <1>3, QuietKept
<1>7. /\ top \in 0 .. Capacity
      /\ pc[p] \in Publishing => top \in Blocks
      /\ \A b \in 1 .. top : b \in Blocks
      /\ \A b \in Blocks : mem[b] \in Script
      /\ mem \in [Blocks -> Script]
  <2>1. top \in 0 .. Capacity /\ mem \in [Blocks -> Script]
    BY <1>0 DEF SegmentOK
  <2>2. pc[p] \in Publishing => top \in Blocks
    BY DEF Typed, Working
  <2> QED
    BY <2>1, <2>2, GivenOut
<1>8. \A q \in Proc \ {p} : pc[q] \notin Holding
  <2>1. pc[p] \in Holding \/ allocLock = None
    BY DEF StoreStep, UseExisting, NoRoom, Allocate, CopyIn, Publish, Measure, Step,
           Holding, Publishing
  <2> QED
    BY <2>1, HolderAlone
<1>9. \A q \in Proc : pc'[q] # "restoring" /\ (pc'[q] \in Publishing => q = p)
  BY <1>1, <1>3, <1>8 DEF Holding, Wiping, Restarting
<1>10. /\ top' = top \/ (Allocate(p) /\ top' = top + 1)
       /\ \A b \in 1 .. top : mem[b].file # None => mem'[b].file = mem[b].file
  <2>1. CASE UNCHANGED <<mem, top>>
    BY <2>1
  <2>2. CASE Allocate(p)
    <3>1. top' = top + 1 /\ mem' = [mem EXCEPT ![top + 1] = Zeroed]
      BY <2>2 DEF Allocate
    <3>2. \A b \in 1 .. top : b # top + 1
      BY <1>7, GivenOut
    <3> QED
      BY <1>7, <2>2, <3>1, <3>2
  <2>3. CASE CopyIn(p)
    <3>1. top' = top /\ mem[top].file = None /\ \A b \in Blocks \ {top} : mem'[b] = mem[b]
      BY <1>0, <1>7, <2>3 DEF CopyIn, Step, SegmentInv
    <3> QED
      BY <1>7, <3>1
  <2>4. CASE Measure(p)
    <3>1. top' = top /\ mem' = [mem EXCEPT ![top].size = 1]
      BY <2>4 DEF Measure
    <3>2. \A b \in Blocks : mem'[b].file = mem[b].file
      BY <1>7, <3>1 DEF Script
    <3> QED
      BY <1>7, <3>1, <3>2
  <2> QED
    BY <2>1, <2>2, <2>3, <2>4 DEF StoreStep, UseExisting, NoRoom, Publish, memory
<1>11. \A f \in Files : \A b : Holds(f, b) => Holds(f, b)'
  <2> SUFFICES ASSUME NEW f \in Files, NEW b, Holds(f, b) PROVE Holds(f, b)'
    OBVIOUS
  <2>1. b \in 1 .. top /\ mem[b].file # None /\ mem[b].file = f
    BY OpcacheAssumption DEF Holds
  <2>2. mem'[b].file = f
    BY <1>10, <2>1
  <2>3. b \in 1 .. top'
    BY <1>7, <1>10, <2>1, GivenOut
  <2> QED
    BY <2>2, <2>3 DEF Holds
<1>12. BlocksKept
  BY <1>11 DEF BlocksKept
<1>13. CASE Publish(p)
  <2>1. /\ UNCHANGED <<mem, top, local, request>> /\ to = "measuring"
        /\ pc[p] = "linking" /\ hash' = [hash EXCEPT ![file[p]] = top]
        /\ mem[top].file = file[p] /\ top \in Blocks
    BY <1>0, <1>1, <1>7, <1>13 DEF Publish, Step, SegmentInv, Publishing
  <2>2. Holds(file[p], top)'
    <3>1. top' \in 1 .. top'
      BY <1>7, <2>1, GivenOut
    <3>2. mem'[top'].file = file[p] /\ file'[p] = file[p]
      BY <2>1 DEF local
    <3> QED
      BY <2>1, <3>1, <3>2 DEF Holds
  <2>3. ASSUME NEW f \in Files, hash'[f] # 0
        PROVE  Holds(f, hash[f])'
    <3>1. CASE f = file[p]
      BY <1>0, <2>1, <2>2, <3>1 DEF SegmentOK, Holds
    <3>2. CASE f # file[p]
      <4>1. hash'[f] = hash[f] /\ Holds(f, hash[f])
        BY <1>0, <2>1, <2>3, <3>2 DEF SegmentOK, SegmentInv
      <4> QED
        BY <1>11, <4>1 DEF Holds
    <3> QED
      BY <3>1, <3>2
  <2>4. SegmentInv'
    BY <1>3, <1>9, <2>1, <2>3 DEF SegmentInv, Publishing, local
  <2>5. Own(p)'
    <3>1. to \in Busy
      BY <2>1 DEF Busy, Publishing
    <3> QED
      BY <1>0, <1>2, <1>3, <1>4, <1>6, <1>12, <2>1, <3>1, OwnMoves DEF request
  <2> QED
    BY <1>5, <1>6, <1>12, <2>4, <2>5, OwnFrom
<1>14. CASE ~Publish(p)
  <2>1. hash' = hash
    BY <1>14 DEF StoreStep, UseExisting, NoRoom, Allocate, CopyIn, Measure, memory
  <2>2. \A f \in Files : hash'[f] # 0 => Holds(f, hash[f])'
    BY <1>0, <1>11, <2>1 DEF SegmentInv, Holds
  <2>3. to = "copying in" => mem'[top'].file = None
    <3>1. ASSUME to = "copying in"
          PROVE  top' = top + 1 /\ top + 1 \in Blocks /\ mem' = [mem EXCEPT ![top + 1] = Zeroed]
      BY <1>1, <1>7, <3>1, NextBlock DEF Allocate
    <3> QED
      <4>1. ASSUME to = "copying in" PROVE mem'[top'] = Zeroed
        BY <1>7, <3>1, <4>1
      <4>2. Zeroed.file = None
        BY DEF Zeroed
      <4> QED
        BY <4>1, <4>2
  <2>4. to = "linking" => mem'[top'].file = file'[p]
    <3>1. ASSUME to = "linking"
          PROVE  /\ top' = top /\ top \in Blocks /\ file' = file
                 /\ mem' = [mem EXCEPT ![top] =
                      [file |-> file[p], stamp |-> stamp[p], content |-> content[p],
                       corrupted |-> FALSE, size |-> 0]]
      BY <1>1, <1>7, <3>1 DEF CopyIn, Step, Publishing, local
    <3> QED
      BY <1>7, <3>1
  <2>5. to # "measuring"
    BY <1>1, <1>14
  <2>6. SegmentInv'
    BY <1>3, <1>9, <2>2, <2>3, <2>4, <2>5 DEF SegmentInv, Publishing
  <2>7. file'[p] # None => to \in Busy \cup Discarding \cup Scheduling
    <3>1. CASE Return(p)
      BY <1>0, <3>1 DEF Return, LocalsOK
    <3>2. CASE Allocate(p) \/ CopyIn(p)
      BY <1>1, <3>2 DEF Busy, Publishing
    <3> QED
      BY <1>14, <3>1, <3>2 DEF StoreStep, UseExisting, NoRoom, Measure
  <2>8. ASSUME NEW f \in Files, loaded'[p][f] # loaded[p][f]
        PROVE  Holds(f, loaded[p][f])'
    <3>1. CASE UseExisting(p)
      <4>1. f = file[p] /\ loaded'[p][f] = hash[f] /\ hash[f] # 0
        BY <1>0, <1>2, <2>8, <3>1 DEF UseExisting, Load, RequestsOK, Stored
      <4>2. Holds(f, hash[f])
        BY <1>0, <4>1 DEF SegmentInv
      <4> QED
        BY <1>11, <4>1, <4>2 DEF Holds
    <3>2. CASE Measure(p)
      <4>1. f = file[p] /\ loaded'[p][f] = top /\ mem[top].file = f /\ top \in Blocks
        BY <1>0, <1>2, <1>7, <2>8, <3>2
           DEF Measure, Load, Step, RequestsOK, SegmentInv, Publishing
      <4>2. Holds(f, top)
        BY <1>7, <4>1, GivenOut DEF Holds
      <4> QED
        BY <1>11, <4>1, <4>2 DEF Holds
    <3>3. CASE NoRoom(p) \/ Allocate(p) \/ CopyIn(p)
      BY <2>8, <3>3 DEF NoRoom, Allocate, CopyIn, request
    <3> QED
      BY <1>14, <3>1, <3>2, <3>3 DEF StoreStep
  <2>9. Own(p)'
    BY <1>0, <1>2, <1>3, <1>4, <1>6, <1>12, <2>7, <2>8, OwnMoves
  <2> QED
    BY <1>5, <1>6, <1>12, <2>6, <2>9, OwnFrom
<1> QED
  BY <1>13, <1>14

LEMMA OwnCall ==
  ASSUME Typed, OwnInv, NEW p \in Proc, CallStep(p)
  PROVE  OwnInv'
<1> USE DEF Step, memory, local, request
<1>0. pc \in [Proc -> Phases] /\ RequestsOK /\ LocalsOK /\ SegmentInv /\ Own(p)
  BY DEF Typed, TypeOK, OwnInv
<1>1. UNCHANGED <<memory, on, exposed, loaded>>
  BY DEF CallStep, CallReset, Reset, CheckFlag, Find, Include, CallInvalidate
<1>2. \A q \in Proc \ {p} :
        /\ file'[q] = file[q] /\ found'[q] = found[q] /\ counted'[q] = counted[q]
        /\ (q \in usage' <=> q \in usage)
  BY <1>0 DEF CallStep, CallReset, Reset, CheckFlag, Find, Include, CallInvalidate,
              Return, LocalsOK, RequestsOK
<1>3. CASE pc' = pc /\ UNCHANGED local
  <2>1. UNCHANGED <<usage, counted>>
    <3>1. \A f \in Files : ~CallInvalidate(p, f)
      BY <1>0, <1>3 DEF CallInvalidate
    <3>2. ~CheckFlag(p)
      BY <1>0, <1>3 DEF CheckFlag
    <3> QED
      BY <3>1, <3>2 DEF CallStep, CallReset, Reset, Find, Include
  <2>2. \A q \in Proc : SameLocals(q)
    BY <1>1, <1>3, <2>1 DEF SameLocals
  <2>3. SegmentInv' /\ BlocksKept
    BY <1>0, <1>1, <1>3 DEF SegmentInv, BlocksKept, Holds
  <2>4. Quiet => Quiet'
    BY <1>3 DEF Quiet
  <2> QED
    BY <2>2, <2>3, <2>4, OwnKept DEF OwnInv
<1>4. CASE ~(pc' = pc /\ UNCHANGED local)
  <2>1. PICK to \in {"looking", "resetting", "scheduling", "stamping", "running",
                     "finding", "flag", "forgetting"} :
          /\ pc' = [pc EXCEPT ![p] = to]
          /\ pc[p] \notin Holding
          /\ to = "stamping" => file[p] # None /\ Reset(p)
          /\ to = "scheduling" => Reset(p)
    BY <1>4, CallMoves
  <2>2. pc[p] \in {"running", "resetting", "flag", "finding"}
    BY DEF CallStep, CallReset, Reset, CheckFlag, Find, Include, CallInvalidate
  <2>3. /\ pc[p] \in InRequest /\ to \in InRequest
        /\ pc[p] \notin Wiping /\ to \notin Wiping
        /\ to \notin Publishing \cup {"restoring", "counting", "validating"}
        /\ pc'[p] = to /\ \A q \in Proc \ {p} : pc'[q] = pc[q]
    BY <1>0, <2>1, <2>2 DEF InRequest, Busy, Publishing, Wiping, Scheduling
  <2>4. \A q \in Proc \ {p} : SameLocals(q)
    BY <1>1, <1>2, <2>3 DEF SameLocals
  <2>5. SegmentInv' /\ BlocksKept
    BY <1>0, <1>1, <1>2, <2>3, SegmentSame
  <2>6. Quiet => Quiet'
    BY <2>1, <2>3, QuietKept
  <2>7. /\ file'[p] # None => to \in Busy \cup Discarding \cup Scheduling
        /\ Reads(p)' => p \in usage' /\ (counted'[p] <=> to # "flag")
        /\ p \in usage /\ counted[p] => p \in usage' /\ counted'[p]
    <3> USE DEF Busy
    <3>1. CASE CallReset(p) \/ Reset(p)
      <4>1. file[p] = None
        BY <1>0, <3>1 DEF CallReset, Reset, Own, Discarding, Scheduling, Publishing
      <4>2. file' = file /\ UNCHANGED <<usage, counted>>
        BY <3>1 DEF CallReset, Reset
      <4>3. to \in {"resetting", "scheduling", "running"}
        BY <1>0, <2>1, <2>3, <3>1, <4>1 DEF CallReset, Reset, Schedule, Unlock
      <4>4. ~Reads(p)'
        BY <2>3, <4>1, <4>2, <4>3 DEF Reads, Discarding, Publishing
      <4> QED
        BY <4>1, <4>2, <4>4
    <3>2. ASSUME NEW f \in Files, Include(p, f)
          PROVE  /\ UNCHANGED <<usage, counted>> /\ to = "looking"
      BY <1>0, <1>4, <2>3, <3>2 DEF Include
    <3>3. CASE to = "looking" /\ UNCHANGED <<usage, counted>>
      BY <2>3, <3>3 DEF Reads, Discarding, Scheduling, Publishing
    <3>4. ASSUME NEW f \in Files, CallInvalidate(p, f)
          PROVE  /\ to = (IF counted[p] THEN "finding" ELSE "flag")
                 /\ counted' = counted /\ p \in usage'
      BY <1>0, <2>3, <3>4 DEF CallInvalidate
    <3>5. CASE /\ to = (IF counted[p] THEN "finding" ELSE "flag")
               /\ counted' = counted /\ p \in usage'
      <4>1. counted[p] \in BOOLEAN
        BY <1>0 DEF RequestsOK
      <4> QED
        BY <3>5, <4>1
    <3>6. CASE Find(p)
      <4>1. Reads(p) /\ pc[p] # "flag"
        BY <3>6 DEF Find, Reads
      <4>2. UNCHANGED <<usage, counted>> /\ p \in usage /\ counted[p]
        BY <1>0, <3>6, <4>1 DEF Find, Own
      <4>3. to = "forgetting" \/ (to = "running" /\ Return(p))
        BY <1>0, <2>3, <3>6 DEF Find
      <4>4. Return(p) => file'[p] = None
        BY <1>0 DEF Return, LocalsOK
      <4> QED
        BY <4>2, <4>3, <4>4
    <3>7. CASE CheckFlag(p)
      <4>1. Reads(p) /\ pc[p] = "flag"
        BY <3>7 DEF CheckFlag, Reads, Publishing
      <4>2. p \in usage /\ ~counted[p]
        BY <1>0, <4>1 DEF Own
      <4>3. CASE inProgress
        <5>1. to = "running" /\ file'[p] = None
          BY <1>0, <2>3, <3>7, <4>3 DEF CheckFlag, Return, LocalsOK
        <5>2. ~Reads(p)'
          BY <2>3, <5>1 DEF Reads, Discarding, Scheduling, Publishing
        <5> QED
          BY <4>2, <5>1, <5>2
      <4>4. CASE ~inProgress
        <5>1. to = "finding" /\ usage' = usage /\ counted'[p]
          BY <1>0, <2>3, <3>7, <4>4 DEF CheckFlag, RequestsOK
        <5> QED
          BY <4>2, <5>1
      <4> QED
        BY <4>3, <4>4
    <3> QED
      BY <3>1, <3>2, <3>3, <3>4, <3>5, <3>6, <3>7 DEF CallStep
  <2>8. Own(p)'
    BY <1>0, <1>1, <2>3, <2>5, <2>6, <2>7, OwnMoves
  <2> QED
    BY <2>4, <2>5, <2>6, <2>8, OwnFrom
<1> QED
  BY <1>3, <1>4

(* A request that ends, or a process that is gone, leaves nothing behind.   *)
LEMMA OwnStop ==
  ASSUME Typed, OwnInv, NEW q \in Proc, StopStep(q)
  PROVE  OwnInv'
<1>0. pc \in [Proc -> Phases] /\ RequestsOK /\ LocalsOK /\ SegmentInv
  BY DEF Typed, TypeOK, OwnInv
<1>1. Forget(q) /\ pc' = [pc EXCEPT ![q] = "idle"] /\ UNCHANGED memory
  BY StopLoses
<1>2. /\ pc'[q] = "idle" /\ ~on'[q] /\ file'[q] = None
      /\ \A f \in Files : loaded'[q][f] = 0
  BY <1>0, <1>1 DEF Forget, Return, RequestsOK, LocalsOK
<1>3. \A p \in Proc \ {q} : SameLocals(p)
  BY <1>0, <1>1 DEF SameLocals, Forget, Return, RequestsOK, LocalsOK
<1>4. "idle" \notin InRequest \cup Publishing \cup Wiping
  BY DEF InRequest, Busy, Publishing, Discarding, Scheduling, Wiping
<1>5. SegmentInv' /\ BlocksKept
  BY <1>0, <1>1, <1>2, <1>3, <1>4, SegmentSame DEF memory, SameLocals
<1>6. Quiet => Quiet'
  BY <1>2, <1>3, <1>4 DEF Quiet, SameLocals
<1>7. Own(q)'
  BY <1>2, <1>4, OwnOutside
<1> QED
  BY <1>3, <1>5, <1>6, <1>7, OwnFrom

LEMMA OwnStep == Typed /\ OwnInv /\ [Next]_vars => OwnInv'
<1> SUFFICES ASSUME Typed, OwnInv, [Next]_vars
             PROVE  OwnInv'
  OBVIOUS
<1>1. ASSUME UNCHANGED <<memory, usage, pc, local, request>>
      PROVE  OwnInv'
  <2>1. \A q \in Proc : SameLocals(q)
    BY <1>1 DEF SameLocals, local, request
  <2>2. SegmentInv' /\ BlocksKept
    BY <1>1 DEF OwnInv, SegmentInv, BlocksKept, Holds, memory, local
  <2>3. Quiet => Quiet'
    BY <1>1 DEF Quiet
  <2> QED
    BY <2>1, <2>2, <2>3, OwnKept DEF OwnInv
<1>2. ASSUME NEW f \in Files, Edit(f)
      PROVE  OwnInv'
  BY <1>1, <1>2 DEF Edit
<1>3. CASE UNCHANGED vars
  BY <1>1, <1>3 DEF vars
<1> QED
  BY <1>2, <1>3, Steps, OwnStart, OwnCompile, OwnDiscard, OwnSchedule, OwnStore,
     OwnCall, OwnStop DEF WorkStep

LEMMA OwnAlways == Spec => [](Typed /\ OwnInv)
<1>1. Init => OwnInv
  BY DEF Init, OwnInv, SegmentInv, Own, Quiet, Wiping, Reads, Busy, Discarding,
         Scheduling, Publishing
<1> QED
  BY <1>1, OwnStep, AlwaysTyped, PTL DEF Spec

(* A request that had its read lock whenever a restart looked for one never *)
(* executes a block that holds something else than the script it loaded.    *)
THEOREM ScriptsCorrect == Spec => []RunsItsOwnScripts
<1>1. OwnInv => RunsItsOwnScripts
  BY DEF OwnInv, Own, RunsItsOwnScripts, Holds
<1> QED
  BY <1>1, OwnAlways, PTL

-------------------------------------------------------------------------------
(* A scheduled restart: the safety that RestartHappens rests on.            *)

(* The requests that use the cache.                                         *)
Cached == {p \in Proc : on[p]}

(* Only they hold byte 1, and only they work on the cache.                  *)
CachedInv ==
  /\ usage \subseteq Cached
  /\ \A p \in Proc : Reads(p) \/ pc[p] \in Busy => p \in Cached

NobodyEnters ==
  Whole(Wiping \cup TurningOff) /\ pending /\ (\A p \in Proc : pc[p] \notin TurningOff)
    => Cached' \subseteq Cached

(* The switch a request has copied is its own until it ends.                *)
LEMMA OnKept ==
  ASSUME [Next]_vars
  PROVE  \/ UNCHANGED on
         \/ \E p \in Proc : CopyEnabled(p)
         \/ \E p \in Proc : StopStep(p)
<1>1. ASSUME NEW p \in Proc, StartStep(p) PROVE UNCHANGED on \/ CopyEnabled(p)
  BY <1>1 DEF StartStep, RequestStart, ReadPending, AcquireAlloc, BeginRestart,
              SkipRestart, BeginKilling, StopKilling, EnterRestart, CleanHash,
              RestoreState, LeaveRestart, request
<1>2. ASSUME NEW p \in Proc, CompileStep(p) PROVE UNCHANGED on
  BY <1>2 DEF CompileStep, LookUp, Count, Hit, Outdated, Miss, Compile, request
<1>3. ASSUME NEW p \in Proc, DiscardStep(p) \/ ScheduleStep(p) PROVE UNCHANGED on
  BY <1>3 DEF DiscardStep, Discard, Invalidate, ClearDate, AddWaste, ScheduleStep,
              SetPending, RememberStatus, SwitchOff, SetForceTime, request
<1>4. ASSUME NEW p \in Proc, StoreStep(p) \/ CallStep(p) PROVE UNCHANGED on
  BY <1>4 DEF StoreStep, CallStep, UseExisting, NoRoom, Allocate, CopyIn, Publish,
              Measure, Include, CallReset, Reset, CallInvalidate, CheckFlag, Find,
              request
<1>5. ASSUME NEW f \in Files, Edit(f) PROVE UNCHANGED on
  BY <1>5 DEF Edit, request
<1>6. CASE UNCHANGED vars
  BY <1>6 DEF vars, request
<1> QED
  BY <1>1, <1>2, <1>3, <1>4, <1>5, <1>6, Steps DEF WorkStep

(* While a restart is scheduled the switch is off, for whoever copies it.   *)
LEMMA EnterStep == Typed /\ SwitchInv /\ [Next]_vars => NobodyEnters
<1> SUFFICES ASSUME Typed, SwitchInv, [Next]_vars, Whole(Wiping \cup TurningOff),
                    pending, \A p \in Proc : pc[p] \notin TurningOff
             PROVE  Cached' \subseteq Cached
  BY DEF NobodyEnters
<1>1. on \in [Proc -> BOOLEAN] /\ ~enabled
  BY DEF Typed, TypeOK, RequestsOK, SwitchInv, SwitchFollowsRestart
<1>2. CASE UNCHANGED on
  BY <1>2 DEF Cached
<1>3. ASSUME NEW p \in Proc, CopyEnabled(p) PROVE Cached' \subseteq Cached
  BY <1>1, <1>3 DEF CopyEnabled, Cached
<1>4. ASSUME NEW p \in Proc, StopStep(p) PROVE Cached' \subseteq Cached
  <2>1. on' = [on EXCEPT ![p] = FALSE]
    BY <1>4, StopLoses DEF Forget
  <2> QED
    BY <1>1, <2>1 DEF Cached
<1> QED
  BY <1>2, <1>3, <1>4, OnKept

LEMMA CachedStep == Typed /\ OwnInv /\ CachedInv /\ [Next]_vars => CachedInv'
<1> SUFFICES ASSUME Typed, OwnInv, CachedInv, [Next]_vars
             PROVE  CachedInv'
  OBVIOUS
<1>0. /\ pc \in [Proc -> Phases] /\ on \in [Proc -> BOOLEAN]
      /\ file \in [Proc -> Files \cup {None}] /\ usage \subseteq Proc
  BY DEF Typed, TypeOK, RequestsOK, LocksOK, LocalsOK
<1> USE DEF Cached, CachedInv
<1>1. ASSUME NEW p \in Proc, CopyEnabled(p) PROVE CachedInv'
  <2>1. pc[p] = "copying" /\ ~on[p] /\ file[p] = None /\ usage' = usage /\ file' = file
        /\ pc'[p] = "running"
    BY <1>0, <1>1
       DEF CopyEnabled, Step, local, OwnInv, Own, InRequest, Busy, Discarding,
           Scheduling, Publishing
  <2>2. \A q \in Proc : q # p => pc'[q] = pc[q] /\ on'[q] = on[q]
    BY <1>0, <1>1 DEF CopyEnabled, Step
  <2>3. ~Reads(p)' /\ pc'[p] \notin Busy
    BY <2>1 DEF Reads, Busy, Discarding, Scheduling, Publishing
  <2> QED
    BY <2>1, <2>2, <2>3 DEF Reads
<1>2. ASSUME NEW p \in Proc, StopStep(p) PROVE CachedInv'
  <2>1. /\ usage' = usage \ {p} /\ on' = [on EXCEPT ![p] = FALSE]
        /\ pc' = [pc EXCEPT ![p] = "idle"] /\ file' = [file EXCEPT ![p] = None]
    BY <1>2, StopLoses DEF Forget, Return
  <2>2. ~Reads(p)' /\ pc'[p] \notin Busy
    BY <1>0, <2>1 DEF Reads, Busy, Discarding, Scheduling, Publishing
  <2> QED
    BY <1>0, <2>1, <2>2 DEF Reads
<1>3. CASE UNCHANGED on
  <2>1. ASSUME NEW p \in Proc, \A q \in Proc \ {p} : pc'[q] = pc[q] /\ file'[q] = file[q],
               usage' \subseteq usage \cup {p},
               p \in Cached \/ (usage' = usage /\ ~Reads(p)' /\ pc'[p] \notin Busy)
        PROVE  CachedInv'
    BY <1>0, <1>3, <2>1 DEF Reads
  <2>2. ASSUME NEW p \in Proc, StartStep(p) PROVE CachedInv'
    <3>1. usage' = usage /\ file' = file /\ \A q \in Proc \ {p} : pc'[q] = pc[q]
      BY <1>0, <2>2
         DEF StartStep, RequestStart, ReadPending, AcquireAlloc, BeginRestart,
             SkipRestart, BeginKilling, StopKilling, EnterRestart, CleanHash,
             RestoreState, LeaveRestart, CopyEnabled, Step, local
    <3>2. pc'[p] \in Restarting \cup {"rinit", "waiting", "copying", "killing", "running"}
          /\ pc[p] \in Restarting \cup {"idle", "rinit", "waiting", "copying", "killing"}
      BY <1>0, <2>2
         DEF StartStep, RequestStart, ReadPending, AcquireAlloc, BeginRestart,
             SkipRestart, BeginKilling, StopKilling, EnterRestart, CleanHash,
             RestoreState, LeaveRestart, CopyEnabled, Step, Restarting
    <3>3. ~Reads(p)' /\ pc'[p] \notin Busy
      BY <3>2 DEF Restarting, Busy, Publishing, Reads, Discarding, Scheduling
    <3> QED
      BY <2>1, <3>1, <3>3
  <2>3. ASSUME NEW p \in Proc, CompileStep(p) \/ DiscardStep(p) \/ StoreStep(p)
                                 \/ CheckFlag(p) \/ Find(p)
        PROVE  CachedInv'
    <3>1. pc[p] \in Busy \/ pc[p] \in Discarding
      BY <2>3 DEF CompileStep, DiscardStep, StoreStep, LookUp, Count, Hit, Outdated,
                  Miss, Compile, Discard, Invalidate, ClearDate, AddWaste, UseExisting,
                  NoRoom, Allocate, CopyIn, Publish, Measure, CheckFlag, Find, Step,
                  Busy, Discarding, Publishing
    <3>2. p \in Cached
      BY <3>1 DEF Reads
    <3>3. CASE DiscardStep(p)
      <4>1. usage' = usage /\ \A q \in Proc \ {p} : pc'[q] = pc[q] /\ file'[q] = file[q]
        BY <1>0, <3>3, DiscardMoves DEF DiscardStep, Discard, Invalidate, ClearDate, AddWaste
      <4> QED
        BY <2>1, <3>2, <4>1
    <3>4. CASE ~DiscardStep(p)
      <4>1. /\ usage' \subseteq usage \cup {p}
            /\ \A q \in Proc \ {p} : pc'[q] = pc[q] /\ file'[q] = file[q]
        BY <1>0, <2>3, <3>4
           DEF CompileStep, StoreStep, LookUp, Count, Hit, Outdated, Miss, Compile,
               UseExisting, NoRoom, Allocate, CopyIn, Publish, Measure, CheckFlag, Find,
               Step, Return, local
      <4> QED
        BY <2>1, <3>2, <4>1
    <3> QED
      BY <3>3, <3>4
  <2>4. ASSUME NEW p \in Proc, ScheduleStep(p) PROVE CachedInv'
    <3>1. /\ UNCHANGED <<usage, local>> /\ pc[p] \in Scheduling
          /\ \E to \in {"remembering", "switching", "arming", "running", "stamping"} :
               /\ pc' = [pc EXCEPT ![p] = to]
               /\ to = "stamping" => file[p] # None
               /\ to = "running" => file[p] = None
      BY <2>4, ScheduleStepMoves
    <3>2. /\ \A q \in Proc \ {p} : pc'[q] = pc[q] /\ file' = file /\ usage' = usage
          /\ pc'[p] \in {"remembering", "switching", "arming", "running", "stamping"}
          /\ pc'[p] = "stamping" => file[p] # None
          /\ file' = file /\ usage' = usage
      BY <1>0, <3>1 DEF local
    <3>3. CASE file[p] # None
      BY <2>1, <3>1, <3>2, <3>3 DEF Reads
    <3>4. CASE file[p] = None
      <4>1. ~Reads(p)' /\ pc'[p] \notin Busy
        BY <3>2, <3>4 DEF Reads, Busy, Publishing, Discarding
      <4> QED
        BY <2>1, <3>2, <4>1
    <3> QED
      BY <3>3, <3>4
  <2>5. ASSUME NEW p \in Proc, NEW f \in Files, Include(p, f) PROVE CachedInv'
    <3>1. usage' = usage /\ \A q \in Proc \ {p} : pc'[q] = pc[q] /\ file'[q] = file[q]
      BY <1>0, <2>5 DEF Include
    <3>2. CASE UNCHANGED <<pc, file>>
      BY <1>3, <3>1, <3>2 DEF Reads
    <3>3. CASE on[p]
      BY <2>1, <3>1, <3>3
    <3> QED
      BY <2>5, <3>2, <3>3 DEF Include
  <2>6. ASSUME NEW p \in Proc, NEW f \in Files, CallInvalidate(p, f) PROVE CachedInv'
    <3>1. /\ on[p] /\ usage' = usage \cup {p}
          /\ \A q \in Proc \ {p} : pc'[q] = pc[q] /\ file'[q] = file[q]
      BY <1>0, <2>6 DEF CallInvalidate, Step
    <3> QED
      BY <2>1, <3>1
  <2>7. ASSUME NEW p \in Proc, CallReset(p) \/ Reset(p) PROVE CachedInv'
    <3>1. file[p] = None /\ file' = file /\ usage' = usage
      BY <2>7 DEF CallReset, Reset, Step, local, OwnInv, Own, Busy, Discarding,
                  Scheduling, Publishing
    <3>2. /\ \A q \in Proc \ {p} : pc'[q] = pc[q]
          /\ pc'[p] \in {"resetting", "scheduling", "running"}
      BY <1>0, <2>7, <3>1 DEF CallReset, Reset, Step, Schedule, Unlock
    <3>3. ~Reads(p)' /\ pc'[p] \notin Busy
      BY <3>1, <3>2 DEF Reads, Busy, Publishing, Discarding
    <3> QED
      BY <2>1, <3>1, <3>2, <3>3
  <2>8. ASSUME NEW f \in Files, Edit(f) PROVE CachedInv'
    BY <1>3, <2>8 DEF Edit, local, Reads
  <2>9. CASE UNCHANGED vars
    BY <2>9 DEF vars, request, local, Reads
  <2>10. ASSUME NEW p \in Proc, StopStep(p) PROVE CachedInv'
    BY <1>2, <2>10
  <2> QED
    BY <2>2, <2>3, <2>4, <2>5, <2>6, <2>7, <2>8, <2>9, <2>10, Steps DEF WorkStep, CallStep
<1> QED
  BY <1>1, <1>2, <1>3, OnKept

(* Once the switch is off, the requests that a scheduled restart may have to*)
(* wait for are some of those that had started before, and every one that   *)
(* ends makes them fewer: no later request takes the read lock or works on  *)
(* the cache.                                                               *)
THEOREM ReadersDwindle ==
  Spec => [](usage \subseteq Cached) /\ [][NobodyEnters]_vars
<1>1. Init => CachedInv
  BY OpcacheAssumption
     DEF Init, CachedInv, Reads, Busy, Discarding, Scheduling, Publishing
<1>2. Typed /\ OwnInv /\ CachedInv /\ [Next]_vars => CachedInv'
  BY CachedStep
<1>3. Typed /\ SwitchInv /\ [Next]_vars => NobodyEnters
  BY EnterStep
<1>4. CachedInv => usage \subseteq Cached
  BY DEF CachedInv
<1> QED
  BY <1>1, <1>2, <1>3, <1>4, OwnAlways, SwitchAlways, PTL DEF Spec

-------------------------------------------------------------------------------
(* Every file has one usable script.                                        *)

(* A usable script is the one its file's entry leads to, or the one that a  *)
(* worker is about to link; until then its file has no usable one.          *)
OneInv ==
  /\ Quiet /\ Whole(Wiping \cup {"linking"}) =>
       \A b \in 1 .. top : mem[b].file # None /\ ~mem[b].corrupted
         => \/ hash[mem[b].file] = b
            \/ b = top /\ \E p \in Proc : pc[p] = "linking"
  /\ \A p \in Proc : pc[p] \in {"copying in", "linking"} => ~Stored(file[p])

(* Scripts stay usable, or cease to be.                                     *)
LEMMA OneSame ==
  ASSUME Typed, OneInv, UNCHANGED <<hash, top>>,
         \A b \in Blocks : /\ mem'[b].file = mem[b].file
                           /\ mem[b].corrupted => mem'[b].corrupted,
         Quiet' /\ Whole(Wiping \cup {"linking"})'
           => /\ Quiet /\ Whole(Wiping \cup {"linking"})
              /\ \A q \in Proc : pc[q] = "linking" => pc'[q] = "linking",
         \A q \in Proc : pc'[q] \in {"copying in", "linking"}
           => pc'[q] = pc[q] /\ file'[q] = file[q]
  PROVE  OneInv'
<1>1. top \in 0 .. Capacity /\ hash \in [Files -> 0 .. Capacity]
      /\ mem \in [Blocks -> Script]
  BY DEF Typed, TypeOK, SegmentOK
<1>2. ASSUME Quiet', Whole(Wiping \cup {"linking"})', NEW b \in 1 .. top',
             mem'[b].file # None, ~mem'[b].corrupted
      PROVE  \/ hash'[mem'[b].file] = b
             \/ b = top' /\ \E q \in Proc : pc'[q] = "linking"
  <2>1. b \in Blocks
    BY <1>1, GivenOut
  <2>2. mem[b].file # None /\ ~mem[b].corrupted /\ mem'[b].file = mem[b].file
    BY <1>2, <2>1
  <2>3. \/ hash[mem[b].file] = b
        \/ b = top /\ \E q \in Proc : pc[q] = "linking"
    BY <1>2, <2>2 DEF OneInv
  <2> QED
    BY <1>2, <2>2, <2>3
<1>3. ASSUME NEW q \in Proc, pc'[q] \in {"copying in", "linking"}
      PROVE  ~Stored(file[q])'
  <2>1. ~Stored(file[q]) /\ file'[q] = file[q] /\ file[q] \in Files
    BY <1>3 DEF OneInv, Typed, Working, Busy, Publishing
  <2>2. hash[file[q]] # 0 => hash[file[q]] \in Blocks
    <3>1. hash[file[q]] \in 0 .. Capacity
      BY <1>1, <2>1
    <3> QED
      BY <3>1, GivenOut
  <2> QED
    BY <2>1, <2>2 DEF Stored
<1> QED
  BY <1>2, <1>3 DEF OneInv

LEMMA OneStart ==
  ASSUME Typed, OneInv, NEW p \in Proc, StartStep(p)
  PROVE  OneInv'
<1>0. pc \in [Proc -> Phases] /\ lost' = lost
  BY DEF Typed, TypeOK, StartStep, RequestStart, ReadPending, AcquireAlloc,
         BeginRestart, SkipRestart, BeginKilling, StopKilling, EnterRestart,
         CleanHash, RestoreState, LeaveRestart, CopyEnabled, world
<1>1. ASSUME CleanHash(p) \/ RestoreState(p)
      PROVE  \A q \in Proc : pc'[q] \notin Publishing
  <2>1. pc[p] \in Holding /\ pc'[p] \in {"restoring", "leaving"}
        /\ \A q \in Proc \ {p} : pc'[q] = pc[q]
    BY <1>0, <1>1 DEF CleanHash, RestoreState, Step, Holding, Restarting
  <2> QED
    BY <2>1, HolderAlone DEF Holding, Publishing
<1>2. CASE CleanHash(p)
  <2>1. ~Quiet'
    BY <1>0, <1>2 DEF CleanHash, Step, Quiet, Wiping
  <2> QED
    BY <1>1, <1>2, <2>1 DEF OneInv, Publishing
<1>3. CASE RestoreState(p)
  <2>1. 1 .. top' = {}
    BY <1>3 DEF RestoreState
  <2> QED
    BY <1>1, <1>3, <2>1 DEF OneInv, Publishing
<1>4. CASE ~CleanHash(p) /\ ~RestoreState(p)
  <2>1. UNCHANGED <<mem, hash, top, file>>
    BY <1>4 DEF StartStep, RequestStart, ReadPending, AcquireAlloc, BeginRestart,
                SkipRestart, BeginKilling, StopKilling, EnterRestart,
                LeaveRestart, CopyEnabled, memory, local
  <2>2. /\ pc[p] \notin Wiping \/ pc'[p] \in Wiping
        /\ \A q \in Proc \ {p} : pc'[q] = pc[q]
        /\ pc'[p] \notin {"linking", "copying in"} /\ pc[p] # "linking"
    BY <1>0, <1>4 DEF StartStep, RequestStart, ReadPending, AcquireAlloc, Step,
                BeginRestart, SkipRestart, BeginKilling, StopKilling, Wiping,
                EnterRestart, LeaveRestart, CopyEnabled
  <2>3. Quiet' => Quiet
    BY <2>2 DEF Quiet
  <2>4. Whole(Wiping \cup {"linking"})' => Whole(Wiping \cup {"linking"})
    BY <1>0 DEF Whole
  <2> QED
    BY <2>1, <2>2, <2>3, <2>4, OneSame
<1> QED
  BY <1>2, <1>3, <1>4

(* The steps that store nothing.                                            *)
LEMMA OneUse ==
  ASSUME Typed, OneInv, NEW p \in Proc,
         \/ CompileStep(p) \/ DiscardStep(p) \/ ScheduleStep(p) \/ CallStep(p)
         \/ UseExisting(p) \/ NoRoom(p) \/ Measure(p)
  PROVE  OneInv'
<1>0. /\ pc \in [Proc -> Phases] /\ file \in [Proc -> Files \cup {None}]
      /\ SegmentOK
  BY DEF Typed, TypeOK, LocalsOK
<1>1. /\ UNCHANGED <<hash, top, lost>>
      /\ \A b \in Blocks : /\ mem'[b].file = mem[b].file
                           /\ mem[b].corrupted => mem'[b].corrupted
  <2>1. CASE CompileStep(p)
    BY <2>1 DEF CompileStep, LookUp, Count, Hit, Outdated, Miss, Compile, memory, world
  <2>2. CASE DiscardStep(p)
    <3>1. lost' = lost
      BY <2>2 DEF DiscardStep, Discard, Invalidate, ClearDate, AddWaste, world
    <3> QED
      BY <2>2, <3>1, DiscardMemory
  <2>3. CASE ScheduleStep(p)
    BY <2>3, ScheduleStepMoves DEF memory, world
  <2>4. CASE CallStep(p)
    BY <2>4 DEF CallStep, CallReset, Reset, CheckFlag, Find, Include, CallInvalidate,
                memory, world
  <2>5. CASE UseExisting(p) \/ NoRoom(p)
    BY <2>5 DEF UseExisting, NoRoom, memory, world
  <2>6. CASE Measure(p)
    <3>1. top \in Blocks /\ mem' = [mem EXCEPT ![top].size = 1]
      BY <2>6 DEF Measure, Step, Typed, Working, Publishing
    <3>2. \A b \in Blocks : /\ mem'[b].file = mem[b].file
                            /\ mem[b].corrupted => mem'[b].corrupted
      BY <1>0, <3>1 DEF SegmentOK, Script
    <3> QED
      BY <2>6, <3>2 DEF Measure, world
  <2> QED
    BY <2>1, <2>2, <2>3, <2>4, <2>5, <2>6
<1>2. pc[p] \notin Wiping \cup {"linking", "copying in"}
  BY DEF CompileStep, LookUp, Count, Hit, Outdated, Miss, Compile, DiscardStep, Discard,
         Invalidate, ClearDate, AddWaste, ScheduleStep, SetPending, RememberStatus,
         SwitchOff, SetForceTime, CallStep, CallReset, Reset, CheckFlag, Find, Include,
         CallInvalidate, UseExisting, NoRoom, Measure, Step, Wiping
<1>3. /\ \A q \in Proc \ {p} : pc'[q] = pc[q] /\ file'[q] = file[q]
      /\ pc'[p] \notin {"linking", "copying in"}
  <2>1. CASE CompileStep(p)
    BY <1>0, <2>1 DEF CompileStep, LookUp, Count, Hit, Outdated, Miss, Compile, Step,
                      Return, local
  <2>2. CASE DiscardStep(p)
    BY <1>0, <2>2, DiscardMoves
  <2>3. CASE ScheduleStep(p)
    BY <1>0, <2>3, ScheduleStepMoves DEF local
  <2>4. CASE CallStep(p)
    <3>1. \A q \in Proc \ {p} : file'[q] = file[q]
      BY <1>0, <2>4 DEF CallStep, CallReset, Reset, CheckFlag, Find, Include,
                        CallInvalidate, Return, local
    <3> QED
      BY <1>0, <1>2, <2>4, <3>1, CallMoves
  <2>5. CASE UseExisting(p) \/ NoRoom(p) \/ Measure(p)
    BY <1>0, <2>5 DEF UseExisting, NoRoom, Measure, Step, Return, local
  <2> QED
    BY <2>1, <2>2, <2>3, <2>4, <2>5
<1>4. Quiet' => Quiet
  BY <1>2, <1>3 DEF Quiet
<1>5. Whole(Wiping \cup {"linking"})' => Whole(Wiping \cup {"linking"})
  BY <1>1 DEF Whole
<1> QED
  BY <1>1, <1>2, <1>3, <1>4, <1>5, OneSame

LEMMA OneStore ==
  ASSUME Typed, OwnInv, OneInv, NEW p \in Proc,
         Allocate(p) \/ CopyIn(p) \/ Publish(p)
  PROVE  OneInv'
<1>0. /\ pc \in [Proc -> Phases] /\ SegmentOK /\ SegmentInv /\ lost' = lost
      /\ UNCHANGED local
  BY DEF Typed, TypeOK, Allocate, CopyIn, Publish, world, OwnInv
<1>1. Whole(Wiping \cup {"linking"})' <=> Whole(Wiping \cup {"linking"})
  BY <1>0 DEF Whole
<1>2. /\ \A q \in Proc \ {p} : pc'[q] = pc[q] /\ pc[q] \notin Holding
      /\ Quiet
  <2>1. pc[p] \in Holding \/ allocLock = None
    BY DEF Allocate, CopyIn, Publish, Step, Holding, Publishing
  <2>2. pc[p] \notin Wiping
    BY DEF Allocate, CopyIn, Publish, Step, Wiping
  <2> QED
    BY <1>0, <2>1, <2>2, HolderAlone DEF Allocate, CopyIn, Publish, Step
<1>3. \A q \in Proc \ {p} : pc'[q] \notin Publishing
  BY <1>2 DEF Holding
<1>4. /\ file[p] \in Files /\ top \in 0 .. Capacity /\ mem \in [Blocks -> Script]
      /\ hash \in [Files -> 0 .. Capacity]
      /\ hash[file[p]] # 0 => Holds(file[p], hash[file[p]])
      /\ \A b \in 1 .. top : b \in Blocks /\ b # top + 1
  BY <1>0, GivenOut
     DEF Typed, Working, Busy, Publishing, Allocate, CopyIn, Publish, Step, SegmentOK,
         SegmentInv
<1>5. CASE Allocate(p)
  <2>1. /\ hash' = hash /\ top' = top + 1 /\ pc'[p] = "copying in"
        /\ mem' = [mem EXCEPT ![top + 1] = Zeroed] /\ ~Stored(file[p])
        /\ top + 1 \in Blocks
    BY <1>0, <1>4, <1>5, NextBlock DEF Allocate, Step
  <2>2. mem'[top + 1].file = None /\ \A b \in 1 .. top : mem'[b] = mem[b]
    BY <1>4, <2>1 DEF Zeroed
  <2>3. ~Stored(file[p])'
    BY <1>0, <1>4, <2>1, <2>2 DEF Stored, Holds, local
  <2>4. \A q \in Proc : pc[q] # "linking"
    BY <1>2, <1>5 DEF Allocate, Step, Holding, Publishing
  <2>5. ASSUME Whole(Wiping \cup {"linking"})', NEW b \in 1 .. top', mem'[b].file # None,
               ~mem'[b].corrupted
        PROVE  hash'[mem'[b].file] = b
    <3>1. b # top + 1
      BY <2>2, <2>5
    <3>2. b \in 1 .. top
      BY <1>4, <2>1, <3>1, GivenOut
    <3>3. hash[mem[b].file] = b
      BY <1>1, <1>2, <2>2, <2>4, <2>5, <3>2 DEF OneInv
    <3> QED
      BY <2>1, <2>2, <3>2, <3>3
  <2> QED
    BY <1>3, <2>1, <2>3, <2>5 DEF OneInv, Publishing
<1>6. CASE CopyIn(p)
  <2>1. /\ UNCHANGED <<hash, top>> /\ pc'[p] = "linking" /\ pc[p] = "copying in"
        /\ mem[top].file = None /\ \A b \in Blocks \ {top} : mem'[b] = mem[b]
        /\ ~Stored(file[p])
    BY <1>0, <1>4, <1>6 DEF CopyIn, Step, SegmentInv, OneInv
  <2>2. ~Stored(file[p])'
    <3>1. hash[file[p]] # 0 => hash[file[p]] # top /\ hash[file[p]] \in Blocks
      BY <1>4, <2>1, OpcacheAssumption DEF Holds
    <3> QED
      BY <1>0, <1>4, <2>1, <3>1 DEF Stored, local
  <2>3. \A q \in Proc : pc[q] # "linking"
    BY <1>2, <2>1 DEF Holding, Publishing
  <2>4. ASSUME Whole(Wiping \cup {"linking"})', NEW b \in 1 .. top', mem'[b].file # None,
               ~mem'[b].corrupted, b # top'
        PROVE  hash'[mem'[b].file] = b
    <3>1. b \in 1 .. top /\ mem'[b] = mem[b]
      BY <1>4, <2>1, <2>4
    <3> QED
      BY <1>1, <1>2, <2>1, <2>3, <2>4, <3>1 DEF OneInv
  <2> QED
    BY <1>3, <2>1, <2>2, <2>4 DEF OneInv, Publishing
<1>7. CASE Publish(p)
  <2>1. /\ UNCHANGED <<mem, top>> /\ pc'[p] = "measuring" /\ pc[p] = "linking"
        /\ mem[top].file = file[p] /\ hash' = [hash EXCEPT ![file[p]] = top]
        /\ ~Stored(file[p])
    BY <1>0, <1>7 DEF Publish, Step, SegmentInv, OneInv
  <2>2. ASSUME Whole(Wiping \cup {"linking"})', NEW b \in 1 .. top', mem'[b].file # None,
               ~mem'[b].corrupted
        PROVE  hash'[mem'[b].file] = b
    <3>1. b \in 1 .. top /\ b \in Blocks /\ b # 0 /\ mem[b].file \in Files
      BY <1>4, <2>1, <2>2 DEF Script, Blocks
    <3>2. CASE b = top
      BY <1>4, <2>1, <3>2
    <3>3. CASE b # top
      <4>1. hash[mem[b].file] = b
        BY <1>1, <1>2, <2>1, <2>2, <3>1, <3>3 DEF OneInv
      <4>2. mem[b].file # file[p]
        BY <2>1, <2>2, <3>1, <4>1 DEF Stored
      <4> QED
        BY <1>4, <2>1, <3>1, <4>1, <4>2
    <3> QED
      BY <3>2, <3>3
  <2> QED
    BY <1>3, <2>1, <2>2 DEF OneInv, Publishing
<1> QED
  BY <1>5, <1>6, <1>7

LEMMA OneStep == Typed /\ OwnInv /\ OneInv /\ [Next]_vars => OneInv'
<1> SUFFICES ASSUME Typed, OwnInv, OneInv, [Next]_vars
             PROVE  OneInv'
  OBVIOUS
<1>0. pc \in [Proc -> Phases] /\ LocalsOK
  BY DEF Typed, TypeOK
<1>1. ASSUME NEW q \in Proc, StopStep(q)
      PROVE  OneInv'
  <2>1. Forget(q) /\ pc' = [pc EXCEPT ![q] = "idle"] /\ UNCHANGED memory
        /\ lost' = lost \cup (Unfinished \cap {pc[q]})
    BY <1>1, StopLoses
  <2>2. \A r \in Proc : pc'[r] \in {"copying in", "linking"}
          => pc'[r] = pc[r] /\ file'[r] = file[r]
    BY <1>0, <2>1 DEF Forget, Return, LocalsOK
  <2>3. ASSUME Quiet', Whole(Wiping \cup {"linking"})'
        PROVE  /\ Quiet /\ Whole(Wiping \cup {"linking"})
               /\ \A r \in Proc : pc[r] = "linking" => pc'[r] = "linking"
    <3>1. Whole(Wiping \cup {"linking"}) /\ pc[q] \notin Wiping \cup {"linking"}
      BY <2>1, <2>3, WholeStop, Changes
    <3> QED
      BY <1>0, <2>1, <2>3, <3>1 DEF Quiet
  <2> QED
    BY <2>1, <2>2, <2>3, OneSame DEF memory
<1>2. ASSUME UNCHANGED <<memory, pc, local, lost>>
      PROVE  OneInv'
  BY <1>2 DEF OneInv, Stored, Quiet, Whole, memory, local
<1>3. ASSUME NEW f \in Files, Edit(f)
      PROVE  OneInv'
  BY <1>2, <1>3 DEF Edit
<1>4. CASE UNCHANGED vars
  BY <1>2, <1>4 DEF vars, world
<1> QED
  BY <1>1, <1>3, <1>4, Steps, OneStart, OneUse, OneStore DEF WorkStep, StoreStep

(* However many workers compile a file at once, one usable script of it is  *)
(* kept, unless a worker dies with the cache half emptied or before it has  *)
(* linked what it stored.                                                   *)
THEOREM OneScriptCorrect == Spec => []OneScriptPerFile
<1>1. Init => OneInv
  BY DEF Init, OneInv
<1>2. Typed /\ OwnInv /\ OneInv /\ [Next]_vars => OneInv'
  BY OneStep
<1>3. ASSUME Typed, OwnInv, OneInv
      PROVE  OneScriptPerFile
  <2> SUFFICES ASSUME Quiet, Whole(Wiping \cup {"linking"}), NEW b \in 1 .. top,
                      NEW c \in 1 .. top, mem[b].file # None,
                      mem[b].file = mem[c].file, ~mem[b].corrupted, ~mem[c].corrupted
               PROVE  b = c
    BY DEF OneScriptPerFile
  <2>1. ASSUME NEW d \in {b, c}, hash[mem[b].file] = d
        PROVE  \A p \in Proc : pc[p] = "linking" => mem[top].file # mem[b].file
    <3>1. Stored(mem[b].file)
      <4>1. d # 0
        OBVIOUS
      <4> QED
        BY <2>1, <4>1 DEF Stored
    <3> QED
      BY <1>3, <3>1 DEF OneInv, OwnInv, SegmentInv
  <2>2. ASSUME NEW d \in {b, c}, hash[mem[b].file] # d
        PROVE  d = top /\ \E p \in Proc : pc[p] = "linking"
    BY <1>3, <2>2 DEF OneInv
  <2> QED
    BY <2>1, <2>2
<1> QED
  BY <1>1, <1>2, <1>3, OwnAlways, PTL DEF Spec

-------------------------------------------------------------------------------
(* The waste.                                                               *)

(* The blocks that the count of the waste has to account for: discarded ones*)
(* and those whose size is not known, which will count nothing when they are*)
(* discarded, but for the one that is being filled.                         *)
Filling(b) == b = top /\ \E p \in Proc : pc[p] \in Publishing

Claimed ==
  {b \in 1 .. top : mem[b].corrupted \/ (mem[b].size = 0 /\ ~Filling(b))}

(* What the worker that discards a script has yet to count.                 *)
Owed ==
  IF allocLock # None /\ pc[allocLock] \in Discarding
    THEN mem[found[allocLock]].size ELSE 0

(* What died with workers.                                                  *)
Torn == IF Whole(Discarding \cup Publishing) THEN 0 ELSE deaths

Accounted == wasted + Owed + Torn

WasteInv == Quiet /\ Whole(Wiping) => Cardinality(Claimed) <= Accounted

LEMMA ClaimedFinite ==
  ASSUME Typed
  PROVE  IsFiniteSet(Claimed) /\ Cardinality(Claimed) \in Nat /\ Claimed \subseteq Blocks
<1>1. top \in 0 .. Capacity /\ Capacity \in Nat
  BY OpcacheAssumption DEF Typed, TypeOK, SegmentOK
<1>2. IsFiniteSet(1 .. top)
  BY <1>1, FS_Interval
<1>3. Claimed \subseteq 1 .. top
  BY DEF Claimed
<1>4. Claimed \subseteq Blocks
  BY <1>1, <1>3, GivenOut
<1> QED
  BY <1>2, <1>3, <1>4, FS_Subset, FS_CardinalityType

WasteTyped ==
  /\ wasted \in Nat /\ Owed \in {0, 1} /\ Torn \in Nat /\ deaths \in Nat
  /\ Accounted \in Nat
  /\ mem \in [Blocks -> Script] /\ top \in 0 .. Capacity
  /\ \A b \in Blocks : mem[b].size \in {0, 1}

LEMMA WasteTypes == Typed => WasteTyped
<1> SUFFICES ASSUME Typed PROVE WasteTyped
  OBVIOUS
<1>1. /\ wasted \in Nat /\ mem \in [Blocks -> Script] /\ deaths \in Nat
      /\ top \in 0 .. Capacity /\ allocLock \in Proc \cup {None}
  BY OpcacheAssumption DEF Typed, TypeOK, SegmentOK, BoundsOK, LocksOK
<1>2. \A b \in Blocks : mem[b].size \in {0, 1}
  BY <1>1 DEF Script
<1>3. allocLock # None /\ pc[allocLock] \in Discarding => found[allocLock] \in Blocks
  BY <1>1 DEF Typed, Working, Looked
<1>4. Owed \in {0, 1} /\ Torn \in Nat
  BY <1>1, <1>2, <1>3 DEF Owed, Torn
<1>5. Accounted \in Nat
  BY <1>1, <1>4 DEF Accounted
<1> QED
  BY <1>1, <1>2, <1>4, <1>5 DEF WasteTyped

(* As long as the claims do not grow, and nothing counted is lost.          *)
LEMMA WasteSame ==
  ASSUME Typed, Typed', WasteInv, Claimed' \subseteq Claimed,
         Quiet' /\ Whole(Wiping)' => Quiet /\ Whole(Wiping),
         Accounted <= Accounted'
  PROVE  WasteInv'
<1>1. /\ IsFiniteSet(Claimed) /\ Cardinality(Claimed) \in Nat
      /\ Cardinality(Claimed') <= Cardinality(Claimed) /\ Cardinality(Claimed') \in Nat
  BY ClaimedFinite, FS_Subset, FS_CardinalityType
<1>2. Accounted \in Nat
  BY WasteTypes DEF WasteTyped
<1>3. Accounted' \in Nat
  <2>1. WasteTyped'
    BY WasteTypes, PTL
  <2> QED
    BY <2>1 DEF WasteTyped
<1> DEFINE c == Cardinality(Claimed)
           d == Cardinality(Claimed')
           s == Accounted
           t == Accounted'
<1>4. ASSUME Quiet', Whole(Wiping)'
      PROVE  d <= t
  <2>1. c <= s
    BY <1>4 DEF WasteInv
  <2>2. c \in Nat /\ d \in Nat /\ s \in Nat /\ t \in Nat /\ d <= c /\ s <= t
    BY <1>1, <1>2, <1>3
  <2> HIDE DEF c, d, s, t
  <2> QED
    BY <2>1, <2>2
<1> QED
  BY <1>4 DEF WasteInv

(* One more claim, and one more owed or torn.                               *)
LEMMA WasteMore ==
  ASSUME Typed, Typed', WasteInv, NEW x, Claimed' \subseteq Claimed \cup {x},
         Quiet' /\ Whole(Wiping)' => Quiet /\ Whole(Wiping),
         Accounted + 1 <= Accounted'
  PROVE  WasteInv'
<1>1. /\ IsFiniteSet(Claimed \cup {x})
      /\ Cardinality(Claimed \cup {x}) <= Cardinality(Claimed) + 1
      /\ Cardinality(Claimed) \in Nat
  BY ClaimedFinite, FS_AddElement
<1>2. /\ Cardinality(Claimed') <= Cardinality(Claimed \cup {x})
      /\ Cardinality(Claimed \cup {x}) \in Nat
      /\ Cardinality(Claimed') \in Nat
  BY <1>1, FS_Subset, FS_CardinalityType
<1>3. Accounted \in Nat
  BY WasteTypes DEF WasteTyped
<1>4. Accounted' \in Nat
  <2>1. WasteTyped'
    BY WasteTypes, PTL
  <2> QED
    BY <2>1 DEF WasteTyped
<1> DEFINE c == Cardinality(Claimed)
           u == Cardinality(Claimed \cup {x})
           d == Cardinality(Claimed')
           s == Accounted
           t == Accounted'
<1>5. ASSUME Quiet', Whole(Wiping)'
      PROVE  d <= t
  <2>1. c <= s
    BY <1>5 DEF WasteInv
  <2>2. /\ c \in Nat /\ d \in Nat /\ s \in Nat /\ t \in Nat /\ u \in Nat
        /\ d <= u /\ u <= c + 1 /\ s + 1 <= t
    BY <1>1, <1>2, <1>3, <1>4
  <2> HIDE DEF c, d, s, t, u
  <2> QED
    BY <2>1, <2>2
<1> QED
  BY <1>5 DEF WasteInv

LEMMA OwedBy ==
  ASSUME Typed, NEW p \in Proc, pc[p] \in Discarding
  PROVE  Owed = mem[found[p]].size /\ found[p] \in Blocks
BY OpcacheAssumption DEF Typed, Locks, Holding, Owed, Working, Looked

LEMMA OwedByNone ==
  ASSUME Typed, \A q \in Proc : pc[q] \notin Discarding
  PROVE  Owed = 0
BY DEF Typed, TypeOK, LocksOK, Owed

(* The steps that neither fill blocks nor discard scripts.                  *)
LEMMA WasteUse ==
  ASSUME Typed, Typed', WasteInv, UNCHANGED <<mem, top, wasted, lost, deaths>>,
         NEW p \in Proc, \A q \in Proc \ {p} : pc'[q] = pc[q] /\ found'[q] = found[q],
         pc[p] \notin Discarding \cup Publishing, pc'[p] \notin Discarding \cup Publishing,
         pc[p] \in Wiping => pc'[p] \in Wiping
  PROVE  WasteInv'
<1>1. \A b : Filling(b)' <=> Filling(b)
  BY DEF Filling
<1>2. Claimed' = Claimed
  BY <1>1 DEF Claimed
<1>3. Quiet' => Quiet
  BY DEF Quiet
<1>4. Torn' = Torn /\ (Whole(Wiping)' <=> Whole(Wiping))
  BY DEF Torn, Whole
<1>5. Owed' = Owed
  <2>1. CASE \E q \in Proc : pc[q] \in Discarding
    <3>1. PICK q \in Proc : pc[q] \in Discarding
      BY <2>1
    <3>2. q # p /\ pc'[q] \in Discarding /\ found'[q] = found[q]
      BY <3>1
    <3>3. Owed' = mem'[found'[q]].size
      BY <3>2, OpcacheAssumption DEF Typed, Locks, Holding, Owed
    <3> QED
      BY <3>1, <3>2, <3>3, OwedBy
  <2>2. CASE \A q \in Proc : pc[q] \notin Discarding
    <3>1. \A q \in Proc : pc'[q] \notin Discarding
      BY <2>2
    <3>2. Owed' = 0
      BY <3>1 DEF Typed, TypeOK, LocksOK, Owed
    <3> QED
      BY <2>2, <3>2, OwedByNone
  <2> QED
    BY <2>1, <2>2
<1>6. Accounted <= Accounted'
  BY <1>4, <1>5, WasteTypes DEF WasteTyped, Accounted
<1> QED
  BY <1>2, <1>3, <1>4, <1>6, WasteSame

LEMMA WasteStart ==
  ASSUME Typed, Typed', WasteInv, NEW p \in Proc, StartStep(p)
  PROVE  WasteInv'
<1>0. pc \in [Proc -> Phases]
  BY DEF Typed, TypeOK
<1>1. CASE CleanHash(p)
  <2>1. ~Quiet'
    BY <1>0, <1>1 DEF CleanHash, Step, Quiet, Wiping
  <2> QED
    BY <2>1 DEF WasteInv
<1>2. CASE RestoreState(p)
  <2>1. Claimed' = {}
    BY <1>2 DEF RestoreState, Claimed
  <2>2. Cardinality(Claimed') = 0
    BY <2>1, FS_EmptySet
  <2>3. WasteTyped'
    BY WasteTypes, PTL
  <2>4. 0 <= Accounted'
    BY <2>3 DEF WasteTyped
  <2> QED
    BY <2>2, <2>4 DEF WasteInv
<1>3. CASE ~CleanHash(p) /\ ~RestoreState(p)
  <2>1. UNCHANGED <<mem, top, wasted, lost, deaths, found>>
    BY <1>3 DEF StartStep, RequestStart, ReadPending, AcquireAlloc, BeginRestart,
                SkipRestart, BeginKilling, StopKilling, EnterRestart,
                LeaveRestart, CopyEnabled, memory, local, world
  <2>2. /\ pc[p] \in Wiping => pc'[p] \in Wiping
        /\ \A q \in Proc \ {p} : pc'[q] = pc[q]
        /\ pc'[p] \notin Discarding \cup Publishing /\ pc[p] \notin Discarding \cup Publishing
    BY <1>0, <1>3 DEF StartStep, RequestStart, ReadPending, AcquireAlloc, Step,
                BeginRestart, SkipRestart, BeginKilling, StopKilling, Wiping,
                EnterRestart, LeaveRestart, CopyEnabled, Discarding, Publishing
  <2> QED
    BY <2>1, <2>2, WasteUse
<1> QED
  BY <1>1, <1>2, <1>3

LEMMA WasteOther ==
  ASSUME Typed, Typed', WasteInv, NEW p \in Proc,
         \/ CompileStep(p) \/ ScheduleStep(p) \/ CallStep(p)
         \/ UseExisting(p) \/ NoRoom(p)
  PROVE  WasteInv'
<1>0. /\ pc \in [Proc -> Phases] /\ found \in [Proc -> 0 .. Capacity]
  BY DEF Typed, TypeOK, LocalsOK
<1>1. UNCHANGED <<mem, top, wasted, lost, deaths>>
  <2>1. CASE CompileStep(p)
    BY <2>1 DEF CompileStep, LookUp, Count, Hit, Outdated, Miss, Compile, memory, world
  <2>2. CASE ScheduleStep(p)
    BY <2>2, ScheduleStepMoves DEF memory, world
  <2>3. CASE CallStep(p)
    BY <2>3 DEF CallStep, CallReset, Reset, CheckFlag, Find, Include, CallInvalidate,
                memory, world
  <2>4. CASE UseExisting(p) \/ NoRoom(p)
    BY <2>4 DEF UseExisting, NoRoom, memory, world
  <2> QED
    BY <2>1, <2>2, <2>3, <2>4
<1>2. pc[p] \notin Wiping \cup Discarding \cup Publishing
  BY DEF CompileStep, LookUp, Count, Hit, Outdated, Miss, Compile,
         ScheduleStep, SetPending, RememberStatus, SwitchOff, SetForceTime, CallStep,
         CallReset, Reset, CheckFlag, Find, Include, CallInvalidate, UseExisting, NoRoom,
         Step, Wiping, Discarding, Publishing
<1>3. /\ \A q \in Proc \ {p} : pc'[q] = pc[q] /\ found'[q] = found[q]
      /\ pc'[p] \notin Discarding \cup Publishing
  <2> USE DEF Discarding, Publishing
  <2>1. CASE CompileStep(p)
    BY <1>0, <2>1 DEF CompileStep, LookUp, Count, Hit, Outdated, Miss, Compile, Step,
                      Return, local
  <2>2. CASE ScheduleStep(p)
    BY <1>0, <2>2, ScheduleStepMoves DEF local
  <2>3. CASE CallStep(p)
    <3>1. \A q \in Proc \ {p} : found'[q] = found[q]
      BY <1>0, <2>3 DEF CallStep, CallReset, Reset, CheckFlag, Find, Include,
                        CallInvalidate, Return, local
    <3> QED
      BY <1>0, <1>2, <2>3, <3>1, CallMoves
  <2>4. CASE UseExisting(p) \/ NoRoom(p)
    BY <1>0, <2>4 DEF UseExisting, NoRoom, Step, Return, local
  <2> QED
    BY <2>1, <2>2, <2>3, <2>4
<1> QED
  BY <1>1, <1>2, <1>3, WasteUse

(* A worker that stops half way through a discard takes what it owed with   *)
(* it; half way through storing, it leaves a block whose size is not known. *)
LEMMA WasteStop ==
  ASSUME Typed, Typed', WasteInv, NEW q \in Proc, StopStep(q)
  PROVE  WasteInv'
<1>0. pc \in [Proc -> Phases] /\ found \in [Proc -> 0 .. Capacity]
  BY DEF Typed, TypeOK, LocalsOK
<1>1. /\ pc'[q] = "idle" /\ \A r \in Proc \ {q} : pc'[r] = pc[r] /\ found'[r] = found[r]
      /\ UNCHANGED <<mem, top, wasted>>
      /\ lost' = lost \cup (Unfinished \cap {pc[q]})
      /\ deaths' = deaths + 1 \/ (deaths' = deaths /\ pc[q] \notin Holding)
  BY <1>0, StopLoses DEF Forget, Return, memory
<1>2. Quiet' /\ Whole(Wiping)' => Quiet /\ Whole(Wiping)
  <2> SUFFICES ASSUME Quiet', Whole(Wiping)' PROVE Quiet /\ Whole(Wiping)
    OBVIOUS
  <2>1. Whole(Wiping) /\ pc[q] \notin Wiping
    BY <1>1, WholeStop DEF Unfinished
  <2> QED
    BY <1>1, <2>1 DEF Quiet
<1>3. Whole(Discarding \cup Publishing)' => Whole(Discarding \cup Publishing)
        /\ pc[q] \notin Discarding \cup Publishing
  BY <1>1, WholeStop, Changes
<1>4. CASE pc[q] \notin Discarding \cup Publishing
  <2>1. \A b : Filling(b)' <=> Filling(b)
    BY <1>1, <1>4 DEF Filling, Publishing
  <2>2. Claimed' = Claimed
    BY <1>1, <2>1 DEF Claimed
  <2>3. Whole(Discarding \cup Publishing)' <=> Whole(Discarding \cup Publishing)
    BY <1>1, <1>4 DEF Whole
  <2>4. Torn <= Torn'
    <3>1. deaths \in Nat /\ deaths <= deaths'
      BY <1>1, WasteTypes DEF WasteTyped
    <3>2. CASE Whole(Discarding \cup Publishing)
      <4>1. Torn = 0 /\ Torn' = 0
        BY <2>3, <3>2 DEF Torn
      <4> QED
        BY <4>1
    <3>3. CASE ~Whole(Discarding \cup Publishing)
      <4>1. Torn = deaths /\ Torn' = deaths'
        BY <2>3, <3>3 DEF Torn
      <4> QED
        BY <3>1, <4>1
    <3> QED
      BY <3>2, <3>3
  <2>5. Owed' = Owed
    <3>1. CASE \E r \in Proc : pc[r] \in Discarding
      <4>1. PICK r \in Proc : pc[r] \in Discarding
        BY <3>1
      <4>2. pc'[r] \in Discarding /\ found'[r] = found[r]
        BY <1>1, <1>4, <4>1
      <4>3. Owed' = mem'[found'[r]].size
        BY <4>2, OpcacheAssumption DEF Typed, Locks, Holding, Owed
      <4> QED
        BY <1>1, <4>1, <4>2, <4>3, OwedBy
    <3>2. CASE \A r \in Proc : pc[r] \notin Discarding
      <4>1. \A r \in Proc : pc'[r] \notin Discarding
        BY <1>1, <3>2 DEF Discarding
      <4>2. Owed' = 0
        BY <4>1 DEF Typed, TypeOK, LocksOK, Owed
      <4> QED
        BY <3>2, <4>2, OwedByNone
    <3> QED
      BY <3>1, <3>2
  <2>6. WasteTyped'
    BY WasteTypes, PTL
  <2>7. Accounted <= Accounted'
    BY <1>1, <2>4, <2>5, <2>6, WasteTypes DEF WasteTyped, Accounted
  <2> QED
    BY <1>2, <2>2, <2>7, WasteSame
<1>5. CASE pc[q] \in Discarding \cup Publishing
  <2>1. ~Whole(Discarding \cup Publishing)' /\ deaths' = deaths + 1
    BY <1>1, <1>3, <1>5, Holders, Changes
  <2>2. Torn + 1 <= Torn' /\ Torn' \in Nat
    BY <2>1, WasteTypes DEF Torn, WasteTyped
  <2>3. \A r \in Proc \ {q} : pc[r] \notin Holding
    BY <1>5, Holders, Changes, HolderAlone
  <2>4. \A r \in Proc : pc'[r] \notin Discarding \cup Publishing
    BY <1>1, <2>3, Holders, Changes DEF Discarding, Publishing
  <2>5. Owed' = 0
    BY <2>4 DEF Typed, TypeOK, LocksOK, Owed
  <2>6. CASE pc[q] \in Discarding
    <3>1. pc[q] \notin Publishing
      BY <2>6 DEF Discarding, Publishing
    <3>2. \A b : Filling(b)' <=> Filling(b)
      BY <2>3, <2>4, <3>1, Holders, Changes DEF Filling
    <3>3. Claimed' = Claimed
      BY <1>1, <3>2 DEF Claimed
    <3>4. Accounted <= Accounted'
      BY <1>1, <2>2, <2>5, WasteTypes DEF WasteTyped, Accounted
    <3> QED
      BY <1>2, <3>3, <3>4, WasteSame
  <2>7. CASE pc[q] \in Publishing
    <3>1. Owed = 0
      <4>1. \A r \in Proc : pc[r] \notin Discarding
        BY <2>3, <2>7, Holders, Changes DEF Discarding, Publishing
      <4> QED
        BY <4>1, OwedByNone
    <3>2. Claimed' \subseteq Claimed \cup {top}
      BY <1>1 DEF Claimed, Filling
    <3>3. Accounted + 1 <= Accounted'
      BY <1>1, <2>2, <2>5, <3>1, WasteTypes DEF WasteTyped, Accounted
    <3> QED
      BY <1>2, <3>2, <3>3, WasteMore
  <2> QED
    BY <1>5, <2>6, <2>7
<1> QED
  BY <1>4, <1>5

LEMMA WasteDiscard ==
  ASSUME Typed, Typed', WasteInv, NEW p \in Proc, DiscardStep(p)
  PROVE  WasteInv'
<1>0. pc \in [Proc -> Phases] /\ found \in [Proc -> 0 .. Capacity]
      /\ found[p] \in Blocks /\ WasteTyped
  BY DiscardMoves, WasteTypes DEF Typed, TypeOK, LocalsOK
<1>1. \A q \in Proc \ {p} : pc'[q] = pc[q] /\ pc[q] \notin Holding
  <2>1. pc[p] \in Holding \/ allocLock = None
    BY DEF DiscardStep, Discard, Invalidate, ClearDate, AddWaste, Mark, Step, Holding,
           Discarding
  <2> QED
    BY <1>0, <2>1, HolderAlone, DiscardMoves
<1>2. /\ pc'[p] \in {"dating", "wasting", "scheduling", "stamping", "running"}
      /\ UNCHANGED <<top, lost, deaths>>
      /\ pc[p] \notin Wiping \cup Publishing
  <2>1. UNCHANGED <<top, lost, deaths>> /\ pc[p] \notin Wiping \cup Publishing
    BY DEF DiscardStep, Discard, Invalidate, ClearDate, AddWaste, Step, Wiping,
           Publishing, world
  <2> QED
    BY <1>0, <2>1, DiscardMoves
<1>3. /\ \A q \in Proc : pc[q] \notin Publishing /\ pc'[q] \notin Publishing
      /\ Quiet' => Quiet
  BY <1>1, <1>2 DEF Holding, Publishing, Quiet
<1>4. Torn' = Torn /\ (Whole(Wiping)' <=> Whole(Wiping))
  BY <1>2 DEF Torn, Whole
<1>5. \A b \in 1 .. top : b \in Blocks
  BY <1>0, GivenOut DEF WasteTyped
<1>6. \A b \in 1 .. top : /\ mem'[b].size = mem[b].size
                          /\ mem'[b].corrupted => mem[b].corrupted \/ b = found[p]
  BY <1>5, DiscardMemory
<1>7. Claimed' \subseteq Claimed \cup {found[p]}
  BY <1>2, <1>3, <1>6 DEF Claimed, Filling
<1>8. ASSUME mem[found[p]].corrupted \/ mem[found[p]].size = 0
      PROVE  Claimed' \subseteq Claimed
  BY <1>2, <1>3, <1>6, <1>8 DEF Claimed, Filling
<1>9. \A q \in Proc \ {p} : pc[q] \notin Discarding /\ pc'[q] \notin Discarding
  BY <1>1, Holders, Changes
<1>10. pc[p] \notin Discarding => Owed = 0
  BY <1>9, OwedByNone
<1>11. pc'[p] \notin Discarding => Owed' = 0
  BY <1>9 DEF Typed, TypeOK, LocksOK, Owed
<1>12. pc'[p] \in Discarding => Owed' = mem[found[p]].size
  <2> SUFFICES ASSUME pc'[p] \in Discarding PROVE Owed' = mem[found[p]].size
    OBVIOUS
  <2>1. Owed' = mem'[found'[p]].size
    BY OpcacheAssumption DEF Typed, Locks, Holding, Owed
  <2>2. found'[p] = found[p]
    <3>1. PICK to : pc' = [pc EXCEPT ![p] = to] /\ (to \in Discarding => found'[p] = found[p])
      BY DiscardMoves
    <3> QED
      BY <1>0, <3>1
  <2>3. mem'[found[p]].size = mem[found[p]].size
    BY <1>0, DiscardMemory
  <2> QED
    BY <2>1, <2>2, <2>3
<1>13. Accounted' = wasted' + Owed' + Torn
  BY <1>4 DEF Accounted
<1>14. mem[found[p]].size \in {0, 1}
  BY <1>0 DEF WasteTyped
<1>15. CASE Discard(p) \/ Invalidate(p)
  <2>1. /\ wasted' = wasted /\ pc[p] \notin Discarding
        /\ mem[found[p]].corrupted => mem' = mem /\ pc'[p] \notin Discarding
        /\ ~mem[found[p]].corrupted => pc'[p] = "dating"
    BY <1>0, <1>15 DEF Discard, Invalidate, Mark, Discarding
  <2>2. CASE mem[found[p]].corrupted \/ mem[found[p]].size = 0
    <3>1. Accounted <= Accounted'
      <4>1. Owed = 0 /\ Owed' = 0
        BY <1>10, <1>11, <1>12, <2>1, <2>2
      <4> QED
        BY <1>0, <1>13, <2>1, <4>1 DEF Accounted, WasteTyped
    <3> QED
      BY <1>3, <1>4, <1>8, <2>2, <3>1, WasteSame
  <2>3. CASE ~(mem[found[p]].corrupted \/ mem[found[p]].size = 0)
    <3>1. Owed = 0 /\ Owed' = 1
      BY <1>10, <1>12, <1>14, <2>1, <2>3 DEF Discarding
    <3>2. Accounted + 1 <= Accounted'
      BY <1>0, <1>13, <2>1, <3>1 DEF Accounted, WasteTyped
    <3> QED
      BY <1>3, <1>4, <1>7, <3>2, WasteMore
  <2> QED
    BY <2>2, <2>3
<1>16. CASE ClearDate(p)
  <2>1. wasted' = wasted /\ pc[p] \in Discarding /\ pc'[p] \in Discarding
    BY <1>0, <1>16 DEF ClearDate, Step, Discarding
  <2>2. Owed' = Owed
    BY <1>12, <2>1, OwedBy
  <2>3. Accounted <= Accounted'
    BY <1>0, <1>13, <2>1, <2>2 DEF Accounted, WasteTyped
  <2>4. Claimed' \subseteq Claimed
    <3>1. \A b \in 1 .. top : mem'[b].corrupted => mem[b].corrupted
      <4>1. mem' = [mem EXCEPT ![found[p]].stamp = 0] /\ mem \in [Blocks -> Script]
        BY <1>0, <1>16 DEF ClearDate, WasteTyped
      <4> QED
        BY <1>0, <1>5, <4>1 DEF Script
    <3> QED
      BY <1>2, <1>3, <1>6, <3>1 DEF Claimed, Filling
  <2> QED
    BY <1>3, <1>4, <2>3, <2>4, WasteSame
<1>17. CASE AddWaste(p)
  <2>1. /\ wasted' = wasted + mem[found[p]].size /\ mem' = mem
        /\ pc[p] \in Discarding
    BY <1>17 DEF AddWaste, Discarding
  <2>2. Owed = mem[found[p]].size
    BY <2>1, OwedBy
  <2>3. Owed' \in Nat
    <3>1. WasteTyped'
      BY WasteTypes, PTL
    <3> QED
      BY <3>1 DEF WasteTyped
  <2>4. Accounted <= Accounted'
    BY <1>0, <1>13, <1>14, <2>1, <2>2, <2>3 DEF Accounted, WasteTyped
  <2>5. Claimed' \subseteq Claimed
    BY <1>2, <1>3, <2>1 DEF Claimed, Filling
  <2> QED
    BY <1>3, <1>4, <2>4, <2>5, WasteSame
<1> QED
  BY <1>15, <1>16, <1>17 DEF DiscardStep

LEMMA WasteStore ==
  ASSUME Typed, Typed', WasteInv, NEW p \in Proc,
         Allocate(p) \/ CopyIn(p) \/ Publish(p) \/ Measure(p)
  PROVE  WasteInv'
<1>0. pc \in [Proc -> Phases] /\ WasteTyped /\ \A b \in 1 .. top : b \in Blocks /\ b # top + 1
  BY WasteTypes, GivenOut DEF Typed, TypeOK, WasteTyped
<1>1. /\ UNCHANGED <<wasted, lost, deaths>>
      /\ \A q \in Proc \ {p} : pc'[q] = pc[q] /\ pc[q] \notin Holding
      /\ Quiet /\ pc[p] \notin Discarding /\ pc'[p] \notin Discarding
  <2>1. pc[p] \in Holding \/ allocLock = None
    BY DEF Allocate, CopyIn, Publish, Measure, Step, Holding, Publishing
  <2>2. pc[p] \notin Wiping \cup Discarding /\ UNCHANGED <<wasted, lost, deaths>>
    BY DEF Allocate, CopyIn, Publish, Measure, Step, Wiping, Discarding, world
  <2>3. pc'[p] \notin Discarding /\ \A q \in Proc \ {p} : pc'[q] = pc[q]
    BY <1>0 DEF Allocate, CopyIn, Publish, Measure, Step, Discarding
  <2> QED
    BY <2>1, <2>2, <2>3, HolderAlone
<1>2. Owed = 0 /\ Owed' = 0
  <2>1. \A q \in Proc : pc[q] \notin Discarding /\ pc'[q] \notin Discarding
    BY <1>1, Holders, Changes
  <2>2. Owed' = 0
    BY <2>1 DEF Typed, TypeOK, LocksOK, Owed
  <2> QED
    BY <2>1, <2>2, OwedByNone
<1>3. Accounted <= Accounted'
  <2>1. Torn' = Torn
    BY <1>1 DEF Torn, Whole
  <2> QED
    BY <1>0, <1>1, <1>2, <2>1 DEF Accounted, WasteTyped
<1>4. Whole(Wiping)' <=> Whole(Wiping)
  BY <1>1 DEF Whole
<1>5. CASE Allocate(p)
  <2>1. /\ top' = top + 1 /\ mem' = [mem EXCEPT ![top + 1] = Zeroed]
        /\ pc'[p] = "copying in" /\ pc[p] = "storing" /\ top + 1 \in Blocks
    BY <1>0, <1>5, NextBlock DEF Allocate, Step, WasteTyped
  <2>2. \A q \in Proc : pc[q] \notin Publishing
    BY <1>1, <2>1 DEF Holding, Publishing
  <2>3. \A b : b = top + 1 => Filling(b)'
    BY <2>1 DEF Filling, Publishing
  <2>4. ~mem'[top + 1].corrupted /\ \A b \in 1 .. top : mem'[b] = mem[b]
    BY <1>0, <2>1 DEF WasteTyped, Zeroed
  <2>5. \A b \in 1 .. top + 1 : b # top + 1 => b \in 1 .. top
    BY <1>0, GivenOut DEF WasteTyped
  <2>6. ASSUME NEW b \in Claimed'
        PROVE  b \in Claimed
    <3>1. b \in 1 .. top + 1 /\ (mem'[b].corrupted \/ (mem'[b].size = 0 /\ ~Filling(b)'))
      BY <2>1, <2>6 DEF Claimed
    <3>2. b # top + 1
      <4>1. CASE b = top + 1
        BY <2>3, <2>4, <3>1, <4>1
      <4> QED
        BY <4>1
    <3> QED
      BY <2>2, <2>4, <2>5, <3>1, <3>2 DEF Claimed, Filling
  <2> QED
    BY <1>1, <1>3, <1>4, <2>6, WasteSame
<1>6. CASE CopyIn(p) \/ Publish(p)
  <2>1. top' = top /\ pc[p] \in Publishing /\ pc'[p] \in Publishing
    BY <1>0, <1>6 DEF CopyIn, Publish, Step, Publishing
  <2>2. \A b : Filling(b)' <=> Filling(b)
    BY <2>1 DEF Filling
  <2>3. \A b \in 1 .. top : mem'[b] = mem[b] \/ (b = top /\ ~mem'[b].corrupted)
    <3>1. CASE CopyIn(p)
      <4>1. top \in Blocks
        BY <3>1 DEF CopyIn, Step, Typed, Working, Publishing
      <4>2. mem'[top].corrupted = FALSE /\ \A b \in Blocks \ {top} : mem'[b] = mem[b]
        BY <1>0, <3>1, <4>1 DEF CopyIn, WasteTyped
      <4> QED
        BY <1>0, <4>2
    <3>2. CASE Publish(p)
      BY <3>2 DEF Publish
    <3> QED
      BY <1>6, <3>1, <3>2
  <2>4. Filling(top)
    BY <2>1 DEF Filling
  <2>5. Claimed' \subseteq Claimed
    BY <2>1, <2>2, <2>3, <2>4 DEF Claimed
  <2> QED
    BY <1>1, <1>3, <1>4, <2>5, WasteSame
<1>7. CASE Measure(p)
  <2>1. top' = top /\ top \in Blocks /\ mem' = [mem EXCEPT ![top].size = 1]
    BY <1>7 DEF Measure, Step, Typed, Working, Publishing
  <2>2. mem'[top].size = 1 /\ mem'[top].corrupted = mem[top].corrupted
        /\ \A b \in Blocks \ {top} : mem'[b] = mem[b]
    BY <1>0, <2>1 DEF WasteTyped, Script
  <2>3. \A b : b # top => (~Filling(b) /\ ~Filling(b)')
    BY <2>1 DEF Filling
  <2>4. Claimed' \subseteq Claimed
    BY <1>0, <2>1, <2>2, <2>3 DEF Claimed
  <2> QED
    BY <1>1, <1>3, <1>4, <2>4, WasteSame
<1> QED
  BY <1>5, <1>6, <1>7

LEMMA WasteStep == Typed /\ Typed' /\ WasteInv /\ [Next]_vars => WasteInv'
<1> SUFFICES ASSUME Typed, Typed', WasteInv, [Next]_vars
             PROVE  WasteInv'
  OBVIOUS
<1>1. ASSUME UNCHANGED <<memory, pc, allocLock, found, lost, deaths>>
      PROVE  WasteInv'
  BY <1>1 DEF WasteInv, Claimed, Filling, Accounted, Owed, Torn, Quiet, Whole, memory
<1>2. ASSUME NEW f \in Files, Edit(f)
      PROVE  WasteInv'
  BY <1>1, <1>2 DEF Edit, local
<1>3. CASE UNCHANGED vars
  BY <1>1, <1>3 DEF vars, world, local
<1> QED
  BY <1>2, <1>3, Steps, WasteStart, WasteOther, WasteDiscard, WasteStore, WasteStop
     DEF WorkStep, StoreStep

(* Whatever is discarded, by however many workers, is counted, and a        *)
(* restart starts the count and the segment over together.  A worker that   *)
(* dies while it discards or stores a script takes at most that one with it.*)
THEOREM WasteCorrect == Spec => []WasteIsCounted
<1>1. Init => WasteInv
  <2> SUFFICES ASSUME Init PROVE WasteInv
    OBVIOUS
  <2>1. Claimed = {}
    BY DEF Init, Claimed
  <2>2. Cardinality(Claimed) = 0
    BY <2>1, FS_EmptySet
  <2>3. Accounted \in Nat
    BY TypedInit, WasteTypes DEF WasteTyped
  <2> QED
    BY <2>2, <2>3 DEF WasteInv
<1>2. ASSUME Typed, WasteInv
      PROVE  WasteIsCounted
  <2> DEFINE corrupt == {b \in 1 .. top : mem[b].corrupted}
             owing == {p \in Proc : pc[p] \in Discarding}
  <2>1. corrupt \subseteq Claimed
    BY DEF Claimed
  <2>2. Cardinality(corrupt) <= Cardinality(Claimed) /\ Cardinality(corrupt) \in Nat
        /\ Cardinality(Claimed) \in Nat
    BY <1>2, <2>1, ClaimedFinite, FS_Subset, FS_CardinalityType
  <2>3. Owed <= Cardinality(owing) /\ Cardinality(owing) \in Nat
    <3>1. IsFiniteSet(owing) /\ Cardinality(owing) \in Nat
      BY OpcacheAssumption, FS_Subset, FS_CardinalityType
    <3>2. CASE owing = {}
      <4>1. Owed = 0
        BY <1>2, <3>2, OwedByNone
      <4> QED
        BY <3>1, <4>1
    <3>3. CASE owing # {}
      <4>1. PICK p \in Proc : pc[p] \in Discarding
        BY <3>3
      <4>2. owing = {p}
        BY <1>2, <4>1, OneHolder, Holders, Changes
      <4>3. Cardinality(owing) = 1
        BY <4>2, FS_Singleton
      <4> QED
        BY <1>2, <4>3, WasteTypes DEF WasteTyped
    <3> QED
      BY <3>2, <3>3
  <2>4. WasteTyped
    BY <1>2, WasteTypes
  <2>5. Quiet /\ Whole(Wiping) =>
          Cardinality(corrupt) <= wasted + Cardinality(owing) + Torn
    <3> SUFFICES ASSUME Quiet, Whole(Wiping)
                 PROVE  Cardinality(corrupt) <= wasted + Cardinality(owing) + Torn
      OBVIOUS
    <3>1. Cardinality(Claimed) <= wasted + Owed + Torn
      BY <1>2 DEF WasteInv, Accounted
    <3> DEFINE c == Cardinality(corrupt)
               d == Cardinality(Claimed)
               e == Cardinality(owing)
    <3>2. /\ c \in Nat /\ d \in Nat /\ e \in Nat /\ wasted \in Nat /\ Torn \in Nat
          /\ Owed \in {0, 1} /\ c <= d /\ d <= wasted + Owed + Torn /\ Owed <= e
      BY <2>2, <2>3, <2>4, <3>1 DEF WasteTyped
    <3> HIDE DEF c, d, e
    <3>3. c <= wasted + e + Torn
      BY <3>2
    <3> QED
      BY <3>3 DEF c, e
  <2> QED
    BY <2>5 DEF WasteIsCounted, Torn
<1> QED
  BY <1>1, <1>2, WasteStep, AlwaysTyped, PTL DEF Spec
===============================================================================
