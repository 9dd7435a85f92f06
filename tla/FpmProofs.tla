------------------------------ MODULE FpmProofs ------------------------------
(***************************************************************************)
(* Safety of the process manager, for any number of processes, any limits  *)
(* of the pool and any number of failures.                                 *)
(*                                                                         *)
(* The invariant that is inductive is IInv.  Beyond what is to be shown it *)
(* says that the counter of running children is their number, that a       *)
(* process that has taken a SIGQUIT is alive, that nothing has happened    *)
(* before the start, and that nobody is sent away from a static pool.      *)
(***************************************************************************)
EXTENDS Fpm, FiniteSetTheorems, TLAPS

QuitsAlive  == \A p \in quitting : Alive(p)
TimerSet    == timer => state # "normal"
NotStarted  == mpc = "starting" => state = "normal" /\ Children = {}
StaticKeeps == pm = "static" => idleKill = {}

IInv ==
  /\ TypeOK /\ PoolBounded /\ QuitsAlive /\ NotStarted /\ TimerSet
  /\ StaticKeeps /\ NobodyLeftBehind /\ LeavingIsTimed /\ DeadAreNoticed
  /\ StaticIsFull

-------------------------------------------------------------------------------
(* Counting children.                                                       *)

LEMMA ChildrenFinite == IsFiniteSet(Children) /\ Cardinality(Children) \in Nat
  BY FpmAssumption, FS_Subset, FS_CardinalityType DEF Children

(* A process that stays a process leaves the set of children as it is.      *)
LEMMA SameChildren ==
  ASSUME NEW p \in Pid, NEW x \in Phases \ {"none"}, phase \in [Pid -> Phases],
         phase[p] # "none", phase' = [phase EXCEPT ![p] = x]
  PROVE  Children' = Children
  BY DEF Children

(* Forking adds what it is given, none of which was a child.                *)
LEMMA Added ==
  ASSUME NEW new, NEW rest, new \subseteq Pid, rest \subseteq Pid,
         new \cap rest = {}
  PROVE  /\ IsFiniteSet(new) /\ Cardinality(new) \in Nat
         /\ Cardinality(rest \cup new) = Cardinality(rest) + Cardinality(new)
<1>1. IsFiniteSet(new) /\ IsFiniteSet(rest)
  BY FpmAssumption, FS_Subset
<1>2. Cardinality(new) \in Nat /\ Cardinality(rest) \in Nat
  BY <1>1, FS_CardinalityType
<1>3. Cardinality(rest \cap new) = 0
  <2>1. rest \cap new = {}
    OBVIOUS
  <2> QED BY <2>1, FS_EmptySet
<1>4. Cardinality(rest \cup new)
        = Cardinality(rest) + Cardinality(new) - Cardinality(rest \cap new)
  BY <1>1, FS_Union
<1> QED BY <1>1, <1>2, <1>3, <1>4

LEMMA Removed ==
  ASSUME NEW p \in Children
  PROVE  Cardinality(Children \ {p}) = Cardinality(Children) - 1
  BY ChildrenFinite, FS_RemoveElement

(* The counters of the bound, abbreviations all proofs see through.          *)
FailuresTyped ==
  crashes \in 0 .. MaxFailures /\ failedForks \in 0 .. MaxFailures

USE DEF failures, FailuresTyped

(* What Forks says, in numbers.                                             *)
LEMMA ForksBounds ==
  ASSUME TypeOK, NEW n \in Nat, NEW free \in SUBSET Pid, NEW new,
         Forks(new, n, free)
  PROVE  /\ new \subseteq free /\ Cardinality(new) \in 0 .. n
         /\ FailuresTyped'
         /\ failedForks' = 0 => Cardinality(new) = n
         /\ failedForks' \in Nat /\ failedForks' >= failedForks
<1>1. new \subseteq Pid /\ new \subseteq free
  BY DEF Forks
<1>2. Cardinality(new) \in Nat
  BY <1>1, FpmAssumption, FS_Subset, FS_CardinalityType
<1> QED BY <1>1, <1>2, FpmAssumption DEF Forks, TypeOK, FailuresTyped, FailuresLeft

-------------------------------------------------------------------------------
LEMMA InitInv == Init => IInv
<1> SUFFICES ASSUME Init PROVE IInv
  OBVIOUS
<1>1. Children = {}
  BY DEF Init, Children
<1>2. Cardinality(Children) = 0
  BY <1>1, FS_EmptySet
<1>3. TypeOK
  <2>1. timer \in BOOLEAN /\ sigchld \in BOOLEAN
    BY Zenon DEF Init
  <2>2. /\ faults \in 0 .. Threshold /\ FailuresTyped
        /\ running \in Nat /\ spawnRate \in Nat
    BY FpmAssumption DEF Init
  <2>3. /\ phase \in [Pid -> Phases] /\ stage \in [Pid -> Stages]
        /\ ended \in [Pid -> {"no", "exited", "fault", "killed"}]
        /\ pending \in [Pid -> SUBSET Signals]
    BY DEF Init, Phases, Stages
  <2> QED BY <2>1, <2>2, <2>3 DEF Init, TypeOK, States
<1>4. PoolBounded
  BY <1>2, FpmAssumption DEF Init, PoolBounded
<1>5. QuitsAlive /\ NotStarted /\ StaticKeeps /\ DeadAreNoticed
  BY <1>1 DEF Init, QuitsAlive, NotStarted, StaticKeeps, DeadAreNoticed
<1>6. NobodyLeftBehind /\ LeavingIsTimed /\ StaticIsFull /\ TimerSet
  BY DEF Init, NobodyLeftBehind, LeavingIsTimed, StaticIsFull, TimerSet
<1> QED BY <1>3, <1>4, <1>5, <1>6 DEF IInv

-------------------------------------------------------------------------------
(* The children.                                                            *)

(* A child goes on or dies: the master's view of the pool does not change,  *)
(* and if it dies a SIGCHLD is sent.                                        *)
LEMMA ChildStep ==
  ASSUME IInv, NEW p \in Pid, Alive(p),
         NEW x \in Phases \ {"none"}, phase' = [phase EXCEPT ![p] = x],
         UNCHANGED <<control, mpc, spawnRate, faults, list>>,
         sigchld' = (IF x = "zombie" THEN TRUE ELSE sigchld),
         quitting' \subseteq quitting \cup {p},
         x = "zombie" => p \notin quitting',
         ended' \in [Pid -> {"no", "exited", "fault", "killed"}],
         pending' \in [Pid -> SUBSET Signals],
         stage' \in [Pid -> Stages],
         FailuresTyped', failedForks' = failedForks
  PROVE  IInv'
<1>1. phase[p] # "none" /\ phase \in [Pid -> Phases]
  BY DEF Alive, IInv, TypeOK
<1>2. Children' = Children
  BY <1>1, SameChildren
<1>3. p \in Children
  BY <1>1 DEF Children
<1>4. TypeOK'
  BY <1>1, <1>2, <1>3 DEF IInv, TypeOK, control, list
<1>5. QuitsAlive'
  BY <1>1 DEF IInv, QuitsAlive, Alive, TypeOK, Phases
<1>6. PoolBounded' /\ NobodyLeftBehind' /\ LeavingIsTimed' /\ NotStarted'
      /\ TimerSet'
  BY <1>2, <1>3 DEF IInv, PoolBounded, NobodyLeftBehind, LeavingIsTimed,
                    NotStarted, TimerSet, control, list
<1>7. DeadAreNoticed'
  BY <1>1 DEF IInv, DeadAreNoticed
<1>8. StaticKeeps' /\ StaticIsFull'
  BY DEF IInv, StaticKeeps, StaticIsFull, control, list, TypeOK
<1> QED BY <1>4, <1>5, <1>6, <1>7, <1>8 DEF IInv

(* In particular, when it dies.                                             *)
LEMMA EndStep ==
  ASSUME IInv, NEW p \in Pid, Alive(p),
         NEW how \in {"exited", "fault", "killed"}, Ends(p, how),
         UNCHANGED <<control, mpc, spawnRate, faults, list>>,
         stage' \in [Pid -> Stages],
         FailuresTyped', failedForks' = failedForks
  PROVE  IInv'
<1> DEFINE x == "zombie"
<1>1. x \in Phases \ {"none"} /\ phase' = [phase EXCEPT ![p] = x]
  BY DEF Phases, Ends
<1>2. sigchld' = (IF x = "zombie" THEN TRUE ELSE sigchld)
  BY DEF Ends
<1>3. quitting' \subseteq quitting \cup {p} /\ p \notin quitting'
  BY DEF Ends
<1>4. /\ ended' \in [Pid -> {"no", "exited", "fault", "killed"}]
      /\ pending' \in [Pid -> SUBSET Signals]
  BY DEF Ends, IInv, TypeOK
<1> HIDE DEF x
<1> QED BY <1>1, <1>2, <1>3, <1>4, ChildStep

LEMMA ChildNext ==
  ASSUME IInv, NEW p \in Pid,
         \/ Accepting(p) \/ Quits(p) \/ Accept(p) \/ ReadingHeaders(p)
         \/ RequestEnd(p) \/ Retire(p) \/ TakeQuit(p) \/ TakeTerm(p)
         \/ TakeKill(p) \/ Crash(p) \/ Drop(p)
  PROVE  IInv'
<1> USE DEF IInv
<1>T. TypeOK /\ FailuresTyped /\ stage \in [Pid -> Stages]
      /\ MaxFailures \in Nat
  BY FpmAssumption DEF TypeOK
<1>1. CASE Accepting(p)
  <2> DEFINE x == "accepting"
  <2>1. x \in Phases \ {"none"} /\ x # "zombie" /\ Alive(p)
    BY <1>1 DEF Phases, Accepting, Move, Alive
  <2>2. /\ phase' = [phase EXCEPT ![p] = x]
        /\ UNCHANGED <<control, mpc, spawnRate, faults, list>>
        /\ UNCHANGED <<sigchld, quitting, ended, pending, failures>>
        /\ stage' = [stage EXCEPT ![p] = "accepting"]
    BY <1>1 DEF Accepting, Move
  <2>3. stage' \in [Pid -> Stages]
    BY <1>T, <2>2 DEF Stages
  <2> HIDE DEF x
  <2> QED BY <1>T, <2>1, <2>2, <2>3, ChildStep DEF TypeOK
<1>2. CASE Quits(p)
  <2>1. Alive(p) /\ Ends(p, "exited") /\ UNCHANGED <<stage, failures>>
        /\ UNCHANGED <<control, mpc, spawnRate, faults, list>>
    BY <1>2 DEF Quits, Alive
  <2> QED BY <1>T, <2>1, EndStep
<1>3. CASE Accept(p)
  <2> DEFINE x == "taken"
  <2>1. x \in Phases \ {"none"} /\ x # "zombie" /\ Alive(p)
    BY <1>3 DEF Phases, Accept, Move, Alive
  <2>2. /\ phase' = [phase EXCEPT ![p] = x]
        /\ UNCHANGED <<control, mpc, spawnRate, faults, list>>
        /\ UNCHANGED <<sigchld, quitting, ended, pending, failures, stage>>
    BY <1>3 DEF Accept, Move
  <2> HIDE DEF x
  <2> QED BY <1>T, <2>1, <2>2, ChildStep DEF TypeOK
<1>4. CASE ReadingHeaders(p)
  <2> DEFINE x == "serving"
  <2>1. x \in Phases \ {"none"} /\ x # "zombie" /\ Alive(p)
    BY <1>4 DEF Phases, ReadingHeaders, Move, Alive
  <2>2. /\ phase' = [phase EXCEPT ![p] = x]
        /\ UNCHANGED <<control, mpc, spawnRate, faults, list>>
        /\ UNCHANGED <<sigchld, quitting, ended, pending, failures>>
        /\ stage' = [stage EXCEPT ![p] = "busy"]
    BY <1>4 DEF ReadingHeaders, Move
  <2>3. stage' \in [Pid -> Stages]
    BY <1>T, <2>2 DEF Stages
  <2> HIDE DEF x
  <2> QED BY <1>T, <2>1, <2>2, <2>3, ChildStep DEF TypeOK
<1>5. CASE RequestEnd(p)
  <2> DEFINE x == "loop"
  <2>1. x \in Phases \ {"none"} /\ x # "zombie" /\ Alive(p)
    BY <1>5 DEF Phases, RequestEnd, Move, Alive
  <2>2. /\ phase' = [phase EXCEPT ![p] = x]
        /\ UNCHANGED <<control, mpc, spawnRate, faults, list>>
        /\ UNCHANGED <<sigchld, quitting, ended, pending, failures>>
        /\ stage' = [stage EXCEPT ![p] = "other"]
    BY <1>5 DEF RequestEnd, Move
  <2>3. stage' \in [Pid -> Stages]
    BY <1>T, <2>2 DEF Stages
  <2> HIDE DEF x
  <2> QED BY <1>T, <2>1, <2>2, <2>3, ChildStep DEF TypeOK
<1>6. CASE Retire(p)
  <2>1. Alive(p) /\ Ends(p, "exited") /\ UNCHANGED failures
        /\ UNCHANGED <<control, mpc, spawnRate, faults, list>>
        /\ stage' = [stage EXCEPT ![p] = "other"]
    BY <1>6 DEF Retire, Alive
  <2>2. stage' \in [Pid -> Stages]
    BY <1>T, <2>1 DEF Stages
  <2> QED BY <1>T, <2>1, <2>2, EndStep
<1>7. CASE TakeQuit(p) /\ phase[p] = "accepting"
  <2>1. Alive(p) /\ Ends(p, "exited") /\ UNCHANGED <<stage, failures>>
        /\ UNCHANGED <<control, mpc, spawnRate, faults, list>>
    BY <1>7 DEF TakeQuit
  <2> QED BY <1>T, <2>1, EndStep
<1>8. CASE TakeQuit(p) /\ phase[p] # "accepting"
  <2> DEFINE x == phase[p]
  <2>1. x \in Phases \ {"none"} /\ x # "zombie" /\ Alive(p)
    BY <1>8 DEF TakeQuit, Alive, TypeOK
  <2>2. /\ UNCHANGED <<control, mpc, spawnRate, faults, list>>
        /\ UNCHANGED <<phase, sigchld, ended, failures, stage>>
        /\ quitting' = quitting \cup {p}
        /\ pending' = [pending EXCEPT ![p] = @ \ {"QUIT"}]
    BY <1>8 DEF TakeQuit
  <2>3. phase' = [phase EXCEPT ![p] = x] /\ pending' \in [Pid -> SUBSET Signals]
    BY <2>2 DEF TypeOK
  <2> HIDE DEF x
  <2> QED BY <1>T, <2>1, <2>2, <2>3, ChildStep DEF TypeOK
<1>9. CASE TakeTerm(p) \/ TakeKill(p)
  <2>1. Alive(p) /\ Ends(p, "killed") /\ UNCHANGED <<stage, failures>>
        /\ UNCHANGED <<control, mpc, spawnRate, faults, list>>
    BY <1>9 DEF TakeTerm, TakeKill
  <2> QED BY <1>T, <2>1, EndStep
<1>10. CASE Crash(p)
  <2>1. PICK how \in {"fault", "exited"} : Ends(p, how)
    BY <1>10 DEF Crash
  <2>2. Alive(p) /\ UNCHANGED stage
        /\ UNCHANGED <<control, mpc, spawnRate, faults, list>>
        /\ FailuresLeft /\ crashes' = crashes + 1 /\ UNCHANGED failedForks
    BY <1>10 DEF Crash
  <2>3. FailuresTyped'
    BY <1>T, <2>2, FpmAssumption DEF FailuresTyped, FailuresLeft
  <2> QED BY <1>T, <2>1, <2>2, <2>3, EndStep
<1>11. CASE Drop(p)
  <2> DEFINE x == "accepting"
  <2>1. x \in Phases \ {"none"} /\ x # "zombie" /\ Alive(p)
    BY <1>11 DEF Phases, Drop, Move, Alive
  <2>2. /\ phase' = [phase EXCEPT ![p] = x]
        /\ UNCHANGED <<control, mpc, spawnRate, faults, list>>
        /\ UNCHANGED <<sigchld, quitting, ended, pending, failures, stage>>
    BY <1>11 DEF Drop, Move
  <2> HIDE DEF x
  <2> QED BY <1>T, <2>1, <2>2, ChildStep DEF TypeOK
<1> QED
  BY <1>1, <1>2, <1>3, <1>4, <1>5, <1>6, <1>7, <1>8, <1>9, <1>10, <1>11

-------------------------------------------------------------------------------
(* Signals from and to the master, which change nothing in the pool.        *)

LEMMA WatchStep ==
  ASSUME IInv, NEW p \in Pid, RetireSpare(p) \/ RetireIdle(p) \/ TerminateSlow(p)
  PROVE  IInv'
<1>1. /\ UNCHANGED <<control, mpc, faults, phase, ended, quitting, running,
                     stage, sigchld, failures>>
      /\ spawnRate' \in Nat
  BY DEF RetireSpare, RetireIdle, TerminateSlow, IInv, TypeOK, control, list
<1>2. Children' = Children
  BY <1>1 DEF Children
<1>3. /\ idleKill' \subseteq Children
      /\ pm = "static" => idleKill' = idleKill
      /\ pending' \in [Pid -> SUBSET Signals]
  <2>1. CASE TerminateSlow(p)
    BY <2>1 DEF TerminateSlow, list, IInv, TypeOK, Send, Signals
  <2>2. CASE RetireSpare(p)
    BY <2>2 DEF RetireSpare, KillIdle, Idle, IInv, TypeOK, Send, Signals
  <2>3. CASE RetireIdle(p)
    BY <2>3 DEF RetireIdle, KillIdle, Idle, IInv, TypeOK, Send, Signals
  <2> QED BY <2>1, <2>2, <2>3
<1>4. TypeOK'
  BY <1>1, <1>2, <1>3 DEF IInv, TypeOK, control
<1>5. QuitsAlive' /\ DeadAreNoticed' /\ StaticKeeps' /\ StaticIsFull'
  BY <1>1, <1>3 DEF IInv, QuitsAlive, DeadAreNoticed, StaticKeeps, StaticIsFull,
                    control, Alive
<1>6. PoolBounded' /\ NotStarted' /\ TimerSet' /\ NobodyLeftBehind'
      /\ LeavingIsTimed'
  BY <1>1, <1>2 DEF IInv, PoolBounded, NotStarted, TimerSet, NobodyLeftBehind,
                    LeavingIsTimed, control
<1> QED BY <1>4, <1>5, <1>6 DEF IInv

LEMMA QuietStep ==
  ASSUME IInv, GotSigchld \/ BuryDone \/ ResetRate
  PROVE  IInv'
<1>1. /\ UNCHANGED <<control, faults, child, list, stage, failures>>
      /\ spawnRate' \in Nat /\ sigchld' \in BOOLEAN
      /\ mpc # "starting" /\ mpc # "gone" /\ mpc' \in {"loop", "burying"}
  <2>1. CASE GotSigchld
    BY <2>1 DEF GotSigchld, IInv, TypeOK
  <2>2. CASE BuryDone
    BY <2>2 DEF BuryDone, IInv, TypeOK
  <2>3. CASE ResetRate
    BY <2>3 DEF ResetRate, IInv, TypeOK
  <2> QED BY <2>1, <2>2, <2>3
<1>2. Children' = Children
  BY <1>1 DEF Children, child
<1>3. TypeOK'
  BY <1>1, <1>2 DEF IInv, TypeOK, control, child, list
<1>4. DeadAreNoticed'
  BY <1>1 DEF IInv, DeadAreNoticed, GotSigchld, BuryDone, ResetRate, child
<1>5. QuitsAlive' /\ StaticKeeps' /\ StaticIsFull'
  BY <1>1 DEF IInv, QuitsAlive, StaticKeeps, StaticIsFull, control, child, list,
              Alive
<1>6. PoolBounded' /\ NotStarted' /\ TimerSet' /\ NobodyLeftBehind'
      /\ LeavingIsTimed'
  BY <1>1, <1>2 DEF IInv, PoolBounded, NotStarted, TimerSet, NobodyLeftBehind,
                    LeavingIsTimed, control, list
<1> QED BY <1>3, <1>4, <1>5, <1>6 DEF IInv

(* The master asks its children to leave, or leaves.                        *)
LEMMA NextSignalTypes ==
  ASSUME NEW st \in States, NEW last \in Signals \cup {"none"}
  PROVE  NextSignal(st, last) \in Signals
  BY DEF NextSignal, Signals

LEMMA SendAllTypes ==
  ASSUME TypeOK, NEW left, NEW sig \in Signals, SendAll(left, sig)
  PROVE  pending' \in [Pid -> SUBSET Signals]
  BY DEF SendAll, Send, TypeOK, Signals

LEMMA ActionNextFacts ==
  ASSUME TypeOK, NEW left, NEW st \in States, NEW last \in Signals \cup {"none"},
         ActionNext(left, st, last)
  PROVE  /\ pending' \in [Pid -> SUBSET Signals]
         /\ sent' \in Signals \cup {"none"}
         /\ \/ left = {} /\ mpc' = "gone" /\ UNCHANGED <<sent, timer>>
            \/ /\ left # {} /\ mpc' = mpc /\ timer' = TRUE
               /\ sent' = NextSignal(st, last)
<1>1. CASE left = {}
  BY <1>1 DEF ActionNext, TypeOK
<1>2. CASE left # {}
  BY <1>2, NextSignalTypes, SendAllTypes DEF ActionNext
<1> QED BY <1>1, <1>2

LEMMA ControlStep ==
  ASSUME IInv, (\E new \in States : Control(new)) \/ ControlTimeout
  PROVE  IInv'
<1> DEFINE Facts ==
         /\ UNCHANGED <<pm, spawnRate, faults, stage, phase, ended, quitting, list,
                        sigchld, failures>>
         /\ mpc = "loop" /\ state' \in States
         /\ state = "normal" => state' # "normal"
         /\ state # "normal" => state' # "normal"
         /\ pending' \in [Pid -> SUBSET Signals]
         /\ sent' \in Signals \cup {"none"}
         /\ \/ Children = {} /\ mpc' = "gone" /\ UNCHANGED <<sent, timer>>
            \/ Children # {} /\ mpc' = mpc /\ timer' = TRUE
<1>1. Facts
  <2>1. CASE ControlTimeout
    <3>1. state # "normal"
      BY <2>1 DEF ControlTimeout, IInv, TimerSet
    <3>2. ActionNext(Children, state, sent)
      BY <2>1 DEF ControlTimeout
    <3>3. TypeOK /\ state \in States /\ sent \in Signals \cup {"none"}
      BY DEF IInv, TypeOK
    <3> QED BY <2>1, <3>1, <3>2, <3>3, ActionNextFacts DEF ControlTimeout
  <2>2. ASSUME NEW new \in States, Control(new) PROVE Facts
    <3>1. ActionNext(Children, new, "none") /\ new # "normal"
      BY <2>2 DEF Control, CanSwitch
    <3>2. TypeOK /\ "none" \in Signals \cup {"none"}
      BY DEF IInv
    <3> QED BY <2>2, <3>1, <3>2, ActionNextFacts DEF Control
  <2> QED BY <2>1, <2>2
<1>2. Children' = Children
  BY <1>1 DEF Children
<1>3. TypeOK'
  BY <1>1, <1>2 DEF IInv, TypeOK, list
<1>4. QuitsAlive' /\ StaticKeeps' /\ StaticIsFull'
  BY <1>1 DEF IInv, QuitsAlive, StaticKeeps, StaticIsFull, list, Alive
<1>5. PoolBounded' /\ NotStarted' /\ TimerSet' /\ NobodyLeftBehind'
      /\ LeavingIsTimed'
  BY <1>1, <1>2 DEF IInv, PoolBounded, NotStarted, TimerSet, NobodyLeftBehind,
                    LeavingIsTimed, list
<1>6. DeadAreNoticed'
  BY <1>1 DEF IInv, DeadAreNoticed, Children
<1> QED BY <1>3, <1>4, <1>5, <1>6 DEF IInv

-------------------------------------------------------------------------------
(* Forking.                                                                 *)

LEMMA MakeStep ==
  ASSUME IInv, NEW n \in Nat, n <= MaxChildren - running, NEW new, Make(new, n),
         mpc = "loop", pm # "static", spawnRate' \in Nat,
         UNCHANGED <<control, mpc, faults, stage, ended, quitting, pending,
                     idleKill, sigchld>>
  PROVE  IInv'
<1>1. /\ new \subseteq Pid \ Children /\ Cardinality(new) \in 0 .. n
      /\ FailuresTyped'
  <2>1. TypeOK /\ Forks(new, n, Pid \ Children) /\ Pid \ Children \in SUBSET Pid
    BY DEF IInv, Make
  <2> QED BY <2>1, ForksBounds
<1>2. /\ phase' = [p \in Pid |-> IF p \in new THEN "loop" ELSE phase[p]]
      /\ running' = running + Cardinality(new)
  BY DEF Make
<1>3. Children' = Children \cup new
  BY <1>1, <1>2 DEF Children, IInv, TypeOK
<1>4. PoolBounded'
  <2>1. Cardinality(Children \cup new) = Cardinality(Children) + Cardinality(new)
    BY <1>1, Added DEF Children
  <2> QED BY <1>1, <1>2, <1>3, <2>1, FpmAssumption DEF IInv, PoolBounded, TypeOK
<1>5. TypeOK'
  <2>1. phase' \in [Pid -> Phases] /\ running' \in Nat
    BY <1>1, <1>2 DEF IInv, TypeOK, Phases
  <2> QED BY <1>1, <1>3, <2>1 DEF IInv, TypeOK, control
<1>6. QuitsAlive' /\ DeadAreNoticed'
  BY <1>1, <1>2 DEF IInv, QuitsAlive, DeadAreNoticed, Alive, TypeOK, Children
<1>7. /\ NotStarted' /\ TimerSet' /\ NobodyLeftBehind' /\ LeavingIsTimed'
      /\ StaticKeeps' /\ StaticIsFull'
  BY <1>3 DEF IInv, NotStarted, TimerSet, NobodyLeftBehind, LeavingIsTimed,
              StaticKeeps, StaticIsFull, control
<1> QED BY <1>4, <1>5, <1>6, <1>7 DEF IInv

LEMMA IdleCounted == Cardinality(Idle) \in Nat
  BY ChildrenFinite, FS_Subset, FS_CardinalityType DEF Idle

LEMMA SpawnStep ==
  ASSUME IInv, NEW new, SpawnSpare(new) \/ OnSocketAccept(new)
  PROVE  IInv'
<1>1. CASE SpawnSpare(new)
  <2>1. Shortfall \in Nat /\ Shortfall <= MaxChildren - running
    BY <1>1, IdleCounted, FpmAssumption
    DEF SpawnSpare, Shortfall, Lower, IInv, TypeOK
  <2>2. spawnRate' \in Nat
    BY <1>1 DEF SpawnSpare, IInv, TypeOK
  <2> QED BY <1>1, <2>1, <2>2, MakeStep DEF SpawnSpare
<1>2. CASE OnSocketAccept(new)
  <2>1. Wanted(1, running) \in Nat /\ Wanted(1, running) <= MaxChildren - running
    BY <1>2, FpmAssumption DEF OnSocketAccept, Wanted, IInv, TypeOK
  <2>2. spawnRate' \in Nat
    BY <1>2 DEF OnSocketAccept, IInv, TypeOK
  <2> QED BY <1>2, <2>1, <2>2, MakeStep DEF OnSocketAccept
<1> QED BY <1>1, <1>2

LEMMA StartStep ==
  ASSUME IInv, NEW new, Start(new)
  PROVE  IInv'
<1> DEFINE n == CASE pm = "dynamic"  -> StartServers
                  [] pm = "static"   -> MaxChildren
                  [] pm = "ondemand" -> 0
<1>1. /\ n \in Nat /\ n <= MaxChildren
      /\ pm = "static" => n = MaxChildren
  BY FpmAssumption DEF IInv, TypeOK
<1>2. Forks(new, n, Pid) /\ Pid \in SUBSET Pid /\ TypeOK
  BY DEF Start, IInv
<1> HIDE DEF n
<1>3. /\ new \subseteq Pid /\ Cardinality(new) \in 0 .. n
      /\ FailuresTyped'
      /\ failedForks' = 0 => Cardinality(new) = n
  BY <1>1, <1>2, ForksBounds
<1>4. /\ mpc = "starting" /\ state = "normal" /\ Children = {} /\ quitting = {}
      /\ idleKill = {} /\ timer = FALSE
  <2>1. mpc = "starting" /\ state = "normal" /\ Children = {}
    BY DEF Start, IInv, NotStarted
  <2>2. timer \in BOOLEAN /\ ~timer
    BY <2>1 DEF IInv, TimerSet, TypeOK
  <2> QED BY <2>1, <2>2 DEF IInv, TypeOK
<1>5. /\ phase' = [p \in Pid |-> IF p \in new THEN "loop" ELSE "none"]
      /\ running' = Cardinality(new)
      /\ UNCHANGED <<pm, spawnRate, faults, stage, ended, quitting, idleKill,
                     sigchld>>
  BY DEF Start
<1>6. Children' = new
  BY <1>3, <1>5 DEF Children
<1>7. \/ /\ failedForks' = failedForks /\ mpc' = "loop"
         /\ UNCHANGED <<state, sent, timer, pending>>
      \/ /\ new = {} /\ state' = "terminating" /\ mpc' = "gone"
         /\ UNCHANGED <<sent, timer, pending>>
      \/ /\ new # {} /\ state' = "terminating" /\ mpc' = "loop"
         /\ sent' = "TERM" /\ timer' = TRUE /\ SendAll(new, "TERM")
  BY DEF Start
<1>8. /\ pending' \in [Pid -> SUBSET Signals] /\ sent' \in Signals \cup {"none"}
      /\ mpc' \in {"loop", "gone"} /\ state' \in States /\ timer' \in BOOLEAN
  <2>1. SendAll(new, "TERM") => pending' \in [Pid -> SUBSET Signals]
    BY <1>2, SendAllTypes DEF Signals
  <2> QED BY <1>2, <1>7, <2>1 DEF TypeOK, Signals, States
<1>9. TypeOK'
  <2>1. phase' \in [Pid -> Phases] /\ running' \in Nat
    BY <1>1, <1>3, <1>5 DEF Phases
  <2> QED BY <1>2, <1>3, <1>4, <1>5, <1>8, <2>1 DEF TypeOK
<1>10. PoolBounded' /\ StaticIsFull'
  BY <1>1, <1>3, <1>5, <1>6, FpmAssumption DEF PoolBounded, StaticIsFull
<1>11. QuitsAlive' /\ StaticKeeps' /\ DeadAreNoticed'
  BY <1>3, <1>4, <1>5 DEF QuitsAlive, StaticKeeps, DeadAreNoticed
<1>12. NotStarted' /\ NobodyLeftBehind'
  BY <1>6, <1>7 DEF NotStarted, NobodyLeftBehind
<1>13. TimerSet' /\ LeavingIsTimed'
  BY <1>4, <1>6, <1>7 DEF TimerSet, LeavingIsTimed
<1> QED BY <1>9, <1>10, <1>11, <1>12, <1>13 DEF IInv

-------------------------------------------------------------------------------
(* Reaping.                                                                 *)

(* Whatever takes its place, a child that is reaped leaves these behind.    *)
LEMMA ForgetFacts ==
  ASSUME IInv, NEW p \in Pid, phase[p] = "zombie", Forget(p)
  PROVE  /\ p \in Children /\ p \notin quitting
         /\ Children \ {p} \subseteq Pid
         /\ Cardinality(Children \ {p}) = running - 1 /\ running \in Nat \ {0}
         /\ ended' \in [Pid -> {"no", "exited", "fault", "killed"}]
         /\ stage' \in [Pid -> Stages]
         /\ idleKill' = idleKill \ {p}
<1>1. p \in Children
  BY DEF Children
<1>2. Cardinality(Children \ {p}) = running - 1
  BY <1>1, Removed DEF IInv, PoolBounded
<1>3. Cardinality(Children \ {p}) \in Nat
  BY ChildrenFinite, FS_Subset, FS_CardinalityType
<1> QED
  BY <1>1, <1>2, <1>3
  DEF IInv, TypeOK, PoolBounded, QuitsAlive, Alive, Forget, Stages, Children

(* Nobody takes its place.                                                  *)
LEMMA LeaveStep ==
  ASSUME IInv, NEW p \in Pid, BuryLast(p) \/ BuryAndReload(p)
  PROVE  IInv'
<1>1. /\ phase[p] = "zombie" /\ Forget(p) /\ mpc = "burying"
      /\ phase' = [phase EXCEPT ![p] = "none"] /\ running' = running - 1
      /\ UNCHANGED <<pm, spawnRate, quitting, sigchld, failures>>
  BY DEF BuryLast, BuryAndReload, control
<1>2. /\ p \in Children /\ p \notin quitting
      /\ Cardinality(Children \ {p}) = running - 1 /\ running \in Nat \ {0}
      /\ ended' \in [Pid -> {"no", "exited", "fault", "killed"}]
      /\ stage' \in [Pid -> Stages]
      /\ idleKill' = idleKill \ {p}
  BY <1>1, ForgetFacts
<1>3. Children' = Children \ {p}
  BY <1>1 DEF Children, IInv, TypeOK
<1> DEFINE Facts ==
      /\ pending' \in [Pid -> SUBSET Signals]
      /\ sent' \in Signals \cup {"none"} /\ faults' \in 0 .. Threshold
      /\ state' \in States \ {"normal"} /\ timer' \in BOOLEAN
      /\ \/ Children' = {} /\ mpc' = "gone"
         \/ Children' # {} /\ mpc' = "burying" /\ timer'
<1>4. Facts
  <2>1. CASE BuryLast(p)
    <3>1. Cardinality(Children \ {p}) = 0 /\ IsFiniteSet(Children \ {p})
      BY <1>2, <2>1, ChildrenFinite, FS_Subset DEF BuryLast
    <3>2. Children' = {}
      BY <1>3, <3>1, FS_EmptySet
    <3> QED BY <2>1, <3>2 DEF BuryLast, control, IInv, TypeOK
  <2>2. CASE BuryAndReload(p)
    <3>1. ActionNext(Children', "reloading", "none")
      BY <1>3, <2>2 DEF BuryAndReload
    <3>2. "reloading" \in States /\ "none" \in Signals \cup {"none"} /\ TypeOK
      BY DEF States, IInv
    <3>3. /\ pending' \in [Pid -> SUBSET Signals]
          /\ sent' \in Signals \cup {"none"}
          /\ \/ Children' = {} /\ mpc' = "gone" /\ UNCHANGED <<sent, timer>>
             \/ Children' # {} /\ mpc' = mpc /\ timer' = TRUE
      BY <3>1, <3>2, ActionNextFacts
    <3>4. faults' \in 0 .. Threshold /\ state' = "reloading"
      BY <2>2, FpmAssumption DEF BuryAndReload
    <3> QED BY <1>1, <3>2, <3>3, <3>4 DEF TypeOK
  <2> QED BY <2>1, <2>2
<1>5. TypeOK'
  <2>1. phase' \in [Pid -> Phases] /\ running' \in Nat
    BY <1>1, <1>2 DEF IInv, TypeOK, Phases
  <2> QED BY <1>1, <1>2, <1>3, <1>4, <2>1 DEF IInv, TypeOK
<1>6. PoolBounded'
  BY <1>1, <1>2, <1>3, FpmAssumption DEF IInv, PoolBounded
<1>7. QuitsAlive' /\ StaticKeeps'
  BY <1>1, <1>2 DEF IInv, QuitsAlive, StaticKeeps, Alive, TypeOK
<1>8. NotStarted' /\ TimerSet' /\ NobodyLeftBehind' /\ LeavingIsTimed'
      /\ StaticIsFull' /\ DeadAreNoticed'
  BY <1>4 DEF NotStarted, TimerSet, NobodyLeftBehind, LeavingIsTimed,
              StaticIsFull, DeadAreNoticed, Children
<1> QED BY <1>5, <1>6, <1>7, <1>8 DEF IInv

LEMMA BuryStep ==
  ASSUME IInv, NEW p \in Pid, NEW new, Bury(p, new)
  PROVE  IInv'
<1> DEFINE n == IF Restarted(p) THEN Wanted(1, running - 1) ELSE 0
           free == {p} \cup (Pid \ Children)
<1>1. /\ phase[p] = "zombie" /\ Forget(p) /\ mpc = "burying"
      /\ ~(state # "normal" /\ running = 1)
      /\ Forks(new, n, free)
      /\ phase' = [q \in Pid |-> IF q \in new THEN "loop"
                                  ELSE IF q = p THEN "none" ELSE phase[q]]
      /\ running' = running - 1 + Cardinality(new)
      /\ UNCHANGED <<control, mpc, spawnRate, quitting, pending, sigchld>>
  BY DEF Bury
<1>2. /\ p \in Children /\ p \notin quitting
      /\ Children \ {p} \subseteq Pid
      /\ Cardinality(Children \ {p}) = running - 1 /\ running \in Nat \ {0}
      /\ ended' \in [Pid -> {"no", "exited", "fault", "killed"}]
      /\ stage' \in [Pid -> Stages]
      /\ idleKill' = idleKill \ {p}
  BY <1>1, ForgetFacts
<1>3. /\ n \in Nat /\ n <= MaxChildren - (running - 1)
      /\ pm = "static" /\ state = "normal" => n = MaxChildren - (running - 1)
  BY <1>2, FpmAssumption
  DEF Wanted, Restarted, IInv, PoolBounded, StaticKeeps, TypeOK
<1>4. TypeOK /\ free \in SUBSET Pid
  BY DEF IInv
<1> HIDE DEF n
<1>5. /\ new \subseteq free /\ Cardinality(new) \in 0 .. n
      /\ FailuresTyped'
      /\ failedForks' = 0 => Cardinality(new) = n
  BY <1>1, <1>3, <1>4, ForksBounds
<1>6. Children' = (Children \ {p}) \cup new
  BY <1>1, <1>4, <1>5 DEF Children
<1>7. PoolBounded' /\ StaticIsFull'
  <2>1. Cardinality((Children \ {p}) \cup new) = running - 1 + Cardinality(new)
    BY <1>2, <1>4, <1>5, Added
  <2>2. running' <= MaxChildren
    BY <1>1, <1>2, <1>3, <1>5, FpmAssumption
  <2>3. pm = "static" /\ state = "normal" /\ failedForks' = 0 => running' = MaxChildren
    BY <1>1, <1>2, <1>3, <1>5, FpmAssumption
  <2> QED BY <1>1, <1>6, <2>1, <2>2, <2>3 DEF PoolBounded, StaticIsFull, control
<1>8. TypeOK'
  <2>1. phase' \in [Pid -> Phases] /\ running' \in Nat
    BY <1>1, <1>2, <1>4, <1>5 DEF TypeOK, Phases
  <2>2. faults' \in 0 .. Threshold
    BY FpmAssumption DEF Bury, Lower, IInv, TypeOK
  <2> QED BY <1>1, <1>2, <1>4, <1>5, <1>6, <2>1, <2>2 DEF TypeOK, control
<1>9. QuitsAlive' /\ StaticKeeps' /\ DeadAreNoticed'
  BY <1>1, <1>2, <1>4, <1>5
  DEF IInv, QuitsAlive, StaticKeeps, DeadAreNoticed, Alive, TypeOK, Children, control
<1>10. LeavingIsTimed'
  <2>1. state # "normal" => Children' # {}
    <3>1. ASSUME state # "normal", Children' = {} PROVE FALSE
      <4>1. Children \ {p} = {}
        BY <1>6, <3>1
      <4>2. running - 1 = 0
        BY <1>2, <4>1, FS_EmptySet
      <4> QED BY <1>1, <1>2, <3>1, <4>2
    <3> QED BY <3>1
  <2> QED BY <1>1, <2>1 DEF IInv, LeavingIsTimed, control
<1>11. NotStarted' /\ TimerSet' /\ NobodyLeftBehind'
  BY <1>1 DEF IInv, NotStarted, TimerSet, NobodyLeftBehind, control
<1> QED BY <1>7, <1>8, <1>9, <1>10, <1>11 DEF IInv

-------------------------------------------------------------------------------
LEMMA StepInv == IInv /\ [Next]_vars => IInv'
<1> SUFFICES ASSUME IInv, [Next]_vars PROVE IInv'
  OBVIOUS
<1>1. CASE (\E new \in States : Control(new)) \/ ControlTimeout
  BY <1>1, ControlStep
<1>2. CASE GotSigchld \/ BuryDone \/ ResetRate
  BY <1>2, QuietStep
<1>3. ASSUME NEW new \in SUBSET Pid,
             Start(new) \/ SpawnSpare(new) \/ OnSocketAccept(new)
      PROVE  IInv'
  BY <1>3, StartStep, SpawnStep
<1>4. ASSUME NEW p \in Pid, BuryLast(p) \/ BuryAndReload(p) PROVE IInv'
  BY <1>4, LeaveStep
<1>5. ASSUME NEW p \in Pid, NEW new \in SUBSET Pid, Bury(p, new) PROVE IInv'
  BY <1>5, BuryStep
<1>6. ASSUME NEW p \in Pid, RetireSpare(p) \/ RetireIdle(p) \/ TerminateSlow(p)
      PROVE  IInv'
  BY <1>6, WatchStep
<1>7. ASSUME NEW p \in Pid,
             \/ Accepting(p) \/ Quits(p) \/ Accept(p) \/ ReadingHeaders(p)
             \/ RequestEnd(p) \/ Retire(p) \/ TakeQuit(p) \/ TakeTerm(p)
             \/ TakeKill(p) \/ Crash(p) \/ Drop(p)
      PROVE  IInv'
  BY <1>7, ChildNext
<1>8. CASE UNCHANGED vars
  BY <1>8
  DEF vars, control, child, list, IInv, TypeOK, PoolBounded, QuitsAlive, NotStarted,
      TimerSet, StaticKeeps, NobodyLeftBehind, LeavingIsTimed, DeadAreNoticed,
      StaticIsFull, Alive, Children
<1> QED BY <1>1, <1>2, <1>3, <1>4, <1>5, <1>6, <1>7, <1>8 DEF Next

(* The invariant holds from the start and is kept by every step.            *)
THEOREM FpmInvariant == Spec => []IInv
<1>1. Init => IInv
  BY InitInv
<1>2. IInv /\ [Next]_vars => IInv'
  BY StepInv
<1> QED BY <1>1, <1>2, PTL DEF Spec

(* Every variable of the master, the children and the scoreboard keeps to   *)
(* its values, and nobody who is not a child is leaving or sent away.       *)
THEOREM FpmTypes == Spec => []TypeOK
<1>1. IInv => TypeOK
  BY DEF IInv
<1> QED BY <1>1, FpmInvariant, PTL

(* wp->running_children is the number of children, and within the limit of  *)
(* pm.max_children, in every style of pool.                                 *)
THEOREM PoolCorrect == Spec => []PoolBounded
<1>1. IInv => PoolBounded
  BY DEF IInv
<1> QED BY <1>1, FpmInvariant, PTL

(* No child outlives the master that execs or exits.                        *)
THEOREM ExitCorrect == Spec => []NobodyLeftBehind
<1>1. IInv => NobodyLeftBehind
  BY DEF IInv
<1> QED BY <1>1, FpmInvariant, PTL

(* While the master leaves there is a child to wait for and a timer set.    *)
THEOREM TimerCorrect == Spec => []LeavingIsTimed
<1>1. IInv => LeavingIsTimed
  BY DEF IInv
<1> QED BY <1>1, FpmInvariant, PTL

(* No death of a child goes unnoticed.                                      *)
THEOREM SigchldCorrect == Spec => []DeadAreNoticed
<1>1. IInv => DeadAreNoticed
  BY DEF IInv
<1> QED BY <1>1, FpmInvariant, PTL

(* A static pool stays full as long as fork works.                          *)
THEOREM StaticCorrect == Spec => []StaticIsFull
<1>1. IInv => StaticIsFull
  BY DEF IInv
<1> QED BY <1>1, FpmInvariant, PTL

(* Neither the state of the master nor the signal it has sent for that      *)
(* state ever goes back to a milder one.                                    *)
THEOREM EscalationCorrect == Spec => OnlyEscalates
<1>1. ASSUME IInv, [Next]_vars PROVE [NotMilder]_vars
  <2>1. state \in States /\ sent \in Signals \cup {"none"}
    BY <1>1 DEF IInv, TypeOK
  <2>2. ASSUME UNCHANGED <<state, sent>> PROVE NotMilder
    BY <2>1, <2>2 DEF NotMilder, Rank, Strength, States, Signals
  <2>3. CASE ControlTimeout
    <3>1. /\ state' = state
          /\ sent' = sent \/ sent' = NextSignal(state, sent)
      BY <2>3 DEF ControlTimeout, ActionNext
    <3> QED BY <2>1, <3>1 DEF NextSignal, NotMilder, Rank, Strength, States, Signals
  <2>4. ASSUME NEW new \in States, Control(new) PROVE NotMilder
    BY <2>1, <2>4 DEF Control, CanSwitch, NotMilder, Rank, States
  <2>5. ASSUME NEW new, Start(new) PROVE NotMilder
    <3>1. UNCHANGED <<state, sent>> \/ (state' = "terminating" /\ state = "normal")
      BY <1>1, <2>5 DEF Start, IInv, NotStarted
    <3> QED BY <2>2, <3>1 DEF NotMilder, Rank
  <2>6. ASSUME NEW p \in Pid, BuryAndReload(p) PROVE NotMilder
    BY <2>6 DEF BuryAndReload, NotMilder, Rank
  <2>7. CASE \/ GotSigchld \/ BuryDone \/ ResetRate
             \/ \E new \in SUBSET Pid : SpawnSpare(new) \/ OnSocketAccept(new)
    <3>1. UNCHANGED <<state, sent>>
      BY <2>7 DEF GotSigchld, BuryDone, ResetRate, SpawnSpare, OnSocketAccept,
                  control
    <3> QED BY <2>2, <3>1
  <2>8. ASSUME NEW p \in Pid,
               \/ BuryLast(p) \/ \E new \in SUBSET Pid : Bury(p, new)
               \/ RetireSpare(p) \/ RetireIdle(p) \/ TerminateSlow(p)
               \/ Accepting(p) \/ Quits(p) \/ Accept(p) \/ ReadingHeaders(p)
               \/ RequestEnd(p) \/ Retire(p) \/ TakeQuit(p) \/ TakeTerm(p)
               \/ TakeKill(p) \/ Crash(p) \/ Drop(p)
        PROVE  NotMilder
    <3>1. UNCHANGED <<state, sent>>
      BY <2>8 DEF BuryLast, Bury, RetireSpare, RetireIdle, TerminateSlow, Accepting,
                  Quits, Accept, ReadingHeaders, RequestEnd, Retire, TakeQuit,
                  TakeTerm, TakeKill, Crash, Drop, control
    <3> QED BY <2>2, <3>1
  <2> QED BY <1>1, <2>3, <2>4, <2>5, <2>6, <2>7, <2>8 DEF Next
<1> QED BY <1>1, FpmInvariant, PTL DEF Spec, OnlyEscalates

-------------------------------------------------------------------------------
(* Leaving: the safety that LeavingEnds rests on.                           *)

(* Nobody is forked any more, in whatever way a child was asked for.        *)
LEMMA NoForks ==
  ASSUME IInv, NEW p \in Pid, NEW new, state # "normal",
         Bury(p, new) \/ OnSocketAccept(new)
  PROVE  new = {}
<1>1. \/ Forks(new, 0, {p} \cup (Pid \ Children))
      \/ Forks(new, 0, Pid \ Children)
  BY DEF Bury, OnSocketAccept, Make, Wanted
<1>2. TypeOK /\ {p} \cup (Pid \ Children) \in SUBSET Pid
      /\ Pid \ Children \in SUBSET Pid
  BY DEF IInv
<1>3. new \subseteq Pid /\ Cardinality(new) \in 0 .. 0
  BY <1>1, <1>2, ForksBounds
<1>4. IsFiniteSet(new)
  BY <1>3, FpmAssumption, FS_Subset
<1> QED BY <1>3, <1>4, FS_EmptySet

NobodyJoins == state # "normal" => \A q \in Pid : Alive(q)' => Alive(q)

LEMMA JoinStep == IInv /\ [Next]_vars => NobodyJoins
<1> SUFFICES ASSUME IInv, [Next]_vars, state # "normal", NEW q \in Pid, Alive(q)'
             PROVE  Alive(q)
  BY DEF NobodyJoins
<1>0. phase \in [Pid -> Phases] /\ mpc # "starting"
  BY DEF IInv, TypeOK, NotStarted
<1>1. CASE UNCHANGED phase
  BY <1>1 DEF Alive
<1>2. ASSUME NEW p \in Pid, BuryLast(p) \/ BuryAndReload(p) PROVE Alive(q)
  BY <1>0, <1>2 DEF BuryLast, BuryAndReload, Alive
<1>3. ASSUME NEW p \in Pid, NEW new, Bury(p, new) PROVE Alive(q)
  <2>1. new = {}
    BY <1>3, NoForks
  <2> QED BY <1>0, <1>3, <2>1 DEF Bury, Alive
<1>4. ASSUME NEW new, OnSocketAccept(new) PROVE Alive(q)
  <2>1. new = {}
    BY <1>4, NoForks
  <2> QED BY <1>0, <1>4, <2>1 DEF OnSocketAccept, Make, Alive
<1>5. ASSUME NEW p \in Pid,
             \/ Accepting(p) \/ Quits(p) \/ Accept(p) \/ ReadingHeaders(p)
             \/ RequestEnd(p) \/ Retire(p) \/ TakeQuit(p) \/ TakeTerm(p)
             \/ TakeKill(p) \/ Crash(p) \/ Drop(p)
      PROVE  Alive(q)
  <2>1. \/ UNCHANGED phase
        \/ phase[p] \notin {"none", "zombie"} /\ \E x : phase' = [phase EXCEPT ![p] = x]
    BY <1>5 DEF Accepting, Quits, Accept, ReadingHeaders, RequestEnd, Retire, TakeQuit,
                TakeTerm, TakeKill, Crash, Drop, Move, Ends, Alive
  <2> QED BY <1>0, <2>1 DEF Alive
<1>6. CASE \/ (\E new \in States : Control(new)) \/ ControlTimeout \/ GotSigchld
           \/ BuryDone \/ ResetRate
           \/ \E p \in Pid : RetireSpare(p) \/ RetireIdle(p) \/ TerminateSlow(p)
  <2>1. UNCHANGED phase
    BY <1>6 DEF Control, ControlTimeout, GotSigchld, BuryDone, ResetRate, RetireSpare,
                RetireIdle, TerminateSlow, child
  <2> QED BY <1>1, <2>1
<1>7. ASSUME NEW new, Start(new) \/ SpawnSpare(new) PROVE FALSE
  BY <1>0, <1>7 DEF Start, SpawnSpare
<1>8. CASE UNCHANGED vars
  BY <1>1, <1>8 DEF vars, child
<1> QED BY <1>2, <1>3, <1>4, <1>5, <1>6, <1>7, <1>8 DEF Next

(* While the master leaves, nobody comes to life who would have to be sent  *)
(* away too, neither in the place of a child that died nor for a connection.*)
THEOREM LeavingOnlyShrinks == Spec => [][NobodyJoins]_vars
<1>1. IInv /\ [Next]_vars => NobodyJoins
  BY JoinStep
<1> QED BY <1>1, FpmInvariant, PTL DEF Spec

(* A SIGKILL for everybody was sent to everybody who is alive.              *)
KillReaches ==
  state # "normal" /\ mpc # "gone" /\ sent = "KILL" =>
    \A q \in Pid : Alive(q) => "KILL" \in pending[q]

LEMMA KillStep == IInv /\ KillReaches /\ [Next]_vars => KillReaches'
<1> SUFFICES ASSUME IInv, KillReaches, [Next]_vars,
                    state' # "normal", mpc' # "gone", sent' = "KILL",
                    NEW q \in Pid, Alive(q)'
             PROVE  "KILL" \in pending[q]'
  BY DEF KillReaches
<1>0. /\ phase \in [Pid -> Phases] /\ pending \in [Pid -> SUBSET Signals]
      /\ mpc = "starting" => state = "normal"
      /\ mpc \in {"starting", "loop", "burying", "gone"}
  BY DEF IInv, TypeOK, NotStarted
<1>1. ASSUME UNCHANGED <<state, sent>>, mpc # "gone"
      PROVE  Alive(q) /\ "KILL" \in pending[q]
  <2>1. Alive(q)
    BY <1>1, JoinStep DEF NobodyJoins
  <2> QED BY <1>1, <2>1 DEF KillReaches
<1>2. ASSUME NEW new \in States, Control(new) PROVE FALSE
  BY <1>2 DEF Control, ActionNext, NextSignal
<1>3. CASE ControlTimeout
  BY <1>0, <1>3 DEF ControlTimeout, ActionNext, SendAll, Send, Alive, Children
<1>4. ASSUME NEW new, Start(new) PROVE FALSE
  BY <1>0, <1>4 DEF Start
<1>5. ASSUME NEW p \in Pid, BuryLast(p) \/ BuryAndReload(p) PROVE FALSE
  BY <1>5 DEF BuryLast, BuryAndReload, ActionNext, NextSignal
<1>6. ASSUME NEW p \in Pid, NEW new, Bury(p, new) PROVE "KILL" \in pending[q]'
  BY <1>1, <1>6 DEF Bury, control
<1>7. ASSUME NEW new, SpawnSpare(new) \/ OnSocketAccept(new)
      PROVE  "KILL" \in pending[q]'
  BY <1>1, <1>7 DEF SpawnSpare, OnSocketAccept, control
<1>8. ASSUME NEW p \in Pid, RetireSpare(p) \/ RetireIdle(p) PROVE FALSE
  BY <1>8 DEF RetireSpare, RetireIdle, control
<1>9. ASSUME NEW p \in Pid, TerminateSlow(p) PROVE "KILL" \in pending[q]'
  <2>1. "KILL" \in pending[q]
    BY <1>1, <1>9 DEF TerminateSlow, control
  <2> QED BY <1>0, <1>9, <2>1 DEF TerminateSlow, Send
<1>10. ASSUME NEW p \in Pid,
              \/ Accepting(p) \/ Quits(p) \/ Accept(p) \/ ReadingHeaders(p)
              \/ RequestEnd(p) \/ Retire(p) \/ TakeQuit(p) \/ TakeTerm(p)
              \/ TakeKill(p) \/ Crash(p) \/ Drop(p)
       PROVE  "KILL" \in pending[q]'
  <2>1. UNCHANGED <<state, sent, mpc>>
    BY <1>10 DEF Accepting, Quits, Accept, ReadingHeaders, RequestEnd, Retire, TakeQuit,
                 TakeTerm, TakeKill, Crash, Drop, control
  <2>2. "KILL" \in pending[q]
    BY <1>1, <2>1
  <2>3. \/ UNCHANGED pending
        \/ phase' = [phase EXCEPT ![p] = "zombie"]
           /\ pending' = [pending EXCEPT ![p] = {}]
        \/ pending' = [pending EXCEPT ![p] = @ \ {"QUIT"}]
    BY <1>10 DEF Accepting, Quits, Accept, ReadingHeaders, RequestEnd, Retire, TakeQuit,
                 TakeTerm, TakeKill, Crash, Drop, Ends
  <2> QED BY <1>0, <2>2, <2>3 DEF Alive
<1>11. CASE GotSigchld \/ BuryDone \/ ResetRate \/ UNCHANGED vars
  <2>1. UNCHANGED <<state, sent, pending>> /\ mpc # "gone"
    BY <1>11 DEF GotSigchld, BuryDone, ResetRate, vars, child, control
  <2> QED BY <1>1, <2>1
<1> QED BY <1>2, <1>3, <1>4, <1>5, <1>6, <1>7, <1>8, <1>9, <1>10, <1>11 DEF Next

(* A child that ignores every signal cannot stay: once the master has sent  *)
(* SIGKILL, every child that is alive has it coming, and none has slipped   *)
(* in since.                                                                *)
THEOREM NobodyEscapes == Spec => []KillReaches
<1>1. Init => KillReaches
  BY DEF Init, KillReaches
<1>2. IInv /\ KillReaches /\ [Next]_vars => KillReaches'
  BY KillStep
<1> QED BY <1>1, <1>2, FpmInvariant, PTL DEF Spec

(* While the master leaves, one of the steps that bring it further can be   *)
(* taken: send a harder signal, look at a SIGCHLD, reap, or a child dies of *)
(* a SIGKILL.                                                               *)
WayOut ==
  state # "normal" /\ mpc # "gone" =>
    \/ mpc = "loop" /\ timer /\ Strength(NextSignal(state, sent)) > Strength(sent)
    \/ mpc = "loop" /\ sigchld
    \/ mpc = "burying"
    \/ \E p \in Pid : Alive(p) /\ "KILL" \in pending[p]

(* The master is never stuck on its way out, whichever signals its children *)
(* ignore and whenever they die.                                            *)
THEOREM LeavingGoesOn == Spec => []WayOut
<1>1. IInv /\ KillReaches => WayOut
  <2> SUFFICES ASSUME IInv, KillReaches, state # "normal", mpc # "gone"
               PROVE  WayOut
    BY DEF WayOut
  <2>1. /\ mpc \in {"loop", "burying"} /\ timer
        /\ sent \in Signals \cup {"none"}
    BY DEF IInv, TypeOK, NotStarted, LeavingIsTimed
  <2>2. PICK p \in Pid : phase[p] # "none"
    BY DEF IInv, LeavingIsTimed, Children
  <2>3. CASE sent # "KILL"
    BY <2>1, <2>3 DEF WayOut, Strength, NextSignal, Signals
  <2>4. CASE phase[p] = "zombie"
    BY <2>1, <2>4 DEF IInv, DeadAreNoticed, WayOut
  <2>5. CASE sent = "KILL" /\ phase[p] # "zombie"
    BY <2>2, <2>5 DEF KillReaches, Alive, WayOut
  <2> QED BY <2>3, <2>4, <2>5
<1> QED BY <1>1, FpmInvariant, NobodyEscapes, PTL

-------------------------------------------------------------------------------
(* Refilling: the safety that PoolRefills rests on.                         *)

(* A finite set has a part of every smaller size.                           *)
LEMMA PartOfSize ==
  ASSUME NEW S, IsFiniteSet(S), NEW n \in Nat, n <= Cardinality(S)
  PROVE  \E T \in SUBSET S : Cardinality(T) = n
<1>1. Cardinality(S) \in Nat /\ ExistsBijection(1 .. Cardinality(S), S)
  BY FS_CardinalityType
<1>2. PICK f \in Bijection(1 .. Cardinality(S), S) : TRUE
  BY <1>1 DEF ExistsBijection
<1> DEFINE T == {f[i] : i \in 1 .. n}
           g == [i \in 1 .. n |-> f[i]]
<1>3. /\ f \in [1 .. Cardinality(S) -> S]
      /\ \A i, j \in 1 .. Cardinality(S) : f[i] = f[j] => i = j
  <2>1. f \in [1 .. Cardinality(S) -> S] /\ IsInjective(f)
    BY <1>2 DEF Bijection, Injection
  <2> QED BY <2>1 DEF IsInjective
<1>4. 1 .. n \subseteq 1 .. Cardinality(S)
  BY <1>1
<1>5. g \in Bijection(1 .. n, T)
  <2>1. g \in [1 .. n -> T] /\ \A t \in T : \E i \in 1 .. n : g[i] = t
    OBVIOUS
  <2>2. IsInjective(g)
    BY <1>3, <1>4 DEF IsInjective
  <2> QED BY <2>1, <2>2 DEF Bijection, Injection, Surjection
<1>6. Cardinality(T) = n
  BY <1>5, FS_CountingElements DEF ExistsBijection
<1>7. T \in SUBSET S
  BY <1>3, <1>4
<1> QED BY <1>6, <1>7

(* The rate is reset to one or doubled, so that it never asks for nobody.   *)
RateOn == spawnRate > 0

LEMMA RateStep == IInv /\ RateOn /\ [Next]_vars => RateOn'
<1> SUFFICES ASSUME IInv, RateOn, [Next]_vars PROVE RateOn'
  OBVIOUS
<1>1. spawnRate \in Nat
  BY DEF IInv, TypeOK
<1>2. UNCHANGED spawnRate \/ spawnRate' = 1 \/ spawnRate' = 2 * spawnRate
  <2>1. CASE UNCHANGED vars
    BY <2>1 DEF vars
  <2>2. ASSUME NEW new, Start(new) \/ SpawnSpare(new) \/ OnSocketAccept(new)
        PROVE  UNCHANGED spawnRate \/ spawnRate' = 2 * spawnRate
    BY <2>2 DEF Start, SpawnSpare, OnSocketAccept
  <2>3. CASE \/ (\E new \in States : Control(new)) \/ ControlTimeout
             \/ GotSigchld \/ BuryDone \/ ResetRate
    BY <2>3 DEF Control, ControlTimeout, GotSigchld, BuryDone, ResetRate
  <2>4. ASSUME NEW p \in Pid,
               \/ BuryLast(p) \/ BuryAndReload(p)
               \/ \E new \in SUBSET Pid : Bury(p, new)
               \/ RetireSpare(p) \/ RetireIdle(p) \/ TerminateSlow(p)
        PROVE  UNCHANGED spawnRate \/ spawnRate' = 1
    BY <2>4 DEF BuryLast, BuryAndReload, Bury, RetireSpare, RetireIdle, TerminateSlow
  <2>5. ASSUME NEW p \in Pid,
               \/ Accepting(p) \/ Quits(p) \/ Accept(p) \/ ReadingHeaders(p)
               \/ RequestEnd(p) \/ Retire(p) \/ TakeQuit(p) \/ TakeTerm(p)
               \/ TakeKill(p) \/ Crash(p) \/ Drop(p)
        PROVE  UNCHANGED spawnRate
    BY <2>5 DEF Accepting, Quits, Accept, ReadingHeaders, RequestEnd, Retire, TakeQuit,
                TakeTerm, TakeKill, Crash, Drop
  <2> QED BY <2>1, <2>2, <2>3, <2>4, <2>5 DEF Next
<1> QED BY <1>1, <1>2 DEF RateOn

Short == pm = "dynamic" /\ state = "normal" /\ mpc = "loop" /\ running < MinSpare

(* What SpawnSpare asks for, and somebody to fork.                          *)
SpareDue ==
  /\ Cardinality(Idle) <= MaxSpare /\ Cardinality(Idle) < MinSpare
  /\ running < MaxChildren
  /\ \E new \in SUBSET (Pid \ Children) :
       Shortfall > 0 /\ Cardinality(new) = Shortfall

(* A dynamic pool with too few children is always about to get more: the    *)
(* dead that the scoreboard still shows as idle do not hide the lack, and   *)
(* the rate is never worn down to nothing.  The limits are what             *)
(* fpm_conf.c:909-916 insists on, with as many pids as children.            *)
THEOREM LackIsSeen ==
  ASSUME MinSpare <= MaxSpare, MaxSpare <= MaxChildren,
         MaxChildren <= Cardinality(Pid)
  PROVE  Spec => [](Short => SpareDue)
<1>1. Init => RateOn
  BY DEF Init, RateOn
<1>2. IInv /\ RateOn /\ [Next]_vars => RateOn'
  BY RateStep
<1>3. IInv /\ RateOn => (Short => SpareDue)
  <2> SUFFICES ASSUME IInv, RateOn, Short PROVE SpareDue
    OBVIOUS
  <2>1. /\ running \in Nat /\ spawnRate \in Nat \ {0}
        /\ running = Cardinality(Children) /\ running < MinSpare
    BY DEF IInv, TypeOK, PoolBounded, RateOn, Short
  <2>2. IsFiniteSet(Children) /\ Idle \in SUBSET Children
    BY ChildrenFinite DEF Idle
  <2>3. Cardinality(Idle) \in Nat /\ Cardinality(Idle) <= running
    BY <2>1, <2>2, FS_Subset, FS_CardinalityType
  <2>4. /\ MinSpare \in Nat /\ MaxSpare \in Nat /\ MaxChildren \in Nat
        /\ IsFiniteSet(Pid)
    BY FpmAssumption
  <2>5. Shortfall \in Nat \ {0} /\ Shortfall <= MaxChildren - running
    BY <2>1, <2>3, <2>4 DEF Shortfall, Lower
  <2>6. /\ IsFiniteSet(Pid \ Children)
        /\ Cardinality(Pid \ Children) = Cardinality(Pid) - running
    <3>1. Cardinality(Pid \ Children)
            = Cardinality(Pid) - Cardinality(Pid \cap Children)
      BY <2>4, FS_Difference
    <3>2. Pid \cap Children = Children
      BY DEF Children
    <3> QED BY <2>1, <2>4, <3>1, <3>2, FS_Subset
  <2>7. Cardinality(Pid) \in Nat
    BY <2>4, FS_CardinalityType
  <2>8. Shortfall <= Cardinality(Pid \ Children)
    BY <2>1, <2>4, <2>5, <2>6, <2>7
  <2>9. \E new \in SUBSET (Pid \ Children) : Cardinality(new) = Shortfall
    BY <2>5, <2>6, <2>8, PartOfSize
  <2> QED BY <2>1, <2>3, <2>4, <2>5, <2>9 DEF SpareDue
<1> QED BY <1>1, <1>2, <1>3, FpmInvariant, PTL DEF Spec

-------------------------------------------------------------------------------
(* The master implements ProcessPool.                                       *)

(* What the list and the stance do not depend on.                           *)
LEMMA ManagerWaits ==
  ASSUME UNCHANGED <<state, phase>>,
         mpc' = mpc \/ (mpc \in {"loop", "burying"} /\ mpc' \in {"loop", "burying"})
  PROVE  UNCHANGED Manager!poolVars
BY DEF Manager!poolVars, Stance, Children, Living, Alive

LEMMA ManagerControls ==
  ASSUME IInv, IInv', (\E new \in States : Control(new)) \/ ControlTimeout
  PROVE  [Manager!Next]_(Manager!poolVars)
<1>1. UNCHANGED phase /\ mpc = "loop" /\ state' # "normal"
  BY DEF Control, ControlTimeout, CanSwitch, IInv, TimerSet
<1>2. UNCHANGED <<Children, Living>>
  BY <1>1 DEF Children, Living, Alive
<1>3. /\ Children = {} => mpc' = "gone"
      /\ Children # {} => mpc' = "loop"
  BY <1>1 DEF Control, ControlTimeout, ActionNext
<1>4. Stance' = Manager!Left(Children)
  BY <1>1, <1>3 DEF Stance, Manager!Left
<1>5. CASE state = "normal"
  <2>1. Manager!Leave
    BY <1>1, <1>2, <1>4, <1>5 DEF Manager!Leave, Stance
  <2> QED
    BY <2>1 DEF Manager!Next
<1>6. CASE state # "normal"
  <2>1. Children # {}
    BY <1>1, <1>6 DEF IInv, LeavingIsTimed
  <2>2. Stance' = Stance
    BY <1>1, <1>4, <1>6, <2>1 DEF Stance, Manager!Left
  <2> QED
    BY <1>2, <2>2 DEF Manager!poolVars
<1> QED
  BY <1>5, <1>6

LEMMA ManagerStarts ==
  ASSUME IInv, IInv', NEW new \in SUBSET Pid, Start(new)
  PROVE  Manager!Next
<1>1. /\ mpc = "starting" /\ state = "normal"
      /\ phase' = [p \in Pid |-> IF p \in new THEN "loop" ELSE "none"]
  BY DEF Start, IInv, NotStarted
<1>2. Children' = new /\ Living' = new
  BY <1>1 DEF Children, Living, Alive
<1>3. new \in WithinLimit
  BY <1>2 DEF IInv, PoolBounded, WithinLimit
<1>4. \/ mpc' = "loop" /\ state' = "normal"
      \/ new = {} /\ mpc' = "gone"
      \/ new # {} /\ mpc' = "loop" /\ state' = "terminating"
  BY <1>1 DEF Start
<1>5. Stance = "starting" /\ Stance' \in {"up", Manager!Left(new)}
  BY <1>1, <1>4 DEF Stance, Manager!Left
<1>6. Manager!Start(new)
  BY <1>2, <1>3, <1>5 DEF Manager!Start, WithinLimit
<1> QED
  BY <1>6 DEF Manager!Next

LEMMA ManagerForks ==
  ASSUME IInv, IInv', NEW new \in SUBSET Pid, SpawnSpare(new) \/ OnSocketAccept(new)
  PROVE  [Manager!Next]_(Manager!poolVars)
<1>1. /\ mpc = "loop" /\ UNCHANGED <<state, mpc>>
      /\ new \cap Children = {}
      /\ phase' = [p \in Pid |-> IF p \in new THEN "loop" ELSE phase[p]]
      /\ phase \in [Pid -> Phases]
  BY DEF SpawnSpare, OnSocketAccept, Make, Forks, control, IInv, TypeOK
<1>2. Children' = Children \cup new /\ Living' = Living \cup new
  BY <1>1 DEF Children, Living, Alive
<1>3. Stance' = Stance
  BY <1>1 DEF Stance
<1>4. CASE state = "normal"
  <2>1. Children \cup new \in WithinLimit
    BY <1>2 DEF IInv, PoolBounded, Children, WithinLimit
  <2>2. Manager!Fork(new)
    BY <1>1, <1>2, <1>3, <1>4, <2>1 DEF Manager!Fork, Stance, WithinLimit
  <2> QED
    BY <2>2 DEF Manager!Next
<1>5. CASE state # "normal"
  <2>1. OnSocketAccept(new)
    BY <1>5 DEF SpawnSpare
  <2>2. PICK p \in Pid : TRUE
    BY <1>5, <2>1 DEF IInv, LeavingIsTimed, Children, OnSocketAccept
  <2>3. new = {}
    BY <1>5, <2>1, <2>2, NoForks
  <2> QED
    BY <1>2, <1>3, <2>3 DEF Manager!poolVars
<1> QED
  BY <1>4, <1>5

LEMMA ManagerBuries ==
  ASSUME IInv, IInv', NEW p \in Pid, BuryLast(p) \/ BuryAndReload(p)
  PROVE  Manager!Next
<1>1. /\ mpc = "burying" /\ phase[p] = "zombie" /\ state' # "normal"
      /\ phase' = [phase EXCEPT ![p] = "none"]
      /\ mpc' \in {"burying", "gone"}
      /\ phase \in [Pid -> Phases]
  BY DEF BuryLast, BuryAndReload, ActionNext, control, IInv, TypeOK
<1>2. /\ p \in Children \ Living
      /\ Children' = Children \ {p} /\ Living' = Living
  BY <1>1 DEF Children, Living, Alive
<1>3. mpc' = "gone" <=> Children' = {}
  BY <1>1 DEF IInv, NobodyLeftBehind, LeavingIsTimed
<1>4. Stance \in {"up", "leaving"} /\ Stance' = Manager!Left(Children \ {p})
  BY <1>1, <1>2, <1>3 DEF Stance, Manager!Left
<1>5. Manager!Bury(p)
  BY <1>2, <1>4 DEF Manager!Bury
<1> QED
  BY <1>5 DEF Manager!Next

LEMMA ManagerReplaces ==
  ASSUME IInv, IInv', NEW p \in Pid, NEW new \in SUBSET Pid, Bury(p, new)
  PROVE  Manager!Next
<1>1. /\ mpc = "burying" /\ phase[p] = "zombie" /\ UNCHANGED <<state, mpc>>
      /\ new \subseteq {p} \cup (Pid \ Children)
      /\ phase' = [q \in Pid |-> IF q \in new THEN "loop"
                                  ELSE IF q = p THEN "none" ELSE phase[q]]
      /\ phase \in [Pid -> Phases]
  BY DEF Bury, Forks, control, IInv, TypeOK
<1>2. /\ p \in Children \ Living
      /\ new \cap (Children \ {p}) = {}
      /\ Children' = (Children \ {p}) \cup new
      /\ Living' = Living \cup new
  BY <1>1 DEF Children, Living, Alive
<1>3. CASE state = "normal"
  <2>1. (Children \ {p}) \cup new \in WithinLimit
    BY <1>2 DEF IInv, PoolBounded, Children, WithinLimit
  <2>2. Stance = "up" /\ Stance' = Stance
    BY <1>1, <1>3 DEF Stance
  <2>3. Manager!Replace(p, new)
    BY <1>2, <2>1, <2>2 DEF Manager!Replace, WithinLimit
  <2> QED
    BY <2>3 DEF Manager!Next
<1>4. CASE state # "normal"
  <2>1. new = {}
    BY <1>4, NoForks
  <2>2. Children' # {}
    BY <1>1, <1>4 DEF IInv, LeavingIsTimed
  <2>3. Stance = "leaving" /\ Stance' = Manager!Left(Children \ {p})
    BY <1>1, <1>2, <1>4, <2>1, <2>2 DEF Stance, Manager!Left
  <2>4. Manager!Bury(p)
    BY <1>2, <2>1, <2>3 DEF Manager!Bury
  <2> QED
    BY <2>4 DEF Manager!Next
<1> QED
  BY <1>3, <1>4

LEMMA ManagerChild ==
  ASSUME IInv, NEW p \in Pid,
         \/ Accepting(p) \/ Quits(p) \/ Accept(p) \/ ReadingHeaders(p)
         \/ RequestEnd(p) \/ Retire(p) \/ TakeQuit(p) \/ TakeTerm(p)
         \/ TakeKill(p) \/ Crash(p) \/ Drop(p)
  PROVE  [Manager!Next]_(Manager!poolVars)
<1>1. /\ UNCHANGED <<state, mpc>>
      /\ phase \in [Pid -> Phases]
      /\ Alive(p)
      /\ \/ UNCHANGED phase
         \/ \E x \in Phases \ {"none"} : phase' = [phase EXCEPT ![p] = x]
  BY DEF Accepting, Quits, Accept, ReadingHeaders, RequestEnd, Retire, TakeQuit,
         TakeTerm, TakeKill, Crash, Drop, Move, Ends, Alive, control, IInv, TypeOK,
         Phases
<1>2. CASE UNCHANGED phase
  BY <1>1, <1>2, ManagerWaits
<1>3. ASSUME NEW x \in Phases \ {"none"}, phase' = [phase EXCEPT ![p] = x]
      PROVE  [Manager!Next]_(Manager!poolVars)
  <2>1. Children' = Children /\ Stance' = Stance
    BY <1>1, <1>3 DEF Children, Stance, Alive
  <2>2. Living' = IF x = "zombie" THEN Living \ {p} ELSE Living
    BY <1>1, <1>3 DEF Living, Alive
  <2>3. CASE x = "zombie"
    <3>1. Manager!Die(p)
      BY <1>1, <2>1, <2>2, <2>3 DEF Manager!Die, Living
    <3> QED
      BY <3>1 DEF Manager!Next
  <2>4. CASE x # "zombie"
    BY <2>1, <2>2, <2>4 DEF Manager!poolVars
  <2> QED
    BY <2>3, <2>4
<1> QED
  BY <1>1, <1>2, <1>3

LEMMA ManagerStep ==
  ASSUME IInv, IInv', [Next]_vars
  PROVE  [Manager!Next]_(Manager!poolVars)
<1>1. CASE (\E new \in States : Control(new)) \/ ControlTimeout
  BY <1>1, ManagerControls
<1>2. ASSUME NEW new \in SUBSET Pid,
             Start(new) \/ SpawnSpare(new) \/ OnSocketAccept(new)
      PROVE  [Manager!Next]_(Manager!poolVars)
  BY <1>2, ManagerStarts, ManagerForks
<1>3. ASSUME NEW p \in Pid,
             \/ BuryLast(p) \/ BuryAndReload(p)
             \/ \E new \in SUBSET Pid : Bury(p, new)
      PROVE  Manager!Next
  BY <1>3, ManagerBuries, ManagerReplaces
<1>4. ASSUME NEW p \in Pid,
             \/ Accepting(p) \/ Quits(p) \/ Accept(p) \/ ReadingHeaders(p)
             \/ RequestEnd(p) \/ Retire(p) \/ TakeQuit(p) \/ TakeTerm(p)
             \/ TakeKill(p) \/ Crash(p) \/ Drop(p)
      PROVE  [Manager!Next]_(Manager!poolVars)
  BY <1>4, ManagerChild
<1>5. CASE \/ GotSigchld \/ BuryDone \/ ResetRate \/ UNCHANGED vars
           \/ \E p \in Pid : RetireSpare(p) \/ RetireIdle(p) \/ TerminateSlow(p)
  <2>1. /\ UNCHANGED <<state, phase>>
        /\ mpc' = mpc \/ (mpc \in {"loop", "burying"} /\ mpc' \in {"loop", "burying"})
    BY <1>5 DEF GotSigchld, BuryDone, ResetRate, RetireSpare, RetireIdle,
                TerminateSlow, vars, control, child
  <2> QED
    BY <2>1, ManagerWaits
<1> QED
  BY <1>1, <1>2, <1>3, <1>4, <1>5 DEF Next

(* Every step of the master and of the children is a step that ProcessPool  *)
(* allows, or none: forking, reaping, signals, timers, the scoreboard and   *)
(* the styles of pool together keep its promise.                            *)
THEOREM FpmImplementsPool == Spec => ImplementsPool
<1>1. Init => Manager!Init
  BY DEF Init, Manager!Init, Stance, Children, Living, Alive
<1>2. IInv /\ IInv' /\ [Next]_vars => [Manager!Next]_(Manager!poolVars)
  BY ManagerStep
<1> QED
  BY <1>1, <1>2, FpmInvariant, PTL DEF Spec, ImplementsPool, Manager!Spec

===============================================================================
