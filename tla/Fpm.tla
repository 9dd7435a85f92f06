--------------------------------- MODULE Fpm ---------------------------------
(***************************************************************************)
(* The process manager the shop's workers run under (sapi/fpm).  A single- *)
(* threaded master forks workers, watches them through the scoreboard they *)
(* share, sends them signals and reaps them.  A worker accepts connections *)
(* one at a time.                                                          *)
(*                                                                         *)
(* Signals are asynchronous: kill() makes a signal pending, and the worker *)
(* takes it at any later step of its own, SIGQUIT by finishing what it has *)
(* begun, SIGTERM and SIGKILL by dying.  A worker that died stays in the   *)
(* master's list, and in the scoreboard, until it is reaped.               *)
(*                                                                         *)
(* One handler of the event loop is one step of the master, except that it *)
(* reaps one worker at a time: each waitpid sees the workers as they are   *)
(* then.  There is one pool, and time is not modelled: a timer or timeout  *)
(* may fire whenever it is set, and which of the idle workers has been     *)
(* idle for longest is left open.  Tracing of slow requests is left out.   *)
(***************************************************************************)
EXTENDS Integers, FiniteSets

CONSTANTS
  Pid,            \* process identities
  Styles,         \* values of pm to consider
  MaxChildren,    \* pm.max_children
  StartServers,   \* pm.start_servers
  MinSpare,       \* pm.min_spare_servers
  MaxSpare,       \* pm.max_spare_servers
  MaxSpawnRate,   \* pm.max_spawn_rate
  Threshold,      \* emergency_restart_threshold, 0 for off
  MaxFailures     \* bound: workers that crash and calls of fork that fail

ASSUME FpmAssumption ==
  /\ IsFiniteSet(Pid)
  /\ Styles \subseteq {"static", "dynamic", "ondemand"}
  /\ MaxChildren \in Nat \ {0} /\ StartServers \in Nat
  /\ StartServers <= MaxChildren
  /\ MinSpare \in Nat /\ MaxSpare \in Nat /\ MaxSpawnRate \in Nat
  /\ Threshold \in Nat /\ MaxFailures \in Nat

VARIABLES
  pm,             \* how the pool is managed; fixed when the master starts
  mpc,            \* what the master is doing
  state,          \* fpm_state
  sent,           \* fpm_signal_sent
  timer,          \* the timer of the process control is armed
  sigchld,        \* a SIGCHLD has not been looked at
  running,        \* wp->running_children
  spawnRate,      \* wp->idle_spawn_rate
  faults,         \* entries of last_faults, up to Threshold
  phase,          \* where each process is; "none" when there is no process
  ended,          \* how a process ended
  pending,        \* signals on their way to a process
  quitting,       \* processes that took a SIGQUIT (in_shutdown)
  idleKill,       \* child->idle_kill
  stage,          \* what the scoreboard says of each child
  crashes,        \* workers that crashed, for the bound
  failedForks     \* calls of fork that failed, for the bound

control == <<pm, state, sent, timer>>
child   == <<phase, ended, quitting, pending>>
list    == <<running, idleKill>>
failures == <<crashes, failedForks>>
vars    == <<control, mpc, spawnRate, faults, stage, child, list, sigchld,
             failures>>

Signals == {"QUIT", "TERM", "KILL"}
Phases  == {"none", "loop", "accepting", "taken", "serving", "zombie"}
States  == {"normal", "reloading", "finishing", "terminating"}
Stages  == {"accepting", "busy", "other"}    \* creating and finished: other

Children == {p \in Pid : phase[p] # "none"}

TypeOK ==
  /\ pm \in Styles /\ mpc \in {"starting", "loop", "burying", "gone"}
  /\ state \in States
  /\ sent \in Signals \cup {"none"} /\ timer \in BOOLEAN
  /\ sigchld \in BOOLEAN
  /\ running \in Nat /\ spawnRate \in Nat
  /\ faults \in 0 .. Threshold
  /\ phase \in [Pid -> Phases]
  /\ ended \in [Pid -> {"no", "exited", "fault", "killed"}]
  /\ pending \in [Pid -> SUBSET Signals]
  /\ quitting \subseteq Children /\ idleKill \subseteq Children
  /\ stage \in [Pid -> Stages]
  /\ crashes \in 0 .. MaxFailures /\ failedForks \in 0 .. MaxFailures

(* The master, before fpm_run forks the first children.                     *)
Init ==
  /\ pm \in Styles
  /\ mpc = "starting"
  /\ state = "normal" /\ sent = "none" /\ timer = FALSE /\ sigchld = FALSE
  /\ running = 0 /\ spawnRate = 1 /\ faults = 0
  /\ phase = [p \in Pid |-> "none"] /\ ended = [p \in Pid |-> "no"]
  /\ pending = [p \in Pid |-> {}]
  /\ quitting = {} /\ idleKill = {}
  /\ stage = [p \in Pid |-> "other"]
  /\ crashes = 0 /\ failedForks = 0

-------------------------------------------------------------------------------
(* What the master decides when it leaves (fpm_pctl).                       *)

(* A bug: any state can be overridden by any other.                         *)
CanSwitchBack(new) == new \notin {"normal", state}

(* 'finishing' overrides 'reloading', 'terminating' overrides both.         *)
CanSwitch(new) ==
  \/ state = "normal" /\ new # "normal"
  \/ state = "reloading" /\ new \in {"finishing", "terminating"}
  \/ state = "finishing" /\ new = "terminating"

(* A bug: whoever did not react to SIGTERM gets another one.                *)
NextSignalMild(st, last) ==
  IF last = "none" THEN (IF st = "terminating" THEN "TERM" ELSE "QUIT")
  ELSE "TERM"

(* Which signal comes next: first the one for the state, then a harder one. *)
NextSignal(st, last) ==
  IF last = "none" THEN (IF st = "terminating" THEN "TERM" ELSE "QUIT")
  ELSE IF last = "QUIT" THEN "TERM" ELSE "KILL"

(* kill(): SIGKILL cannot be blocked, and no other signal matters after it. *)
Send(signals, sig) ==
  IF sig = "KILL" \/ "KILL" \in signals THEN {"KILL"} ELSE signals \cup {sig}

SendAll(left, sig) ==
  pending' = [p \in Pid |-> IF p \in left /\ phase[p] # "zombie"
                              THEN Send(pending[p], sig) ELSE {}]

(* A bug: the timer is armed only for the first signal.                     *)
ActionNextUntimed(left, st, last) ==
  LET sig == NextSignal(st, last)
  IN  IF left = {}
        THEN /\ mpc' = "gone"
             /\ UNCHANGED <<sent, timer>>
             /\ pending' = [p \in Pid |-> {}]
        ELSE /\ UNCHANGED mpc
             /\ sent' = sig /\ timer' = (last = "none")
             /\ SendAll(left, sig)

(* fpm_pctl_action_next, for the children that are left: without any, the   *)
(* master execs or exits (fpm_pctl_action_last); else all of them get the   *)
(* next signal and the timer is armed again.                                *)
ActionNext(left, st, last) ==
  LET sig == NextSignal(st, last)
  IN  IF left = {}
        THEN /\ mpc' = "gone"
             /\ UNCHANGED <<sent, timer>>
             /\ pending' = [p \in Pid |-> {}]
        ELSE /\ UNCHANGED mpc
             /\ sent' = sig /\ timer' = TRUE
             /\ SendAll(left, sig)

(* SIGTERM or SIGINT, SIGQUIT and SIGUSR2 from outside; one that changes    *)
(* nothing is ignored.                                                      *)
Control(new) ==
  /\ mpc = "loop" /\ CanSwitch(new)
  /\ state' = new
  /\ ActionNext(Children, new, "none")
  /\ UNCHANGED <<pm, spawnRate, faults, stage, phase, ended, quitting, list,
                 sigchld, failures>>

(* The timer of the last signal goes off.                                   *)
ControlTimeout ==
  /\ mpc = "loop" /\ timer
  /\ ActionNext(Children, state, sent)
  /\ UNCHANGED <<pm, state, spawnRate, faults, stage, phase, ended, quitting,
                 list, sigchld, failures>>

-------------------------------------------------------------------------------
(* Forking (fpm_children_make).                                             *)

Lower(m, n) == IF m <= n THEN m ELSE n

(* How many are to be forked when n more are asked for: a static pool is    *)
(* filled up, and outside the normal state there is no forking at all.      *)
Wanted(n, have) ==
  IF state # "normal" THEN 0
  ELSE IF pm = "static" THEN MaxChildren - have ELSE n

FailuresLeft == crashes + failedForks < MaxFailures

(* Free pids are given out to n children, or to less when fork fails.       *)
Forks(new, n, free) ==
  /\ new \subseteq free
  /\ UNCHANGED crashes
  /\ \/ Cardinality(new) = n /\ UNCHANGED failedForks
     \/ /\ Cardinality(new) < n
        /\ FailuresLeft /\ failedForks' = failedForks + 1

(* The first children.  When fork fails, the master terminates.             *)
Start(new) ==
  /\ mpc = "starting"
  /\ Forks(new, CASE pm = "dynamic"  -> StartServers
                   [] pm = "static"   -> MaxChildren
                   [] pm = "ondemand" -> 0, Pid)
  /\ phase' = [p \in Pid |-> IF p \in new THEN "loop" ELSE "none"]
  /\ running' = Cardinality(new)
  /\ IF failedForks' = failedForks
       THEN /\ mpc' = "loop"
            /\ UNCHANGED <<state, sent, timer, pending>>
       ELSE /\ state' = "terminating"
            /\ IF new = {}
                 THEN mpc' = "gone" /\ UNCHANGED <<sent, timer, pending>>
                 ELSE /\ mpc' = "loop" /\ sent' = "TERM" /\ timer' = TRUE
                      /\ SendAll(new, "TERM")
  /\ UNCHANGED <<pm, spawnRate, faults, stage, ended, quitting, idleKill, sigchld>>

(* A bug: a child is counted before it is known that fork has worked.       *)
MakeCountedFirst(new, n) ==
  /\ Forks(new, n, Pid \ Children)
  /\ phase' = [p \in Pid |-> IF p \in new THEN "loop" ELSE phase[p]]
  /\ running' = running + n

(* In the event loop, children that are missing are forked.                 *)
Make(new, n) ==
  /\ Forks(new, n, Pid \ Children)
  /\ phase' = [p \in Pid |-> IF p \in new THEN "loop" ELSE phase[p]]
  /\ running' = running + Cardinality(new)

-------------------------------------------------------------------------------
(* Reaping (fpm_children_bury).                                             *)

GotSigchld ==
  /\ mpc = "loop" /\ sigchld
  /\ sigchld' = FALSE
  /\ mpc' = "burying"
  /\ UNCHANGED <<control, spawnRate, faults, stage, child, list, failures>>

(* What the master and the scoreboard keep of a child that is reaped        *)
(* (fpm_child_unlink, fpm_scoreboard_proc_free).                            *)
Forget(p) ==
  /\ ended' = [ended EXCEPT ![p] = "no"]
  /\ idleKill' = idleKill \ {p}
  /\ stage' = [stage EXCEPT ![p] = "other"]

(* Whether somebody takes its place: not when the master sent it away,      *)
(* unless that took a SIGKILL.                                              *)
Restarted(p) == ~(p \in idleKill /\ ended[p] = "exited")

Faulty(p) == ended[p] = "fault" /\ Threshold > 0

(* A bug: the master leaves with the first child it reaps.                  *)
BuryFirst(p) ==
  /\ mpc = "burying" /\ phase[p] = "zombie"
  /\ state # "normal"
  /\ Forget(p)
  /\ phase' = [phase EXCEPT ![p] = "none"]
  /\ running' = running - 1
  /\ mpc' = "gone"
  /\ UNCHANGED <<control, spawnRate, faults, quitting, pending, sigchld,
                 failures>>

(* The last one while the master leaves: it execs or exits at once.         *)
BuryLast(p) ==
  /\ mpc = "burying" /\ phase[p] = "zombie"
  /\ state # "normal" /\ running = 1
  /\ Forget(p)
  /\ phase' = [phase EXCEPT ![p] = "none"]
  /\ running' = running - 1
  /\ mpc' = "gone"
  /\ UNCHANGED <<control, spawnRate, faults, quitting, pending, sigchld,
                 failures>>

(* Enough faults, and recent enough: the master starts to reload.           *)
BuryAndReload(p) ==
  /\ mpc = "burying" /\ phase[p] = "zombie"
  /\ state = "normal" /\ Faulty(p) /\ faults + 1 >= Threshold
  /\ Forget(p)
  /\ phase' = [phase EXCEPT ![p] = "none"]
  /\ running' = running - 1
  /\ faults' = Threshold
  /\ state' = "reloading"
  /\ ActionNext(Children \ {p}, "reloading", "none")
  /\ UNCHANGED <<pm, spawnRate, quitting, sigchld, failures>>

(* A bug: one child is reaped for a SIGCHLD.                                *)
BuryOne(p, new) ==
  /\ mpc = "burying" /\ phase[p] = "zombie"
  /\ ~(state # "normal" /\ running = 1)
  /\ Forget(p)
  /\ faults' = IF Faulty(p) THEN Lower(faults + 1, Threshold) ELSE faults
  /\ LET n == IF Restarted(p) THEN Wanted(1, running - 1) ELSE 0
     IN  Forks(new, n, {p} \cup (Pid \ Children))
  /\ phase' = [q \in Pid |-> IF q \in new THEN "loop"
                              ELSE IF q = p THEN "none" ELSE phase[q]]
  /\ running' = running - 1 + Cardinality(new)
  /\ mpc' = "loop"
  /\ UNCHANGED <<control, spawnRate, quitting, pending, sigchld>>

(* A bug: it is replaced before it is taken off the list.                   *)
BuryAfterwards(p, new) ==
  /\ mpc = "burying" /\ phase[p] = "zombie"
  /\ ~(state # "normal" /\ running = 1)
  /\ Forget(p)
  /\ faults' = IF Faulty(p) THEN Lower(faults + 1, Threshold) ELSE faults
  /\ LET n == IF Restarted(p) THEN Wanted(1, running) ELSE 0
     IN  Forks(new, n, Pid \ Children)
  /\ phase' = [q \in Pid |-> IF q \in new THEN "loop"
                              ELSE IF q = p THEN "none" ELSE phase[q]]
  /\ running' = running - 1 + Cardinality(new)
  /\ UNCHANGED <<control, mpc, spawnRate, quitting, pending, sigchld>>

(* Otherwise it is replaced, if need be.                                    *)
Bury(p, new) ==
  /\ mpc = "burying" /\ phase[p] = "zombie"
  /\ ~(state # "normal" /\ running = 1)
  /\ Forget(p)
  /\ faults' = IF Faulty(p) THEN Lower(faults + 1, Threshold) ELSE faults
  /\ LET n == IF Restarted(p) THEN Wanted(1, running - 1) ELSE 0
     IN  Forks(new, n, {p} \cup (Pid \ Children))
  /\ phase' = [q \in Pid |-> IF q \in new THEN "loop"
                              ELSE IF q = p THEN "none" ELSE phase[q]]
  /\ running' = running - 1 + Cardinality(new)
  /\ UNCHANGED <<control, mpc, spawnRate, quitting, pending, sigchld>>

BuryDone ==
  /\ mpc = "burying"
  /\ \A p \in Pid : phase[p] # "zombie"
  /\ mpc' = "loop"
  /\ UNCHANGED <<control, spawnRate, faults, stage, child, list, sigchld,
                 failures>>

-------------------------------------------------------------------------------
(* Watching the pool.                                                       *)

(* Who is idle by the scoreboard: they may have gone on, or be dead.        *)
Idle == {p \in Children : stage[p] = "accepting"}

(* fpm_pctl_kill_idle_child: SIGQUIT, and SIGKILL the second time.          *)
KillIdle(p) ==
  /\ idleKill' = idleKill \cup {p}
  /\ pending' = IF phase[p] = "zombie" THEN pending
                ELSE [pending EXCEPT ![p] =
                        Send(@, IF p \in idleKill THEN "KILL" ELSE "QUIT")]

(* How many to fork: as many as are missing, as the rate and the limit let. *)
Shortfall ==
  Lower(Lower(spawnRate, MinSpare - Cardinality(Idle)), MaxChildren - running)

(* fpm_pctl_perform_idle_server_maintenance, once a second.                 *)
RetireSpare(p) ==
  /\ mpc = "loop" /\ state = "normal" /\ pm = "dynamic"
  /\ Cardinality(Idle) > MaxSpare /\ p \in Idle
  /\ KillIdle(p)
  /\ spawnRate' = 1
  /\ UNCHANGED <<control, mpc, faults, stage, phase, ended, quitting, running,
                 sigchld, failures>>

SpawnSpare(new) ==
  /\ mpc = "loop" /\ state = "normal" /\ pm = "dynamic"
  /\ Cardinality(Idle) <= MaxSpare
  /\ Cardinality(Idle) < MinSpare /\ running < MaxChildren /\ Shortfall > 0
  /\ Make(new, Shortfall)
  /\ spawnRate' = IF spawnRate < MaxSpawnRate THEN 2 * spawnRate ELSE spawnRate
  /\ UNCHANGED <<control, mpc, faults, stage, ended, quitting, pending, idleKill,
                 sigchld>>

(* A bug: the rate is reset to nothing.                                     *)
ResetRateToZero ==
  /\ mpc = "loop" /\ state = "normal" /\ pm = "dynamic"
  /\ Cardinality(Idle) <= MaxSpare
  /\ Cardinality(Idle) >= MinSpare \/ running >= MaxChildren
  /\ spawnRate' = 0
  /\ UNCHANGED <<control, mpc, faults, stage, child, list, sigchld, failures>>

(* Enough spare children, or no room for more: the rate starts over.        *)
ResetRate ==
  /\ mpc = "loop" /\ state = "normal" /\ pm = "dynamic"
  /\ Cardinality(Idle) <= MaxSpare
  /\ Cardinality(Idle) >= MinSpare \/ running >= MaxChildren
  /\ spawnRate' = 1
  /\ UNCHANGED <<control, mpc, faults, stage, child, list, sigchld,
                 failures>>

(* On demand: an idle child has been idle for too long.                     *)
RetireIdle(p) ==
  /\ mpc = "loop" /\ state = "normal" /\ pm = "ondemand"
  /\ p \in Idle
  /\ KillIdle(p)
  /\ UNCHANGED <<control, mpc, spawnRate, faults, stage, phase, ended, quitting,
                 running, sigchld, failures>>

(* fpm_pctl_on_socket_accept, whenever a connection has come: a child is    *)
(* forked for it if there is room and nobody seems to be idle.              *)
OnSocketAccept(new) ==
  /\ mpc = "loop" /\ pm = "ondemand"
  /\ running < MaxChildren /\ Idle = {}
  /\ Make(new, Wanted(1, running))
  /\ UNCHANGED <<control, mpc, spawnRate, faults, stage, ended, quitting, pending,
                 idleKill, sigchld>>

(* fpm_request_check_timed_out, in every state: a request takes too long.   *)
TerminateSlow(p) ==
  /\ mpc = "loop"
  /\ phase[p] \notin {"none", "zombie"} /\ stage[p] = "busy"
  /\ pending' = [pending EXCEPT ![p] = Send(@, "TERM")]
  /\ UNCHANGED <<control, mpc, spawnRate, faults, stage, phase, ended, quitting,
                 list, sigchld, failures>>

-------------------------------------------------------------------------------
(* The children.  What a child does before its first loop, with the signals *)
(* blocked, is part of the fork: they wait for it like any other signal.    *)
Alive(p) == phase[p] \notin {"none", "zombie"}

Ends(p, how) ==
  /\ phase' = [phase EXCEPT ![p] = "zombie"]
  /\ ended' = [ended EXCEPT ![p] = how]
  /\ pending' = [pending EXCEPT ![p] = {}]
  /\ quitting' = quitting \ {p}
  /\ sigchld' = TRUE

Move(p, from, to) ==
  /\ phase[p] = from
  /\ phase' = [phase EXCEPT ![p] = to]

(* fcgi_accept_request: with in_shutdown the child exits, else it shows     *)
(* that it is idle and waits for a connection.                              *)
Accepting(p) ==
  /\ p \notin quitting
  /\ Move(p, "loop", "accepting")
  /\ stage' = [stage EXCEPT ![p] = "accepting"]
  /\ UNCHANGED <<control, mpc, spawnRate, faults, ended, quitting, pending, list,
                 sigchld, failures>>

(* Also after a connection that came to nothing (see Drop).                 *)
Quits(p) ==
  /\ phase[p] \in {"loop", "taken"} /\ p \in quitting
  /\ Ends(p, "exited")
  /\ UNCHANGED <<control, mpc, spawnRate, faults, stage, list, failures>>

(* accept() returns, whenever a connection has come; the scoreboard learns  *)
(* of it later.                                                             *)
Accept(p) ==
  /\ Move(p, "accepting", "taken")
  /\ UNCHANGED <<control, mpc, spawnRate, faults, stage, ended, quitting, pending,
                 list, sigchld, failures>>

(* The connection is refused, or sends nothing for five seconds: the child   *)
(* waits for another one.                                                   *)
Drop(p) ==
  /\ p \notin quitting
  /\ Move(p, "taken", "accepting")
  /\ UNCHANGED <<control, mpc, spawnRate, faults, stage, ended, quitting, pending,
                 list, sigchld, failures>>

ReadingHeaders(p) ==
  /\ Move(p, "taken", "serving")
  /\ stage' = [stage EXCEPT ![p] = "busy"]
  /\ UNCHANGED <<control, mpc, spawnRate, faults, ended, quitting, pending, list,
                 sigchld, failures>>

RequestEnd(p) ==
  /\ Move(p, "serving", "loop")
  /\ stage' = [stage EXCEPT ![p] = "other"]
  /\ UNCHANGED <<control, mpc, spawnRate, faults, ended, quitting, pending, list,
                 sigchld, failures>>

(* pm.max_requests is reached.                                              *)
Retire(p) ==
  /\ phase[p] = "serving"
  /\ Ends(p, "exited")
  /\ stage' = [stage EXCEPT ![p] = "other"]
  /\ UNCHANGED <<control, mpc, spawnRate, faults, list, failures>>

(* sig_soft_quit closes the listening socket, so a child that waits for a   *)
(* connection exits; any other one finishes its request first.              *)
TakeQuit(p) ==
  /\ "QUIT" \in pending[p] /\ Alive(p)
  /\ IF phase[p] = "accepting"
       THEN Ends(p, "exited")
       ELSE /\ quitting' = quitting \cup {p}
            /\ pending' = [pending EXCEPT ![p] = @ \ {"QUIT"}]
            /\ UNCHANGED <<phase, ended, sigchld>>
  /\ UNCHANGED <<control, mpc, spawnRate, faults, stage, list, failures>>

(* SIGTERM has its default action, SIGKILL always.                          *)
TakeTerm(p) ==
  /\ "TERM" \in pending[p] /\ Alive(p)
  /\ Ends(p, "killed")
  /\ UNCHANGED <<control, mpc, spawnRate, faults, stage, list, failures>>

TakeKill(p) ==
  /\ "KILL" \in pending[p] /\ Alive(p)
  /\ Ends(p, "killed")
  /\ UNCHANGED <<control, mpc, spawnRate, faults, stage, list, failures>>

(* SIGSEGV or SIGBUS, or an exit for an error.                              *)
Crash(p) ==
  /\ Alive(p) /\ FailuresLeft /\ crashes' = crashes + 1 /\ UNCHANGED failedForks
  /\ \E how \in {"fault", "exited"} : Ends(p, how)
  /\ UNCHANGED <<control, mpc, spawnRate, faults, stage, list>>

-------------------------------------------------------------------------------
Next ==
  \/ \E new \in States : Control(new)
  \/ ControlTimeout \/ GotSigchld \/ BuryDone \/ ResetRate
  \/ \E new \in SUBSET Pid :
       Start(new) \/ SpawnSpare(new) \/ OnSocketAccept(new)
  \/ \E p \in Pid :
       \/ BuryLast(p) \/ BuryAndReload(p)
       \/ \E new \in SUBSET Pid : Bury(p, new)
       \/ RetireSpare(p) \/ RetireIdle(p) \/ TerminateSlow(p)
       \/ Accepting(p) \/ Quits(p) \/ Accept(p)
       \/ Drop(p) \/ ReadingHeaders(p) \/ RequestEnd(p) \/ Retire(p)
       \/ TakeQuit(p) \/ TakeTerm(p) \/ TakeKill(p) \/ Crash(p)

(* The event loop of the master gets to everything that is due, and waitpid *)
(* to every dead child.  Of the children only SIGKILL is certain: they may  *)
(* block the other signals, and scripts may run for as long as they like.   *)
Fairness ==
  /\ WF_vars((\E new \in SUBSET Pid : Start(new)) \/ GotSigchld \/ BuryDone)
  /\ WF_vars(ControlTimeout)
  /\ WF_vars(\E new \in SUBSET Pid : SpawnSpare(new))
  /\ \A p \in Pid :
       /\ WF_vars(\/ BuryLast(p) \/ BuryAndReload(p)
                  \/ \E new \in SUBSET Pid : Bury(p, new))
       /\ WF_vars(TakeKill(p))

Spec     == Init /\ [][Next]_vars
FairSpec == Spec /\ Fairness

-------------------------------------------------------------------------------
(* The pool never has more children than pm.max_children, those that are    *)
(* dead and not reaped included, and the counter that decides about it      *)
(* agrees with the list of children.                                        *)
PoolBounded ==
  /\ running = Cardinality(Children)
  /\ running <= MaxChildren

(* The master execs or exits only when it has no children left, whatever    *)
(* made it leave and whatever died on the way.                              *)
NobodyLeftBehind == mpc = "gone" => Children = {}

(* While it leaves, the master always has children to wait for and a timer  *)
(* that will send them a harder signal: nothing else would wake it up.      *)
LeavingIsTimed ==
  state # "normal" /\ mpc # "gone" => Children # {} /\ timer

(* No child dies unnoticed, however many SIGCHLDs fall together: while one  *)
(* of them is dead the master is reaping, or is going to be told to.        *)
DeadAreNoticed ==
  (\E p \in Pid : phase[p] = "zombie") => sigchld \/ mpc = "burying"

(* A static pool is full while the master runs, whoever crashes, retires or *)
(* is killed, unless a fork has failed.                                     *)
StaticIsFull ==
  pm = "static" /\ state = "normal" /\ mpc # "starting" /\ failedForks = 0
    => running = MaxChildren

(* How urgent a state of the master is, and how hard a signal.              *)
Rank(st) ==
  IF st = "normal" THEN 0 ELSE IF st = "reloading" THEN 1
  ELSE IF st = "finishing" THEN 2 ELSE 3
Strength(sig) ==
  IF sig = "none" THEN 0 ELSE IF sig = "QUIT" THEN 1
  ELSE IF sig = "TERM" THEN 2 ELSE 3

NotMilder ==
  /\ Rank(state') >= Rank(state)
  /\ state' = state => Strength(sent') >= Strength(sent)

(* The master's intention only gets more urgent, and so does the signal for *)
(* the same intention: SIGQUIT never follows SIGTERM.                       *)
OnlyEscalates == [][NotMilder]_vars

(* Once it has been told to reload, to finish or to terminate, the master   *)
(* does, although children may ignore every signal but SIGKILL.             *)
LeavingEnds == state # "normal" ~> mpc = "gone"

(* A dynamic pool that lost children gets back to its spare ones.           *)
PoolRefills ==
  pm = "dynamic" /\ running < MinSpare ~> running >= MinSpare \/ state # "normal"

-------------------------------------------------------------------------------
(* The pool as module ProcessPool promises it.                              *)
Stance ==
  IF mpc \in {"starting", "gone"} THEN mpc
  ELSE IF state = "normal" THEN "up" ELSE "leaving"

Living == {p \in Pid : Alive(p)}

WithinLimit == {pids \in SUBSET Pid : Cardinality(pids) <= MaxChildren}

Manager == INSTANCE ProcessPool WITH
             Lists    <- WithinLimit,
             stance   <- Stance,
             children <- Children,
             alive    <- Living

(* The limit, who is reaped and who replaces it, and when the master leaves *)
(* and is gone, are those of ProcessPool at every step, whatever is sent to *)
(* it, whoever dies meanwhile and whichever fork fails.                     *)
ImplementsPool == Manager!Spec

===============================================================================
