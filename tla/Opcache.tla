------------------------------- MODULE Opcache -------------------------------
(***************************************************************************)
(* The opcode cache every worker of the shop runs behind (ext/opcache).    *)
(* Workers are processes that share one memory segment and synchronise     *)
(* with fcntl locks on three bytes of a lock file, which the kernel drops  *)
(* when a process dies:                                                    *)
(*   byte 0  `allocLock', exclusive, around every change of the segment;   *)
(*   byte 1  `usage', a read lock for as long as a request may read it;    *)
(*   byte 2  `restartLock', held while the segment is being emptied.       *)
(* A restart of the cache is first scheduled (memory is used up, or a      *)
(* script calls opcache_reset), which switches the cache off, and is then  *)
(* carried out by the first request that starts while nobody holds byte 1. *)
(*                                                                         *)
(* One action is one access to shared state.  What runs under byte 0 is    *)
(* split as well, wherever another process may look in between or a worker *)
(* that dies there leaves a change half done: the kernel gives byte 0 back *)
(* and nobody mends it.  Interruptions are blocked there, SIGKILL is not.  *)
(* The build is the POSIX one, with validate_timestamps on, revalidate_freq*)
(* 0, no file cache, no preloading and no JIT.  A script takes one block   *)
(* of memory.  Byte 1 is never write-locked, so taking it does not fail.   *)
(***************************************************************************)
EXTENDS Integers, FiniteSets

CONSTANTS
  Proc,           \* worker processes
  Files,          \* PHP files of the application
  Capacity,       \* scripts that fit into the segment
  Slots,          \* entries of the hash table
  WasteLimit,     \* max_wasted_percentage, as a number of scripts
  ForceRestart,   \* force_restart_timeout is set
  None,           \* no process, no file
  MaxEdits,       \* bound: how often a file changes on disk
  MaxCalls,       \* bound: calls of opcache_reset and opcache_invalidate
  MaxDeaths       \* bound: workers that die on their own

ASSUME OpcacheAssumption ==
  /\ IsFiniteSet(Proc) /\ None \notin Proc /\ None \notin Files
  /\ Capacity \in Nat \ {0} /\ Slots \in Nat \ {0} /\ WasteLimit \in Nat
  /\ ForceRestart \in BOOLEAN
  /\ MaxEdits \in Nat /\ MaxCalls \in Nat /\ MaxDeaths \in Nat

VARIABLES
  pending,        \* ZCSG(restart_pending)
  inProgress,     \* ZCSG(restart_in_progress)
  enabled,        \* ZCSG(accelerator_enabled)
  statusBefore,   \* ZCSG(cache_status_before_restart)
  armed,          \* ZCSG(force_restart_time) is not 0
  exhausted,      \* ZSMMG(memory_exhausted)
  wasted,         \* ZSMMG(wasted_shared_memory), in scripts
  top,            \* blocks of the segment given out since the last restart
  mem,            \* what each block holds
  hash,           \* ZCSG(hash): the block of a file's script, 0 for none
  allocLock,      \* who holds byte 0 of the lock file
  usage,          \* who holds a read lock on byte 1
  restartLock,    \* who holds byte 2
  pc,             \* where each worker is
  on,             \* ZCG(accelerator_enabled), copied when the request starts
  counted,        \* ZCG(counted)
  file,           \* the file being compiled or invalidated
  found,          \* persistent_script: its block, 0 for none
  stamp,          \* the timestamp read before compiling
  content,        \* the version compiled
  loaded,         \* blocks the request executes: file -> block, 0 for none
  tried,          \* files the request has already included
  disk,           \* the version of each file on disk, also its timestamp
  exposed,        \* had no read lock when a restart asked for it, or began
                  \* during one (history)
  lost,           \* the changes workers have died in the middle of (history)
  calls, deaths   \* counters of the bounds

switch == <<pending, inProgress, enabled, statusBefore, armed>>
memory == <<exhausted, wasted, top, mem, hash>>
local  == <<file, found, stamp, content>>
request == <<on, counted, loaded, tried, exposed>>
world  == <<disk, lost, calls, deaths>>
vars   == <<switch, memory, allocLock, usage, restartLock, pc, local, request,
            world>>

Blocks  == 1 .. Capacity
Versions == 0 .. MaxEdits + 1          \* of a file; 0 stands for none
Script  == [file : Files \cup {None}, stamp : Versions, content : Versions,
            corrupted : BOOLEAN, size : {0, 1}]
Zeroed  == [file |-> None, stamp |-> 0, content |-> 0, corrupted |-> FALSE,
            size |-> 0]

Restarting == {"locked", "entering", "cleaning", "restoring", "leaving"}
Wiping     == {"entering", "cleaning", "restoring"}
Discarding == {"dating", "wasting"}
Scheduling == {"scheduling", "remembering", "switching", "arming"}
Publishing == {"copying in", "linking", "measuring"}

(* Changes that a worker may die in the middle of.                          *)
Unfinished == Wiping \cup Discarding \cup Scheduling \cup Publishing

Phases     == Restarting \cup Unfinished \cup
  {"idle", "rinit", "waiting", "killing", "copying", "running", "looking",
   "counting", "validating", "discarding", "stamping", "compiling", "storing",
   "resetting", "flag", "finding", "forgetting"}

FlagsOK ==
  /\ pending \in BOOLEAN /\ inProgress \in BOOLEAN /\ enabled \in BOOLEAN
  /\ statusBefore \in BOOLEAN /\ armed \in BOOLEAN /\ exhausted \in BOOLEAN

SegmentOK ==
  /\ wasted \in Nat /\ top \in 0 .. Capacity
  /\ mem \in [Blocks -> Script]
  /\ hash \in [Files -> 0 .. Capacity]

LocksOK ==
  /\ allocLock \in Proc \cup {None} /\ restartLock \in Proc \cup {None}
  /\ usage \subseteq Proc

LocalsOK ==
  /\ file \in [Proc -> Files \cup {None}]
  /\ found \in [Proc -> 0 .. Capacity]
  /\ stamp \in [Proc -> Versions] /\ content \in [Proc -> Versions]

RequestsOK ==
  /\ on \in [Proc -> BOOLEAN] /\ counted \in [Proc -> BOOLEAN]
  /\ loaded \in [Proc -> [Files -> 0 .. Capacity]]
  /\ tried \in [Proc -> SUBSET Files]
  /\ exposed \in [Proc -> BOOLEAN]

WorldOK ==
  /\ disk \in [Files -> Versions] /\ lost \subseteq Unfinished

BoundsOK == calls \in 0 .. MaxCalls /\ deaths \in 0 .. MaxDeaths

TypeOK ==
  /\ pc \in [Proc -> Phases]
  /\ FlagsOK /\ SegmentOK /\ LocksOK /\ LocalsOK /\ RequestsOK
  /\ WorldOK /\ BoundsOK

(* After the master has mapped the segment and forked its workers.          *)
Init ==
  /\ pending = FALSE /\ inProgress = FALSE /\ enabled = TRUE
  /\ statusBefore = FALSE /\ armed = FALSE /\ exhausted = FALSE
  /\ wasted = 0 /\ top = 0
  /\ mem = [b \in Blocks |-> Zeroed] /\ hash = [f \in Files |-> 0]
  /\ allocLock = None /\ restartLock = None /\ usage = {}
  /\ pc = [p \in Proc |-> "idle"]
  /\ on = [p \in Proc |-> FALSE] /\ counted = [p \in Proc |-> FALSE]
  /\ file = [p \in Proc |-> None] /\ found = [p \in Proc |-> 0]
  /\ stamp = [p \in Proc |-> 0] /\ content = [p \in Proc |-> 0]
  /\ loaded = [p \in Proc |-> [f \in Files |-> 0]]
  /\ tried = [p \in Proc |-> {}]
  /\ disk = [f \in Files |-> 1]
  /\ exposed = [p \in Proc |-> FALSE] /\ lost = {}
  /\ calls = 0 /\ deaths = 0

-------------------------------------------------------------------------------
Step(p, from, to) ==
  /\ pc[p] = from
  /\ pc' = [pc EXCEPT ![p] = to]

(* Nobody is emptying the segment.                                          *)
Quiet == \A p \in Proc : pc[p] \notin Wiping

(* A function returns: its local variables are gone.                        *)
Return(p) ==
  /\ file' = [file EXCEPT ![p] = None]
  /\ found' = [found EXCEPT ![p] = 0]
  /\ stamp' = [stamp EXCEPT ![p] = 0]
  /\ content' = [content EXCEPT ![p] = 0]

(* Byte 0 is given back.  A worker that still has a file to compile goes on *)
(* with it, others return.                                                  *)
Unlock(p) ==
  /\ allocLock' = None
  /\ pc' = [pc EXCEPT ![p] = IF file[p] = None THEN "running" ELSE "stamping"]

(* zend_accel_schedule_restart under byte 0, if there is reason to: nothing *)
(* happens if a restart is scheduled already.                               *)
Schedule(p, reason) ==
  IF reason /\ ~pending
    THEN /\ allocLock' = p
         /\ pc' = [pc EXCEPT ![p] = "scheduling"]
    ELSE Unlock(p)

SetPending(p) ==
  /\ Step(p, "scheduling", "remembering")
  /\ pending' = TRUE
  /\ UNCHANGED <<inProgress, enabled, statusBefore, armed, memory, allocLock,
                 usage, restartLock, local, request, world>>

(* A bug: the switch is remembered after it was switched off.               *)
RememberOff(p) ==
  /\ Step(p, "remembering", "switching")
  /\ statusBefore' = FALSE
  /\ UNCHANGED <<pending, inProgress, enabled, armed, memory, allocLock, usage,
                 restartLock, local, request, world>>

RememberStatus(p) ==
  /\ Step(p, "remembering", "switching")
  /\ statusBefore' = enabled
  /\ UNCHANGED <<pending, inProgress, enabled, armed, memory, allocLock, usage,
                 restartLock, local, request, world>>

SwitchOff(p) ==
  /\ Step(p, "switching", "arming")
  /\ enabled' = FALSE
  /\ UNCHANGED <<pending, inProgress, statusBefore, armed, memory, allocLock,
                 usage, restartLock, local, request, world>>

SetForceTime(p) ==
  /\ pc[p] = "arming"
  /\ armed' = ForceRestart
  /\ Unlock(p)
  /\ UNCHANGED <<pending, inProgress, enabled, statusBefore, memory, usage,
                 restartLock, local, request, world>>

(* zend_accel_discard_script, byte 0 free: the script stays where it is,    *)
(* marked, with timestamp 0, and its size is added to the waste; a second   *)
(* discard does nothing.                                                    *)
Mark(p, goOn) ==
  /\ allocLock = None
  /\ IF mem[found[p]].corrupted
       THEN /\ pc' = [pc EXCEPT ![p] = goOn]
            /\ found' = [found EXCEPT ![p] = 0]
            /\ UNCHANGED <<allocLock, mem>>
       ELSE /\ pc' = [pc EXCEPT ![p] = "dating"]
            /\ mem' = [mem EXCEPT ![found[p]].corrupted = TRUE]
            /\ allocLock' = p
            /\ UNCHANGED found

ClearDate(p) ==
  /\ Step(p, "dating", "wasting")
  /\ mem' = [mem EXCEPT ![found[p]].stamp = 0]
  /\ UNCHANGED <<switch, exhausted, wasted, top, hash, allocLock, usage,
                 restartLock, local, request, world>>

(* A bug: the memory of a discarded script is not counted.                  *)
AddWasteNot(p) ==
  /\ pc[p] = "wasting"
  /\ found' = [found EXCEPT ![p] = 0]
  /\ Schedule(p, exhausted /\ wasted >= WasteLimit)
  /\ UNCHANGED <<switch, memory, usage, restartLock, file, stamp, content,
                 request, world>>

(* When memory is used up, ..._schedule_restart_if_necessary asks whether   *)
(* enough of it is wasted now.                                              *)
AddWaste(p) ==
  /\ pc[p] = "wasting"
  /\ wasted' = wasted + mem[found[p]].size
  /\ found' = [found EXCEPT ![p] = 0]
  /\ Schedule(p, exhausted /\ wasted' >= WasteLimit)
  /\ UNCHANGED <<switch, exhausted, top, mem, hash, usage, restartLock, file,
                 stamp, content, request, world>>

-------------------------------------------------------------------------------
(* A request comes in.                                                      *)
RequestStart(p) ==
  /\ Step(p, "idle", "rinit")
  /\ UNCHANGED <<switch, memory, allocLock, usage, restartLock, local, request,
                 world>>

(* RINIT looks at restart_pending without a lock.                           *)
ReadPending(p) ==
  /\ Step(p, "rinit", IF pending THEN "waiting" ELSE "copying")
  /\ UNCHANGED <<switch, memory, allocLock, usage, restartLock, local, request,
                 world>>

AcquireAlloc(p) ==
  /\ Step(p, "waiting", "locked")
  /\ allocLock = None
  /\ allocLock' = p
  /\ UNCHANGED <<switch, memory, usage, restartLock, local, request, world>>

Others(p) == usage \ {p}

(* A bug: nobody is asked whether the segment is in use.                    *)
BeginRestartAtOnce(p) ==
  /\ Step(p, "locked", "entering")
  /\ pending
  /\ pending' = FALSE
  /\ exposed' = [q \in Proc |-> q \notin usage]
  /\ UNCHANGED <<inProgress, enabled, statusBefore, armed, memory, allocLock,
                 usage, restartLock, local, on, counted, loaded, tried, world>>

(* Under byte 0 it looks again, then asks whether byte 1 is unlocked        *)
(* (accel_is_inactive; F_GETLK does not report the caller's own locks).     *)
BeginRestart(p) ==
  /\ Step(p, "locked", "entering")
  /\ pending /\ Others(p) = {}
  /\ pending' = FALSE
  /\ exposed' = [q \in Proc |-> q \notin usage]
  /\ UNCHANGED <<inProgress, enabled, statusBefore, armed, memory, allocLock,
                 usage, restartLock, local, on, counted, loaded, tried, world>>

(* Somebody else has restarted the cache, or is still using it.             *)
SkipRestart(p) ==
  /\ Step(p, "locked", "copying")
  /\ ~pending \/ Others(p) # {}
  /\ allocLock' = None
  /\ UNCHANGED <<switch, memory, usage, restartLock, local, request, world>>

(* force_restart_timeout has passed (time is not modelled: it may have):    *)
(* kill_all_lockers first takes the deadline away.                          *)
BeginKilling(p) ==
  /\ Step(p, "locked", "killing")
  /\ pending /\ Others(p) # {} /\ armed
  /\ armed' = FALSE
  /\ UNCHANGED <<pending, inProgress, enabled, statusBefore, memory, allocLock,
                 usage, restartLock, local, request, world>>

(* What is left of a process: no locks, and a fresh worker in its place.    *)
Forget(p) ==
  /\ usage' = usage \ {p}
  /\ on' = [on EXCEPT ![p] = FALSE]
  /\ counted' = [counted EXCEPT ![p] = FALSE]
  /\ loaded' = [loaded EXCEPT ![p] = [f \in Files |-> 0]]
  /\ tried' = [tried EXCEPT ![p] = {}]
  /\ exposed' = [exposed EXCEPT ![p] = FALSE]
  /\ Return(p)

(* SIGTERM, then SIGKILL, to the process F_GETLK reports, one after another.*)
KillLocker(p, q) ==
  /\ pc[p] = "killing" /\ q \in Others(p)
  /\ Forget(q)
  /\ pc' = [pc EXCEPT ![q] = "idle"]
  /\ UNCHANGED <<switch, memory, allocLock, restartLock, world>>

(* accel_is_inactive then still answers no: the next request restarts.      *)
StopKilling(p) ==
  /\ Step(p, "killing", "copying")
  /\ Others(p) = {}
  /\ allocLock' = None
  /\ UNCHANGED <<switch, memory, usage, restartLock, local, request, world>>

(* accel_restart_enter: byte 2, then the flag.                              *)
EnterRestart(p) ==
  /\ Step(p, "entering", "cleaning")
  /\ restartLock' = p
  /\ inProgress' = TRUE
  /\ UNCHANGED <<pending, enabled, statusBefore, armed, memory, allocLock,
                 usage, local, request, world>>

(* zend_reset_cache_vars and zend_accel_hash_clean.                         *)
CleanHash(p) ==
  /\ Step(p, "cleaning", "restoring")
  /\ exhausted' = FALSE /\ wasted' = 0
  /\ pending' = FALSE /\ armed' = FALSE
  /\ hash' = [f \in Files |-> 0]
  /\ UNCHANGED <<inProgress, enabled, statusBefore, top, mem, allocLock, usage,
                 restartLock, local, request, world>>

(* zend_shared_alloc_restore_state, from where the blocks can be given out  *)
(* again, then the cache is switched back to what it was.                   *)
RestoreState(p) ==
  /\ Step(p, "restoring", "leaving")
  /\ exhausted' = FALSE /\ wasted' = 0
  /\ top' = 0
  /\ enabled' = statusBefore
  /\ UNCHANGED <<pending, inProgress, statusBefore, armed, mem, hash, allocLock,
                 usage, restartLock, local, request, world>>

(* accel_restart_leave, and byte 0 is released.                             *)
LeaveRestart(p) ==
  /\ Step(p, "leaving", "copying")
  /\ inProgress' = FALSE
  /\ restartLock' = None
  /\ allocLock' = None
  /\ UNCHANGED <<pending, enabled, statusBefore, armed, memory, usage, local,
                 request, world>>

(* A bug: a request uses the cache although the switch is off.              *)
CopyEnabledAlways(p) ==
  /\ Step(p, "copying", "running")
  /\ on' = [on EXCEPT ![p] = TRUE]
  /\ exposed' = [exposed EXCEPT ![p] = ~Quiet]
  /\ UNCHANGED <<switch, memory, allocLock, usage, restartLock, local, counted,
                 loaded, tried, world>>

(* The end of RINIT: the request keeps its own copy of the switch.          *)
CopyEnabled(p) ==
  /\ Step(p, "copying", "running")
  /\ on' = [on EXCEPT ![p] = enabled]
  /\ exposed' = [exposed EXCEPT ![p] = ~Quiet]
  /\ UNCHANGED <<switch, memory, allocLock, usage, restartLock, local, counted,
                 loaded, tried, world>>

-------------------------------------------------------------------------------
(* persistent_compile_file.  A file is included once per request.  While a  *)
(* restart runs the file is compiled without the cache; a flag whose owner  *)
(* is gone is cleared (accel_restart_is_active).                            *)
Include(p, f) ==
  /\ pc[p] = "running" /\ f \notin tried[p]
  /\ tried' = [tried EXCEPT ![p] = @ \cup {f}]
  /\ IF ~on[p] \/ (inProgress /\ restartLock \notin {None, p})
       THEN UNCHANGED <<pc, file, inProgress>>
       ELSE /\ pc' = [pc EXCEPT ![p] = "looking"]
            /\ file' = [file EXCEPT ![p] = f]
            /\ inProgress' = FALSE
  /\ UNCHANGED <<pending, enabled, statusBefore, armed, memory, allocLock,
                 usage, restartLock, found, stamp, content, on, counted, loaded,
                 exposed, world>>

(* zend_accel_hash_find, and a corrupted script counts as none; no lock yet. *)
LookUp(p) ==
  /\ Step(p, "looking", "counting")
  /\ LET b == hash[file[p]]
     IN  found' = [found EXCEPT ![p] =
           IF b # 0 /\ ~mem[b].corrupted THEN b ELSE 0]
  /\ UNCHANGED <<switch, memory, allocLock, usage, restartLock, file, stamp,
                 content, request, world>>

(* accel_activate_add, once per request.                                    *)
Count(p) ==
  /\ Step(p, "counting", IF found[p] # 0 THEN "validating" ELSE "stamping")
  /\ usage' = usage \cup {p}
  /\ counted' = [counted EXCEPT ![p] = TRUE]
  /\ UNCHANGED <<switch, memory, allocLock, restartLock, local, on, loaded,
                 tried, exposed, world>>

(* A bug: only the name is compared.                                        *)
ValidByName(p) ==
  LET s == mem[found[p]]
  IN  s.stamp = 0 \/ s.file = file[p]

(* validate_timestamp_and_record: timestamp 0 is taken for a preloaded      *)
(* script and passes; otherwise name and timestamp have to match.           *)
Valid(p) ==
  LET s == mem[found[p]]
  IN  s.stamp = 0 \/ (s.file = file[p] /\ s.stamp = disk[file[p]])

(* The script goes into the request: execution runs in shared memory.       *)
Load(p, b) == loaded' = [loaded EXCEPT ![p][file[p]] = b]

Hit(p) ==
  /\ Step(p, "validating", "running")
  /\ Valid(p)
  /\ Load(p, found[p]) /\ Return(p)
  /\ UNCHANGED <<switch, memory, allocLock, usage, restartLock, on, counted,
                 tried, exposed, world>>

Outdated(p) ==
  /\ Step(p, "validating", "discarding")
  /\ ~Valid(p)
  /\ UNCHANGED <<switch, memory, allocLock, usage, restartLock, local, request,
                 world>>

(* zend_accel_lock_discard_script                                           *)
Discard(p) ==
  /\ pc[p] = "discarding"
  /\ Mark(p, "stamping")
  /\ UNCHANGED <<switch, exhausted, wasted, top, hash, usage, restartLock, file,
                 stamp, content, request, world>>

(* A miss.  Without memory, or with a restart scheduled, the cache is not   *)
(* used; else opcache_compile_file reads the timestamp and then compiles.   *)
Miss(p) ==
  /\ IF exhausted \/ pending
       THEN Step(p, "stamping", "running") /\ Return(p)
       ELSE /\ Step(p, "stamping", "compiling")
            /\ stamp' = [stamp EXCEPT ![p] = disk[file[p]]]
            /\ UNCHANGED <<file, found, content>>
  /\ UNCHANGED <<switch, memory, allocLock, usage, restartLock, request, world>>

(* A bug: the timestamp is read after compiling.                            *)
CompileThenStamp(p) ==
  /\ Step(p, "compiling", "storing")
  /\ content' = [content EXCEPT ![p] = stamp[p]]
  /\ stamp' = [stamp EXCEPT ![p] = disk[file[p]]]
  /\ UNCHANGED <<switch, memory, allocLock, usage, restartLock, file, found,
                 request, world>>

Compile(p) ==
  /\ Step(p, "compiling", "storing")
  /\ content' = [content EXCEPT ![p] = disk[file[p]]]
  /\ UNCHANGED <<switch, memory, allocLock, usage, restartLock, file, found,
                 stamp, request, world>>

-------------------------------------------------------------------------------
(* cache_script_in_shared_memory, under byte 0.  What another process has   *)
(* stored in the meantime is preferred.                                     *)
Stored(f) == hash[f] # 0 /\ ~mem[hash[f]].corrupted
HashFull  == Cardinality({f \in Files : hash[f] # 0}) = Slots

UseExisting(p) ==
  /\ Step(p, "storing", "running")
  /\ allocLock = None
  /\ Stored(file[p])
  /\ Load(p, hash[file[p]]) /\ Return(p)
  /\ UNCHANGED <<switch, memory, allocLock, usage, restartLock, on, counted,
                 tried, exposed, world>>

(* Without an entry left memory counts as used up; without a block left it  *)
(* does unless 64K of it are free, too little for this script.              *)
UsedUp ==
  /\ HashFull \/ top = Capacity
  /\ exhausted' \in IF HashFull THEN {TRUE} ELSE {TRUE, exhausted}

(* A bug: running out of memory does not ask for a restart.                 *)
NoRoomUnnoticed(p) ==
  /\ Step(p, "storing", "running")
  /\ allocLock = None
  /\ ~Stored(file[p])
  /\ UsedUp
  /\ Return(p)
  /\ UNCHANGED <<switch, wasted, top, mem, hash, allocLock, usage, restartLock,
                 request, world>>

(* A restart may be due in either case.                                     *)
NoRoom(p) ==
  /\ pc[p] = "storing"
  /\ allocLock = None
  /\ ~Stored(file[p])
  /\ UsedUp
  /\ IF wasted >= WasteLimit /\ ~pending
       THEN /\ allocLock' = p
            /\ pc' = [pc EXCEPT ![p] = "scheduling"]
       ELSE /\ pc' = [pc EXCEPT ![p] = "running"]
            /\ UNCHANGED allocLock
  /\ Return(p)
  /\ UNCHANGED <<switch, wasted, top, mem, hash, usage, restartLock, request,
                 world>>

(* A bug: the script is stored without the final check under the lock.      *)
AllocateUnchecked(p) ==
  /\ Step(p, "storing", "copying in")
  /\ allocLock = None
  /\ ~HashFull /\ top < Capacity
  /\ allocLock' = p
  /\ top' = top + 1
  /\ mem' = [mem EXCEPT ![top + 1] = Zeroed]
  /\ UNCHANGED <<switch, exhausted, wasted, hash, usage, restartLock, local,
                 request, world>>

(* A bug: the last block is given out twice.                                *)
AllocateBeyond(p) ==
  /\ Step(p, "storing", "copying in")
  /\ allocLock = None
  /\ ~Stored(file[p]) /\ ~HashFull
  /\ allocLock' = p
  /\ top' = top + 1
  /\ mem' = [mem EXCEPT ![top + 1] = Zeroed]
  /\ UNCHANGED <<switch, exhausted, wasted, hash, usage, restartLock, local,
                 request, world>>

(* A block is taken and zeroed; the script is then copied into it.          *)
Allocate(p) ==
  /\ Step(p, "storing", "copying in")
  /\ allocLock = None
  /\ ~Stored(file[p]) /\ ~HashFull /\ top < Capacity
  /\ allocLock' = p
  /\ top' = top + 1
  /\ mem' = [mem EXCEPT ![top + 1] = Zeroed]
  /\ UNCHANGED <<switch, exhausted, wasted, hash, usage, restartLock, local,
                 request, world>>

CopyIn(p) ==
  /\ Step(p, "copying in", "linking")
  /\ mem' = [mem EXCEPT ![top] = [file |-> file[p], stamp |-> stamp[p],
                                  content |-> content[p], corrupted |-> FALSE,
                                  size |-> 0]]
  /\ UNCHANGED <<switch, exhausted, wasted, top, hash, allocLock, usage,
                 restartLock, local, request, world>>

(* From here on others find it.                                             *)
Publish(p) ==
  /\ Step(p, "linking", "measuring")
  /\ hash' = [hash EXCEPT ![file[p]] = top]
  /\ UNCHANGED <<switch, exhausted, wasted, top, mem, allocLock, usage,
                 restartLock, local, request, world>>

(* memory_consumption, which is what a discard will add to the waste, is    *)
(* set last.                                                                *)
Measure(p) ==
  /\ Step(p, "measuring", "running")
  /\ mem' = [mem EXCEPT ![top].size = 1]
  /\ allocLock' = None
  /\ Load(p, top) /\ Return(p)
  /\ UNCHANGED <<switch, exhausted, wasted, top, hash, usage, restartLock, on,
                 counted, tried, exposed, world>>

-------------------------------------------------------------------------------
(* opcache_reset: the shared switch is read before the lock is taken.       *)
CallReset(p) ==
  /\ Step(p, "running", "resetting")
  /\ enabled
  /\ calls < MaxCalls /\ calls' = calls + 1
  /\ UNCHANGED <<switch, memory, allocLock, usage, restartLock, local, request,
                 disk, lost, deaths>>

Reset(p) ==
  /\ pc[p] = "resetting"
  /\ allocLock = None
  /\ Schedule(p, TRUE)
  /\ UNCHANGED <<switch, memory, usage, restartLock, local, request, world>>

(* opcache_invalidate(f, true).  accelerator_shm_read_lock takes byte 1 and *)
(* only then looks at the restart flag.                                     *)
CallInvalidate(p, f) ==
  /\ on[p]
  /\ Step(p, "running", IF counted[p] THEN "finding" ELSE "flag")
  /\ calls < MaxCalls /\ calls' = calls + 1
  /\ file' = [file EXCEPT ![p] = f]
  /\ usage' = usage \cup {p}
  /\ UNCHANGED <<switch, memory, allocLock, restartLock, found, stamp, content,
                 request, disk, lost, deaths>>

CheckFlag(p) ==
  /\ IF inProgress
       THEN /\ Step(p, "flag", "running") /\ Return(p)
            /\ usage' = usage \ {p}
            /\ UNCHANGED counted
       ELSE /\ Step(p, "flag", "finding")
            /\ counted' = [counted EXCEPT ![p] = TRUE]
            /\ UNCHANGED <<usage, local>>
  /\ UNCHANGED <<switch, memory, allocLock, restartLock, on, loaded, tried,
                 exposed, world>>

Find(p) ==
  /\ pc[p] = "finding"
  /\ IF Stored(file[p])
       THEN /\ Step(p, "finding", "forgetting")
            /\ found' = [found EXCEPT ![p] = hash[file[p]]]
            /\ UNCHANGED <<file, stamp, content>>
       ELSE Step(p, "finding", "running") /\ Return(p)
  /\ UNCHANGED <<switch, memory, allocLock, usage, restartLock, request, world>>

Invalidate(p) ==
  /\ pc[p] = "forgetting"
  /\ Mark(p, "running")
  /\ file' = [file EXCEPT ![p] = None]
  /\ UNCHANGED <<switch, exhausted, wasted, top, hash, usage, restartLock, stamp,
                 content, request, world>>

-------------------------------------------------------------------------------
(* The end of a request, also by a fatal error of the compiler: every lock  *)
(* the process holds is dropped (accel_post_deactivate).                    *)
RequestEnd(p) ==
  /\ pc[p] \in {"running", "compiling"}
  /\ pc' = [pc EXCEPT ![p] = "idle"]
  /\ Forget(p)
  /\ UNCHANGED <<switch, memory, allocLock, restartLock, world>>

(* A worker dies anywhere: the kernel drops its locks, the master forks     *)
(* another one.                                                             *)
Die(p) ==
  /\ deaths < MaxDeaths /\ deaths' = deaths + 1
  /\ pc[p] # "idle"
  /\ pc' = [pc EXCEPT ![p] = "idle"]
  /\ Forget(p)
  /\ allocLock' = IF allocLock = p THEN None ELSE allocLock
  /\ restartLock' = IF restartLock = p THEN None ELSE restartLock
  /\ lost' = lost \cup (Unfinished \cap {pc[p]})
  /\ UNCHANGED <<switch, memory, disk, calls>>

(* Somebody deploys a new version of a file.                                *)
Edit(f) ==
  /\ disk[f] <= MaxEdits
  /\ disk' = [disk EXCEPT ![f] = @ + 1]
  /\ UNCHANGED <<switch, memory, allocLock, usage, restartLock, pc, local,
                 request, lost, calls, deaths>>

Next ==
  \/ \E p \in Proc :
       \/ RequestStart(p) \/ ReadPending(p) \/ AcquireAlloc(p)
       \/ BeginRestart(p) \/ SkipRestart(p) \/ BeginKilling(p)
       \/ (\E q \in Proc : KillLocker(p, q)) \/ StopKilling(p)
       \/ EnterRestart(p) \/ CleanHash(p) \/ RestoreState(p) \/ LeaveRestart(p)
       \/ CopyEnabled(p)
       \/ (\E f \in Files : Include(p, f) \/ CallInvalidate(p, f))
       \/ LookUp(p) \/ Count(p) \/ Hit(p) \/ Outdated(p) \/ Discard(p)
       \/ Miss(p) \/ Compile(p)
       \/ ClearDate(p) \/ AddWaste(p)
       \/ SetPending(p) \/ RememberStatus(p) \/ SwitchOff(p) \/ SetForceTime(p)
       \/ UseExisting(p) \/ NoRoom(p) \/ Allocate(p)
       \/ CopyIn(p) \/ Publish(p) \/ Measure(p)
       \/ CallReset(p) \/ Reset(p)
       \/ CheckFlag(p) \/ Find(p) \/ Invalidate(p)
       \/ RequestEnd(p) \/ Die(p)
  \/ \E f \in Files : Edit(f)

(* Every step a worker has begun goes on, and requests keep coming.  A      *)
(* waiter for byte 0 gets it: the kernel wakes the waiters of F_SETLKW in   *)
(* the order they came.                                                     *)
Progress(p) ==
  \/ RequestStart(p) \/ ReadPending(p)
  \/ BeginRestart(p) \/ SkipRestart(p)
  \/ (\E q \in Proc : KillLocker(p, q)) \/ StopKilling(p)
  \/ EnterRestart(p) \/ CleanHash(p) \/ RestoreState(p) \/ LeaveRestart(p)
  \/ CopyEnabled(p) \/ LookUp(p) \/ Count(p) \/ Hit(p) \/ Outdated(p)
  \/ Miss(p) \/ Compile(p) \/ CheckFlag(p) \/ Find(p)
  \/ ClearDate(p) \/ AddWaste(p)
  \/ SetPending(p) \/ RememberStatus(p) \/ SwitchOff(p) \/ SetForceTime(p)
  \/ CopyIn(p) \/ Publish(p) \/ Measure(p)
  \/ RequestEnd(p)

UnderByte0(p) ==
  \/ AcquireAlloc(p) \/ Discard(p) \/ UseExisting(p) \/ NoRoom(p)
  \/ Allocate(p) \/ Reset(p) \/ Invalidate(p)

Fairness == \A p \in Proc : WF_vars(Progress(p)) /\ SF_vars(UnderByte0(p))

Spec     == Init /\ [][Next]_vars
FairSpec == Spec /\ Fairness

-------------------------------------------------------------------------------
(* A change that nobody has died in the middle of.                          *)
Whole(change) == lost \cap change = {}

(* Between these two the cache is scheduled for a restart and still on.     *)
TurningOff == {"remembering", "switching"}

(* The shared switch is off exactly while a restart is scheduled or under   *)
(* way, but for the process that is about to switch it off: who schedules   *)
(* (ZendAccelerator.c:3550-3551) remembers the switch, another one restores *)
(* it (2750), several can schedule, and it is read without a lock.  It is   *)
(* so until a worker dies in the middle of either: of scheduling, after     *)
(* which the cache is scheduled, on, and will be restored to an older       *)
(* switch; or of a restart, after which it stays off.                       *)
SwitchFollowsRestart ==
  Whole(Wiping \cup TurningOff) =>
    (enabled <=> \/ ~pending /\ Quiet
                 \/ \E p \in Proc : pc[p] \in TurningOff)

(* A cache that is out of memory and has wasted enough of it is scheduled   *)
(* for a restart, or the process that noticed is about to, whichever of the *)
(* two came first: running out (1613-1635) and discarding (1391-1395) each  *)
(* have to ask.  A worker that dies just before it schedules leaves it to   *)
(* the next who asks.                                                       *)
ExhaustedIsScheduled ==
  exhausted /\ wasted >= WasteLimit /\ Quiet /\ Whole(Wiping \cup {"scheduling"}) =>
    pending \/ \E p \in Proc : pc[p] = "scheduling"

(* No wasted memory is missing from the count that decides about a restart, *)
(* with discards of the same script by several workers, and requests that   *)
(* overlap a restart (1388-1390), but for the script that is being          *)
(* discarded: a worker that dies while it discards or stores one (1692)     *)
(* takes no more than that one out of the count.                            *)
WasteIsCounted ==
  Quiet /\ Whole(Wiping) =>
    Cardinality({b \in 1 .. top : mem[b].corrupted})
      <= wasted
         + Cardinality({p \in Proc : pc[p] \in Discarding})
         + (IF Whole(Discarding \cup Publishing) THEN 0 ELSE deaths)

(* A file has one usable script in memory, however many workers miss it at  *)
(* once and compile it (the final check under the lock, 1591-1611).  Only a *)
(* worker that dies before others can find what it has stored leaves one    *)
(* too many.                                                                *)
OneScriptPerFile ==
  Quiet /\ Whole(Wiping \cup {"linking"}) =>
    \A b, c \in 1 .. top :
      mem[b].file # None /\ mem[b].file = mem[c].file
        /\ ~mem[b].corrupted /\ ~mem[c].corrupted => b = c

(* A stored script that looks up to date is up to date: the timestamp is    *)
(* read before compiling (1776-1779), so a change of the file in between is *)
(* always noticed later.                                                    *)
TimestampProtects ==
  \A b \in 1 .. top : \A f \in Files :
    mem[b].file = f /\ mem[b].stamp = disk[f] => mem[b].content = disk[f]

(* A request never executes memory that holds another script, provided that *)
(* no restart looked for its read lock before it had one: the lock is held  *)
(* from the first use to the end of the request (2106-2114, 2813-2815).     *)
(* The comment at 3587 promises it without the proviso: a worker that       *)
(* passed the check for a restart and has not got its lock yet is exposed.  *)
RunsItsOwnScripts ==
  \A p \in Proc : \A f \in Files :
    on[p] /\ ~exposed[p] /\ loaded[p][f] # 0
      => mem[loaded[p][f]].file = f

(* What is served from the cache is the file as it is on disk.  The one     *)
(* exception is a script that another worker has discarded after this one   *)
(* found it: its timestamp of 0 passes for that of a preloaded script       *)
(* (1176-1177).                                                             *)
HitIsCurrent ==
  [][\A p \in Proc : Hit(p) =>
       \/ mem[found[p]].stamp = 0
       \/ /\ mem[found[p]].file = file[p]
          /\ mem[found[p]].content = disk[file[p]]]_vars

(* A scheduled restart takes place, although it has to find a moment        *)
(* without readers: new requests do not use the cache (2762), and those     *)
(* that do come to their end (2814).  If whoever scheduled it died before   *)
(* switching the cache off, new requests go on using it and may keep the    *)
(* restart waiting for ever.                                                *)
RestartHappens ==
  pending ~> ~pending \/ (enabled /\ ~Whole(TurningOff))

===============================================================================
