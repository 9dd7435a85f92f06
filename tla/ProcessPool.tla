----------------------------- MODULE ProcessPool -----------------------------
(***************************************************************************)
(* What a process manager promises about the children of its pool, without *)
(* saying how: there are never more of them than the limit, only the dead  *)
(* are taken off the list, a dead one may be replaced in the same step,    *)
(* and once the manager leaves nobody comes any more, and it is gone with  *)
(* the last child and not before.                                          *)
(*                                                                         *)
(* Module Fpm, the master of sapi/fpm with its signals, timers and styles  *)
(* of pool, implements this specification.                                 *)
(***************************************************************************)
CONSTANTS
  Pid,        \* process identities
  Lists       \* the sets of them that are within the limit

VARIABLES
  stance,     \* what the manager is about: starting, up, leaving, gone
  children,   \* who is on its list
  alive       \* who of them runs

poolVars == <<stance, children, alive>>

(* The manager waits for whoever is left.                                   *)
Left(list) == IF list = {} THEN "gone" ELSE "leaving"

Init == stance = "starting" /\ children = {} /\ alive = {}

(* The first children, after which it may have to leave at once.            *)
Start(new) ==
  /\ stance = "starting"
  /\ new \in Lists
  /\ children' = new /\ alive' = new
  /\ stance' \in {"up", Left(new)}

Fork(new) ==
  /\ stance = "up"
  /\ new \cap children = {} /\ children \cup new \in Lists
  /\ children' = children \cup new /\ alive' = alive \cup new
  /\ UNCHANGED stance

Die(p) ==
  /\ p \in alive
  /\ alive' = alive \ {p}
  /\ UNCHANGED <<stance, children>>

(* A dead child is taken off the list, for others or for none.              *)
Replace(p, new) ==
  LET rest == children \ {p} IN
  /\ stance = "up"
  /\ p \in children \ alive
  /\ new \cap rest = {} /\ rest \cup new \in Lists
  /\ children' = rest \cup new /\ alive' = alive \cup new
  /\ UNCHANGED stance

(* On the way out, and when it makes the manager leave: for none.           *)
Bury(p) ==
  /\ stance \in {"up", "leaving"}
  /\ p \in children \ alive
  /\ children' = children \ {p}
  /\ stance' = Left(children \ {p})
  /\ UNCHANGED alive

Leave ==
  /\ stance = "up"
  /\ stance' = Left(children)
  /\ UNCHANGED <<children, alive>>

Next ==
  \/ Leave
  \/ \E new \in SUBSET Pid : Start(new) \/ Fork(new)
  \/ \E p \in Pid :
       \/ Die(p) \/ Bury(p)
       \/ \E new \in SUBSET Pid : Replace(p, new)

Spec == Init /\ [][Next]_poolVars

===============================================================================
