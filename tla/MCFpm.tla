-------------------------------- MODULE MCFpm --------------------------------
(***************************************************************************)
(* Instances of Fpm for TLC.                                               *)
(***************************************************************************)
EXTENDS Fpm, TLC

AllStyles == {"static", "dynamic", "ondemand"}

===============================================================================
