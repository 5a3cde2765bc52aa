----------------------------- MODULE MCActuator -----------------------------
(* Model values and the display order of the instances of Actuator. *)
EXTENDS Actuator
CONSTANTS ada, ben
AdaBen == <<ada, ben>>
=============================================================================
