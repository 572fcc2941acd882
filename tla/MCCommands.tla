----------------------------- MODULE MCCommands -----------------------------
(* The instance of Commands: one target of each kind but jobs, which differ *)
(* from virtual machines only in having no switch.                          *)
EXTENDS Commands

CONSTANTS web, vm, stack
=============================================================================
