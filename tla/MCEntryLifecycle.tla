-------------------------- MODULE MCEntryLifecycle --------------------------
(* EntryLifecycle for TLC.                                                 *)
EXTENDS EntryLifecycle

MCIds == 1 .. 3

AllActs == {"reauth", "reconfigure", "options", "reload", "remove", "restart"}

OnlyReconfigure == {"reconfigure"}
=============================================================================
