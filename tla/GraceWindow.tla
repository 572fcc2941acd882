---------------------------- MODULE GraceWindow ----------------------------
(***************************************************************************)
(* What the coordinator promises to the entities that read it: a feed that *)
(* is live after a successful poll, is held on the last good data for at   *)
(* most MaxFailures misses in a row, and is down after that until a poll   *)
(* succeeds.  A lockout (rejected credentials) takes the feed down at once *)
(* without counting as a miss.                                             *)
(***************************************************************************)
EXTENDS Naturals

CONSTANT MaxFailures

VARIABLES
  feed,     \* absent (no loaded entry), live, held or down
  missed    \* misses since the last delivery, up to MaxFailures + 1

Absent == feed = "absent" /\ missed = 0

Init == Absent

Attach == feed = "absent" /\ feed' = "live" /\ missed' = 0

Deliver == feed # "absent" /\ feed' = "live" /\ missed' = 0

\* The feed is held only while misses remain; once they are used up it is down
\* and no further miss brings it back.
Miss ==
  /\ feed # "absent"
  /\ \/ /\ missed < MaxFailures
        /\ missed' = missed + 1
        /\ feed' = "held"
     \/ /\ missed >= MaxFailures
        /\ missed' = MaxFailures + 1
        /\ feed' = "down"

Lockout == feed # "absent" /\ feed' = "down" /\ UNCHANGED missed

Detach == feed # "absent" /\ feed' = "absent" /\ missed' = 0

Next == Attach \/ Deliver \/ Miss \/ Lockout \/ Detach

Spec == Init /\ [][Next]_<<feed, missed>>
=============================================================================
