--------------------------- MODULE MCSystemUpdate ---------------------------
(* The instance of SystemUpdate: an appliance that waits for packages and   *)
(* for a reboot, and one that only waits for its reboot.                    *)
EXTENDS SystemUpdate

MCFirstHwinfo ==
  {[listed |-> TRUE, reboot |-> TRUE, dirty |-> FALSE],
   [listed |-> FALSE, reboot |-> TRUE, dirty |-> FALSE]}
=============================================================================
