----------------------------- MODULE MCRegistry -----------------------------
(* Instances of Registry: which collections a poll of the run fetches.     *)
EXTENDS Registry

CoreKinds == <<"filesystem", "service">>
CoreAndOptional == <<"filesystem", "compose">>

MCCore == {"filesystem", "service"} \cap Collections
MCCached == {"filesystem", "smart"} \cap Collections
MCSelected == [c \in Collections |-> Resources]
=============================================================================
