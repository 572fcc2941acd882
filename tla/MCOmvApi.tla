------------------------------ MODULE MCOmvApi ------------------------------
(* OmvApi with a poll and a user's action.                                 *)
EXTENDS OmvApi

MCSkew == -1
=============================================================================
