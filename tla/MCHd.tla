-------------------------------- MODULE MCHd --------------------------------
(* Instances of Hd for TLC; a sector first holds its own number. *)
EXTENDS Hd

MCValues == Sectors
=============================================================================
