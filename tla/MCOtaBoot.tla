----------------------------- MODULE MCOtaBoot -----------------------------
(* The instances of OtaBoot that TLC checks; see the OtaBoot_*.cfg files.   *)
EXTENDS OtaBootInv
=============================================================================
