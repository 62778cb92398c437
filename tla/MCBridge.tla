------------------------------ MODULE MCBridge ------------------------------
(* Instances of Bridge for TLC. *)
EXTENDS Bridge

\* The driver's structure is static, as in the programs under test/: all zero.
StaticBuffer == {<< >>}
=============================================================================
