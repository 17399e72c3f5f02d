------------------------------ MODULE MCRdtAbp ------------------------------
(***************************************************************************)
(* Small instances of RdtAbp for TLC.                                      *)
(***************************************************************************)
EXTENDS RdtAbp

\* Two sums an uninitialised ACK payload may add to the checksum.
MCGarbage == {0, -7}
=============================================================================
