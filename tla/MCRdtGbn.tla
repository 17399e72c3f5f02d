------------------------------ MODULE MCRdtGbn ------------------------------
(***************************************************************************)
(* Small instances of RdtGbn for TLC.                                      *)
(***************************************************************************)
EXTENDS RdtGbn

\* One sum an uninitialised ACK payload may add to the checksum.
MCGarbage == {-7}

\* lossprob = corruptprob = 0, only losses, and everything.
Perfect == {"intact"}
Lossy   == {"intact", "lost"}
Faulty  == Fate
=============================================================================
