------------------------------ MODULE MCTcpRtt ------------------------------
(* Small ticks for the estimator; the ratios of the limits are those of the *)
(* default configuration scaled down.                                      *)
EXTENDS TcpRtt
=============================================================================
