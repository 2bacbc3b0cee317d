---------------------------- MODULE MCGasConfig -----------------------------
(***************************************************************************)
(* Instances of GasConfig.  The grace period is one EVM block, so that a   *)
(* few blocks hold several queued changes, their activation and a second   *)
(* version change.                                                         *)
(***************************************************************************)
EXTENDS GasConfig

\* What the last transaction saw matters only to the transactions of its own
\* block; announced is left out, no property of the run reads it.
View ==
  <<block, version, params, minerCut, pricing,
    IF ran.block = block THEN ran ELSE NoTx>>
=============================================================================
