------------------------------- MODULE MCWallet -------------------------------
(* Model-checking instance of Wallet: the configuration gives its constants   *)
(* their values.                                                              *)
EXTENDS Wallet
=============================================================================
