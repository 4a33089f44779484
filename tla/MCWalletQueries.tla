--------------------------- MODULE MCWalletQueries ---------------------------
(***************************************************************************)
(* Instances of WalletQueries for TLC: two instances, of which one lags.   *)
(***************************************************************************)
EXTENDS WalletQueries, TLC

CONSTANTS i1, i2

SecondLags == i1 :> 0 @@ i2 :> 2
=============================================================================
