-------------------------- MODULE MCReferenceQueue --------------------------
(***************************************************************************)
(* Instances of ReferenceQueue for TLC: two instances, of which the clock  *)
(* of i2 lags, a wallet that has long been there and one that is opened.   *)
(***************************************************************************)
EXTENDS ReferenceQueue, TLC

CONSTANTS i1, i2, w1, w2, o1, o2, o3

TwoOnTheOldWallet == o1 :> w1 @@ o2 :> w1 @@ o3 :> w2
OneEach == o1 :> w1 @@ o2 :> w2

SecondLags == i1 :> 0 @@ i2 :> 2

\* The new wallet is opened through the instance that lags, or through the other one.
BySlow == w1 :> i1 @@ w2 :> i2
ByFast == w1 :> i1 @@ w2 :> i1

Delays == <<1, 2, 2>>
=============================================================================
