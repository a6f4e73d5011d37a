---------------------------- MODULE CacheTableMC ----------------------------
(* Instances of CacheTable for TLC.                                        *)
EXTENDS CacheTable, TLC

ThreeHomes == 1 :> "a" @@ 2 :> "a" @@ 3 :> "b"
ThreeSizes == 1 :> 3 @@ 2 :> 0 @@ 3 :> 1
OnePid     == "a" :> 1 @@ "b" :> 1
Boots      == "a" :> 2 @@ "b" :> 1
=============================================================================
