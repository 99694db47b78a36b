---------------------------- MODULE MCMarketCache ----------------------------
(***************************************************************************)
(* MarketCache with two requests: both on one instance, where Redis may    *)
(* fail a command, or one on each of two instances. A value cached at time *)
(* 0 sees all of its life; garbage is dropped by the first to read it, so  *)
(* fewer ticks do for it.                                                  *)
(***************************************************************************)
EXTENDS MarketCache, TLC

Together == "r1" :> "i1" @@ "r2" :> "i1"
Apart == "r1" :> "i1" @@ "r2" :> "i2"
Hit == [src |-> "current", at |-> 0]

MCScenarios ==
    { [home |-> h, faults |-> IF h = Together THEN 1 ELSE 0, cached |-> v,
       start |-> IF v = Hit THEN 0 ELSE 2] : h \in {Together, Apart}, v \in {Hit, Garbage} }
=============================================================================
