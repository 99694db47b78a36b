----------------------------- MODULE MCApiReads -----------------------------
(***************************************************************************)
(* ApiReads with two callers of one wallet, who use the same or different  *)
(* gap limits and instances; four transactions and three blocks; windows   *)
(* that begin and end on and off an hour, a day and a week; and two        *)
(* proposals with two votes over the change of a cycle.                    *)
(***************************************************************************)
EXTENDS ApiReads, TLC

MCPlans ==
    { [gap |-> "c1" :> g @@ "c2" :> 2, server |-> "c1" :> "s1" @@ "c2" :> s, arrivals |-> 1] :
        g \in {1, 2}, s \in {"s1", "s2"} }

MCOwnerSets == {{"a2"}, {"a1", "a2"}}

MCWeight == "v1" :> 1 @@ "v2" :> 4

\* Windows with a cut tail, with no bucket, off the seconds, and with votes
\* before them; two of them leave the width to the presets.
MCWindows ==
    { [start |-> 1, end |-> 5, count |-> 2],
      [start |-> 0, end |-> 5, count |-> 2],
      [start |-> 2, end |-> 2, count |-> 2],
      [start |-> 2, end |-> 5, count |-> 0],
      [start |-> 0, end |-> 4, count |-> 0] }
=============================================================================
