---------------------------- MODULE IndexPrefix ----------------------------
(***************************************************************************)
(* What stream_blocks promises of table blocks: "This prevents data gaps   *)
(* if get_max_block_height is used on restart" (p2p.rs).  The heights in   *)
(* the table are always those above start_height up to the highest, and a  *)
(* commit only extends them upwards.                                       *)
(***************************************************************************)
EXTENDS Naturals

CONSTANT Base     \* start_height

VARIABLE blocks   \* the heights in table blocks

Init == blocks = {}

(* `top` is the highest block of the commit. *)
Commit ==
  \E top \in blocks' :
    /\ \A h \in blocks : h < top
    /\ blocks' = Base + 1 .. top

Spec == Init /\ [][Commit]_blocks

=============================================================================
