---------------------------- MODULE MCUtxoCache ----------------------------
(***************************************************************************)
(* Two transactions with two outputs each, one of them without an address, *)
(* a transfer of one output of the first, one that gathers both outputs of *)
(* the first and one of the second, and a spend of the transfer.           *)
(***************************************************************************)
EXTENDS UtxoCache

CONSTANTS t1, t2, pay, gather, last, a1, a2, b1, b2, p1, l1

MCTx == {t1, t2, pay, gather, last}
MCOut == {a1, a2, b1, b2, p1, l1}
MCCreator == [o \in MCOut |-> CASE o \in {a1, a2} -> t1 [] o \in {b1, b2} -> t2
                                [] o = p1 -> pay [] o = l1 -> last]
MCSpends == [t \in MCTx |-> CASE t = pay -> {a1} [] t = gather -> {a2, b1, b2}
                               [] t = last -> {p1} [] OTHER -> {}]
MCAddressed == {a1, a2, b1, p1, l1}

=============================================================================
