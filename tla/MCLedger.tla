------------------------------ MODULE MCLedger ------------------------------
(***************************************************************************)
(* Four transactions: a funding transaction, two transfers that spend its  *)
(* output (a double spend), and a child of the first transfer.             *)
(***************************************************************************)
EXTENDS Ledger

CONSTANTS funding, transfer, rival, child, o1, o2, o3, o4, a1, a2

MCTx == {funding, transfer, rival, child}
MCOut == {o1, o2, o3, o4}
MCAddr == {a1, a2}
MCCreator == [o \in MCOut |-> CASE o = o1 -> funding [] o = o2 -> transfer
                                [] o = o3 -> rival [] o = o4 -> child]
MCSpends == [t \in MCTx |-> CASE t = funding -> {} [] t = transfer -> {o1}
                               [] t = rival -> {o1} [] t = child -> {o2}]
MCOwner == [o \in MCOut |-> CASE o = o1 -> a1 [] o = o2 -> a2 [] o = o3 -> a1
                              [] o = o4 -> NoAddr]
MCValue == [o \in MCOut |-> CASE o = o1 -> 4 [] o = o2 -> 3 [] o = o3 -> 2 [] o = o4 -> 1]
=============================================================================
