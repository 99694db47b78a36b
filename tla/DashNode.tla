------------------------------ MODULE DashNode ------------------------------
(***************************************************************************)
(* The Dash Core node the indexer reads: its chain of blocks and its       *)
(* mempool.  The node is not under src/; this module states only what the  *)
(* indexer relies on: blocks hold valid transactions, a coin is spent once *)
(* on the chain, and the mempool holds no transaction that conflicts with  *)
(* the chain.  Reorganisations are left to the module LiveSync of the      *)
(* plan: here the chain only grows.                                        *)
(***************************************************************************)
EXTENDS Integers, Sequences, FiniteSets

CONSTANTS
  Tx,         \* transactions
  Out,        \* transaction outputs
  Creator,    \* Creator[o]: the transaction that has output o
  Spends,     \* Spends[t]: the outputs transaction t spends
  MaxHeight   \* bound: the chain is at most this long

ASSUME NodeAssumption ==
  /\ Creator \in [Out -> Tx]
  /\ Spends \in [Tx -> SUBSET Out]
  /\ \A o \in Out : o \notin Spends[Creator[o]]
  /\ MaxHeight \in Nat

(* Those of one history. *)
ASSUME FiniteAssumption == IsFiniteSet(Tx) /\ IsFiniteSet(Out)

VARIABLES
  chain,      \* chain[h]: the transactions of the block at height h
  mempool     \* the transactions the node holds unconfirmed

nodeVars == <<chain, mempool>>

Mined == UNION {chain[h] : h \in DOMAIN chain}

Creators(t) == {Creator[o] : o \in Spends[t]}

Conflict(t, u) == t # u /\ Spends[t] \cap Spends[u] # {}

NodeTypeOK ==
  /\ chain \in Seq(SUBSET Tx)
  /\ mempool \subseteq Tx

(* The largest part of the mempool that is still valid once the            *)
(* transactions of `confirmed` are on the chain.                           *)
StillValid(pool, confirmed) ==
  UNION {kept \in SUBSET (pool \ confirmed) :
           \A t \in kept : /\ Creators(t) \subseteq confirmed \cup kept
                           /\ \A u \in confirmed : ~Conflict(t, u)}

AcceptTx(t) ==
  /\ t \notin Mined \cup mempool
  /\ Creators(t) \subseteq Mined \cup mempool
  /\ \A u \in Mined \cup mempool : ~Conflict(t, u)
  /\ mempool' = mempool \cup {t}
  /\ UNCHANGED chain

(* The mempool drops a transaction (expiry, a node restart) with all that  *)
(* depends on it; no message tells the indexer.                            *)
EvictTx(t) ==
  /\ t \in mempool
  /\ mempool' = StillValid(mempool \ {t}, Mined)
  /\ UNCHANGED chain

(* A block may hold none of the transactions of interest. *)
MineBlock(b) ==
  /\ Len(chain) < MaxHeight
  /\ b \cap Mined = {}
  /\ \A t \in b : /\ Creators(t) \subseteq Mined \cup b
                  /\ \A u \in Mined \cup b : ~Conflict(t, u)
  /\ chain' = Append(chain, b)
  /\ mempool' = StillValid(mempool, Mined \cup b)

=============================================================================
