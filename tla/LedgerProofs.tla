---------------------------- MODULE LedgerProofs ----------------------------
(***************************************************************************)
(* Proofs about Ledger for every set of transactions, every spending       *)
(* graph, every batch size and every start_height.                         *)
(*                                                                         *)
(* UtxoIsUnspent and ConfirmedSpenderWins are not inductive.  That a batch *)
(* of newly mined transactions keeps them rests on what the chain is (a    *)
(* creator is mined no later than its spender, a coin is spent once), on   *)
(* heights being those of the chain, on the two columns in which a pending *)
(* spend is recorded agreeing, and on no announcement being of a           *)
(* transaction mined below start_height.  IInv collects these facts.       *)
(*                                                                         *)
(* TotalsMatchChain is inductive relative to IInv, given what DataFacts    *)
(* says of sums over disjoint sets: a batch shares no output and no spend  *)
(* with what was confirmed before it.                                      *)
(***************************************************************************)
EXTENDS Ledger, DataFacts

(* The blocks are those of a valid chain. *)
ChainInv ==
  /\ Len(chain) <= MaxHeight
  /\ \A i \in DOMAIN chain : \A t \in chain[i] : \A o \in Spends[t] :
       \E j \in 1..i : Creator[o] \in chain[j]
  /\ \A i, j \in DOMAIN chain : \A t \in chain[i] : t \in chain[j] => i = j
  /\ \A i, j \in DOMAIN chain : \A t \in chain[i] : \A u \in chain[j] : ~Conflict(t, u)

(* The blocks written are those above base up to tip, all of the chain.    *)
TipInv ==
  /\ base <= tip
  /\ swept <= tip
  /\ tip = base \/ tip <= Len(chain)
  /\ mode # "down" => tip <= Len(chain)
  /\ mode = "catchup" => target <= Len(chain)

(* Announcements reach only the live loop, and none is of a transaction    *)
(* mined at or below base.                                                 *)
WireInv ==
  /\ mode # "live" => wire = {}
  /\ \A t \in wire : \A j \in DOMAIN chain : j <= base => t \notin chain[j]

HeightInv ==
  \A t \in Tx : \A h \in Nat \ {0} :
    height[t] = h <=> /\ h \in base + 1 .. tip
                      /\ t \in chain[h]

(* A set prev_tx_id points at an indexed creator. *)
LinkInv ==
  \A t \in Tx : \A o \in link[t] : o \in Spends[t] /\ t \in Known /\ Creator[o] \in Known

(* spent_by_tx_id names an indexed spender of an indexed output; for a     *)
(* pending spender it and prev_tx_id agree.                                *)
SpentInv ==
  /\ \A o \in Out : spentBy[o] # NoTx =>
       o \in Spends[spentBy[o]] /\ spentBy[o] \in Known /\ Creator[o] \in Known
  /\ \A o \in Out : spentBy[o] \in Pending => o \in link[spentBy[o]]
  /\ \A t \in Pending : \A o \in link[t] : spentBy[o] # NoTx

IInv ==
  /\ TypeOK
  /\ ChainInv
  /\ TipInv
  /\ WireInv
  /\ HeightInv
  /\ LinkInv
  /\ SpentInv
  /\ UtxoIsUnspent
  /\ ConfirmedSpenderWins
  /\ SweptAreLocked

-----------------------------------------------------------------------------
(* What the mempool keeps after a block is part of what it held.           *)
LEMMA StillValidShrinks ==
  ASSUME NEW pool, NEW confirmed
  PROVE  StillValid(pool, confirmed) \subseteq pool \ confirmed
  BY DEF StillValid

(* The initial states satisfy the invariant. *)
LEMMA InitEstablishes == Init => IInv
  <1> SUFFICES ASSUME Init PROVE IInv
    OBVIOUS
  <1> USE NodeAssumption, LedgerAssumption
  <1>1. Known = {} /\ Pending = {} /\ Confirmed = {}
    BY DEF Init, Known, Pending, Confirmed, Absent, Unconfirmed
  <1>2. TypeOK
    BY DEF Init, TypeOK, NodeTypeOK, Absent
  <1>3. ChainInv /\ TipInv /\ WireInv
    BY DEF Init, ChainInv, TipInv, WireInv
  <1>4. HeightInv
    BY DEF Init, HeightInv, Absent
  <1>5. LinkInv /\ SpentInv
    BY <1>1 DEF Init, LinkInv, SpentInv
  <1>6. UtxoIsUnspent /\ ConfirmedSpenderWins /\ SweptAreLocked
    BY <1>1 DEF Init, UtxoIsUnspent, ConfirmedSpenderWins, SweptAreLocked, Outputs
  <1> QED
    BY <1>2, <1>3, <1>4, <1>5, <1>6 DEF IInv

-----------------------------------------------------------------------------
(* A height is NULL, absent, or that of the block the transaction is in.   *)
LEMMA ConfirmedAreMined ==
  ASSUME IInv
  PROVE  /\ Confirmed = {t \in Tx : \E h \in base + 1 .. tip : t \in chain[h]}
         /\ Known = Pending \cup Confirmed
         /\ Pending \cap Confirmed = {}
  <1> USE DEF Absent, Unconfirmed, Known, Pending, Confirmed
  <1>1. height \in [Tx -> {-1} \cup Nat] /\ base \in Nat /\ tip \in Nat
    BY DEF IInv, TypeOK
  <1>2. ASSUME NEW t \in Confirmed
        PROVE  \E h \in base + 1 .. tip : t \in chain[h]
    BY <1>1 DEF IInv, HeightInv
  <1>3. ASSUME NEW t \in Tx, NEW h \in base + 1 .. tip, t \in chain[h]
        PROVE  t \in Confirmed
    BY <1>1, <1>3 DEF IInv, HeightInv
  <1>4. Known = Pending \cup Confirmed /\ Pending \cap Confirmed = {}
    BY <1>1
  <1> QED
    BY <1>2, <1>3, <1>4

-----------------------------------------------------------------------------
(* The node's steps leave the database alone.                              *)
LEMMA AcceptKeeps ==
  ASSUME IInv, NEW t \in Tx, NodeAccepts(t)
  PROVE  IInv'
  <1> USE NodeAssumption, LedgerAssumption
  <1> USE DEF NodeAccepts, AcceptTx, Announce, dbVars
  <1>1. TypeOK'
    BY DEF IInv, TypeOK, NodeTypeOK
  <1>2. ChainInv' /\ TipInv' /\ HeightInv'
    BY DEF IInv, ChainInv, TipInv, HeightInv
  <1>3. WireInv'
    BY DEF IInv, WireInv, Mined
  <1>4. LinkInv' /\ SpentInv'
    BY DEF IInv, LinkInv, SpentInv, Known, Pending
  <1>5. UtxoIsUnspent' /\ ConfirmedSpenderWins' /\ SweptAreLocked'
    BY DEF IInv, UtxoIsUnspent, ConfirmedSpenderWins, SweptAreLocked,
           Outputs, Known, Confirmed
  <1> QED
    BY <1>1, <1>2, <1>3, <1>4, <1>5 DEF IInv

(* A block extends the chain; it is announced only to an indexer that is   *)
(* past base.                                                              *)
LEMMA MineKeeps ==
  ASSUME IInv, NEW b \in SUBSET Tx, NodeMines(b)
  PROVE  IInv'
  <1> USE NodeAssumption, LedgerAssumption
  <1> USE DEF NodeMines, MineBlock, Announce, dbVars
  <1>1. /\ chain \in Seq(SUBSET Tx) /\ chain' \in Seq(SUBSET Tx)
        /\ Len(chain') = Len(chain) + 1
        /\ DOMAIN chain' = 1..Len(chain) + 1
        /\ chain'[Len(chain) + 1] = b
        /\ \A i \in DOMAIN chain : chain'[i] = chain[i]
    BY DEF IInv, TypeOK, NodeTypeOK
  <1>2. /\ base \in Nat /\ tip \in Nat /\ target \in Nat /\ swept \in Nat
        /\ Len(chain) \in Nat
        /\ DOMAIN chain = 1..Len(chain)
    BY <1>1 DEF IInv, TypeOK
  <1>3. TypeOK'
    <2>1. mempool' \subseteq Tx
      BY StillValidShrinks DEF IInv, TypeOK, NodeTypeOK
    <2> QED
      BY <1>1, <2>1 DEF IInv, TypeOK, NodeTypeOK
  <1>4. ChainInv'
    <2>1. Len(chain') <= MaxHeight
      BY <1>1, <1>2
    <2>2. ASSUME NEW i \in DOMAIN chain', NEW t \in chain'[i], NEW o \in Spends[t]
          PROVE  \E j \in 1..i : Creator[o] \in chain'[j]
      <3>1. CASE i \in DOMAIN chain
        <4>1. PICK j \in 1..i : Creator[o] \in chain[j]
          BY <1>1, <2>2, <3>1 DEF IInv, ChainInv
        <4> QED
          BY <1>1, <1>2, <3>1, <4>1
      <3>2. CASE i = Len(chain) + 1
        <4>1. Creator[o] \in Mined \cup b
          BY <1>1, <2>2, <3>2 DEF Creators
        <4> QED
          BY <1>1, <1>2, <3>2, <4>1 DEF Mined
      <3> QED
        BY <1>1, <1>2, <3>1, <3>2
    <2>3. ASSUME NEW i \in DOMAIN chain', NEW j \in DOMAIN chain',
                 NEW t \in chain'[i], t \in chain'[j]
          PROVE  i = j
      <3>1. CASE i \in DOMAIN chain /\ j \in DOMAIN chain
        BY <1>1, <2>3, <3>1 DEF IInv, ChainInv
      <3>2. CASE i \notin DOMAIN chain \/ j \notin DOMAIN chain
        BY <1>1, <1>2, <2>3, <3>2 DEF Mined
      <3> QED
        BY <3>1, <3>2
    <2>4. ASSUME NEW i \in DOMAIN chain', NEW j \in DOMAIN chain',
                 NEW t \in chain'[i], NEW u \in chain'[j]
          PROVE  ~Conflict(t, u)
      <3>1. CASE i \in DOMAIN chain /\ j \in DOMAIN chain
        BY <1>1, <2>4, <3>1 DEF IInv, ChainInv
      <3>2. CASE i \notin DOMAIN chain
        <4>1. t \in b /\ u \in Mined \cup b
          BY <1>1, <1>2, <2>4, <3>2 DEF Mined
        <4> QED
          BY <4>1
      <3>3. CASE j \notin DOMAIN chain
        <4>1. u \in b /\ t \in Mined \cup b
          BY <1>1, <1>2, <2>4, <3>3 DEF Mined
        <4> QED
          BY <4>1 DEF Conflict
      <3> QED
        BY <3>1, <3>2, <3>3
    <2> QED
      BY <2>1, <2>2, <2>3, <2>4 DEF ChainInv
  <1>5. TipInv'
    BY <1>1, <1>2 DEF IInv, TipInv
  <1>6. WireInv'
    <2>1. mode = "live" => base <= Len(chain)
      BY <1>2 DEF IInv, TipInv
    <2>2. ASSUME NEW t \in wire', NEW j \in DOMAIN chain', j <= base
          PROVE  t \notin chain'[j]
      <3>1. mode = "live" /\ (t \in wire \/ t \in b)
        BY <2>2 DEF IInv, WireInv
      <3>2. j \in DOMAIN chain
        BY <1>1, <1>2, <2>1, <2>2, <3>1
      <3>3. chain'[j] = chain[j]
        BY <1>1, <3>2
      <3>4. CASE t \in wire
        BY <2>2, <3>2, <3>3, <3>4 DEF IInv, WireInv
      <3>5. CASE t \in b
        BY <3>2, <3>3, <3>5 DEF Mined
      <3> QED
        BY <3>1, <3>4, <3>5
    <2> QED
      BY <2>2 DEF IInv, WireInv
  <1>7. HeightInv'
    <2>1. ASSUME NEW h \in base + 1 .. tip
          PROVE  chain'[h] = chain[h]
      BY <1>1, <1>2, <2>1 DEF IInv, TipInv
    <2> QED
      BY <1>2, <2>1 DEF IInv, HeightInv
  <1>8. LinkInv' /\ SpentInv'
    BY DEF IInv, LinkInv, SpentInv, Known, Pending
  <1>9. UtxoIsUnspent' /\ ConfirmedSpenderWins' /\ SweptAreLocked'
    BY DEF IInv, UtxoIsUnspent, ConfirmedSpenderWins, SweptAreLocked,
           Outputs, Known, Confirmed
  <1> QED
    BY <1>3, <1>4, <1>5, <1>6, <1>7, <1>8, <1>9 DEF IInv

(* The steps that only drop an announcement, or only move the process.     *)
LEMMA QuietKeeps ==
  ASSUME IInv,
         \/ \E t \in Tx : NodeEvicts(t) \/ LoseAnnouncement(t) \/ SkipKnownTransaction(t)
         \/ Start \/ Stop
         \/ UNCHANGED vars
  PROVE  IInv'
  <1> USE NodeAssumption, LedgerAssumption
  <1> DEFINE Frame == /\ UNCHANGED <<chain, base, swept>>
                      /\ UNCHANGED <<height, chainLocked, link, utxo, spentBy, tip>>
                      /\ mempool' \subseteq mempool
                      /\ wire' \subseteq wire
                      /\ \/ UNCHANGED <<mode, target>>
                         \/ mode' = "down" /\ wire' = {} /\ UNCHANGED target
                         \/ /\ mode = "down" /\ mode' \in {"live", "catchup"}
                            /\ target' = Len(chain)
                            /\ base = 0 \/ base < Len(chain)
                            /\ mode' = "live" => tip >= Len(chain)
  <1>1. Frame
    <2>1. ASSUME NEW t \in Tx, NodeEvicts(t)
          PROVE  Frame
      BY <2>1, StillValidShrinks DEF NodeEvicts, EvictTx, dbVars
    <2>2. ASSUME NEW t \in Tx, LoseAnnouncement(t) \/ SkipKnownTransaction(t)
          PROVE  Frame
      BY <2>2 DEF LoseAnnouncement, SkipKnownTransaction, nodeVars, dbVars
    <2>3. CASE Start
      BY <2>3 DEF Start, nodeVars, dbVars
    <2>4. CASE Stop
      BY <2>4 DEF Stop, nodeVars, dbVars
    <2>5. CASE UNCHANGED vars
      BY <2>5 DEF vars, dbVars
    <2> QED
      BY <2>1, <2>2, <2>3, <2>4, <2>5
  <1>2. TypeOK'
    BY <1>1 DEF IInv, TypeOK, NodeTypeOK
  <1>3. ChainInv' /\ HeightInv'
    BY <1>1 DEF IInv, ChainInv, HeightInv
  <1>4. TipInv' /\ WireInv'
    BY <1>1 DEF IInv, TypeOK, NodeTypeOK, TipInv, WireInv
  <1>5. LinkInv' /\ SpentInv'
    BY <1>1 DEF IInv, LinkInv, SpentInv, Known, Pending
  <1>6. UtxoIsUnspent' /\ ConfirmedSpenderWins' /\ SweptAreLocked'
    BY <1>1 DEF IInv, UtxoIsUnspent, ConfirmedSpenderWins, SweptAreLocked,
                Outputs, Known, Confirmed
  <1> QED
    BY <1>2, <1>3, <1>4, <1>5, <1>6 DEF IInv

(* The chain-lock handlers only set chain_locked. *)
LEMMA LockKeeps ==
  ASSUME IInv, FinishCatchUp \/ \E h \in DOMAIN chain : ApplyChainLock(h)
  PROVE  IInv'
  <1> USE NodeAssumption, LedgerAssumption
  <1> USE DEF FinishCatchUp, ApplyChainLock, nodeVars
  <1>1. TypeOK'
    BY DEF IInv, TypeOK, NodeTypeOK, Confirmed
  <1>2. ChainInv' /\ TipInv' /\ WireInv' /\ HeightInv'
    BY DEF IInv, TypeOK, ChainInv, TipInv, WireInv, HeightInv
  <1>3. LinkInv' /\ SpentInv'
    BY DEF IInv, LinkInv, SpentInv, Known, Pending
  <1>4. UtxoIsUnspent' /\ ConfirmedSpenderWins'
    BY DEF IInv, UtxoIsUnspent, ConfirmedSpenderWins, Outputs, Known, Confirmed
  <1>5. SweptAreLocked'
    BY DEF IInv, SweptAreLocked, Confirmed
  <1> QED
    BY <1>1, <1>2, <1>3, <1>4, <1>5 DEF IInv

-----------------------------------------------------------------------------
(* index_pending_transaction *)

LEMMA PendingKeeps ==
  ASSUME IInv, NEW t \in Tx, IndexPendingTransaction(t)
  PROVE  IInv'
  <1> USE NodeAssumption, LedgerAssumption
  <1> DEFINE linked == {o \in Spends[t] : Creator[o] \in Known}
  <1>1. /\ mode = "live" /\ t \in wire /\ t \notin Known
        /\ wire' = wire \ {t}
        /\ height' = [height EXCEPT ![t] = Unconfirmed]
        /\ link' = [link EXCEPT ![t] = linked]
        /\ utxo' = (utxo \cup Outputs({t})) \ linked
        /\ spentBy' = [o \in Out |-> IF o \in linked /\ spentBy[o] = NoTx
                                     THEN t ELSE spentBy[o]]
        /\ UNCHANGED <<chain, mempool, mode, target, base, swept, chainLocked, tip>>
    BY DEF IndexPendingTransaction, NextOnWire, nodeVars
  <1>2. /\ height \in [Tx -> {-1} \cup Nat] /\ height' \in [Tx -> {-1} \cup Nat]
        /\ link \in [Tx -> SUBSET Out]
        /\ spentBy \in [Out -> Tx \cup {NoTx}]
        /\ base \in Nat /\ tip \in Nat
        /\ linked \subseteq Out
    BY <1>1 DEF IInv, TypeOK, Absent, Unconfirmed
  <1>3. /\ Known' = Known \cup {t}
        /\ Pending' = Pending \cup {t}
        /\ Confirmed' = Confirmed
        /\ t \notin Pending /\ t \notin Confirmed
    BY <1>1, <1>2 DEF Known, Pending, Confirmed, Absent, Unconfirmed
  <1> HIDE DEF linked
  <1>4. TypeOK'
    BY <1>1, <1>2 DEF IInv, TypeOK, NodeTypeOK, Absent, Outputs
  <1>5. ChainInv' /\ TipInv' /\ WireInv'
    BY <1>1 DEF IInv, ChainInv, TipInv, WireInv
  <1>6. HeightInv'
    BY <1>1, <1>2, <1>3, ConfirmedAreMined DEF IInv, HeightInv, Confirmed, Unconfirmed
  <1>7. LinkInv'
    BY <1>1, <1>2, <1>3 DEF IInv, LinkInv, linked
  <1>8. SpentInv'
    <2>1. ASSUME NEW o \in Out, spentBy'[o] # NoTx
          PROVE  /\ o \in Spends[spentBy'[o]]
                 /\ spentBy'[o] \in Known'
                 /\ Creator[o] \in Known'
      BY <1>1, <1>3, <2>1 DEF IInv, SpentInv, linked
    <2>2. ASSUME NEW o \in Out, spentBy'[o] \in Pending'
          PROVE  o \in link'[spentBy'[o]]
      BY <1>1, <1>2, <1>3, <2>2 DEF IInv, SpentInv, Pending, Known
    <2>3. ASSUME NEW u \in Pending', NEW o \in link'[u]
          PROVE  spentBy'[o] # NoTx
      BY <1>1, <1>2, <1>3, <2>3 DEF IInv, SpentInv, Pending
    <2> QED
      BY <2>1, <2>2, <2>3 DEF SpentInv
  <1>9. UtxoIsUnspent'
    <2>1. ASSUME NEW o \in Out, Creator[o] = t
          PROVE  spentBy[o] = NoTx
      BY <1>1, <2>1 DEF IInv, SpentInv
    <2> QED
      BY <1>1, <1>2, <1>3, <2>1 DEF IInv, UtxoIsUnspent, Outputs
  <1>10. ConfirmedSpenderWins'
    <2> SUFFICES ASSUME NEW u \in Confirmed, NEW o \in Spends[u],
                        Creator[o] \in Known \cup {t}
                 PROVE  spentBy'[o] = u
      BY <1>3 DEF ConfirmedSpenderWins
    <2>1. o \in Out /\ u \in Tx
      BY DEF Confirmed
    <2>2. Creator[o] # t
      <3>1. PICK i \in base + 1 .. tip : u \in chain[i]
        BY ConfirmedAreMined
      <3>2. i \in DOMAIN chain
        BY <1>1, <1>2, <3>1 DEF IInv, TypeOK, NodeTypeOK, TipInv
      <3>3. PICK j \in 1..i : Creator[o] \in chain[j]
        BY <3>1, <3>2 DEF IInv, ChainInv
      <3>4. j \in DOMAIN chain
        BY <1>2, <3>2, <3>3 DEF IInv, TypeOK, NodeTypeOK
      <3>5. CASE j <= base
        BY <1>1, <3>3, <3>4, <3>5 DEF IInv, WireInv
      <3>6. CASE j \in base + 1 .. tip
        BY <1>1, <3>3, <3>6, ConfirmedAreMined
      <3> QED
        BY <1>2, <3>1, <3>3, <3>5, <3>6
    <2>3. spentBy[o] = u
      BY <2>1, <2>2 DEF IInv, ConfirmedSpenderWins
    <2> QED
      BY <1>1, <2>1, <2>3
  <1>11. SweptAreLocked'
    BY <1>1, <1>2, <1>3 DEF IInv, SweptAreLocked, Confirmed
  <1> QED
    BY <1>4, <1>5, <1>6, <1>7, <1>8, <1>9, <1>10, <1>11 DEF IInv

-----------------------------------------------------------------------------
(* write_batch *)

(* What is in the batch above tip: new to the confirmed rows, without      *)
(* double spends, and no creator of a transaction already confirmed.       *)
LEMMA BatchIsNew ==
  ASSUME IInv, NEW n \in Nat, tip + n <= Len(chain)
  PROVE  LET hs == tip + 1 .. tip + n
         IN /\ hs \subseteq DOMAIN chain
            /\ Batch(hs) \subseteq Tx
            /\ Batch(hs) \cap Confirmed = {}
            /\ \A t \in Batch(hs), u \in Batch(hs) \cup Confirmed : ~Conflict(t, u)
            /\ \A t \in Confirmed : \A o \in Spends[t] : Creator[o] \notin Batch(hs)
  <1> DEFINE hs == tip + 1 .. tip + n
  <1>1. /\ base \in Nat /\ tip \in Nat /\ base <= tip
        /\ chain \in Seq(SUBSET Tx)
    BY DEF IInv, TypeOK, NodeTypeOK, TipInv
  <1>2. hs \subseteq DOMAIN chain /\ base + 1 .. tip \subseteq DOMAIN chain
    BY <1>1
  <1>3. Batch(hs) \subseteq Tx
    BY <1>1, <1>2 DEF Batch
  <1>4. Batch(hs) \cap Confirmed = {}
    <2> SUFFICES ASSUME NEW t \in Batch(hs), t \in Confirmed PROVE FALSE
      OBVIOUS
    <2>1. PICK h \in hs : t \in chain[h]
      BY DEF Batch
    <2>2. PICK i \in base + 1 .. tip : t \in chain[i]
      BY ConfirmedAreMined
    <2>3. i = h
      BY <1>2, <2>1, <2>2 DEF IInv, ChainInv
    <2> QED
      BY <1>1, <2>3
  <1>5. ASSUME NEW t \in Batch(hs), NEW u \in Batch(hs) \cup Confirmed
        PROVE  ~Conflict(t, u)
    <2>1. PICK h \in DOMAIN chain : t \in chain[h]
      BY <1>2 DEF Batch
    <2>2. PICK i \in DOMAIN chain : u \in chain[i]
      BY <1>2, ConfirmedAreMined DEF Batch
    <2> QED
      BY <2>1, <2>2 DEF IInv, ChainInv
  <1>6. ASSUME NEW t \in Confirmed, NEW o \in Spends[t], Creator[o] \in Batch(hs)
        PROVE  FALSE
    <2>1. PICK i \in base + 1 .. tip : t \in chain[i]
      BY ConfirmedAreMined
    <2>2. PICK j \in 1..i : Creator[o] \in chain[j]
      BY <1>2, <2>1 DEF IInv, ChainInv
    <2>3. PICK h \in hs : Creator[o] \in chain[h]
      BY <1>6 DEF Batch
    <2>4. j \in DOMAIN chain
      BY <1>1, <1>2, <2>1, <2>2
    <2>5. j = h
      BY <1>2, <2>2, <2>3, <2>4 DEF IInv, ChainInv
    <2> QED
      BY <1>1, <2>1, <2>2, <2>5
  <1> QED
    BY <1>2, <1>3, <1>4, <1>5, <1>6

LEMMA WriteBatchKeeps ==
  ASSUME IInv, NEW n \in Nat \ {0}, NEW locked \in BOOLEAN,
         tip + n <= Len(chain),
         WriteBatch(tip + 1 .. tip + n, locked),
         tip' = tip + n,
         mode = "catchup" => tip + n <= target,
         UNCHANGED <<nodeVars, wire, mode, target, base, swept>>
  PROVE  IInv'
  <1> USE NodeAssumption, LedgerAssumption
  <1> DEFINE hs == tip + 1 .. tip + n
  <1>1. /\ UNCHANGED <<chain, mempool, wire, mode, target, base, swept>>
        /\ height' = HeightAfter(hs)
        /\ chainLocked \subseteq chainLocked'
        /\ chainLocked' \subseteq chainLocked \cup Batch(hs)
        /\ link' = [t \in Tx |-> IF t \in Batch(hs) \ Known THEN Linked(t, hs) ELSE link[t]]
        /\ utxo' = UtxoAfter(hs)
        /\ spentBy' = SpentByAfter(hs)
    BY DEF WriteBatch, LinkAfter, ChainLockedAfter, nodeVars
  <1>2. /\ base \in Nat /\ tip \in Nat /\ tip' \in Nat /\ base <= tip
        /\ chain \in Seq(SUBSET Tx)
        /\ height \in [Tx -> {-1} \cup Nat]
        /\ link \in [Tx -> SUBSET Out]
        /\ spentBy \in [Out -> Tx \cup {NoTx}]
    BY DEF IInv, TypeOK, NodeTypeOK, TipInv, Absent
  <1>3. /\ hs \subseteq DOMAIN chain
        /\ Batch(hs) \subseteq Tx
        /\ Batch(hs) \cap Confirmed = {}
        /\ \A t \in Batch(hs), u \in Batch(hs) \cup Confirmed : ~Conflict(t, u)
        /\ \A t \in Confirmed : \A o \in Spends[t] : Creator[o] \notin Batch(hs)
    BY <1>2, BatchIsNew
  <1>4. ASSUME NEW t \in Tx
        PROVE  /\ t \in Batch(hs) => height'[t] \in hs /\ t \in chain[height'[t]]
               /\ t \notin Batch(hs) => height'[t] = height[t]
    <2>1. CASE t \in Batch(hs)
      <3>1. \E h \in hs : t \in chain[h]
        BY <2>1 DEF Batch
      <3>2. height'[t] = CHOOSE h \in hs : t \in chain[h]
        BY <1>1, <1>3, <2>1 DEF HeightAfter
      <3> HIDE DEF hs
      <3> QED
        BY <2>1, <3>1, <3>2
    <2>2. CASE t \notin Batch(hs)
      BY <1>1, <2>2 DEF HeightAfter
    <2> QED
      BY <2>1, <2>2
  <1>5. /\ Known' = Known \cup Batch(hs)
        /\ Pending' = Pending \ Batch(hs)
        /\ Confirmed' = Confirmed \cup Batch(hs)
    BY <1>2, <1>3, <1>4 DEF Known, Pending, Confirmed, Absent, Unconfirmed
  <1>6. \A o \in SpentByBatch(hs) :
          o \in Out /\ Creator[o] \in Known \cup Batch(hs)
    BY <1>3 DEF SpentByBatch, Linked
  <1>7. ASSUME NEW o \in Out
        PROVE  /\ o \in SpentByBatch(hs) => /\ spentBy'[o] \in Batch(hs)
                                            /\ o \in Spends[spentBy'[o]]
               /\ o \notin SpentByBatch(hs) => spentBy'[o] = spentBy[o]
    BY <1>1 DEF SpentByAfter, SpentByBatch, Linked
  <1>8. ASSUME NEW t \in Batch(hs), NEW o \in Spends[t], Creator[o] \in Known \cup Batch(hs)
        PROVE  o \in SpentByBatch(hs) /\ spentBy'[o] = t
    <2>1. o \in SpentByBatch(hs) /\ o \in Out
      BY <1>3, <1>8 DEF SpentByBatch, Linked
    <2> QED
      BY <1>3, <1>7, <2>1 DEF Conflict
  <1> HIDE DEF hs
  <1>9. TypeOK'
    <2>1. height' \in [Tx -> {Absent} \cup Nat]
      BY <1>1, <1>2, <1>3, <1>4 DEF HeightAfter, Absent, hs
    <2>2. spentBy' \in [Out -> Tx \cup {NoTx}]
      BY <1>1, <1>2, <1>3, <1>7 DEF SpentByAfter
    <2>3. link' \in [Tx -> SUBSET Out]
      BY <1>1, <1>2, <1>3 DEF Linked
    <2>4. utxo' \subseteq Out
      BY <1>1 DEF UtxoAfter, Outputs, IInv, TypeOK
    <2> QED
      BY <1>1, <1>2, <1>3, <2>1, <2>2, <2>3, <2>4 DEF IInv, TypeOK, NodeTypeOK
  <1>10. ChainInv' /\ TipInv' /\ WireInv'
    BY <1>1, <1>2 DEF IInv, TypeOK, ChainInv, TipInv, WireInv
  <1>11. HeightInv'
    <2> SUFFICES ASSUME NEW t \in Tx, NEW h \in Nat \ {0}
                 PROVE  height'[t] = h <=> h \in base + 1 .. tip + n /\ t \in chain[h]
      BY <1>1 DEF HeightInv
    <2>1. DOMAIN chain = 1..Len(chain) /\ base + 1 .. tip + n \subseteq DOMAIN chain
      BY <1>2
    <2>2. CASE t \in Batch(hs)
      <3>1. height'[t] \in hs /\ t \in chain[height'[t]]
        BY <1>4, <2>2
      <3>2. height'[t] \in base + 1 .. tip + n
        BY <1>2, <3>1 DEF hs
      <3>3. ASSUME h \in base + 1 .. tip + n, t \in chain[h]
            PROVE  height'[t] = h
        BY <2>1, <3>1, <3>2, <3>3 DEF IInv, ChainInv
      <3> QED
        BY <3>1, <3>2, <3>3
    <2>3. CASE t \notin Batch(hs)
      <3>1. height'[t] = height[t]
        BY <1>4, <2>3
      <3>2. h \in base + 1 .. tip + n /\ t \in chain[h] => h \in base + 1 .. tip
        BY <1>2, <2>3 DEF Batch, hs
      <3>3. height[t] = h <=> h \in base + 1 .. tip /\ t \in chain[h]
        BY DEF IInv, HeightInv
      <3> QED
        BY <1>2, <3>1, <3>2, <3>3
    <2> QED
      BY <2>2, <2>3
  <1>12. LinkInv'
    BY <1>1, <1>2, <1>3, <1>5 DEF IInv, LinkInv, Linked
  <1>13. SpentInv'
    <2>1. ASSUME NEW o \in Out, spentBy'[o] # NoTx
          PROVE  /\ o \in Spends[spentBy'[o]]
                 /\ spentBy'[o] \in Known'
                 /\ Creator[o] \in Known'
      BY <1>5, <1>6, <1>7, <2>1 DEF IInv, SpentInv
    <2>2. ASSUME NEW o \in Out, spentBy'[o] \in Pending'
          PROVE  o \in link'[spentBy'[o]]
      <3>1. spentBy'[o] = spentBy[o]
        BY <1>5, <1>7, <2>2
      <3>2. spentBy[o] \in Pending /\ spentBy[o] \notin Batch(hs) /\ spentBy[o] \in Tx
        BY <1>5, <2>2, <3>1 DEF Pending
      <3> QED
        BY <1>1, <3>1, <3>2 DEF IInv, SpentInv
    <2>3. ASSUME NEW u \in Pending', NEW o \in link'[u]
          PROVE  spentBy'[o] # NoTx
      <3>1. u \in Pending /\ u \in Tx /\ o \in link[u]
        BY <1>1, <1>5 DEF Pending
      <3>2. o \in Out /\ spentBy[o] # NoTx
        BY <1>2, <3>1 DEF IInv, SpentInv
      <3> QED
        BY <1>3, <1>7, <3>2
    <2> QED
      BY <2>1, <2>2, <2>3 DEF SpentInv
  <1>14. UtxoIsUnspent'
    <2> SUFFICES ASSUME NEW o \in Out
                 PROVE  o \in UtxoAfter(hs) <=> /\ Creator[o] \in Known \cup Batch(hs)
                                               /\ spentBy'[o] = NoTx
      BY <1>1, <1>5, UtxoAfter(hs) \subseteq Out
         DEF UtxoIsUnspent, Outputs, UtxoAfter, IInv, TypeOK
    <2>1. CASE o \in SpentByBatch(hs)
      BY <1>3, <1>7, <2>1 DEF UtxoAfter
    <2>2. CASE o \notin SpentByBatch(hs) /\ Creator[o] \notin Batch(hs)
      BY <1>7, <2>2 DEF UtxoAfter, Outputs, IInv, UtxoIsUnspent
    <2>3. CASE o \notin SpentByBatch(hs) /\ Creator[o] \in Batch(hs)
      <3>1. o \in SpentByMempool(hs) => spentBy[o] # NoTx
        BY DEF SpentByMempool, IInv, SpentInv
      <3>2. ASSUME spentBy[o] # NoTx
            PROVE  o \in SpentByMempool(hs)
        <4>1. o \in Spends[spentBy[o]] /\ spentBy[o] \in Pending \cup Confirmed
          BY <3>2, ConfirmedAreMined DEF IInv, SpentInv
        <4>2. spentBy[o] \notin Batch(hs)
          BY <1>8, <2>3, <4>1
        <4>3. spentBy[o] \notin Confirmed
          BY <1>3, <2>3, <4>1
        <4> QED
          BY <4>1, <4>2, <4>3 DEF SpentByMempool, IInv, SpentInv
      <3>3. o \in UtxoAfter(hs) <=> o \notin SpentByMempool(hs)
        BY <2>3 DEF UtxoAfter, Outputs
      <3> QED
        BY <1>7, <2>3, <3>1, <3>2, <3>3
    <2> QED
      BY <2>1, <2>2, <2>3
  <1>15. ConfirmedSpenderWins'
    <2> SUFFICES ASSUME NEW t \in Confirmed \cup Batch(hs), NEW o \in Spends[t],
                        Creator[o] \in Known \cup Batch(hs)
                 PROVE  spentBy'[o] = t
      BY <1>5 DEF ConfirmedSpenderWins
    <2>1. CASE t \in Batch(hs)
      BY <1>8, <2>1
    <2>2. CASE t \in Confirmed
      <3>1. o \in Out /\ t \in Tx
        BY <2>2 DEF Confirmed
      <3>2. spentBy[o] = t
        BY <1>3, <2>2 DEF IInv, ConfirmedSpenderWins
      <3>3. o \notin SpentByBatch(hs)
        BY <1>3, <2>2 DEF SpentByBatch, Linked, Conflict
      <3> QED
        BY <1>7, <3>1, <3>2, <3>3
    <2> QED
      BY <2>1, <2>2
  <1>16. SweptAreLocked'
    <2>1. swept \in Nat /\ swept <= tip
      BY DEF IInv, TypeOK, TipInv
    <2>2. ASSUME NEW t \in Confirmed', height'[t] <= swept
          PROVE  t \in Confirmed /\ height[t] <= swept
      <3>1. t \in Tx /\ t \in Confirmed \cup Batch(hs)
        BY <1>3, <1>5 DEF Confirmed
      <3>2. t \notin Batch(hs)
        BY <1>2, <1>4, <2>1, <2>2, <3>1 DEF hs
      <3> QED
        BY <1>4, <2>2, <3>1, <3>2
    <2> QED
      BY <1>1, <1>5, <2>2 DEF IInv, SweptAreLocked
  <1> QED
    BY <1>9, <1>10, <1>11, <1>12, <1>13, <1>14, <1>15, <1>16 DEF IInv

-----------------------------------------------------------------------------

LEMMA NextKeeps == IInv /\ [Next]_vars => IInv'
  <1> SUFFICES ASSUME IInv, [Next]_vars PROVE IInv'
    OBVIOUS
  <1> USE NodeAssumption, LedgerAssumption
  <1>1. base \in Nat /\ tip \in Nat /\ target \in Nat /\ Len(chain) \in Nat
    BY DEF IInv, TypeOK, NodeTypeOK
  <1>2. ASSUME NEW t \in Tx, NodeAccepts(t) PROVE IInv'
    BY <1>2, AcceptKeeps
  <1>3. ASSUME NEW b \in SUBSET Tx, NodeMines(b) PROVE IInv'
    BY <1>3, MineKeeps
  <1>4. CASE \/ \E t \in Tx : NodeEvicts(t) \/ LoseAnnouncement(t) \/ SkipKnownTransaction(t)
             \/ Start \/ Stop
             \/ UNCHANGED vars
    BY <1>4, QuietKeeps
  <1>5. ASSUME NEW t \in Tx, IndexPendingTransaction(t) PROVE IInv'
    BY <1>5, PendingKeeps
  <1>6. ASSUME NEW n \in 1..BatchSize, CatchUpBatch(n) PROVE IInv'
    <2>1. /\ tip + n <= target
          /\ WriteBatch(tip + 1 .. tip + n, TRUE) /\ tip' = tip + n
          /\ UNCHANGED <<nodeVars, wire, mode, target, base, swept>>
      BY <1>6, Zenon DEF CatchUpBatch
    <2>3. n \in Nat \ {0}
      OBVIOUS
    <2>2. tip + n <= Len(chain)
      BY <1>1, <1>6, <2>1 DEF CatchUpBatch, IInv, TipInv
    <2> QED
      BY <2>1, <2>2, <2>3, WriteBatchKeeps
  <1>7. CASE ProcessBlock
    <2>1. /\ tip + 1 <= Len(chain) /\ mode # "catchup"
          /\ tip + 1 .. tip + 1 = {tip + 1}
      BY <1>1, <1>7 DEF ProcessBlock
    <2>2. /\ WriteBatch({tip + 1}, FALSE) /\ tip' = tip + 1
          /\ UNCHANGED <<nodeVars, wire, mode, target, base, swept>>
      BY <1>7, Zenon DEF ProcessBlock
    <2>3. WriteBatch(tip + 1 .. tip + 1, FALSE)
      BY <2>1, <2>2, Zenon
    <2> QED
      BY <1>1, <2>1, <2>2, <2>3, 1 \in Nat \ {0}, FALSE \in BOOLEAN, WriteBatchKeeps, Zenon
  <1>8. CASE FinishCatchUp \/ \E h \in DOMAIN chain : ApplyChainLock(h)
    BY <1>8, LockKeeps
  <1> QED
    BY <1>2, <1>3, <1>4, <1>5, <1>6, <1>7, <1>8 DEF Next

LEMMA Invariance == Spec => []IInv
  <1> QED
    BY InitEstablishes, NextKeeps, PTL DEF Spec

(* The database rows stay well typed in every behaviour.  What the sums    *)
(* totals and hourly are is the subject of TotalsAreExact.                 *)
THEOREM Typing == Spec => []TypeOK
  <1>1. IInv => TypeOK
    BY DEF IInv
  <1> QED
    BY <1>1, Invariance, PTL

(* Table utxo and tx_outputs.spent_by_tx_id never disagree, in whatever    *)
(* order the mempool, the chain and restarts bring transactions.           *)
THEOREM UtxoAgrees == Spec => []UtxoIsUnspent
  <1>1. IInv => UtxoIsUnspent
    BY DEF IInv
  <1> QED
    BY <1>1, Invariance, PTL

(* A mined spender is the one the output names (migration V30, rule 1).    *)
THEOREM MinedSpenderNamed == Spec => []ConfirmedSpenderWins
  <1>1. IInv => ConfirmedSpenderWins
    BY DEF IInv
  <1> QED
    BY <1>1, Invariance, PTL

(* transactions.block_height is the height of the block, for every written *)
(* block and for no other.                                                 *)
THEOREM HeightsAgree == Spec => []HeightsMatchChain
  <1>1. IInv => HeightsMatchChain
    BY NodeAssumption DEF IInv, HeightInv, HeightsMatchChain
  <1> QED
    BY <1>1, Invariance, PTL

(* The backfill at the end of a catch-up leaves nothing at or below its    *)
(* tip without chain_locked, and no later step adds any.                   *)
THEOREM SweepHolds == Spec => []SweptAreLocked
  <1>1. IInv => SweptAreLocked
    BY DEF IInv
  <1> QED
    BY <1>1, Invariance, PTL

(* Once mined, a spender is never replaced: the mempool handler writes     *)
(* only where spent_by_tx_id is NULL, and no block spends a coin again.    *)
THEOREM MinedSpendStays == Spec => MinedSpendIsFinal
  <1> DEFINE Kept == \A o \in Out : spentBy[o] \in Confirmed => spentBy'[o] = spentBy[o]
  <1> USE NodeAssumption, LedgerAssumption
  <1>1. ASSUME IInv, NEW n \in Nat, NEW locked \in BOOLEAN, tip + n <= Len(chain),
               WriteBatch(tip + 1 .. tip + n, locked)
        PROVE  Kept
    <2> SUFFICES ASSUME NEW o \in Out, spentBy[o] \in Confirmed,
                        o \in SpentByBatch(tip + 1 .. tip + n)
                 PROVE  FALSE
      BY <1>1 DEF WriteBatch, SpentByAfter
    <2>1. PICK t \in Batch(tip + 1 .. tip + n) : o \in Spends[t]
      BY DEF SpentByBatch, Linked
    <2>2. o \in Spends[spentBy[o]]
      BY <1>1 DEF IInv, SpentInv, Confirmed
    <2> QED
      BY <1>1, <2>1, <2>2, BatchIsNew DEF Conflict
  <1>2. IInv /\ [Next]_vars => [Kept]_vars
    <2> SUFFICES ASSUME IInv, Next PROVE Kept
      OBVIOUS
    <2>1. base \in Nat /\ tip \in Nat /\ target \in Nat /\ Len(chain) \in Nat
      BY <1>1 DEF IInv, TypeOK, NodeTypeOK
    <2>2. CASE UNCHANGED spentBy
      BY <2>2
    <2>3. ASSUME NEW t \in Tx, IndexPendingTransaction(t) PROVE Kept
      BY <2>3 DEF IndexPendingTransaction, Confirmed
    <2>4. ASSUME NEW n \in 1..BatchSize, CatchUpBatch(n) PROVE Kept
      <3>1. n \in Nat /\ tip + n <= Len(chain)
        BY <2>1, <2>4 DEF CatchUpBatch, IInv, TipInv
      <3> QED
        BY <1>1, <2>4, <3>1 DEF CatchUpBatch
    <2>5. CASE ProcessBlock
      <3>1. tip + 1 <= Len(chain) /\ tip + 1 .. tip + 1 = {tip + 1}
        BY <2>1, <2>5 DEF ProcessBlock
      <3>2. WriteBatch(tip + 1 .. tip + 1, FALSE)
        BY <2>5, <3>1 DEF ProcessBlock
      <3> QED
        BY <1>1, <3>1, <3>2
    <2> QED
      BY <2>2, <2>3, <2>4, <2>5
         DEF Next, NodeAccepts, NodeEvicts, NodeMines, LoseAnnouncement, SkipKnownTransaction,
             Start, FinishCatchUp, ApplyChainLock, Stop, dbVars
  <1> QED
    BY <1>2, Invariance, PTL DEF Spec, MinedSpendIsFinal

-----------------------------------------------------------------------------
(* The sums: addresses.received, sent and tx_count, and the hourly rollup. *)

LEMMA AmountIsSum == \A S : Amount(S) = SumOf(Value, S)
  BY DEF Amount, SumOf

(* Amounts of parts of one set of outputs. *)
LEMMA AmountParts ==
  ASSUME NEW S \in SUBSET Out, NEW T \in SUBSET Out
  PROVE  /\ Amount(S) \in Nat
         /\ S \cap T = {} => Amount(S \cup T) = Amount(S) + Amount(T)
         /\ S \subseteq T => Amount(S) <= Amount(T) /\ Amount(T \ S) = Amount(T) - Amount(S)
  <1> USE LedgerAssumption, FiniteAssumption
  <1>1. IsFiniteSet(S) /\ IsFiniteSet(T)
    BY FS_Subset
  <1>2. \A o \in Out : Value[o] \in Nat /\ Value[o] \in Int
    OBVIOUS
  <1>3. SumOf(Value, S) \in Nat
    BY <1>1, <1>2, SumNatural
  <1>4. S \cap T = {} => SumOf(Value, S \cup T) = SumOf(Value, S) + SumOf(Value, T)
    BY <1>1, <1>2, SumDisjoint
  <1>5. S \subseteq T => /\ SumOf(Value, S) <= SumOf(Value, T)
                         /\ SumOf(Value, T \ S) = SumOf(Value, T) - SumOf(Value, S)
    BY <1>1, <1>2, SumMonotone
  <1> QED
    BY <1>3, <1>4, <1>5, AmountIsSum

(* Numbers of transactions. *)
LEMMA CountParts ==
  ASSUME NEW S \in SUBSET Tx, NEW T \in SUBSET Tx
  PROVE  /\ Cardinality(S) \in Nat
         /\ S \cap T = {} => Cardinality(S \cup T) = Cardinality(S) + Cardinality(T)
         /\ S \subseteq T => Cardinality(S) <= Cardinality(T)
  <1>1. IsFiniteSet(S) /\ IsFiniteSet(T)
    BY FiniteAssumption, FS_Subset
  <1>2. Cardinality(S) \in Nat /\ Cardinality(T) \in Nat
    BY <1>1, FS_CardinalityType
  <1>3. S \cap T = {} => Cardinality(S \cup T) = Cardinality(S) + Cardinality(T)
    <2> SUFFICES ASSUME S \cap T = {}
                 PROVE  Cardinality(S \cup T) = Cardinality(S) + Cardinality(T)
      OBVIOUS
    <2>1. Cardinality(S \cup T) = Cardinality(S) + Cardinality(T) - Cardinality(S \cap T)
      BY <1>1, FS_Union, Zenon
    <2>2. Cardinality(S \cap T) = 0
      BY FS_EmptySet, Zenon
    <2> QED
      BY <1>2, <2>1, <2>2
  <1>4. S \subseteq T => Cardinality(S) <= Cardinality(T)
    BY <1>1, FS_Subset
  <1> QED
    BY <1>2, <1>3, <1>4

(* A batch adds to each sum what its transactions add to what the sum      *)
(* stands for: its outputs are new, nothing mined spends them or spends    *)
(* what it spends.                                                         *)
LEMMA WriteBatchAdds ==
  ASSUME IInv, TotalsMatchChain, NEW n \in Nat \ {0}, NEW locked \in BOOLEAN,
         tip + n <= Len(chain),
         WriteBatch(tip + 1 .. tip + n, locked),
         tip' = tip + n, UNCHANGED base,
         Confirmed' = Confirmed \cup Batch(tip + 1 .. tip + n)
  PROVE  TotalsMatchChain'
  <1> USE NodeAssumption, LedgerAssumption
  <1> DEFINE hs == tip + 1 .. tip + n
             B == Batch(hs)
             C == Confirmed
             in == Outputs(C)
             spent == SpentIn(C)
  <1>1. /\ B \subseteq Tx /\ C \subseteq Tx /\ B \cap C = {}
        /\ \A t \in B, u \in B \cup C : ~Conflict(t, u)
        /\ \A t \in C : \A o \in Spends[t] : Creator[o] \notin B
        /\ base \in Nat /\ tip \in Nat /\ base <= tip
    BY BatchIsNew DEF Confirmed, IInv, TypeOK, TipInv
  <1>2. PICK answered \in SUBSET (SpentIn(B) \ SpentByBatch(hs)) :
          totals' = TotalsAfter(hs, answered)
    BY DEF WriteBatch
  <1> DEFINE resolved == SpentByBatch(hs) \cup answered
  <1>3. hourly' = HourlyAfter(hs)
    BY DEF WriteBatch
  <1>4. SpentByBatch(hs) = {o \in SpentIn(B) : Creator[o] \in Known \cup B}
    BY DEF SpentByBatch, Linked, SpentIn
  <1>5. C \subseteq Known
    BY DEF Confirmed, Known, Absent
  <1>6. /\ SpentIn(B) \cap spent = {}
        /\ SpentIn(B) \subseteq Out /\ spent \subseteq Out
        /\ SpentIn(C \cup B) = spent \cup SpentIn(B)
    BY <1>1 DEF SpentIn, Conflict
  <1>7. /\ Outputs(C \cup B) = in \cup Outputs(B)
        /\ in \cap Outputs(B) = {} /\ in \subseteq Out /\ Outputs(B) \subseteq Out
    BY <1>1 DEF Outputs
  <1>8. spent \cap Outputs(B) = {}
    BY <1>1 DEF SpentIn, Outputs
  <1>9. /\ resolved \subseteq SpentIn(B)
        /\ SpentIn(B) \cap Outputs(C \cup B) \subseteq resolved
    BY <1>4, <1>5 DEF Outputs
  <1> DEFINE in2 == Outputs(C \cup B)
             spent2 == SpentIn(C \cup B)
  <1>10. ASSUME NEW a \in Addr
         PROVE  /\ totals'[a].received = Amount(Owned(a, in2))
                /\ totals'[a].sent \in Amount(Owned(a, spent2 \cap in2)) .. Amount(Owned(a, spent2))
                /\ totals'[a].txCount \in
                     Cardinality(Touching(a, C \cup B, in2)) .. Cardinality(Touching(a, C \cup B, Out))
    <2>1. /\ totals'[a].received = totals[a].received + Amount(Owned(a, Outputs(B)))
          /\ totals'[a].sent = totals[a].sent + Amount(Owned(a, resolved))
          /\ totals'[a].txCount = totals[a].txCount + Cardinality(Touching(a, B, resolved))
      BY <1>2 DEF TotalsAfter, Bump
    <2>2. /\ totals[a].received = Amount(Owned(a, in))
          /\ totals[a].sent \in Amount(Owned(a, spent \cap in)) .. Amount(Owned(a, spent))
          /\ totals[a].txCount \in
               Cardinality(Touching(a, C, in)) .. Cardinality(Touching(a, C, Out))
      BY DEF TotalsMatchChain
    <2>3. totals'[a].received = Amount(Owned(a, in2))
      <3>1. /\ Owned(a, in2) = Owned(a, in) \cup Owned(a, Outputs(B))
            /\ Owned(a, in) \cap Owned(a, Outputs(B)) = {}
            /\ Owned(a, in) \in SUBSET Out /\ Owned(a, Outputs(B)) \in SUBSET Out
        BY <1>7 DEF Owned
      <3>2. Amount(Owned(a, in2)) = Amount(Owned(a, in)) + Amount(Owned(a, Outputs(B)))
        <4> HIDE DEF in, in2, B
        <4> QED
          BY <3>1, AmountParts
      <3> QED
        BY <2>1, <2>2, <3>2
    <2>4. totals'[a].sent \in Amount(Owned(a, spent2 \cap in2)) .. Amount(Owned(a, spent2))
      <3> DEFINE low == Owned(a, spent \cap in)
                 lowB == Owned(a, SpentIn(B) \cap in2)
                 mid == Owned(a, resolved)
                 highB == Owned(a, SpentIn(B))
                 high == Owned(a, spent)
      <3>1. /\ Owned(a, spent2 \cap in2) = low \cup lowB
            /\ Owned(a, spent2) = high \cup highB
            /\ low \cap lowB = {} /\ high \cap highB = {}
            /\ lowB \subseteq mid /\ mid \subseteq highB
            /\ low \in SUBSET Out /\ lowB \in SUBSET Out /\ mid \in SUBSET Out
            /\ high \in SUBSET Out /\ highB \in SUBSET Out
        BY <1>6, <1>7, <1>8, <1>9 DEF Owned
      <3>2. totals[a].sent \in Amount(low) .. Amount(high)
        BY <2>2
      <3> HIDE DEF low, lowB, mid, high, highB
      <3>3. /\ Amount(low \cup lowB) = Amount(low) + Amount(lowB)
            /\ Amount(high \cup highB) = Amount(high) + Amount(highB)
            /\ Amount(lowB) <= Amount(mid) /\ Amount(mid) <= Amount(highB)
            /\ {Amount(low), Amount(lowB), Amount(mid), Amount(high), Amount(highB)} \subseteq Nat
        <4>1. Amount(low \cup lowB) = Amount(low) + Amount(lowB)
          BY <3>1, AmountParts
        <4>2. Amount(high \cup highB) = Amount(high) + Amount(highB)
          BY <3>1, AmountParts
        <4>3. Amount(lowB) <= Amount(mid) /\ Amount(mid) <= Amount(highB)
          BY <3>1, AmountParts
        <4>4. \A S \in SUBSET Out : Amount(S) \in Nat
          BY AmountParts
        <4> QED
          BY <3>1, <4>1, <4>2, <4>3, <4>4
      <3>4. totals'[a].sent = totals[a].sent + Amount(mid)
        BY <2>1 DEF mid
      <3>5. totals'[a].sent \in Amount(low \cup lowB) .. Amount(high \cup highB)
        BY <3>2, <3>3, <3>4
      <3> QED
        BY <3>1, <3>5
    <2>5. totals'[a].txCount \in
            Cardinality(Touching(a, C \cup B, in2)) .. Cardinality(Touching(a, C \cup B, Out))
      <3> DEFINE low == Touching(a, C, in)
                 lowB == Touching(a, B, in2)
                 mid == Touching(a, B, resolved)
                 highB == Touching(a, B, Out)
                 high == Touching(a, C, Out)
      <3>1. \A t \in C : Spends[t] \cap in2 = Spends[t] \cap in
        BY <1>1, <1>7 DEF Outputs
      <3>2. \A t \in B : Spends[t] \cap in2 \subseteq Spends[t] \cap resolved
        BY <1>9 DEF SpentIn
      <3>3. Touching(a, C \cup B, in2) = low \cup lowB
        BY <3>1 DEF Touching
      <3>4. /\ Touching(a, C \cup B, Out) = high \cup highB
            /\ low \cap lowB = {} /\ high \cap highB = {}
            /\ low \in SUBSET Tx /\ lowB \in SUBSET Tx /\ mid \in SUBSET Tx
            /\ high \in SUBSET Tx /\ highB \in SUBSET Tx
        BY <1>1 DEF Touching
      <3>5. lowB \subseteq mid /\ mid \subseteq highB
        BY <1>6, <1>9, <3>2 DEF Touching
      <3>6. totals[a].txCount \in Cardinality(low) .. Cardinality(high)
        BY <2>2
      <3>7. totals'[a].txCount = totals[a].txCount + Cardinality(mid)
        BY <2>1
      <3> HIDE DEF low, lowB, mid, high, highB
      <3>8. /\ Cardinality(low \cup lowB) = Cardinality(low) + Cardinality(lowB)
            /\ Cardinality(high \cup highB) = Cardinality(high) + Cardinality(highB)
        BY <3>4, CountParts
      <3>9. Cardinality(lowB) <= Cardinality(mid) /\ Cardinality(mid) <= Cardinality(highB)
        BY <3>4, <3>5, CountParts
      <3>10. /\ Cardinality(low) \in Nat /\ Cardinality(lowB) \in Nat
             /\ Cardinality(mid) \in Nat /\ Cardinality(high) \in Nat
             /\ Cardinality(highB) \in Nat
        BY <3>4, CountParts
      <3>11. totals'[a].txCount \in Cardinality(low \cup lowB) .. Cardinality(high \cup highB)
        BY <3>6, <3>7, <3>8, <3>9, <3>10
      <3> QED
        BY <3>3, <3>4, <3>11
    <2> QED
      BY <2>3, <2>4, <2>5
  <1>11. hourly' = [blocks |-> tip' - base, txs |-> Cardinality(C \cup B)]
    <2>1. hourly = [blocks |-> tip - base, txs |-> Cardinality(C)]
      BY DEF TotalsMatchChain
    <2>2. Cardinality(hs) = n
      BY <1>1, FS_Interval
    <2>3. Cardinality(C \cup B) = Cardinality(C) + Cardinality(B)
      BY <1>1, CountParts
    <2>4. hourly' = [blocks |-> hourly.blocks + Cardinality(hs),
                     txs |-> hourly.txs + Cardinality(B)]
      BY <1>3 DEF HourlyAfter
    <2> HIDE DEF B, C, hs
    <2> QED
      BY <1>1, <2>1, <2>2, <2>3, <2>4
  <1>12. Confirmed' = C \cup B /\ base' = base
    OBVIOUS
  <1>13. /\ Outputs(Confirmed') = in2 /\ SpentIn(Confirmed') = spent2
         /\ \A a \in Addr : \A R : Touching(a, Confirmed', R) = Touching(a, C \cup B, R)
    BY <1>12, Zenon
  <1> HIDE DEF B, C, hs, in2, spent2
  <1> QED
    BY <1>10, <1>11, <1>12, <1>13 DEF TotalsMatchChain

(* Only a batch confirms transactions and changes the sums.                *)
LEMMA NextKeepsTotals == IInv /\ IInv' /\ TotalsMatchChain /\ [Next]_vars => TotalsMatchChain'
  <1> SUFFICES ASSUME IInv, IInv', TotalsMatchChain, [Next]_vars PROVE TotalsMatchChain'
    OBVIOUS
  <1> USE NodeAssumption, LedgerAssumption
  <1>1. /\ base \in Nat /\ tip \in Nat /\ target \in Nat /\ Len(chain) \in Nat
        /\ height \in [Tx -> {-1} \cup Nat]
    BY DEF IInv, TypeOK, NodeTypeOK, Absent
  <1>2. ASSUME NEW n \in Nat \ {0}, NEW locked \in BOOLEAN, tip + n <= Len(chain),
               WriteBatch(tip + 1 .. tip + n, locked), tip' = tip + n, UNCHANGED <<base, chain>>
        PROVE  TotalsMatchChain'
    <2> DEFINE hs == tip + 1 .. tip + n
    <2>1. /\ Confirmed = {t \in Tx : \E h \in base + 1 .. tip : t \in chain[h]}
          /\ Confirmed' = {t \in Tx : \E h \in base' + 1 .. tip' : t \in chain'[h]}
      <3>1. /\ base' \in Nat /\ tip' \in Nat
            /\ height' \in [Tx -> {-1} \cup Nat]
        BY DEF IInv, TypeOK, Absent
      <3>2. \A t \in Tx : \A h \in Nat \ {0} :
              height'[t] = h <=> h \in base' + 1 .. tip' /\ t \in chain'[h]
        BY DEF IInv, HeightInv
      <3>3. Confirmed' = {t \in Tx : height'[t] > 0}
        BY DEF Confirmed
      <3>4. ASSUME NEW t \in Tx
            PROVE  height'[t] > 0 <=> \E h \in base' + 1 .. tip' : t \in chain'[h]
        <4>1. ASSUME height'[t] > 0
              PROVE  \E h \in base' + 1 .. tip' : t \in chain'[h]
          <5>1. height'[t] \in Nat \ {0}
            BY <3>1, <4>1
          <5> QED
            BY <3>2, <5>1
        <4>2. ASSUME NEW h \in base' + 1 .. tip', t \in chain'[h]
              PROVE  height'[t] > 0
          <5>1. h \in Nat \ {0}
            BY <1>1, <1>2
          <5>2. height'[t] = h
            BY <3>2, <4>2, <5>1
          <5> QED
            BY <5>1, <5>2
        <4> QED
          BY <4>1, <4>2
      <3> QED
        BY <3>3, <3>4, ConfirmedAreMined
    <2>2. Batch(hs) \subseteq Tx /\ base <= tip
      BY <1>2, BatchIsNew DEF IInv, TipInv
    <2>3. Batch(hs) = {t \in Tx : \E h \in hs : t \in chain[h]}
      BY <2>2 DEF Batch
    <2>4. base + 1 .. tip + n = (base + 1 .. tip) \cup hs
      BY <1>1, <2>2
    <2>5. Confirmed' = Confirmed \cup Batch(hs)
      BY <1>2, <2>1, <2>3, <2>4
    <2> QED
      BY <1>2, <2>5, WriteBatchAdds
  <1>3. CASE UNCHANGED <<totals, hourly, tip, base>> /\ Confirmed' = Confirmed
    <2>1. /\ Outputs(Confirmed') = Outputs(Confirmed) /\ SpentIn(Confirmed') = SpentIn(Confirmed)
          /\ Cardinality(Confirmed') = Cardinality(Confirmed)
          /\ \A a \in Addr : \A R : Touching(a, Confirmed', R) = Touching(a, Confirmed, R)
      BY <1>3, Zenon
    <2>2. totals' = totals /\ hourly' = hourly /\ tip' - base' = tip - base
      BY <1>3
    <2> QED
      BY <2>1, <2>2 DEF TotalsMatchChain
  <1>4. ASSUME NEW t \in Tx, IndexPendingTransaction(t) PROVE TotalsMatchChain'
    <2>1. height' = [height EXCEPT ![t] = 0] /\ height[t] = -1
      BY <1>1, <1>4 DEF IndexPendingTransaction, Known, Absent, Unconfirmed
    <2>2. Confirmed' = Confirmed
      BY <1>1, <2>1 DEF Confirmed
    <2> QED
      BY <1>3, <1>4, <2>2 DEF IndexPendingTransaction
  <1>5. ASSUME NEW n \in 1..BatchSize, CatchUpBatch(n) PROVE TotalsMatchChain'
    <2>1. /\ tip + n <= target
          /\ WriteBatch(tip + 1 .. tip + n, TRUE) /\ tip' = tip + n
          /\ UNCHANGED <<nodeVars, wire, mode, target, base, swept>>
      BY <1>5, Zenon DEF CatchUpBatch
    <2>2. n \in Nat \ {0}
      OBVIOUS
    <2>3. tip + n <= Len(chain)
      BY <1>1, <1>5, <2>1 DEF CatchUpBatch, IInv, TipInv
    <2> QED
      BY <1>2, <2>1, <2>2, <2>3 DEF nodeVars
  <1>6. CASE ProcessBlock
    <2>1. tip + 1 <= Len(chain) /\ tip + 1 .. tip + 1 = {tip + 1}
      BY <1>1, <1>6 DEF ProcessBlock
    <2>2. /\ WriteBatch({tip + 1}, FALSE) /\ tip' = tip + 1 /\ UNCHANGED <<base, chain>>
      BY <1>6, Zenon DEF ProcessBlock, nodeVars
    <2>3. WriteBatch(tip + 1 .. tip + 1, FALSE)
      BY <2>1, <2>2, Zenon
    <2> QED
      BY <1>2, <2>1, <2>2, <2>3, 1 \in Nat \ {0}, FALSE \in BOOLEAN, Zenon
  <1>7. CASE \/ \E t \in Tx : \/ NodeAccepts(t) \/ NodeEvicts(t) \/ LoseAnnouncement(t)
                              \/ SkipKnownTransaction(t)
             \/ \E b \in SUBSET Tx : NodeMines(b)
             \/ Start \/ Stop \/ FinishCatchUp
             \/ \E h \in DOMAIN chain : ApplyChainLock(h)
             \/ UNCHANGED vars
    <2>1. UNCHANGED <<totals, hourly, tip, base, height>>
      BY <1>7 DEF NodeAccepts, NodeEvicts, LoseAnnouncement, SkipKnownTransaction, NodeMines,
                  Start, Stop, FinishCatchUp, ApplyChainLock, vars, dbVars
    <2>2. Confirmed' = Confirmed
      BY <2>1 DEF Confirmed
    <2> QED
      BY <1>3, <2>1, <2>2
  <1> QED
    BY <1>4, <1>5, <1>6, <1>7 DEF Next

(* The sums of the addresses and of the hours are those of the chain, for  *)
(* every order of mempool announcements, batches and restarts: nothing is  *)
(* added twice and nothing left out.                                       *)
THEOREM TotalsAreExact == Spec => []TotalsMatchChain
  <1> USE NodeAssumption, LedgerAssumption
  <1>1. Init => TotalsMatchChain
    <2> SUFFICES ASSUME Init PROVE TotalsMatchChain
      OBVIOUS
    <2>1. Confirmed = {}
      BY DEF Init, Confirmed, Absent
    <2>2. Outputs({}) = {} /\ SpentIn({}) = {}
      BY DEF Outputs, SpentIn
    <2>3. \A a, R : Owned(a, {}) = {} /\ {} \cap R = {} /\ Touching(a, {}, R) = {}
      BY DEF Owned, Touching
    <2>4. Amount({}) = 0 /\ Cardinality({}) = 0
      BY AmountIsSum, SumEmpty, FS_EmptySet, Zenon
    <2>5. \A a \in Addr : /\ totals[a].received = 0 /\ totals[a].sent = 0
                          /\ totals[a].txCount = 0
      BY DEF Init, NoTotals
    <2>6. hourly = [blocks |-> tip - base, txs |-> 0]
      BY DEF Init
    <2>7. 0 \in 0 .. 0
      OBVIOUS
    <2> QED
      BY <2>1, <2>2, <2>3, <2>4, <2>5, <2>6, <2>7, Zenon DEF TotalsMatchChain
  <1> QED
    BY <1>1, NextKeepsTotals, Invariance, PTL DEF Spec

(* With the whole chain indexed and no transaction pending, the balance of *)
(* table utxo is the one of the sums (migration V28): what is unspent is   *)
(* what was received less what was sent.                                   *)
THEOREM BalancesMatch == Spec => []BalancesAgree
  <1> USE NodeAssumption, LedgerAssumption
  <1>1. IInv /\ TotalsMatchChain => BalancesAgree
    <2> SUFFICES ASSUME IInv, TotalsMatchChain, base = 0, Pending = {}, NEW a \in Addr
                 PROVE  Amount(Owned(a, utxo)) = totals[a].received - totals[a].sent
      BY DEF BalancesAgree
    <2> DEFINE in == Outputs(Confirmed)
               spent == SpentIn(Confirmed)
    <2>1. Known = Confirmed /\ Confirmed \subseteq Tx
      BY ConfirmedAreMined DEF Confirmed
    <2>2. spent \subseteq in
      <3> SUFFICES ASSUME NEW t \in Confirmed, NEW o \in Spends[t]
                   PROVE  o \in in
        BY DEF SpentIn
      <3>1. PICK i \in base + 1 .. tip : t \in chain[i]
        BY ConfirmedAreMined
      <3>2. /\ tip \in Nat /\ Len(chain) \in Nat /\ DOMAIN chain = 1 .. Len(chain)
            /\ tip <= Len(chain) \/ tip = base
        BY DEF IInv, TypeOK, NodeTypeOK, TipInv
      <3>3. i \in DOMAIN chain
        BY <3>1, <3>2
      <3>4. PICK j \in 1..i : Creator[o] \in chain[j]
        BY <3>1, <3>3 DEF IInv, ChainInv
      <3>5. j \in base + 1 .. tip
        BY <3>1, <3>2, <3>4
      <3>6. o \in Out /\ Creator[o] \in Tx
        BY <2>1
      <3> QED
        BY <3>4, <3>5, <3>6, ConfirmedAreMined DEF Outputs
    <2>3. utxo = in \ spent
      <3> SUFFICES ASSUME NEW o \in in
                   PROVE  spentBy[o] = NoTx <=> o \notin spent
        BY <2>1 DEF IInv, UtxoIsUnspent
      <3>1. o \in Out /\ Creator[o] \in Known
        BY <2>1 DEF Outputs
      <3>2. o \in spent => spentBy[o] # NoTx
        BY <2>1, <3>1 DEF SpentIn, IInv, ConfirmedSpenderWins
      <3>3. spentBy[o] # NoTx => o \in spent
        BY <2>1, <3>1 DEF SpentIn, IInv, SpentInv
      <3> QED
        BY <3>2, <3>3
    <2>4. /\ Owned(a, utxo) = Owned(a, in) \ Owned(a, spent)
          /\ Owned(a, spent) \subseteq Owned(a, in)
          /\ Owned(a, in) \in SUBSET Out /\ Owned(a, spent) \in SUBSET Out
          /\ spent \cap in = spent
      BY <2>2, <2>3 DEF Owned, Outputs
    <2>5. Amount(Owned(a, utxo)) = Amount(Owned(a, in)) - Amount(Owned(a, spent))
      <3> HIDE DEF in, spent
      <3> QED
        BY <2>4, AmountParts
    <2>6. /\ totals[a].received = Amount(Owned(a, in))
          /\ totals[a].sent \in Amount(Owned(a, spent)) .. Amount(Owned(a, spent))
      BY <2>4 DEF TotalsMatchChain
    <2>7. Amount(Owned(a, spent)) \in Nat
      <3> HIDE DEF in, spent
      <3> QED
        BY <2>4, AmountParts
    <2> HIDE DEF in, spent
    <2> QED
      BY <2>5, <2>6, <2>7
  <1> QED
    BY <1>1, Invariance, TotalsAreExact, PTL
=============================================================================
