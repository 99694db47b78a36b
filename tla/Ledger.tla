------------------------------- MODULE Ledger -------------------------------
(***************************************************************************)
(* The indexer's PostgreSQL ledger: transactions, tx_inputs, tx_outputs,   *)
(* utxo, the locks and the additive rollups, as the mempool handler        *)
(* (index_pending_transaction), the block writer (write_batch) and the     *)
(* lock handlers change them.                                              *)
(*                                                                         *)
(* Each handler runs in one database transaction, and the handlers of the  *)
(* live loop (main.rs, continuous_indexing) run one at a time, so each is  *)
(* one action.  Blocks are written here in height order; which order the   *)
(* synchronisers really produce is the subject of CatchUp.                 *)
(***************************************************************************)
EXTENDS DashNode, FiniteSetsExt

CONSTANTS
  Addr,        \* addresses
  NoAddr,      \* the owner of an output whose script yields no address
  Owner,       \* Owner[o]: the address output o pays
  Value,       \* Value[o]: its amount
  NoTx,        \* NULL in spent_by_tx_id
  BatchSize,   \* catch_up_batch_size
  MaxBase      \* bound: start_height is at most this

ASSUME LedgerAssumption ==
  /\ NoAddr \notin Addr
  /\ Owner \in [Out -> Addr \cup {NoAddr}]
  /\ Value \in [Out -> Nat]
  /\ NoTx \notin Tx
  /\ BatchSize \in Nat \ {0}
  /\ MaxBase \in Nat

(* transactions.block_height: a row is absent, has NULL, or has a height.  *)
Absent == -1
Unconfirmed == 0

VARIABLES
  wire,          \* rawtx announcements on their way to the indexer
  mode,          \* "down", "catchup" or "live"
  target,        \* the tip catch_up read when it started
  base,          \* the height indexing started above (config.start_height)
  tip,           \* get_max_block_height, or base while the table is empty
  height,        \* transactions.block_height
  chainLocked,   \* transactions with chain_locked = TRUE
  link,          \* link[t]: inputs of t whose tx_inputs.prev_tx_id is set
  utxo,          \* the rows of table utxo
  spentBy,       \* tx_outputs.spent_by_tx_id
  totals,        \* addresses.received, sent and tx_count
  hourly,        \* chain_stats_hourly, summed: blocks and transactions
  swept          \* history: the tip of the last catch-up that ran its backfill

dbVars == <<height, chainLocked, link, utxo, spentBy, totals, hourly, tip>>
vars == <<chain, mempool, wire, mode, target, base, swept, dbVars>>

Known == {t \in Tx : height[t] # Absent}
Pending == {t \in Tx : height[t] = Unconfirmed}
Confirmed == {t \in Tx : height[t] > 0}
Outputs(S) == {o \in Out : Creator[o] \in S}
SpentIn(S) == UNION {Spends[t] : t \in S}
Amount(S) == MapThenSumSet(LAMBDA o : Value[o], S)
Owned(a, S) == {o \in S : Owner[o] = a}

-----------------------------------------------------------------------------

NoTotals == [a \in Addr |-> [received |-> 0, sent |-> 0, txCount |-> 0]]

Init ==
  /\ chain = <<>>
  /\ mempool = {}
  /\ wire = {}
  /\ mode = "down"
  /\ target = 0
  /\ base \in 0..MaxBase
  /\ tip = base
  /\ height = [t \in Tx |-> Absent]
  /\ chainLocked = {}
  /\ link = [t \in Tx |-> {}]
  /\ utxo = {}
  /\ spentBy = [o \in Out |-> NoTx]
  /\ totals = NoTotals
  /\ hourly = [blocks |-> 0, txs |-> 0]
  /\ swept = 0

-----------------------------------------------------------------------------
(* The node.  It announces a transaction on rawtx when it accepts it and   *)
(* again when a block with it connects; only a subscribed indexer hears.   *)

Announce(S) == wire' = IF mode = "live" THEN wire \cup S ELSE wire

NodeAccepts(t) ==
  /\ AcceptTx(t)
  /\ Announce({t})
  /\ UNCHANGED <<mode, target, base, swept, dbVars>>

NodeEvicts(t) ==
  /\ EvictTx(t)
  /\ UNCHANGED <<wire, mode, target, base, swept, dbVars>>

NodeMines(b) ==
  /\ MineBlock(b)
  /\ Announce(b)
  /\ UNCHANGED <<mode, target, base, swept, dbVars>>

(* PUB/SUB drops a message at its high-water mark or while disconnected.   *)
LoseAnnouncement(t) ==
  /\ t \in wire
  /\ wire' = wire \ {t}
  /\ UNCHANGED <<nodeVars, mode, target, base, swept, dbVars>>

-----------------------------------------------------------------------------
(* index_pending_transaction *)

(* ZMQ keeps order, so no announcement overtakes that of its creator.      *)
NextOnWire(t) == t \in wire /\ Creators(t) \cap wire = {}

(* mutant: the mempool spender is written without "AND spent_by_tx_id IS NULL" *)
IndexPendingOverwrites(t) ==
  LET linked == {o \in Spends[t] : Creator[o] \in Known}
  IN
  /\ mode = "live"
  /\ NextOnWire(t)
  /\ t \notin Known
  /\ wire' = wire \ {t}
  /\ height' = [height EXCEPT ![t] = Unconfirmed]
  /\ link' = [link EXCEPT ![t] = linked]
  /\ utxo' = (utxo \cup Outputs({t})) \ linked
  /\ spentBy' = [o \in Out |-> IF o \in linked THEN t ELSE spentBy[o]]
  /\ UNCHANGED <<nodeVars, mode, target, base, swept, chainLocked,
                 totals, hourly, tip>>

IndexPendingTransaction(t) ==
  LET linked == {o \in Spends[t] : Creator[o] \in Known}
  IN
  /\ mode = "live"
  /\ NextOnWire(t)
  /\ t \notin Known
  /\ wire' = wire \ {t}
  /\ height' = [height EXCEPT ![t] = Unconfirmed]
  /\ link' = [link EXCEPT ![t] = linked]
  /\ utxo' = (utxo \cup Outputs({t})) \ linked
  /\ spentBy' = [o \in Out |-> IF o \in linked /\ spentBy[o] = NoTx THEN t ELSE spentBy[o]]
  /\ UNCHANGED <<nodeVars, mode, target, base, swept, chainLocked,
                 totals, hourly, tip>>

(* insert_pending_transaction found a row: ON CONFLICT (hash) DO NOTHING.  *)
SkipKnownTransaction(t) ==
  /\ mode = "live"
  /\ NextOnWire(t)
  /\ t \in Known
  /\ wire' = wire \ {t}
  /\ UNCHANGED <<nodeVars, mode, target, base, swept, dbVars>>

-----------------------------------------------------------------------------
(* write_batch: the blocks at heights `hs`, with chain_locked = `locked`.  *)

Batch(hs) == UNION {chain[h] : h \in hs}

(* mutant: a row the mempool inserted keeps its NULL height (DO NOTHING) *)
HeightOnlyOfNew(hs) ==
  [t \in Tx |-> IF t \in Batch(hs) \ Known
                THEN CHOOSE h \in hs : t \in chain[h]
                ELSE height[t]]

(* COALESCE(transactions.block_height, EXCLUDED.block_height) *)
HeightAfter(hs) ==
  [t \in Tx |-> IF t \in Batch(hs) /\ t \notin Confirmed
                THEN CHOOSE h \in hs : t \in chain[h]
                ELSE height[t]]

(* mutant: only the database is asked *)
LinkedInDatabase(t, hs) == {o \in Spends[t] : Creator[o] \in Known}

(* Phase 6: prev_tx_id is found in the batch or in the database.           *)
Linked(t, hs) == {o \in Spends[t] : Creator[o] \in Known \cup Batch(hs)}

SpentByBatch(hs) == UNION {Linked(t, hs) : t \in Batch(hs)}

(* mutant: the mempool_spent query is dropped *)
SpentByNobody(hs) == {}

(* What transactions that stay pending spend, as far as their rows know.   *)
SpentByMempool(hs) == UNION {link[t] : t \in Pending \ Batch(hs)}

UtxoAfter(hs) ==
  ((utxo \cup Outputs(Batch(hs))) \ (SpentByMempool(hs) \cap Outputs(Batch(hs))))
    \ SpentByBatch(hs)

(* mutant: the height of the spender is stored for its id *)
SpentByHeight(hs) ==
  [o \in Out |-> IF o \in SpentByBatch(hs) THEN CHOOSE h \in hs : o \in SpentIn(chain[h])
                 ELSE spentBy[o]]

(* mutant: a confirmed spend does not displace a mempool spender *)
SpentByFirst(hs) ==
  [o \in Out |-> IF o \in SpentByBatch(hs) /\ spentBy[o] = NoTx
                 THEN CHOOSE t \in Batch(hs) : o \in Spends[t]
                 ELSE spentBy[o]]

SpentByAfter(hs) ==
  [o \in Out |-> IF o \in SpentByBatch(hs)
                 THEN CHOOSE t \in Batch(hs) : o \in Spends[t]
                 ELSE spentBy[o]]

(* UPDATE addresses: the batch's sums are added to the row.                *)
Bump(a, received, sent, txCount) ==
  [received |-> totals[a].received + received,
   sent     |-> totals[a].sent + sent,
   txCount  |-> totals[a].txCount + txCount]

(* Transactions of S with an output of a, or an input resolved to one.     *)
Touching(a, S, resolved) ==
  {t \in S : \E o \in Outputs({t}) \cup (Spends[t] \cap resolved) : Owner[o] = a}

(* mutant: transactions the mempool handler inserted are not counted again *)
TotalsOfNew(hs, answered) ==
  LET new == Batch(hs) \ Known
      resolved == (SpentIn(new) \cap SpentByBatch(hs)) \cup answered
  IN [a \in Addr |-> Bump(a, Amount(Owned(a, Outputs(new))), Amount(Owned(a, resolved)),
                         Cardinality(Touching(a, new, resolved)))]

(* Phase 7c.  `answered` are the inputs with no indexed creator whose      *)
(* address and amount the RPC fallback returned.                           *)
TotalsAfter(hs, answered) ==
  LET resolved == SpentByBatch(hs) \cup answered
  IN [a \in Addr |-> Bump(a, Amount(Owned(a, Outputs(Batch(hs)))), Amount(Owned(a, resolved)),
                         Cardinality(Touching(a, Batch(hs), resolved)))]

HourlyAfter(hs) ==
  [blocks |-> hourly.blocks + Cardinality(hs),
   txs    |-> hourly.txs + Cardinality(Batch(hs))]

(* tx_inputs: ON CONFLICT DO NOTHING keeps the rows the mempool wrote.     *)
LinkAfter(hs) == [t \in Tx |-> IF t \in Batch(hs) \ Known THEN Linked(t, hs) ELSE link[t]]

(* chain_locked is not in the DO UPDATE of an existing row.                *)
ChainLockedAfter(hs, locked) ==
  IF locked THEN chainLocked \cup (Batch(hs) \ Known) ELSE chainLocked

WriteBatch(hs, locked) ==
  /\ \E answered \in SUBSET (SpentIn(Batch(hs)) \ SpentByBatch(hs)) :
       totals' = TotalsAfter(hs, answered)
  /\ hourly' = HourlyAfter(hs)
  /\ height' = HeightAfter(hs)
  /\ chainLocked' = ChainLockedAfter(hs, locked)
  /\ link' = LinkAfter(hs)
  /\ utxo' = UtxoAfter(hs)
  /\ spentBy' = SpentByAfter(hs)

-----------------------------------------------------------------------------
(* The process: start, catch_up, live indexing, stop. *)

(* catch_up reads the tip; with nothing to fetch it returns before the     *)
(* backfill.  start_height is a height below the tip (or 0).               *)
Start ==
  /\ mode = "down"
  /\ base = 0 \/ base < Len(chain)
  /\ mode' = IF tip >= Len(chain) THEN "live" ELSE "catchup"
  /\ target' = Len(chain)
  /\ UNCHANGED <<nodeVars, wire, base, swept, dbVars>>

(* A batch shorter than BatchSize is written when the stream ends.         *)
CatchUpBatch(n) ==
  /\ mode = "catchup"
  /\ tip + n <= target
  /\ WriteBatch(tip + 1 .. tip + n, TRUE)
  /\ tip' = tip + n
  /\ UNCHANGED <<nodeVars, wire, mode, target, base, swept>>

(* mutant: the backfill is skipped *)
FinishWithoutBackfill ==
  /\ mode = "catchup"
  /\ tip = target
  /\ swept' = target
  /\ mode' = "live"
  /\ UNCHANGED <<nodeVars, wire, target, base, dbVars>>

(* backfill_chain_locks, then the live loop. *)
FinishCatchUp ==
  /\ mode = "catchup"
  /\ tip = target
  /\ chainLocked' = chainLocked \cup Confirmed
  /\ swept' = target
  /\ mode' = "live"
  /\ UNCHANGED <<nodeVars, wire, target, base, height, link, utxo,
                 spentBy, totals, hourly, tip>>

(* process_block, from index_block_by_height or index_block_by_hash *)
ProcessBlock ==
  /\ mode = "live"
  /\ tip < Len(chain)
  /\ WriteBatch({tip + 1}, FALSE)
  /\ tip' = tip + 1
  /\ UNCHANGED <<nodeVars, wire, mode, target, base, swept>>

ApplyChainLock(h) ==
  /\ mode = "live"
  /\ chainLocked' = chainLocked \cup {t \in Tx : height[t] = h}
  /\ UNCHANGED <<nodeVars, wire, mode, target, base, swept, height, link,
                 utxo, spentBy, totals, hourly, tip>>

(* A crash, an exit(1) or a deployment.  The database keeps what was       *)
(* committed; announcements in flight are gone.                            *)
Stop ==
  /\ mode # "down"
  /\ mode' = "down"
  /\ wire' = {}
  /\ UNCHANGED <<nodeVars, target, base, swept, dbVars>>

-----------------------------------------------------------------------------

Next ==
  \/ \E t \in Tx : NodeAccepts(t)
  \/ \E t \in Tx : NodeEvicts(t)
  \/ \E b \in SUBSET Tx : NodeMines(b)
  \/ \E t \in Tx : LoseAnnouncement(t)
  \/ \E t \in Tx : IndexPendingTransaction(t)
  \/ \E t \in Tx : SkipKnownTransaction(t)
  \/ Start
  \/ \E n \in 1..BatchSize : CatchUpBatch(n)
  \/ FinishCatchUp
  \/ ProcessBlock
  \/ \E h \in DOMAIN chain : ApplyChainLock(h)
  \/ Stop

Spec == Init /\ [][Next]_vars

-----------------------------------------------------------------------------
(* Properties *)

TypeOK ==
  /\ NodeTypeOK
  /\ wire \subseteq Tx
  /\ mode \in {"down", "catchup", "live"}
  /\ target \in Nat /\ base \in Nat /\ tip \in Nat /\ swept \in Nat
  /\ height \in [Tx -> {Absent} \cup Nat]
  /\ chainLocked \subseteq Tx
  /\ link \in [Tx -> SUBSET Out]
  /\ utxo \subseteq Out
  /\ spentBy \in [Out -> Tx \cup {NoTx}]

(* The two places that say what is unspent agree: table utxo, from which   *)
(* the API takes balances, holds exactly the indexed outputs with no       *)
(* spent_by_tx_id, although separate statements of three handlers maintain *)
(* them, and a mined creator inserts outputs its pending child has spent.  *)
UtxoIsUnspent == utxo = {o \in Outputs(Known) : spentBy[o] = NoTx}

(* Rule 1 of migration V30: once a spend is mined, the output names that   *)
(* spender, whatever conflicting transactions the mempool announced before *)
(* or announces after.                                                     *)
ConfirmedSpenderWins ==
  \A t \in Confirmed : \A o \in Spends[t] : Creator[o] \in Known => spentBy[o] = t

(* A transaction has a height exactly when its block was written, and it   *)
(* is the height of that block, seen first in the mempool or not.          *)
HeightsMatchChain ==
  \A t \in Tx : \A h \in 1..MaxHeight :
    height[t] = h <=> /\ h \in base + 1 .. tip
                      /\ t \in chain[h]

(* addresses.received counts every mined output once, sent and tx_count    *)
(* every mined spend whose creator is indexed once; an RPC answer may add  *)
(* a spend of an output below start_height.  The hourly rollup counts      *)
(* every block and every mined transaction once.                           *)
TotalsMatchChain ==
  LET in == Outputs(Confirmed)
      spent == SpentIn(Confirmed)
  IN /\ \A a \in Addr :
          /\ totals[a].received = Amount(Owned(a, in))
          /\ totals[a].sent \in Amount(Owned(a, spent \cap in)) .. Amount(Owned(a, spent))
          /\ totals[a].txCount \in
               Cardinality(Touching(a, Confirmed, in)) .. Cardinality(Touching(a, Confirmed, Out))
     /\ hourly = [blocks |-> tip - base, txs |-> Cardinality(Confirmed)]

(* With nothing pending and the whole chain indexed, the balance read from *)
(* utxo and the balance received - sent of migration V28 are the same.     *)
BalancesAgree ==
  base = 0 /\ Pending = {} =>
    \A a \in Addr : Amount(Owned(a, utxo)) = totals[a].received - totals[a].sent

(* After a catch-up that ran to its end, every transaction mined up to its *)
(* tip is chain-locked, also those the mempool handler had inserted with   *)
(* chain_locked = FALSE and write_batch left so.                           *)
SweptAreLocked == {t \in Confirmed : height[t] <= swept} \subseteq chainLocked

(* A mined spender is final: no later handler, restart or conflicting      *)
(* announcement moves it.                                                  *)
MinedSpendIsFinal ==
  [][\A o \in Out : spentBy[o] \in Confirmed => spentBy'[o] = spentBy[o]]_vars

(* block_writer.rs:201-203 of a creator that confirms before its pending   *)
(* spender: whatever the mempool already spends is dropped from utxo.      *)
MempoolSpendLeavesUtxo == utxo \cap Outputs(Confirmed) \cap SpentIn(Pending) = {}

=============================================================================
