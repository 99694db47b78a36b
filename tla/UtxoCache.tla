----------------------------- MODULE UtxoCache -----------------------------
(***************************************************************************)
(* The cache of recent outputs that catch_up keeps across batches, and the *)
(* resolution of a batch's inputs through it (Phase 6 of write_batch):     *)
(* in-batch maps, then the cache, then the database, then RPC.             *)
(*                                                                         *)
(* The cache changes output by output while a batch is written, and hash   *)
(* maps iterate in any order, so each iteration of the two loops is an     *)
(* action.  Ledger!Linked takes for granted what Resolve is shown to find. *)
(***************************************************************************)
EXTENDS Integers, FiniteSets

CONSTANTS
  Tx, Out,      \* transactions and outputs
  Creator,      \* Creator[o]: the transaction that has output o
  Spends,       \* Spends[t]: the outputs transaction t spends
  Addressed,    \* the outputs whose script yields an address
  MaxEntries    \* UTXO_CACHE_MAX_ENTRIES

ASSUME CacheAssumption ==
  /\ Creator \in [Out -> Tx]
  /\ Spends \in [Tx -> SUBSET Out]
  /\ Addressed \subseteq Out
  /\ IsFiniteSet(Out)
  /\ MaxEntries \in Nat

VARIABLES
  mined,       \* the transactions of the chain up to the last batch
  rows,        \* committed rows of transactions: indexed blocks and mempool
  batch,       \* the transactions of the batch being written
  phase,       \* "idle", "insert" (5b) or "mark" (after 6c)
  toInsert,    \* transactions of the batch still to be cached
  toMark,      \* spent outputs still to be dropped from the cache
  hashToId,    \* hash_to_id: its keys
  byId,        \* by_id: its keys
  refcount,    \* refcount
  resolved     \* what Phase 6 found of the batch's inputs

cache == <<hashToId, byId, refcount>>
vars == <<mined, rows, batch, phase, toInsert, toMark, cache, resolved>>

Outputs(S) == {o \in Out : Creator[o] \in S}
SpentIn(S) == UNION {Spends[t] : t \in S}
Creators(S) == {Creator[o] : o \in S}
Conflict(t, u) == t # u /\ Spends[t] \cap Spends[u] # {}

(* Sets of transactions a chain can hold *)
ValidChain(S) ==
  /\ Creators(SpentIn(S)) \subseteq S
  /\ \A t, u \in S : ~Conflict(t, u)

Without(f, t) == [u \in DOMAIN f \ {t} |-> f[u]]
With(f, t, n) == [u \in DOMAIN f \cup {t} |-> IF u = t THEN n ELSE f[u]]

Nothing == [links |-> {}, addresses |-> {}, amounts |-> {}]

EmptyCache ==
  /\ hashToId = {}
  /\ byId = {}
  /\ refcount = [t \in {} |-> 0]

-----------------------------------------------------------------------------

(* mined \ rows is what start_height left out, rows \ mined the mempool.   *)
Init ==
  /\ mined \in {S \in SUBSET Tx : ValidChain(S)}
  /\ rows \in SUBSET Tx
  /\ batch = {} /\ toInsert = {} /\ toMark = {}
  /\ phase = "idle"
  /\ EmptyCache
  /\ resolved = Nothing

BeginBatch(b) ==
  /\ phase = "idle"
  /\ b # {}
  /\ b \cap mined = {}
  /\ ValidChain(mined \cup b)
  /\ batch' = b
  /\ phase' = "insert"
  /\ toInsert' = b
  /\ UNCHANGED <<mined, rows, toMark, cache, resolved>>

-----------------------------------------------------------------------------
(* UtxoCache::insert *)

(* mutant: every output is counted, with an address or not *)
InsertCountsAll(t) ==
  LET outputs == Outputs({t}) \cap Addressed
      skip == outputs = {} \/ Cardinality(byId) + Cardinality(outputs) > MaxEntries
  IN
  /\ hashToId' = IF skip THEN hashToId ELSE hashToId \cup {t}
  /\ byId' = IF skip THEN byId ELSE byId \cup outputs
  /\ refcount' = IF skip THEN refcount
                 ELSE With(refcount, t, Cardinality(Outputs({t})))

(* mutant: the cap is compared before the new outputs are counted *)
InsertBelowCap(t) ==
  LET outputs == Outputs({t}) \cap Addressed
      skip == outputs = {} \/ Cardinality(byId) > MaxEntries
  IN
  /\ hashToId' = IF skip THEN hashToId ELSE hashToId \cup {t}
  /\ byId' = IF skip THEN byId ELSE byId \cup outputs
  /\ refcount' = IF skip THEN refcount ELSE With(refcount, t, Cardinality(outputs))

Insert(t) ==
  LET outputs == Outputs({t}) \cap Addressed
      skip == outputs = {} \/ Cardinality(byId) + Cardinality(outputs) > MaxEntries
  IN
  /\ hashToId' = IF skip THEN hashToId ELSE hashToId \cup {t}
  /\ byId' = IF skip THEN byId ELSE byId \cup outputs
  /\ refcount' = IF skip THEN refcount ELSE With(refcount, t, Cardinality(outputs))

CacheOutputs(t) ==
  /\ phase = "insert"
  /\ t \in toInsert
  /\ Insert(t)
  /\ toInsert' = toInsert \ {t}
  /\ UNCHANGED <<mined, rows, batch, phase, toMark, resolved>>

-----------------------------------------------------------------------------
(* Phase 6 *)

(* UtxoCache::lookup *)
Hit(o) == Creator[o] \in hashToId /\ o \in byId

InBatch == {o \in SpentIn(batch) : Creator[o] \in batch}

(* Inputs without an address after 6a. *)
Missed == SpentIn(batch) \ (InBatch \cap Addressed)

CacheHits == {o \in Missed : Hit(o)}

(* mutant: one hit clears the hash for its other inputs *)
MissAfterFirst == Creators(Missed) \ Creators(CacheHits)

(* 6a-bis: a hash stays for the database if any of its inputs missed.      *)
StillMissed == Creators(Missed \ CacheHits)

(* 6b: hashes found in transactions, this batch's rows included. *)
FromDatabase == StillMissed \cap (rows \cup batch)

(* prev_tx_id_map *)
Links == Creators(InBatch) \cup Creators(CacheHits) \cup FromDatabase

(* After 6b: inputs whose creator's outputs are loaded. *)
Loaded == {o \in SpentIn(batch) : Creator[o] \in Links \cap (batch \cup FromDatabase)}

Addresses == CacheHits \cup ((InBatch \cup Loaded) \cap Addressed)

(* 6c: the inputs asked of RPC; a failed call is only logged.  Then the    *)
(* maps are written to tx_inputs, utxo and spent_by_tx_id.                 *)
Resolve ==
  /\ phase = "insert"
  /\ toInsert = {}
  /\ \E answered \in SUBSET (SpentIn(batch) \ Addresses) :
       resolved' = [links |-> Links,
                    addresses |-> Addresses \cup (answered \cap Addressed),
                    amounts |-> InBatch \cup CacheHits \cup Loaded \cup answered]
  /\ phase' = "mark"
  /\ toMark' = SpentIn(batch)
  /\ UNCHANGED <<mined, rows, batch, toInsert, cache>>

-----------------------------------------------------------------------------
(* UtxoCache::mark_spent *)

(* mutant: the entry is dropped with its transaction only *)
MarkSpentKeepsEntry(o) ==
  LET t == Creator[o]
      hit == t \in hashToId /\ o \in byId
      left == refcount[t] - 1
  IN
  /\ byId' = IF hit /\ left = 0 THEN byId \ Outputs({t}) ELSE byId
  /\ refcount' = IF ~hit THEN refcount
                 ELSE IF left = 0 THEN Without(refcount, t) ELSE With(refcount, t, left)
  /\ hashToId' = IF hit /\ left = 0 THEN hashToId \ {t} ELSE hashToId

(* mutant: a count of zero is not removed *)
MarkSpentKeepsZero(o) ==
  LET t == Creator[o]
      hit == t \in hashToId /\ o \in byId
      left == refcount[t] - 1
  IN
  /\ byId' = IF hit THEN byId \ {o} ELSE byId
  /\ refcount' = IF hit THEN With(refcount, t, left) ELSE refcount
  /\ hashToId' = IF hit /\ left = 0 THEN hashToId \ {t} ELSE hashToId

MarkSpent(o) ==
  LET t == Creator[o]
      hit == t \in hashToId /\ o \in byId
      left == refcount[t] - 1
  IN
  /\ byId' = IF hit THEN byId \ {o} ELSE byId
  /\ refcount' = IF ~hit THEN refcount
                 ELSE IF left = 0 THEN Without(refcount, t) ELSE With(refcount, t, left)
  /\ hashToId' = IF hit /\ left = 0 THEN hashToId \ {t} ELSE hashToId

DropSpent(o) ==
  /\ phase = "mark"
  /\ o \in toMark
  /\ MarkSpent(o)
  /\ toMark' = toMark \ {o}
  /\ UNCHANGED <<mined, rows, batch, phase, toInsert, resolved>>

-----------------------------------------------------------------------------

Commit ==
  /\ phase = "mark"
  /\ toMark = {}
  /\ mined' = mined \cup batch
  /\ rows' = rows \cup batch
  /\ batch' = {}
  /\ phase' = "idle"
  /\ resolved' = Nothing
  /\ UNCHANGED <<toInsert, toMark, cache>>

(* A statement or the commit fails: the transaction rolls back, catch_up   *)
(* returns and the cache goes with it.                                     *)
Fail ==
  /\ phase # "idle"
  /\ batch' = {} /\ toInsert' = {} /\ toMark' = {}
  /\ phase' = "idle"
  /\ hashToId' = {}
  /\ byId' = {}
  /\ refcount' = [t \in {} |-> 0]
  /\ resolved' = Nothing
  /\ UNCHANGED <<mined, rows>>

(* All of the chain is indexed; the run of catch_up is over. *)
Done ==
  /\ phase = "idle"
  /\ \A b \in SUBSET (Tx \ mined) : b # {} => ~ValidChain(mined \cup b)
  /\ UNCHANGED vars

Next ==
  \/ \E b \in SUBSET Tx : BeginBatch(b)
  \/ \E t \in Tx : CacheOutputs(t)
  \/ Resolve
  \/ \E o \in Out : DropSpent(o)
  \/ Commit
  \/ Fail
  \/ Done

Spec == Init /\ [][Next]_vars

-----------------------------------------------------------------------------
(* Properties *)

TypeOK ==
  /\ mined \subseteq Tx /\ rows \subseteq Tx /\ batch \subseteq Tx
  /\ phase \in {"idle", "insert", "mark"}
  /\ toInsert \subseteq batch /\ toMark \subseteq SpentIn(batch)
  /\ hashToId \subseteq Tx /\ byId \subseteq Addressed
  /\ DOMAIN refcount = hashToId
  /\ \A t \in hashToId : refcount[t] \in Nat \ {0}
  /\ resolved \in [links : SUBSET Tx, addresses : SUBSET Addressed, amounts : SUBSET Out]

(* The three maps stay consistent: a count is the number of the entries of *)
(* its transaction, and an entry is reachable through its hash.  A count   *)
(* too low drops the hash early and hides entries for good, one too high   *)
(* never drops it.                                                         *)
RefcountExact ==
  /\ Creators(byId) = hashToId
  /\ \A t \in hashToId : refcount[t] = Cardinality(Outputs({t}) \cap byId)

(* "A hard cap on by_id size prevents unbounded growth" (utxo_cache.rs).   *)
CacheBounded == Cardinality(byId) <= MaxEntries

(* Between batches the cache holds only outputs the chain has not spent.   *)
CachedAreUnspent == phase = "idle" => byId \cap SpentIn(mined) = {}

(* Whatever the cache holds or had no room for, Phase 6 finds prev_tx_id   *)
(* for exactly the inputs whose creator is in the database, and all their  *)
(* amounts and addresses; RPC may add to those of the rest.                *)
ResolutionExact ==
  phase = "mark" =>
    LET known == {o \in SpentIn(batch) : Creator[o] \in rows \cup batch}
    IN /\ resolved.links = Creators(known)
       /\ known \subseteq resolved.amounts
       /\ known \cap Addressed \subseteq resolved.addresses

=============================================================================
