-------------------------- MODULE UtxoCacheProofs --------------------------
(***************************************************************************)
(* Proofs about UtxoCache for every spending graph and every cap.          *)
(*                                                                         *)
(* The counts are exact because a transaction is inserted at most once: a  *)
(* batch holds none already mined, and the cache holds only mined ones and *)
(* those of the batch that were inserted.  BookInv states this, and what   *)
(* the loop over spent inputs has still to drop.                           *)
(***************************************************************************)
EXTENDS UtxoCache, FiniteSetTheorems, TLAPS

BookInv ==
  /\ ValidChain(mined) /\ ValidChain(mined \cup batch)
  /\ mined \cap batch = {}
  /\ phase = "idle" => batch = {}
  /\ phase # "insert" => toInsert = {}
  /\ phase # "mark" => toMark = {}
  /\ hashToId \subseteq (mined \cap rows) \cup (batch \ toInsert)
  /\ byId \cap SpentIn(mined) = {}
  /\ phase = "mark" => byId \cap SpentIn(batch) \subseteq toMark

IInv ==
  /\ TypeOK
  /\ RefcountExact
  /\ CacheBounded
  /\ BookInv
  /\ ResolutionExact

LEMMA FiniteOutputs ==
  ASSUME NEW S \in SUBSET Out
  PROVE  IsFiniteSet(S) /\ Cardinality(S) \in Nat /\ (Cardinality(S) = 0 <=> S = {})
  BY CacheAssumption, FS_Subset, FS_CardinalityType, FS_EmptySet

-----------------------------------------------------------------------------

LEMMA InitEstablishes == Init => IInv
  <1> SUFFICES ASSUME Init PROVE IInv
    OBVIOUS
  <1> USE CacheAssumption
  <1>1. TypeOK
    BY DEF Init, EmptyCache, TypeOK, Nothing, SpentIn
  <1>2. RefcountExact
    BY DEF Init, EmptyCache, RefcountExact, Creators
  <1>3. CacheBounded
    BY FS_EmptySet DEF Init, EmptyCache, CacheBounded
  <1>4. BookInv
    <2>1. mined \cup batch = mined
      BY DEF Init
    <2> QED
      BY <2>1 DEF Init, EmptyCache, BookInv
  <1>5. ResolutionExact
    BY DEF Init, ResolutionExact
  <1> QED
    BY <1>1, <1>2, <1>3, <1>4, <1>5 DEF IInv

LEMMA BeginKeeps ==
  ASSUME IInv, NEW b \in SUBSET Tx, BeginBatch(b)
  PROVE  IInv'
  <1> USE CacheAssumption
  <1> USE DEF BeginBatch, cache
  <1>1. TypeOK'
    BY DEF IInv, TypeOK, BookInv
  <1>2. RefcountExact' /\ CacheBounded'
    BY DEF IInv, RefcountExact, CacheBounded
  <1>3. BookInv'
    BY DEF IInv, BookInv, TypeOK
  <1>4. ResolutionExact'
    BY DEF ResolutionExact
  <1> QED
    BY <1>1, <1>2, <1>3, <1>4 DEF IInv

-----------------------------------------------------------------------------
(* Caching a transaction that is not cached yet sets an exact count.       *)
LEMMA InsertKeeps ==
  ASSUME IInv, NEW t \in Tx, CacheOutputs(t)
  PROVE  IInv'
  <1> USE CacheAssumption
  <1> DEFINE outputs == Outputs({t}) \cap Addressed
             skip == outputs = {} \/ Cardinality(byId) + Cardinality(outputs) > MaxEntries
  <1>1. /\ phase = "insert" /\ t \in toInsert
        /\ toInsert' = toInsert \ {t}
        /\ UNCHANGED <<mined, rows, batch, phase, toMark, resolved>>
        /\ hashToId' = IF skip THEN hashToId ELSE hashToId \cup {t}
        /\ byId' = IF skip THEN byId ELSE byId \cup outputs
        /\ refcount' = IF skip THEN refcount ELSE With(refcount, t, Cardinality(outputs))
    BY DEF CacheOutputs, Insert
  <1>2. /\ outputs \subseteq Out /\ byId \subseteq Out
        /\ Cardinality(outputs) \in Nat /\ Cardinality(byId) \in Nat
        /\ IsFiniteSet(outputs) /\ IsFiniteSet(byId)
        /\ outputs = {} <=> Cardinality(outputs) = 0
    <2>1. outputs \subseteq Out /\ byId \subseteq Out
      BY DEF IInv, TypeOK, Outputs
    <2> QED
      BY <2>1, FiniteOutputs
  <1>3. t \in batch /\ t \notin mined /\ t \notin hashToId
    BY <1>1 DEF IInv, TypeOK, BookInv
  <1>4. outputs \cap byId = {} /\ outputs \cap SpentIn(mined) = {}
    <2>1. outputs \cap byId = {}
      BY <1>3 DEF IInv, RefcountExact, Creators, Outputs
    <2>2. Creators(SpentIn(mined)) \subseteq mined
      BY DEF IInv, BookInv, ValidChain
    <2>3. ASSUME NEW o \in outputs PROVE o \notin SpentIn(mined)
      BY <1>3, <2>2 DEF Creators, Outputs
    <2> QED
      BY <2>1, <2>3
  <1>5. ~skip => /\ Cardinality(byId \cup outputs) <= MaxEntries
                 /\ Cardinality(outputs) \in Nat \ {0}
    <2>1. Cardinality(byId \cup outputs) =
            Cardinality(byId) + Cardinality(outputs) - Cardinality(byId \cap outputs)
      BY <1>2, FS_Union
    <2>2. Cardinality(byId \cap outputs) = 0
      BY <1>4, FS_EmptySet
    <2>3. ~skip => /\ Cardinality(outputs) # 0
                   /\ Cardinality(byId) + Cardinality(outputs) <= MaxEntries
      <3> HIDE DEF outputs
      <3> QED
        BY <1>2
    <2> HIDE DEF outputs, skip
    <2> QED
      BY <1>2, <2>1, <2>2, <2>3
  <1>6. \A u \in hashToId \cup {t} :
          Outputs({u}) \cap (byId \cup outputs) =
            IF u = t THEN outputs ELSE Outputs({u}) \cap byId
    BY <1>2, <1>3 DEF Outputs, IInv, RefcountExact, Creators, TypeOK
  <1> HIDE DEF outputs, skip
  <1>7. TypeOK'
    BY <1>1, <1>2, <1>5 DEF IInv, TypeOK, With, outputs
  <1>8. RefcountExact'
    <2>1. CASE skip
      BY <1>1, <2>1 DEF IInv, RefcountExact
    <2>2. CASE ~skip
      <3>1. Creators(byId \cup outputs) = hashToId \cup {t}
        <4>1. outputs # {} /\ \A o \in outputs : Creator[o] = t
          BY <2>2 DEF skip, outputs, Outputs
        <4> QED
          BY <4>1 DEF IInv, RefcountExact, Creators
      <3>2. \A u \in hashToId \cup {t} :
              With(refcount, t, Cardinality(outputs))[u] =
                Cardinality(Outputs({u}) \cap (byId \cup outputs))
        BY <1>3, <1>6 DEF With, IInv, RefcountExact, TypeOK
      <3> QED
        BY <1>1, <2>2, <3>1, <3>2 DEF RefcountExact
    <2> QED
      BY <2>1, <2>2
  <1>9. CacheBounded'
    BY <1>1, <1>5 DEF IInv, CacheBounded
  <1>10. BookInv'
    BY <1>1, <1>3, <1>4 DEF IInv, BookInv, TypeOK
  <1>11. ResolutionExact'
    BY <1>1 DEF ResolutionExact
  <1> QED
    BY <1>7, <1>8, <1>9, <1>10, <1>11 DEF IInv

-----------------------------------------------------------------------------
(* The four levels of Phase 6 together find what the database holds.       *)
LEMMA ResolveKeeps ==
  ASSUME IInv, Resolve
  PROVE  IInv'
  <1> USE CacheAssumption
  <1>1. PICK answered \in SUBSET (SpentIn(batch) \ Addresses) :
          resolved' = [links |-> Links,
                       addresses |-> Addresses \cup (answered \cap Addressed),
                       amounts |-> InBatch \cup CacheHits \cup Loaded \cup answered]
    BY DEF Resolve
  <1>2. /\ phase = "insert" /\ phase' = "mark"
        /\ toInsert = {}
        /\ toMark' = SpentIn(batch)
        /\ UNCHANGED <<mined, rows, batch, toInsert, hashToId, byId, refcount>>
    BY DEF Resolve, cache
  <1>3. /\ batch \subseteq Tx /\ rows \subseteq Tx /\ hashToId \subseteq Tx
        /\ byId \subseteq Addressed
        /\ SpentIn(batch) \subseteq Out
        /\ hashToId \subseteq rows \cup batch
    BY <1>2 DEF IInv, TypeOK, BookInv, SpentIn
  <1>4. Links \subseteq rows \cup batch /\ Links \subseteq Creators(SpentIn(batch))
    BY <1>3 DEF Links, InBatch, CacheHits, Missed, Hit, FromDatabase, StillMissed, Creators
  <1>5. ASSUME NEW o \in SpentIn(batch), Creator[o] \in rows \cup batch
        PROVE  /\ Creator[o] \in Links
               /\ o \in InBatch \cup CacheHits \cup Loaded
               /\ o \in Addressed => o \in Addresses
    <2>1. CASE o \in InBatch
      BY <2>1 DEF Links, Addresses, Creators
    <2>2. CASE o \in CacheHits
      BY <2>2 DEF Links, Addresses, Creators
    <2>3. CASE o \notin InBatch /\ o \notin CacheHits
      <3>1. Creator[o] \in FromDatabase
        BY <1>5, <2>3 DEF FromDatabase, StillMissed, Missed, Creators
      <3>2. Creator[o] \in Links /\ o \in Loaded
        BY <3>1 DEF Links, Loaded
      <3> QED
        BY <3>2 DEF Addresses
    <2> QED
      BY <2>1, <2>2, <2>3
  <1>6. TypeOK'
    <2>1. Links \subseteq Tx
      BY <1>3, <1>4
    <2>2. Addresses \subseteq Addressed
      BY <1>3 DEF Addresses, CacheHits, Hit
    <2>3. InBatch \cup CacheHits \cup Loaded \cup answered \subseteq Out
      BY <1>3 DEF InBatch, CacheHits, Missed, Loaded
    <2> QED
      BY <1>1, <1>2, <2>1, <2>2, <2>3 DEF IInv, TypeOK
  <1>7. RefcountExact' /\ CacheBounded'
    BY <1>2 DEF IInv, RefcountExact, CacheBounded
  <1>8. BookInv'
    BY <1>2 DEF IInv, BookInv
  <1>9. ResolutionExact'
    <2>1. Creators({o \in SpentIn(batch) : Creator[o] \in rows \cup batch}) = Links
      BY <1>4, <1>5 DEF Creators
    <2> QED
      BY <1>1, <1>2, <1>5, <2>1 DEF ResolutionExact
  <1> QED
    BY <1>6, <1>7, <1>8, <1>9 DEF IInv

-----------------------------------------------------------------------------
(* Dropping an entry takes one from its count, and the last one the hash.  *)
LEMMA DropKeeps ==
  ASSUME IInv, NEW o \in Out, DropSpent(o)
  PROVE  IInv'
  <1> USE CacheAssumption
  <1> DEFINE t == Creator[o]
             hit == t \in hashToId /\ o \in byId
             left == refcount[t] - 1
  <1>1. /\ phase = "mark" /\ o \in toMark
        /\ toMark' = toMark \ {o}
        /\ byId' = IF hit THEN byId \ {o} ELSE byId
        /\ refcount' = IF ~hit THEN refcount
                       ELSE IF left = 0 THEN Without(refcount, t) ELSE With(refcount, t, left)
        /\ hashToId' = IF hit /\ left = 0 THEN hashToId \ {t} ELSE hashToId
        /\ UNCHANGED <<mined, rows, batch, phase, toInsert, resolved>>
    BY DEF DropSpent, MarkSpent
  <1>2. t \in Tx /\ byId \subseteq Out /\ IsFiniteSet(byId) /\ IsFiniteSet(Outputs({t}) \cap byId)
    <2>1. byId \subseteq Out
      BY DEF IInv, TypeOK
    <2> QED
      BY <2>1, FiniteOutputs
  <1>3. o \in byId => t \in hashToId
    BY DEF IInv, RefcountExact, Creators
  <1>4. CASE ~hit
    <2>1. UNCHANGED <<hashToId, byId, refcount>>
      BY <1>1, <1>4
    <2>2. o \notin byId
      BY <1>3, <1>4
    <2>3. TypeOK' /\ RefcountExact' /\ CacheBounded'
      BY <1>1, <2>1 DEF IInv, TypeOK, RefcountExact, CacheBounded
    <2>4. BookInv' /\ ResolutionExact'
      BY <1>1, <2>1, <2>2 DEF IInv, BookInv, ResolutionExact
    <2> QED
      BY <2>3, <2>4 DEF IInv
  <1>5. CASE hit
    <2>1. /\ Cardinality(byId \ {o}) = Cardinality(byId) - 1
          /\ Cardinality((Outputs({t}) \cap byId) \ {o}) = left
      <3>1. o \in Outputs({t}) \cap byId
        BY <1>5 DEF Outputs
      <3>2. refcount[t] = Cardinality(Outputs({t}) \cap byId)
        BY <1>5 DEF IInv, RefcountExact
      <3>3. Cardinality(byId \ {o}) = Cardinality(byId) - 1
        BY <1>2, <1>5, FS_RemoveElement
      <3>4. Cardinality((Outputs({t}) \cap byId) \ {o}) = Cardinality(Outputs({t}) \cap byId) - 1
        BY <1>2, <3>1, FS_RemoveElement
      <3> QED
        BY <3>2, <3>3, <3>4
    <2>2. /\ left \in Nat
          /\ left = 0 <=> (Outputs({t}) \cap byId) \ {o} = {}
      BY <2>1, FiniteOutputs, (Outputs({t}) \cap byId) \ {o} \in SUBSET Out DEF Outputs
    <2>3. \A u \in hashToId :
            Outputs({u}) \cap (byId \ {o}) =
              IF u = t THEN (Outputs({t}) \cap byId) \ {o} ELSE Outputs({u}) \cap byId
      BY DEF Outputs
    <2> HIDE DEF left
    <2>4. TypeOK'
      BY <1>1, <1>5, <2>2 DEF IInv, TypeOK, With, Without
    <2>5. RefcountExact'
      <3>1. Creators(byId \ {o}) = IF left = 0 THEN hashToId \ {t} ELSE hashToId
        <4>1. \A p \in byId : p \in Outputs({t}) <=> Creator[p] = t
          BY <1>2 DEF Outputs
        <4>2. Creators(byId \ {o}) \subseteq hashToId
          BY DEF IInv, RefcountExact, Creators
        <4>3. \A u \in hashToId \ {t} : u \in Creators(byId \ {o})
          BY DEF IInv, RefcountExact, Creators
        <4>4. t \in Creators(byId \ {o}) <=> left # 0
          BY <2>2, <4>1 DEF Creators
        <4> DEFINE kept == Creators(byId \ {o})
        <4>5. t \in hashToId /\ kept \subseteq hashToId
          BY <1>5, <4>2
        <4>6. \A u \in hashToId : u # t => u \in kept
          BY <4>3
        <4>7. t \in kept <=> left # 0
          BY <4>4
        <4> HIDE DEF kept, t
        <4>8. kept = IF left = 0 THEN hashToId \ {t} ELSE hashToId
          BY <4>5, <4>6, <4>7
        <4> QED
          BY <4>8 DEF kept
      <3>2. \A u \in hashToId' :
              refcount'[u] = Cardinality(Outputs({u}) \cap (byId \ {o}))
        <4>1. \A u \in hashToId \ {t} : refcount'[u] = refcount[u]
          BY <1>1, <1>5 DEF With, Without, IInv, TypeOK
        <4>2. left # 0 => refcount'[t] = left
          BY <1>1, <1>5 DEF With, IInv, TypeOK
        <4>3. \A u \in hashToId : refcount[u] = Cardinality(Outputs({u}) \cap byId)
          BY DEF IInv, RefcountExact
        <4> QED
          BY <1>1, <1>5, <2>1, <2>3, <4>1, <4>2, <4>3
      <3> QED
        BY <1>1, <1>5, <3>1, <3>2 DEF RefcountExact
    <2>6. CacheBounded'
      <3>1. Cardinality(byId) \in Nat
        BY <1>2, FiniteOutputs
      <3> QED
        BY <1>1, <1>5, <2>1, <3>1 DEF IInv, CacheBounded
    <2>7. BookInv'
      BY <1>1, <1>5 DEF IInv, BookInv
    <2>8. ResolutionExact'
      BY <1>1 DEF IInv, ResolutionExact
    <2> QED
      BY <2>4, <2>5, <2>6, <2>7, <2>8 DEF IInv
  <1> QED
    BY <1>4, <1>5

-----------------------------------------------------------------------------

LEMMA EndKeeps ==
  ASSUME IInv, Commit \/ Fail \/ Done \/ UNCHANGED vars
  PROVE  IInv'
  <1> USE CacheAssumption
  <1>1. CASE Commit
    <2> USE <1>1 DEF Commit, cache
    <2>1. TypeOK'
      BY DEF IInv, TypeOK, BookInv, Nothing, SpentIn
    <2>2. RefcountExact' /\ CacheBounded'
      BY DEF IInv, RefcountExact, CacheBounded
    <2>3. SpentIn(mined \cup batch) = SpentIn(mined) \cup SpentIn(batch)
      BY DEF SpentIn
    <2>4. mined' \cup batch' = mined \cup batch /\ mined' = mined \cup batch
      OBVIOUS
    <2>5. BookInv'
      BY <2>3, <2>4 DEF IInv, BookInv
    <2>6. ResolutionExact'
      BY DEF ResolutionExact
    <2> QED
      BY <2>1, <2>2, <2>5, <2>6 DEF IInv
  <1>2. CASE Fail
    <2> USE <1>2 DEF Fail
    <2>1. TypeOK'
      BY DEF IInv, TypeOK, Nothing, SpentIn
    <2>2. RefcountExact' /\ CacheBounded'
      BY FS_EmptySet DEF RefcountExact, CacheBounded, Creators
    <2>3. mined' \cup batch' = mined
      OBVIOUS
    <2>4. BookInv'
      BY <2>3 DEF IInv, BookInv
    <2>5. ResolutionExact'
      BY DEF ResolutionExact
    <2> QED
      BY <2>1, <2>2, <2>4, <2>5 DEF IInv
  <1>3. CASE Done \/ UNCHANGED vars
    BY <1>3 DEF Done, vars, cache, IInv, TypeOK, RefcountExact, CacheBounded,
                BookInv, ResolutionExact
  <1> QED
    BY <1>1, <1>2, <1>3

LEMMA NextKeeps == IInv /\ [Next]_vars => IInv'
  BY BeginKeeps, InsertKeeps, ResolveKeeps, DropKeeps, EndKeeps DEF Next

LEMMA Invariance == Spec => []IInv
  <1> QED
    BY InitEstablishes, NextKeeps, PTL DEF Spec

(* The sets and maps of the cache and of the batch are well typed.         *)
THEOREM Typing == Spec => []TypeOK
  <1>1. IInv => TypeOK
    BY DEF IInv
  <1> QED
    BY <1>1, Invariance, PTL

(* insert and mark_spent keep hash_to_id, by_id and refcount consistent    *)
(* through every sequence of batches and failures.                         *)
THEOREM RefcountsHold == Spec => []RefcountExact
  <1>1. IInv => RefcountExact
    BY DEF IInv
  <1> QED
    BY <1>1, Invariance, PTL

(* The cap of insert bounds by_id. *)
THEOREM BoundHolds == Spec => []CacheBounded
  <1>1. IInv => CacheBounded
    BY DEF IInv
  <1> QED
    BY <1>1, Invariance, PTL

(* At a commit the cache is a subset of the UTXO set.                      *)
THEOREM UnspentHolds == Spec => []CachedAreUnspent
  <1>1. IInv => CachedAreUnspent
    BY DEF IInv, BookInv, CachedAreUnspent
  <1> QED
    BY <1>1, Invariance, PTL

(* Phase 6 finds what a plain join with the database would find: the       *)
(* cache changes no answer.                                                *)
THEOREM CacheTransparent == Spec => []ResolutionExact
  <1>1. IInv => ResolutionExact
    BY DEF IInv
  <1> QED
    BY <1>1, Invariance, PTL

=============================================================================
