--------------------------- MODULE GovernanceProofs ---------------------------
(***************************************************************************)
(* Proofs about Governance for every number of proposals, masternodes,     *)
(* votes, blocks and failures, and every window and preset of the chart.   *)
(*                                                                         *)
(* The argument for a clean start of a cycle: a proposal with votes is     *)
(* registered (NamedInv), so the registry that flush reads names all there *)
(* is to drop (DropInv), and the marker moves only when all is dropped, or *)
(* when there never was anything (MarkInv, FirstInv). That a sync inserts  *)
(* votes of registered proposals only is SyncInv.                          *)
(*                                                                         *)
(* The chart needs no more than types: the running total of a bucket is    *)
(* the weight of the votes up to its end (TotalIsUpTo), because a bucket   *)
(* holds the votes after the end of the one before it and up to its own    *)
(* (IndexFacts), and weights of disjoint sets of votes add up (WeightsAdd).*)
(***************************************************************************)
EXTENDS Governance, DataFacts

NamesAll(S) == \A p \in Proposals : cached[p] # {} => p \in S

NothingCached == registry = {} /\ \A p \in Proposals : cached[p] = {}

NamedInv == NamesAll(registry)

DropInv == task.at = "drop" => NamesAll(task.todo)

SyncInv ==
    /\ task.at # "insert" => task.of = {}
    /\ task.at \in {"votes", "insert"} => task.todo \cup task.of \subseteq registry

MarkInv == task.at = "mark" => cycle = CycleOf(task.tip) \/ NothingCached

FirstInv ==
    cycle = NoCycle =>
        NothingCached /\ task.at \notin {"keys", "drop", "objects", "register", "votes", "insert"}

CycleInv == NamedInv /\ DropInv /\ SyncInv /\ MarkInv /\ FirstInv

VotesInv == GovernanceTypeOK /\ CycleInv

Casting == \E p \in Proposals, v \in Voters : CastVote(p, v)

Clearing == \E p \in Proposals : DropVotes(p)

ReadingVotes == \E p \in Proposals : ReadVotes(p)

-----------------------------------------------------------------------------

\* A tip belongs to a cycle, whose number is none of a marker never set.
LEMMA CycleIsNumber ==
    ASSUME NEW h \in 0 .. MaxHeight
    PROVE  /\ CycleOf(h) \in {CycleOf(g) : g \in 0 .. MaxHeight}
           /\ CycleOf(h) # NoCycle
  <1>1. SuperblockInterval \in Nat /\ SuperblockInterval > 0 /\ MaxHeight \in Nat
    BY GovernanceAssumption
  <1>2. h \in Nat
    BY <1>1
  <1>3. h \div SuperblockInterval >= 0
    BY <1>1, <1>2
  <1> QED
    BY <1>3 DEF CycleOf, NoCycle

\* The initial state: nothing is cached, nothing is running.
LEMMA VotesInitHolds == GovernanceInit => VotesInv
  <1> SUFFICES ASSUME GovernanceInit PROVE VotesInv
    OBVIOUS
  <1>1. FirstHeight \in FirstHeight .. MaxHeight /\ 0 \in 0 .. MaxHeight /\ MaxSyncFaults \in Nat
    BY GovernanceAssumption
  <1>2. cast = <<>> /\ objects = Proposals /\ height = FirstHeight /\ cycle = NoCycle
        /\ registry = {} /\ cached = [p \in Proposals |-> {}] /\ task = NoTask
        /\ syncFaults = MaxSyncFaults /\ upToDate = FALSE
    BY DEF GovernanceInit
  <1>3. GovernanceTypeOK
    <2>1. task \in [at : {"idle", "cycle", "keys", "drop", "mark", "objects", "register",
                          "votes", "insert"},
                    tip : 0 .. MaxHeight, todo : SUBSET Proposals, of : SUBSET Proposals,
                    got : SUBSET VoteIds]
      BY <1>1, <1>2 DEF NoTask
    <2>2. cached \in [Proposals -> SUBSET VoteIds] /\ cycle = NoCycle
      BY <1>2
    <2>3. cast \in Seq([of : Proposals, by : Voters, at : 0 .. MaxTime,
                        outcome : Outcomes, signal : Signals])
      BY <1>2
    <2>4. height \in FirstHeight .. MaxHeight /\ syncFaults \in 0 .. MaxSyncFaults
      BY <1>1, <1>2
    <2>5. objects \subseteq Proposals /\ registry \subseteq Proposals /\ upToDate \in BOOLEAN
      BY <1>2
    <2> QED
      BY <2>1, <2>2, <2>3, <2>4, <2>5 DEF GovernanceTypeOK
  <1>4. CycleInv
    BY <1>2 DEF CycleInv, NamedInv, NamesAll, DropInv, SyncInv, MarkInv, FirstInv, NothingCached, NoTask
  <1> QED
    BY <1>3, <1>4 DEF VotesInv

-----------------------------------------------------------------------------
(* Types.                                                                  *)

TaskTyped ==
    task \in [at : {"idle", "cycle", "keys", "drop", "mark", "objects", "register",
                       "votes", "insert"},
                 tip : 0 .. MaxHeight, todo : SUBSET Proposals, of : SUBSET Proposals,
                 got : SUBSET VoteIds]

\* All of the state but the votes cast, which only grow.
RestTyped ==
    /\ objects \subseteq Proposals
    /\ height \in FirstHeight .. MaxHeight
    /\ cycle \in {NoCycle} \cup {CycleOf(h) : h \in 0 .. MaxHeight}
    /\ registry \subseteq Proposals
    /\ cached \in [Proposals -> SUBSET VoteIds]
    /\ TaskTyped
    /\ syncFaults \in 0 .. MaxSyncFaults
    /\ upToDate \in BOOLEAN

\* A vote is appended; ids of votes stay ids of votes.
LEMMA CastingTyped ==
    ASSUME GovernanceTypeOK, Casting
    PROVE  GovernanceTypeOK'
  <1> DEFINE Votes == [of : Proposals, by : Voters, at : 0 .. MaxTime,
                       outcome : Outcomes, signal : Signals]
  <1>1. PICK v \in Votes : cast' = Append(cast, v)
    BY DEF Casting, CastVote
  <1>2. cast \in Seq(Votes)
    BY DEF GovernanceTypeOK
  <1>3. cast' \in Seq(Votes) /\ DOMAIN cast \subseteq DOMAIN cast'
    <2> HIDE DEF Votes
    <2>1. Append(cast, v) \in Seq(Votes) /\ Len(Append(cast, v)) = Len(cast) + 1
          /\ DOMAIN cast = 1 .. Len(cast) /\ Len(cast) \in Nat
          /\ DOMAIN Append(cast, v) = 1 .. Len(cast) + 1
      BY <1>1, <1>2, AppendProperties, LenProperties
    <2> QED
      BY <1>1, <2>1
  <1>4. UNCHANGED <<objects, height, cycle, registry, cached, task, syncFaults>> /\ upToDate' = FALSE
    BY DEF Casting, CastVote
  <1>5. VoteIds \subseteq VoteIds'
    BY <1>3 DEF VoteIds
  <1>6. cached' \in [Proposals -> SUBSET VoteIds']
    BY <1>4, <1>5 DEF GovernanceTypeOK
  <1>7. task' \in [at : {"idle", "cycle", "keys", "drop", "mark", "objects", "register",
                         "votes", "insert"},
                   tip : 0 .. MaxHeight, todo : SUBSET Proposals, of : SUBSET Proposals,
                   got : SUBSET VoteIds']
    BY <1>4, <1>5 DEF GovernanceTypeOK
  <1> QED
    BY <1>3, <1>4, <1>6, <1>7 DEF GovernanceTypeOK

\* A sync begins with an empty task.
LEMMA BeginTyped ==
    ASSUME NEW tip \in 0 .. MaxHeight, BeginSync(tip), VoteIds' = VoteIds
    PROVE  TaskTyped' /\ upToDate' \in BOOLEAN
  <1>1. NoTask = [at |-> "idle", tip |-> 0, todo |-> {}, of |-> {}, got |-> {}]
    BY DEF NoTask
  <1>2. task' = [at |-> "cycle", tip |-> tip, todo |-> {}, of |-> {}, got |-> {}]
    BY <1>1 DEF BeginSync
  <1>3. upToDate' = TRUE
    BY DEF BeginSync
  <1> QED
    BY <1>2, <1>3 DEF TaskTyped

\* The steps of the indexer and the node's expiry leave the votes alone.
LEMMA SyncTyped ==
    ASSUME GovernanceTypeOK, GovernanceNext, ~Casting
    PROVE  GovernanceTypeOK'
  <1>1. RestTyped /\ 0 \in 0 .. MaxHeight /\ FirstHeight \in Nat /\ MaxSyncFaults \in Nat
        /\ MaxHeight \in Nat
    BY GovernanceAssumption DEF GovernanceTypeOK, RestTyped, TaskTyped
  <1>2. cast' = cast /\ VoteIds' = VoteIds
    BY DEF GovernanceNext, Casting, Expire, DropVotes, ReadVotes, IndexBlock, Bootstrap, ReadCycle,
           ReadKeys, DropRegistry, MarkCycle, ReadObjects, RegisterProposals, InsertVotes,
           FinishSync, AbortSync, VoteIds
  <1>3. NoTask \in [at : {"idle"}, tip : 0 .. MaxHeight, todo : SUBSET Proposals,
                    of : SUBSET Proposals, got : SUBSET VoteIds]
    BY <1>1 DEF NoTask
  <1>4. RestTyped'
    <2>1. CASE \E p \in Proposals : Expire(p)
      BY <1>1, <1>2, <2>1 DEF RestTyped, TaskTyped, Expire
    <2>2. CASE Clearing
      BY <1>1, <1>2, <2>2 DEF RestTyped, TaskTyped, Clearing, DropVotes
    <2>3. CASE ReadingVotes
      <3>1. \A p \in Proposals : CurrentVotes(p) \subseteq VoteIds
        BY DEF CurrentVotes
      <3>2. PICK p \in Proposals : ReadVotes(p)
        BY <2>3 DEF ReadingVotes
      <3>3. TaskTyped'
        <4>1. CASE task' = NoTask
          BY <1>2, <1>3, <4>1 DEF TaskTyped
        <4>2. CASE task' = [task EXCEPT !.at = "insert", !.todo = @ \ {p}, !.of = {p},
                                        !.got = CurrentVotes(p)]
          BY <1>1, <1>2, <3>1, <4>2 DEF RestTyped, TaskTyped
        <4> QED
          BY <3>2, <4>1, <4>2 DEF ReadVotes
      <3>4. upToDate' \in BOOLEAN
        BY <1>1, <3>2 DEF RestTyped, ReadVotes
      <3> QED
        BY <1>1, <1>2, <3>2, <3>3, <3>4 DEF RestTyped, ReadVotes
    <2>4. CASE IndexBlock
      <3>1. PICK tip \in {height', 0} : BeginSync(tip)
        BY <2>4 DEF IndexBlock
      <3>2. height' \in FirstHeight .. MaxHeight /\ height' \in 0 .. MaxHeight
            /\ syncFaults' \in 0 .. MaxSyncFaults
        BY <1>1, <2>4 DEF RestTyped, IndexBlock
      <3>3. TaskTyped' /\ upToDate' \in BOOLEAN
        BY <1>1, <1>2, <3>1, <3>2, BeginTyped
      <3> QED
        BY <1>1, <1>2, <2>4, <3>2, <3>3 DEF RestTyped, IndexBlock
    <2>5. CASE Bootstrap
      <3>1. height \in 0 .. MaxHeight /\ BeginSync(height)
        BY <1>1, <2>5 DEF RestTyped, Bootstrap
      <3>2. TaskTyped' /\ upToDate' \in BOOLEAN
        BY <1>2, <3>1, BeginTyped
      <3> QED
        BY <1>1, <1>2, <2>5, <3>2 DEF RestTyped, Bootstrap
    <2>6. CASE ReadCycle
      BY <1>1, <1>2, <2>6 DEF RestTyped, TaskTyped, ReadCycle
    <2>7. CASE ReadKeys
      BY <1>1, <1>2, <2>7 DEF RestTyped, TaskTyped, ReadKeys
    <2>8. CASE DropRegistry
      BY <1>1, <1>2, <2>8 DEF RestTyped, TaskTyped, DropRegistry
    <2>9. CASE MarkCycle
      <3>1. CycleOf(task.tip) \in {CycleOf(g) : g \in 0 .. MaxHeight}
        BY <1>1, CycleIsNumber DEF RestTyped, TaskTyped
      <3> QED
        BY <1>1, <1>2, <2>9, <3>1 DEF RestTyped, TaskTyped, MarkCycle
    <2>10. CASE ReadObjects
      BY <1>1, <1>2, <1>3, <2>10 DEF RestTyped, TaskTyped, ReadObjects
    <2>11. CASE RegisterProposals
      BY <1>1, <1>2, <2>11 DEF RestTyped, TaskTyped, RegisterProposals
    <2>12. CASE InsertVotes
      BY <1>1, <1>2, <2>12 DEF RestTyped, TaskTyped, InsertVotes
    <2>13. CASE FinishSync
      BY <1>1, <1>2, <1>3, <2>13 DEF RestTyped, TaskTyped, FinishSync
    <2>14. CASE AbortSync
      <3>1. TaskTyped'
        BY <1>2, <1>3, <2>14 DEF TaskTyped, AbortSync
      <3>2. syncFaults' \in 0 .. MaxSyncFaults /\ upToDate' = FALSE
        BY <1>1, <2>14 DEF RestTyped, AbortSync
      <3>3. UNCHANGED <<objects, height, cycle, registry, cached>>
        BY <2>14 DEF AbortSync
      <3> QED
        BY <1>1, <1>2, <3>1, <3>2, <3>3 DEF RestTyped
    <2> QED
      BY <2>1, <2>2, <2>3, <2>4, <2>5, <2>6, <2>7, <2>8, <2>9, <2>10, <2>11, <2>12, <2>13, <2>14
         DEF GovernanceNext, Casting, Clearing, ReadingVotes
  <1> QED
    BY <1>2, <1>4 DEF GovernanceTypeOK, RestTyped, TaskTyped

-----------------------------------------------------------------------------
(* The cycle.                                                              *)

\* What neither reads nor writes the registry, the votes or the marker.
LEMMA OthersKeep ==
    ASSUME GovernanceTypeOK, CycleInv,
           \/ Casting \/ \E p \in Proposals : Expire(p)
           \/ IndexBlock \/ Bootstrap \/ AbortSync \/ FinishSync
    PROVE  CycleInv' /\ cycle' = cycle
  <1>1. UNCHANGED <<cycle, registry, cached>>
    BY DEF Casting, CastVote, Expire, IndexBlock, Bootstrap, AbortSync, FinishSync
  <1>2. task' = task \/ (task'.at \in {"idle", "cycle"} /\ task'.of = {})
    <2>1. NoTask.at = "idle" /\ NoTask.of = {}
      BY DEF NoTask
    <2>2. \A tip : BeginSync(tip) => task'.at = "cycle" /\ task'.of = {}
      BY DEF BeginSync, NoTask
    <2>3. CASE IndexBlock \/ Bootstrap
      BY <2>2, <2>3 DEF IndexBlock, Bootstrap
    <2>4. CASE AbortSync \/ FinishSync
      BY <2>1, <2>4 DEF AbortSync, FinishSync
    <2>5. CASE Casting \/ \E p \in Proposals : Expire(p)
      BY <2>5 DEF Casting, CastVote, Expire
    <2> QED
      BY <2>3, <2>4, <2>5
  <1> QED
    BY <1>1, <1>2 DEF CycleInv, NamedInv, NamesAll, DropInv, SyncInv, MarkInv, FirstInv, NothingCached, CycleOf

\* From the marker read to the marker written.
LEMMA FlushKeeps ==
    ASSUME GovernanceTypeOK, CycleInv,
           ReadCycle \/ ReadKeys \/ Clearing \/ DropRegistry \/ MarkCycle
    PROVE  CycleInv' /\ (cycle' # cycle => NothingCached')
  <1>1. CASE ReadCycle
    BY <1>1 DEF GovernanceTypeOK, ReadCycle, CycleInv, NamedInv, NamesAll, DropInv, SyncInv, MarkInv,
                FirstInv, NothingCached, CycleOf
  <1>2. CASE ReadKeys
    BY <1>2 DEF GovernanceTypeOK, ReadKeys, CycleInv, NamedInv, NamesAll, DropInv, SyncInv, MarkInv,
                FirstInv, NothingCached
  <1>3. CASE Clearing
    BY <1>3 DEF GovernanceTypeOK, Clearing, DropVotes, CycleInv, NamedInv, NamesAll, DropInv, SyncInv,
                MarkInv, FirstInv, NothingCached
  <1>4. CASE DropRegistry
    BY <1>4 DEF GovernanceTypeOK, DropRegistry, CycleInv, NamedInv, NamesAll, DropInv, SyncInv,
                MarkInv, FirstInv, NothingCached
  <1>5. CASE MarkCycle
    <2>1. task.tip \in 0 .. MaxHeight
      BY DEF GovernanceTypeOK
    <2>2. CycleOf(task.tip) # NoCycle
      BY <2>1, CycleIsNumber
    <2> QED
      BY <1>5, <2>2 DEF GovernanceTypeOK, MarkCycle, CycleInv, NamedInv, NamesAll, DropInv, SyncInv,
                        MarkInv, FirstInv, NothingCached
  <1> QED
    BY <1>1, <1>2, <1>3, <1>4, <1>5

\* From the proposals read to the last vote inserted.
LEMMA SyncStepKeeps ==
    ASSUME GovernanceTypeOK, CycleInv,
           ReadObjects \/ RegisterProposals \/ ReadingVotes \/ InsertVotes
    PROVE  CycleInv' /\ cycle' = cycle
  <1>1. CASE ReadObjects
    <2>1. CASE task' = NoTask
      <3>1. NoTask.at = "idle" /\ NoTask.of = {}
        BY DEF NoTask
      <3> QED
        BY <1>1, <2>1, <3>1 DEF ReadObjects, CycleInv, NamedInv, NamesAll, DropInv, SyncInv, MarkInv,
                                FirstInv, NothingCached
    <2>2. CASE task' = [task EXCEPT !.at = "register", !.todo = objects]
      BY <1>1, <2>2 DEF GovernanceTypeOK, ReadObjects, CycleInv, NamedInv, NamesAll, DropInv, SyncInv,
                        MarkInv, FirstInv, NothingCached
    <2> QED
      BY <1>1, <2>1, <2>2 DEF ReadObjects
  <1>2. CASE RegisterProposals
    <2> QED
      BY <1>2 DEF GovernanceTypeOK, RegisterProposals, CycleInv, NamedInv, NamesAll, DropInv,
                        SyncInv, MarkInv, FirstInv, NothingCached
  <1>3. CASE ReadingVotes
    <2>1. PICK p \in Proposals : ReadVotes(p)
      BY <1>3 DEF ReadingVotes
    <2>2. UNCHANGED <<cycle, registry, cached>> /\ task.at = "votes" /\ p \in task.todo
      BY <2>1 DEF ReadVotes
    <2>3. CASE task' = NoTask
      <3>1. NoTask.at = "idle" /\ NoTask.of = {}
        BY DEF NoTask
      <3> QED
        BY <2>2, <2>3, <3>1 DEF CycleInv, NamedInv, NamesAll, DropInv, SyncInv, MarkInv, FirstInv, NothingCached
    <2>4. CASE task' = [task EXCEPT !.at = "insert", !.todo = @ \ {p}, !.of = {p},
                                    !.got = CurrentVotes(p)]
      <3>1. task'.at = "insert" /\ task'.todo \cup task'.of \subseteq registry
        BY <2>2, <2>4 DEF GovernanceTypeOK, CycleInv, SyncInv
      <3> QED
        BY <2>2, <3>1 DEF CycleInv, NamedInv, NamesAll, DropInv, SyncInv, MarkInv, FirstInv, NothingCached
    <2> QED
      BY <2>1, <2>3, <2>4 DEF ReadVotes
  <1>4. CASE InsertVotes
    BY <1>4 DEF GovernanceTypeOK, InsertVotes, CycleInv, NamedInv, NamesAll, DropInv, SyncInv, MarkInv,
                FirstInv, NothingCached
  <1> QED
    BY <1>1, <1>2, <1>3, <1>4

(* Every step keeps the invariant, and moves the marker only when nothing  *)
(* is left.                                                                *)
LEMMA VotesStepKeeps ==
    ASSUME VotesInv, [GovernanceNext]_governanceVars
    PROVE  VotesInv' /\ (cycle' # cycle => NothingCached')
  <1>1. CASE UNCHANGED governanceVars
    BY <1>1 DEF governanceVars, VotesInv, GovernanceTypeOK, VoteIds, CycleInv, NamedInv, NamesAll, DropInv,
                SyncInv, MarkInv, FirstInv, NothingCached, CycleOf
  <1>2. CASE GovernanceNext
    <2>1. GovernanceTypeOK'
      BY <1>2, CastingTyped, SyncTyped DEF VotesInv
    <2>2. CycleInv' /\ (cycle' # cycle => NothingCached')
      BY <1>2, OthersKeep, FlushKeeps, SyncStepKeeps
         DEF VotesInv, GovernanceNext, Casting, Clearing, ReadingVotes
    <2> QED
      BY <2>1, <2>2 DEF VotesInv
  <1> QED
    BY <1>1, <1>2

LEMMA VotesInductive == GovernanceSpec => []VotesInv
  <1>1. GovernanceInit => VotesInv
    BY VotesInitHolds
  <1>2. VotesInv /\ [GovernanceNext]_governanceVars => VotesInv'
    BY VotesStepKeeps
  <1> QED
    BY <1>1, <1>2, PTL DEF GovernanceSpec

-----------------------------------------------------------------------------
(* The chart: rounding up.                                                 *)

(* CeilDiv rounds up. *)
LEMMA CeilFacts ==
  ASSUME NEW a \in Int, NEW b \in Nat \ {0}
  PROVE  /\ CeilDiv(a, b) \in Int
         /\ CeilDiv(a, b) * b - b < a /\ a <= CeilDiv(a, b) * b
         /\ a >= 0 => CeilDiv(a, b) \in Nat
  <1> DEFINE q == (-a) \div b
  <1>1. /\ q \in Int
        /\ q * b <= -a /\ -a < q * b + b
    <2>1. -a \in Int
      OBVIOUS
    <2> QED
      BY <2>1, DivFacts
  <1>2. CeilDiv(a, b) = -q
    BY DEF CeilDiv
  <1> HIDE DEF q
  <1>3. (-q) * b = -(q * b) /\ q * b \in Int
    BY <1>1
  <1>4. ASSUME a >= 0, q > 0 PROVE FALSE
    <2>1. 0 * b + b <= q * b
      BY <1>1, <1>4, MulMonotone
    <2> QED
      BY <1>1, <1>3, <1>4, <2>1
  <1> QED
    BY <1>1, <1>2, <1>3, <1>4

-----------------------------------------------------------------------------
(* Weights of votes.                                                       *)

VoteWeight == [n \in VoteIds |-> Weight[cast[n].by]]

IsWeightTable(g, S) ==
  g = [s \in SUBSET S |-> IF s = {} THEN 0 ELSE Weight[cast[First(s)].by] + g[s \ {First(s)}]]

(* WeightOf looks up a table, like every sum.                              *)
LEMMA WeightOfTable ==
  ASSUME NEW S
  PROVE  WeightOf(S) = (CHOOSE g : IsWeightTable(g, S))[S]
  BY DEF WeightOf, MapThenSumSet, MapThenFoldSet, IsWeightTable, First

(* The weight of a set of votes is the sum of their voters' weights.       *)
LEMMA WeightIsSum ==
  ASSUME NEW S \in SUBSET VoteIds, IsFiniteSet(S)
  PROVE  WeightOf(S) = SumOf(VoteWeight, S)
  <1>1. ASSUME NEW g PROVE IsWeightTable(g, S) <=> IsSum(g, VoteWeight, S)
    <2>1. \A s \in SUBSET S : s # {} => VoteWeight[First(s)] = Weight[cast[First(s)].by]
      <3>1. \A s \in SUBSET S : s # {} => First(s) \in VoteIds
        BY DEF First
      <3> QED
        BY <3>1 DEF VoteWeight
    <2> DEFINE A(s) == IF s = {} THEN 0 ELSE Weight[cast[First(s)].by] + g[s \ {First(s)}]
               B(s) == IF s = {} THEN 0 ELSE VoteWeight[First(s)] + g[s \ {First(s)}]
    <2>2. \A s \in SUBSET S : A(s) = B(s)
      BY <2>1
    <2>3. IsWeightTable(g, S) <=> g = [s \in SUBSET S |-> A(s)]
      BY DEF IsWeightTable
    <2>4. IsSum(g, VoteWeight, S) <=> g = [s \in SUBSET S |-> B(s)]
      BY DEF IsSum
    <2> HIDE DEF A, B
    <2>5. [s \in SUBSET S |-> A(s)] = [s \in SUBSET S |-> B(s)]
      BY <2>2
    <2> QED
      BY <2>3, <2>4, <2>5
  <1>2. PICK h : IsSum(h, VoteWeight, S)
    BY SumExists
  <1> DEFINE g1 == CHOOSE g : IsWeightTable(g, S)
             g2 == CHOOSE g : IsSum(g, VoteWeight, S)
  <1>3. IsWeightTable(g1, S)
    BY <1>1, <1>2
  <1>4. IsSum(g2, VoteWeight, S)
    BY <1>2
  <1>5. IsSum(g1, VoteWeight, S)
    BY <1>1, <1>3
  <1> HIDE DEF g1, g2
  <1>6. g1 = g2
    BY <1>4, <1>5, SumUnique
  <1>7. WeightOf(S) = g1[S] /\ SumOf(VoteWeight, S) = g2[S]
    BY WeightOfTable, SumIsSum DEF g1, g2
  <1> QED
    BY <1>6, <1>7

(* The votes cast are numbered and finitely many.                          *)
LEMMA VotesAre ==
  ASSUME GovernanceTypeOK
  PROVE  /\ VoteIds = 1 .. Len(cast) /\ Len(cast) \in Nat /\ IsFiniteSet(VoteIds)
         /\ \A n \in VoteIds : cast[n].by \in Voters /\ cast[n].at \in Nat /\ VoteWeight[n] \in Nat
  <1> DEFINE Vote == [of : Proposals, by : Voters, at : 0 .. MaxTime,
                      outcome : Outcomes, signal : Signals]
  <1>1. cast \in Seq(Vote)
    BY DEF GovernanceTypeOK
  <1>2. VoteIds = 1 .. Len(cast) /\ Len(cast) \in Nat
    BY <1>1, LenProperties DEF VoteIds
  <1>3. IsFiniteSet(VoteIds)
    <2>1. IsFiniteSet(1 .. Len(cast))
      BY <1>2, FS_Interval
    <2> QED
      BY <1>2, <2>1
  <1>4. ASSUME NEW n \in VoteIds
        PROVE  cast[n].by \in Voters /\ cast[n].at \in Nat /\ VoteWeight[n] \in Nat
    <2>1. n \in 1 .. Len(cast)
      BY <1>2
    <2>2. cast[n] \in Vote
      <3> HIDE DEF Vote
      <3> QED
        BY <1>1, <2>1, ElementOfSeq
    <2>3. cast[n].by \in Voters /\ cast[n].at \in Nat
      BY <2>2, GovernanceAssumption
    <2>4. VoteWeight[n] \in {1, 4}
      BY <2>3, GovernanceAssumption DEF VoteWeight
    <2> QED
      BY <2>3, <2>4
  <1> QED
    BY <1>2, <1>3, <1>4

(* The weights of votes without a common one add up.                       *)
LEMMA WeightsAdd ==
  ASSUME GovernanceTypeOK, NEW S \in SUBSET VoteIds, NEW T \in SUBSET VoteIds, S \cap T = {}
  PROVE  /\ WeightOf(S) \in Nat /\ WeightOf(T) \in Nat
         /\ WeightOf(S \cup T) = WeightOf(S) + WeightOf(T)
  <1>1. IsFiniteSet(S) /\ IsFiniteSet(T) /\ IsFiniteSet(S \cup T) /\ S \cup T \in SUBSET VoteIds
    BY VotesAre, FS_Subset, FS_Union
  <1>2. /\ WeightOf(S) = SumOf(VoteWeight, S) /\ WeightOf(T) = SumOf(VoteWeight, T)
        /\ WeightOf(S \cup T) = SumOf(VoteWeight, S \cup T)
    BY <1>1, WeightIsSum
  <1>3. \A n \in S \cup T : VoteWeight[n] \in Nat
    BY VotesAre
  <1>4. SumOf(VoteWeight, S) \in Nat /\ SumOf(VoteWeight, T) \in Nat
    BY <1>1, <1>3, SumNatural
  <1>5. SumOf(VoteWeight, S \cup T) = SumOf(VoteWeight, S) + SumOf(VoteWeight, T)
    BY <1>1, <1>3, SumDisjoint
  <1> QED
    BY <1>2, <1>4, <1>5

-----------------------------------------------------------------------------
(* Buckets.                                                                *)

(* The width of a bucket is a number of instants, 0 for an empty window.   *)
LEMMA StepIsNumber ==
  ASSUME NEW w \in Windows
  PROVE  StepOf(w) \in Nat /\ w.start \in Nat /\ w.end \in Nat /\ w.start <= w.end
  <1>1. /\ w.start \in Nat /\ w.end \in Nat /\ w.count \in Nat /\ w.start <= w.end
        /\ w.end - w.start \in Nat
    BY GovernanceAssumption
  <1>2. CASE w.count = 0
    <2> DEFINE S == {s \in Presets : 4 * s <= w.end - w.start} \cup {Min(Presets)}
               R == {p \in S \X S : p[1] > p[2]}
    <2>1. Presets \subseteq Nat /\ Presets # {} /\ IsFiniteSet(Presets)
      BY GovernanceAssumption
    <2>2. S \subseteq Presets /\ S # {}
      BY <2>1, LeastElement
    <2>3. IsFiniteSet(S)
      BY <2>1, <2>2, FS_Subset
    <2>4. \A a, b \in S : <<a, b>> \in R <=> a > b
      OBVIOUS
    <2>5. \A a \in S : a \in Nat
      BY <2>1, <2>2
    <2> HIDE DEF S, R
    <2>6. \A a, b, c \in S : <<a, b>> \in R /\ <<b, c>> \in R => <<a, c>> \in R
      BY <2>4, <2>5
    <2>61. \A a \in S : <<a, a>> \notin R
      BY <2>4, <2>5
    <2>7. \E x \in S : \A y \in S : <<y, x>> \notin R
      BY <2>2, <2>3, <2>6, <2>61, MinimalExists
    <2>8. \E x \in S : \A y \in S : x >= y
      <3>1. PICK x \in S : \A y \in S : <<y, x>> \notin R
        BY <2>7
      <3>2. \A y \in S : ~(y > x) /\ y \in Nat /\ x \in Nat
        BY <2>4, <2>5, <3>1
      <3> QED
        BY <3>2
    <2>9. Max(S) \in S
      BY <2>8 DEF Max
    <2>10. StepOf(w) = Max(S)
      BY <1>2 DEF StepOf, PresetStep, S
    <2> QED
      BY <1>1, <2>5, <2>9, <2>10
  <1>3. CASE w.count # 0
    <2>1. Second \in Nat \ {0} /\ w.count \in Nat \ {0}
      BY <1>1, <1>3, GovernanceAssumption
    <2>2. w.count * Second \in Nat \ {0}
      <3>1. 0 < w.count /\ w.count \in Int /\ Second \in Nat
        BY <2>1
      <3>2. 0 * Second + Second <= w.count * Second
        BY <2>1, <3>1, MulMonotone
      <3>3. w.count * Second \in Int /\ 0 * Second + Second = Second
        BY <3>1
      <3> DEFINE m == w.count * Second
      <3>4. m \in Int /\ Second <= m
        BY <3>2, <3>3
      <3> HIDE DEF m
      <3>5. m \in Nat \ {0}
        BY <2>1, <3>4
      <3> QED
        BY <3>5 DEF m
    <2>3. CeilDiv(w.end - w.start, w.count * Second) \in Nat
      <3> DEFINE m == w.count * Second
                 r == w.end - w.start
      <3>1. m \in Nat \ {0} /\ r \in Int /\ r >= 0
        BY <1>1, <2>2
      <3> HIDE DEF m, r
      <3>2. CeilDiv(r, m) \in Nat
        BY <3>1, CeilFacts
      <3> QED
        BY <3>2 DEF m, r
    <2>4. CeilDiv(w.end - w.start, w.count * Second) * Second \in Nat
      BY <2>1, <2>3
    <2> QED
      BY <1>1, <1>3, <2>4 DEF StepOf
  <1> QED
    BY <1>2, <1>3

(* A vote is in bucket i when it comes after its start and up to its end.  *)
LEMMA IndexFacts ==
  ASSUME NEW w \in Windows, StepOf(w) > 0, NEW t \in Nat, NEW i \in Int
  PROVE  /\ IndexOf(w, t) \in Int
         /\ IndexOf(w, t) <= i <=> t <= w.start + (i + 1) * StepOf(w)
  <1> DEFINE b == StepOf(w)
             q == CeilDiv(t - w.start, b)
  <1>1. b \in Nat \ {0} /\ w.start \in Nat /\ t - w.start \in Int
    BY StepIsNumber
  <1>2. q \in Int /\ q * b - b < t - w.start /\ t - w.start <= q * b
    BY <1>1, CeilFacts
  <1>3. IndexOf(w, t) = q - 1
    BY DEF IndexOf
  <1> HIDE DEF b, q
  <1>4. q * b \in Int /\ (i + 1) * b \in Int
    BY <1>1, <1>2
  <1>5. ASSUME q <= i + 1 PROVE q * b <= (i + 1) * b
    <2>1. CASE q = i + 1
      BY <1>4, <2>1
    <2>2. CASE q < i + 1
      <3>1. q * b + b <= (i + 1) * b
        BY <1>1, <1>2, <2>2, MulMonotone
      <3> QED
        BY <1>1, <1>4, <3>1
    <2> QED
      BY <1>2, <1>5, <2>1, <2>2
  <1>6. ASSUME q > i + 1 PROVE (i + 1) * b + b <= q * b
    BY <1>1, <1>2, <1>6, MulMonotone
  <1>7. q <= i + 1 <=> t - w.start <= (i + 1) * b
    BY <1>1, <1>2, <1>4, <1>5, <1>6
  <1> QED
    BY <1>1, <1>2, <1>3, <1>4, <1>7 DEF b

(* The votes up to an instant. *)
UpTo(p, o, t) == {n \in Funding(cached[p], o) : cast[n].at <= t}

EndOf(w, i) == w.start + (i + 1) * StepOf(w)

(* The running total of bucket i is the weight of the votes up to its end. *)
LEMMA TotalIsUpTo ==
  ASSUME GovernanceTypeOK, NEW p \in Proposals, NEW w \in Windows, NEW o \in Outcomes,
         NEW i \in Buckets(w)
  PROVE  /\ RunningTotal(p, w, o)[i] = WeightOf(UpTo(p, o, EndOf(w, i)))
         /\ WeightOf(UpTo(p, o, EndOf(w, i))) =
              WeightOf(UpTo(p, o, EndOf(w, i - 1))) + WeightOf(InBucket(p, w, o, i))
         /\ WeightOf(UpTo(p, o, EndOf(w, i - 1))) \in Nat
         /\ WeightOf(InBucket(p, w, o, i)) \in Nat
  <1> DEFINE I == {-1} \cup Buckets(w)
             up(j) == WeightOf(UpTo(p, o, EndOf(w, j)))
             body(g, j) == IF j = -1 THEN WeightOf(Base(p, w, o))
                           ELSE g[j - 1] + WeightOf(InBucket(p, w, o, j))
             good(g) == g = [j \in I |-> body(g, j)]
  <1>1. StepOf(w) \in Nat /\ StepOf(w) > 0 /\ w.start \in Nat /\ w.end \in Nat
    BY StepIsNumber DEF Buckets
  <1>2. \A j \in Buckets(w) : j \in Nat /\ j - 1 \in I
    <2>1. (w.end - w.start) \div StepOf(w) \in Int
      BY <1>1, DivFacts
    <2> QED
      BY <1>1, <2>1 DEF Buckets
  <1>3. /\ Funding(cached[p], o) \in SUBSET VoteIds
        /\ \A n \in VoteIds : cast[n].at \in Nat
    BY VotesAre DEF Funding, GovernanceTypeOK
  <1>4. \A n \in VoteIds, j \in Int :
          IndexOf(w, cast[n].at) \in Int /\ (IndexOf(w, cast[n].at) <= j <=> cast[n].at <= EndOf(w, j))
    BY <1>1, <1>3, IndexFacts DEF EndOf
  <1>5. Base(p, w, o) = UpTo(p, o, EndOf(w, -1))
    <2>1. \A n \in VoteIds : IndexOf(w, cast[n].at) < 0 <=> cast[n].at <= EndOf(w, -1)
      <3>1. ASSUME NEW n \in VoteIds, NEW j \in Int, j = -1
            PROVE  IndexOf(w, cast[n].at) < 0 <=> cast[n].at <= EndOf(w, j)
        <4>1. IndexOf(w, cast[n].at) \in Int
          BY <1>4
        <4>2. IndexOf(w, cast[n].at) <= j <=> cast[n].at <= EndOf(w, j)
          BY <1>4
        <4> QED
          BY <3>1, <4>1, <4>2
      <3> QED
        BY <3>1
    <2> QED
      BY <1>3, <2>1 DEF Base, UpTo
  <1>6. ASSUME NEW j \in Buckets(w)
        PROVE  /\ up(j) = up(j - 1) + WeightOf(InBucket(p, w, o, j))
               /\ up(j - 1) \in Nat /\ WeightOf(InBucket(p, w, o, j)) \in Nat
    <2>1. j \in Int /\ j - 1 \in Int
      BY <1>2
    <2>2. \A n \in VoteIds :
            /\ IndexOf(w, cast[n].at) \in Int
            /\ IndexOf(w, cast[n].at) <= j <=> cast[n].at <= EndOf(w, j)
            /\ IndexOf(w, cast[n].at) <= j - 1 <=> cast[n].at <= EndOf(w, j - 1)
      <3> SUFFICES ASSUME NEW n \in VoteIds, NEW k \in Int
                   PROVE  /\ IndexOf(w, cast[n].at) \in Int
                          /\ IndexOf(w, cast[n].at) <= k <=> cast[n].at <= EndOf(w, k)
        BY <2>1
      <3> QED
        BY <1>4
    <2>3. \A n \in VoteIds :
            /\ cast[n].at <= EndOf(w, j) <=> cast[n].at <= EndOf(w, j - 1) \/ IndexOf(w, cast[n].at) = j
            /\ ~(cast[n].at <= EndOf(w, j - 1) /\ IndexOf(w, cast[n].at) = j)
      BY <2>1, <2>2
    <2>4. UpTo(p, o, EndOf(w, j)) = UpTo(p, o, EndOf(w, j - 1)) \cup InBucket(p, w, o, j)
      BY <1>3, <2>3 DEF UpTo, InBucket
    <2>5. /\ UpTo(p, o, EndOf(w, j - 1)) \in SUBSET VoteIds
          /\ InBucket(p, w, o, j) \in SUBSET VoteIds
          /\ UpTo(p, o, EndOf(w, j - 1)) \cap InBucket(p, w, o, j) = {}
      BY <1>3, <2>3 DEF UpTo, InBucket
    <2> QED
      BY <2>4, <2>5, WeightsAdd
  <1>7. good([j \in I |-> up(j)])
    <2> DEFINE g == [j \in I |-> up(j)]
    <2>1. \A j \in I : up(j) = body(g, j)
      <3> SUFFICES ASSUME NEW j \in I PROVE up(j) = body(g, j)
        OBVIOUS
      <3>1. CASE j = -1
        BY <1>5, <3>1
      <3>2. CASE j # -1
        <4>1. j \in Buckets(w) /\ j - 1 \in I
          BY <1>2, <3>2
        <4>2. g[j - 1] = up(j - 1)
          BY <4>1
        <4> QED
          BY <1>6, <3>2, <4>1, <4>2
      <3> QED
        BY <3>1, <3>2
    <2> QED
      BY <2>1
  <1>8. RunningTotal(p, w, o) = CHOOSE g : good(g)
    BY DEF RunningTotal
  <1> DEFINE h == CHOOSE g : good(g)
  <1> HIDE DEF good
  <1>9. good(h)
    BY <1>7
  <1> HIDE DEF h
  <1>10. \A j \in I : h[j] = body(h, j)
    BY <1>9 DEF good
  <1>11. \A j \in Buckets(w) : h[j] = up(j)
    <2> DEFINE bad == {j \in Buckets(w) : h[j] # up(j)}
    <2> SUFFICES ASSUME bad # {} PROVE FALSE
      OBVIOUS
    <2>1. bad \subseteq Nat
      BY <1>2
    <2> DEFINE j == Min(bad)
    <2>2. j \in bad /\ \A k \in bad : j <= k
      BY <2>1, LeastElement
    <2> HIDE DEF j
    <2>3. j \in Buckets(w) /\ j \in Nat /\ j \in I /\ j # -1 /\ j - 1 \in I
      BY <1>2, <2>2
    <2>4. h[j - 1] = up(j - 1)
      <3>1. CASE j - 1 = -1
        <4>1. h[-1] = WeightOf(Base(p, w, o))
          BY <1>10
        <4> QED
          BY <1>5, <3>1, <4>1
      <3>2. CASE j - 1 # -1
        <4>1. j - 1 \in Buckets(w)
          BY <2>3, <3>2
        <4>2. j - 1 \notin bad
          BY <2>2, <2>3
        <4> QED
          BY <4>1, <4>2
      <3> QED
        BY <3>1, <3>2
    <2>5. h[j] = h[j - 1] + WeightOf(InBucket(p, w, o, j))
      BY <1>10, <2>3
    <2>6. h[j] = up(j)
      BY <1>6, <2>3, <2>4, <2>5
    <2> QED
      BY <2>2, <2>6
  <1> QED
    BY <1>6, <1>8, <1>11 DEF h

(* The buckets leave less than one of the window uncovered. *)
LEMMA BucketsCover ==
  ASSUME NEW w \in Windows, StepOf(w) > 0, NEW t \in w.start .. w.end - StepOf(w)
  PROVE  \E i \in Buckets(w) : t < EndOf(w, i)
  <1> DEFINE b == StepOf(w)
             q == (w.end - w.start) \div b
  <1>1. b \in Nat \ {0} /\ w.start \in Nat /\ w.end \in Nat /\ w.end - w.start \in Int
    BY StepIsNumber
  <1>2. q \in Int /\ q * b <= w.end - w.start /\ w.end - w.start < q * b + b
    BY <1>1, DivFacts
  <1> HIDE DEF q
  <1>3. q >= 1
    <2> SUFFICES ASSUME q < 1 PROVE FALSE
      BY <1>2
    <2>1. q * b + b <= 1 * b
      BY <1>1, <1>2, MulMonotone
    <2>2. w.end - w.start < b
      BY <1>1, <1>2, <2>1
    <2> QED
      BY <1>1, <2>2
  <1>4. q - 1 \in Buckets(w)
    BY <1>1, <1>2, <1>3 DEF Buckets, q
  <1>5. t < EndOf(w, q - 1)
    <2>1. EndOf(w, q - 1) = w.start + q * b
      BY <1>2 DEF EndOf
    <2> QED
      BY <1>1, <1>2, <2>1
  <1> QED
    BY <1>4, <1>5

(* The chart is exact in every state that is well typed.                   *)
LEMMA TypedSeriesCountsOnce == GovernanceTypeOK => SeriesCountsOnce
  <1> SUFFICES ASSUME GovernanceTypeOK, NEW p \in Proposals, NEW w \in Windows
               PROVE  /\ \A i \in Buckets(w), o \in Outcomes :
                           /\ Point(p, w, i, TRUE).data[o] = WeightOf(UpTo(p, o, EndOf(w, i)))
                           /\ Point(p, w, i, FALSE).data[o] =
                                WeightOf(UpTo(p, o, EndOf(w, i)))
                                - WeightOf(UpTo(p, o, Point(p, w, i, FALSE).timestamp))
                      /\ \A t \in w.start .. w.end - StepOf(w) :
                           StepOf(w) > 0 => \E i \in Buckets(w) : t < EndOf(w, i)
    BY DEF SeriesCountsOnce, UpTo, EndOf
  <1>1. ASSUME NEW i \in Buckets(w), NEW o \in Outcomes
        PROVE  /\ Point(p, w, i, TRUE).data[o] = WeightOf(UpTo(p, o, EndOf(w, i)))
               /\ Point(p, w, i, FALSE).data[o] =
                    WeightOf(UpTo(p, o, EndOf(w, i)))
                    - WeightOf(UpTo(p, o, Point(p, w, i, FALSE).timestamp))
    <2>1. /\ Point(p, w, i, TRUE).data[o] = RunningTotal(p, w, o)[i]
          /\ Point(p, w, i, FALSE).data[o] = WeightOf(InBucket(p, w, o, i))
          /\ Point(p, w, i, FALSE).timestamp = w.start + i * StepOf(w)
      BY DEF Point
    <2>2. i \in Int
      BY DEF Buckets
    <2>3. EndOf(w, i - 1) = w.start + i * StepOf(w)
      <3>1. (i - 1) + 1 = i
        BY <2>2
      <3> QED
        BY <3>1 DEF EndOf
    <2>4. /\ RunningTotal(p, w, o)[i] = WeightOf(UpTo(p, o, EndOf(w, i)))
          /\ WeightOf(UpTo(p, o, EndOf(w, i))) =
               WeightOf(UpTo(p, o, EndOf(w, i - 1))) + WeightOf(InBucket(p, w, o, i))
          /\ WeightOf(UpTo(p, o, EndOf(w, i - 1))) \in Nat
          /\ WeightOf(InBucket(p, w, o, i)) \in Nat
      BY <1>1, TotalIsUpTo
    <2>5. WeightOf(InBucket(p, w, o, i)) =
            WeightOf(UpTo(p, o, EndOf(w, i))) - WeightOf(UpTo(p, o, EndOf(w, i - 1)))
      BY <2>4
    <2> QED
      BY <2>1, <2>3, <2>4, <2>5, Zenon
  <1> QED
    BY <1>1, BucketsCover

-----------------------------------------------------------------------------
(* Theorems.                                                               *)

\* The node, the indexer's sync and the cache stay well typed: no vote is
\* cached that was not cast, and only proposals are registered.
THEOREM VotesTyping == GovernanceSpec => []GovernanceTypeOK
  <1>1. VotesInv => GovernanceTypeOK
    BY DEF VotesInv
  <1> QED
    BY <1>1, VotesInductive, PTL

\* When the cycle's marker moves, nothing of the last cycle is left, wherever
\* earlier syncs failed or the indexer stopped.
THEOREM CyclesStartEmpty == GovernanceSpec => NewCycleStartsEmpty
  <1>1. VotesInv /\ [GovernanceNext]_governanceVars
        => [cycle' # cycle => registry' = {} /\ \A p \in Proposals : cached'[p] = {}]_governanceVars
    BY VotesStepKeeps DEF NothingCached
  <1> QED
    BY <1>1, VotesInductive, PTL DEF GovernanceSpec, NewCycleStartsEmpty

\* Whatever the cache holds, the votes chart of every window counts every
\* vote of the window in one bucket, cumulative or not, and the buckets leave
\* less than one bucket of it out.
THEOREM SeriesAreExact == GovernanceSpec => []SeriesCountsOnce
  <1>1. GovernanceTypeOK => SeriesCountsOnce
    BY TypedSeriesCountsOnce
  <1> QED
    BY <1>1, VotesTyping, PTL
=============================================================================
