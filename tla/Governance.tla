------------------------------ MODULE Governance ------------------------------
(***************************************************************************)
(* The votes of governance proposals on their way from the node to the     *)
(* vote chart: the indexer's sync_governance keeps them in Redis for one   *)
(* superblock cycle, and the API's getProposalVoteSeries puts them in      *)
(* buckets of time.                                                        *)
(*                                                                         *)
(* Every command to Redis and every call of the node is a step of its own; *)
(* masternodes go on voting between them. A vote's id, for its vote_hash,  *)
(* is its place in the order of casting.                                   *)
(***************************************************************************)
EXTENDS Integers, Sequences, FiniteSets, FiniteSetsExt

CONSTANTS
    Proposals,
    Voters,         \* masternodes
    Weight,         \* voter -> its votes: 4 of an Evo masternode, else 1
    Outcomes,       \* yes, no, abstain
    Signals,        \* "funding" and others
    SuperblockInterval,
    FirstHeight,    \* the table's height when the indexer starts
    MaxHeight,      \* bound on the chain
    MaxVotes,       \* bound on votes
    MaxSyncFaults,  \* bound on failed calls and crashes, and on failed reads
    Second,         \* instants of a second: votes have whole seconds
    Presets,        \* enum Intervals, in instants
    MaxTime,        \* bound on the times of votes
    Windows         \* what the chart is asked for: [start, end, count], count 0
                    \* when the caller gives no intervals_count

ASSUME GovernanceAssumption ==
    /\ Weight \in [Voters -> {1, 4}]
    /\ "funding" \in Signals
    /\ SuperblockInterval \in Nat \ {0} /\ Second \in Nat \ {0}
    /\ Presets \subseteq Nat \ {0} /\ IsFiniteSet(Presets) /\ Presets # {}
    /\ FirstHeight \in Nat /\ FirstHeight <= MaxHeight
    /\ {MaxHeight, MaxVotes, MaxSyncFaults, MaxTime} \subseteq Nat
    /\ Windows \subseteq {w \in [start : Nat, end : Nat, count : Nat] :
                             w.start <= w.end /\ w.count # 1}

VARIABLES
    cast,       \* votes in the order of casting: [of, by, at, outcome, signal]
    objects,    \* the proposals the node lists
    height,     \* MAX(blocks.height)
    cycle,      \* Redis dao:cycle
    registry,   \* Redis dao:proposals
    cached,     \* Redis dao:votes: proposal -> ids of votes
    task,       \* sync_governance: [at, tip, todo, of, got]
    syncFaults, \* calls that will yet fail
    upToDate    \* history: the node has not changed since the last sync began,
                \* and that sync has not failed

governanceVars == <<cast, objects, height, cycle, registry, cached, task, syncFaults, upToDate>>

NoCycle == -1
VoteIds == DOMAIN cast
CycleOf(h) == h \div SuperblockInterval

NoTask == [at |-> "idle", tip |-> 0, todo |-> {}, of |-> {}, got |-> {}]

GovernanceTypeOK ==
    /\ cast \in Seq([of : Proposals, by : Voters, at : 0 .. MaxTime,
                     outcome : Outcomes, signal : Signals])
    /\ objects \subseteq Proposals
    /\ height \in FirstHeight .. MaxHeight
    /\ cycle \in {NoCycle} \cup {CycleOf(h) : h \in 0 .. MaxHeight}
    /\ registry \subseteq Proposals
    /\ cached \in [Proposals -> SUBSET VoteIds]
    /\ task \in [at : {"idle", "cycle", "keys", "drop", "mark", "objects", "register",
                       "votes", "insert"},
                 tip : 0 .. MaxHeight, todo : SUBSET Proposals, of : SUBSET Proposals,
                 got : SUBSET VoteIds]
    /\ syncFaults \in 0 .. MaxSyncFaults
    /\ upToDate \in BOOLEAN

(***************************************************************************)
(* The node.                                                               *)
(***************************************************************************)
\* "Each call returns one entry per voting masternode": a later vote on the
\* same question replaces an earlier one.
CurrentVotes(p) ==
    {n \in VoteIds :
        /\ cast[n].of = p
        /\ ~\E m \in VoteIds :
               m > n /\ cast[m].of = p /\ cast[m].by = cast[n].by
                     /\ cast[m].signal = cast[n].signal}

WeightOf(votes) == MapThenSumSet(LAMBDA n : Weight[cast[n].by], votes)

Funding(votes, o) == {n \in votes : cast[n].signal = "funding" /\ cast[n].outcome = o}

\* The proposal's vote count: fundingResult.
FundingResult(p) == [o \in Outcomes |-> WeightOf(Funding(CurrentVotes(p), o))]

CastVote(p, v) ==
    /\ p \in objects
    /\ Len(cast) < MaxVotes
    /\ \E t \in 0 .. MaxTime, o \in Outcomes, s \in Signals :
        /\ t % Second = 0
        /\ \A n \in VoteIds : cast[n].by = v => cast[n].at < t
        /\ cast' = Append(cast, [of |-> p, by |-> v, at |-> t, outcome |-> o, signal |-> s])
    /\ upToDate' = FALSE
    /\ UNCHANGED <<objects, height, cycle, registry, cached, task, syncFaults>>

\* The node drops a proposal whose payment is past.
Expire(p) ==
    /\ p \in objects
    /\ objects' = objects \ {p}
    /\ upToDate' = FALSE
    /\ UNCHANGED <<cast, height, cycle, registry, cached, task, syncFaults>>

(***************************************************************************)
(* sync_governance.                                                        *)
(***************************************************************************)
BeginSync(tip) ==
    /\ task' = [NoTask EXCEPT !.at = "cycle", !.tip = tip]
    /\ upToDate' = TRUE

\* A live block is indexed. A tip that cannot be read counts as 0.
IndexBlock ==
    /\ task.at = "idle"
    /\ height < MaxHeight
    /\ height' = height + 1
    /\ \/ BeginSync(height') /\ UNCHANGED syncFaults
       \/ syncFaults > 0 /\ syncFaults' = syncFaults - 1 /\ BeginSync(0)
    /\ UNCHANGED <<cast, objects, cycle, registry, cached>>

\* The indexer has started, or started again, and caught up.
Bootstrap ==
    /\ task.at = "idle"
    /\ BeginSync(height)
    /\ UNCHANGED <<cast, objects, height, cycle, registry, cached, syncFaults>>

\* get_cycle: another cycle's objects are dropped first.
ReadCycle ==
    /\ task.at = "cycle"
    /\ task' = [task EXCEPT !.at =
            IF cycle \in {NoCycle, CycleOf(task.tip)} THEN "mark" ELSE "keys"]
    /\ UNCHANGED <<cast, objects, height, cycle, registry, cached, syncFaults, upToDate>>

\* mutant: the registry is taken away as it is read.
ReadKeysAway ==
    /\ task.at = "keys"
    /\ registry' = {}
    /\ task' = [task EXCEPT !.at = "drop", !.todo = registry]
    /\ UNCHANGED <<cast, objects, height, cycle, cached, syncFaults, upToDate>>

\* flush: HKEYS of the registry, DEL of each proposal's votes, DEL of the
\* registry.
ReadKeys ==
    /\ task.at = "keys"
    /\ task' = [task EXCEPT !.at = "drop", !.todo = registry]
    /\ UNCHANGED <<cast, objects, height, cycle, registry, cached, syncFaults, upToDate>>

DropVotes(p) ==
    /\ task.at = "drop"
    /\ p \in task.todo
    /\ cached' = [cached EXCEPT ![p] = {}]
    /\ task' = [task EXCEPT !.todo = @ \ {p}]
    /\ UNCHANGED <<cast, objects, height, cycle, registry, syncFaults, upToDate>>

DropRegistry ==
    /\ task.at = "drop"
    /\ task.todo = {}
    /\ registry' = {}
    /\ task' = [task EXCEPT !.at = "mark"]
    /\ UNCHANGED <<cast, objects, height, cycle, cached, syncFaults, upToDate>>

\* set_cycle.
MarkCycle ==
    /\ task.at = "mark"
    /\ cycle' = CycleOf(task.tip)
    /\ task' = [task EXCEPT !.at = "objects"]
    /\ UNCHANGED <<cast, objects, height, registry, cached, syncFaults, upToDate>>

\* gobject list: without a proposal there is nothing to do.
ReadObjects ==
    /\ task.at = "objects"
    /\ \/ objects = {} /\ task' = NoTask
       \/ objects # {} /\ task' = [task EXCEPT !.at = "register", !.todo = objects]
    /\ UNCHANGED <<cast, objects, height, cycle, registry, cached, syncFaults, upToDate>>

\* upsert_proposals.
RegisterProposals ==
    /\ task.at = "register"
    /\ registry' = registry \cup task.todo
    /\ task' = [task EXCEPT !.at = "votes"]
    /\ UNCHANGED <<cast, objects, height, cycle, cached, syncFaults, upToDate>>

\* gobject getcurrentvotes: the next proposal's, in the order of a hash map.
\* The call fails for a proposal that the node has dropped meanwhile.
ReadVotes(p) ==
    /\ task.at = "votes"
    /\ p \in task.todo
    /\ \/ /\ p \in objects
          /\ task' = [task EXCEPT !.at = "insert", !.todo = @ \ {p}, !.of = {p},
                                  !.got = CurrentVotes(p)]
          /\ UNCHANGED upToDate
       \/ /\ p \notin objects
          /\ task' = NoTask
          /\ upToDate' = FALSE
    /\ UNCHANGED <<cast, objects, height, cycle, registry, cached, syncFaults>>

\* insert_votes: HSET under the votes' hashes.
InsertVotes ==
    /\ task.at = "insert"
    /\ cached' = [p \in Proposals |-> IF p \in task.of THEN cached[p] \cup task.got ELSE cached[p]]
    /\ task' = [task EXCEPT !.at = "votes", !.of = {}, !.got = {}]
    /\ UNCHANGED <<cast, objects, height, cycle, registry, syncFaults, upToDate>>

FinishSync ==
    /\ task.at = "votes"
    /\ task.todo = {}
    /\ task' = NoTask
    /\ UNCHANGED <<cast, objects, height, cycle, registry, cached, syncFaults, upToDate>>

\* A call fails, or the indexer stops: what is done stays.
AbortSync ==
    /\ task.at # "idle"
    /\ syncFaults > 0
    /\ syncFaults' = syncFaults - 1
    /\ task' = NoTask
    /\ upToDate' = FALSE
    /\ UNCHANGED <<cast, objects, height, cycle, registry, cached>>

GovernanceInit ==
    /\ cast = <<>>
    /\ objects = Proposals
    /\ height = FirstHeight
    /\ cycle = NoCycle
    /\ registry = {}
    /\ cached = [p \in Proposals |-> {}]
    /\ task = NoTask
    /\ syncFaults = MaxSyncFaults
    /\ upToDate = FALSE

GovernanceNext ==
    \/ \E p \in Proposals, v \in Voters : CastVote(p, v)
    \/ \E p \in Proposals : Expire(p) \/ DropVotes(p) \/ ReadVotes(p)
    \/ IndexBlock
    \/ Bootstrap
    \/ ReadCycle
    \/ ReadKeys
    \/ DropRegistry
    \/ MarkCycle
    \/ ReadObjects
    \/ RegisterProposals
    \/ InsertVotes
    \/ FinishSync
    \/ AbortSync

GovernanceSpec == GovernanceInit /\ [][GovernanceNext]_governanceVars

(***************************************************************************)
(* The chart.                                                              *)
(***************************************************************************)
CeilDiv(a, b) == -((-a) \div b)

\* calculateInterval: the largest preset of which four fit, or the smallest.
PresetStep(range) == Max({s \in Presets : 4 * s <= range} \cup {Min(Presets)})

\* The width of a bucket, in whole seconds when the caller gives their number.
StepOf(w) ==
    IF w.count = 0 THEN PresetStep(w.end - w.start)
    ELSE CeilDiv(w.end - w.start, w.count * Second) * Second

\* The buckets that end inside the window.
Buckets(w) == 0 .. (IF StepOf(w) > 0 THEN (w.end - w.start) \div StepOf(w) ELSE 0) - 1

\* mutant: a vote on the edge goes to the bucket that starts there.
IndexFrom(w, t) == (t - w.start) \div StepOf(w)

IndexOf(w, t) == CeilDiv(t - w.start, StepOf(w)) - 1

\* What getProposalVoteSeries counts in bucket i, and before the first.
InBucket(p, w, o, i) == {n \in Funding(cached[p], o) : IndexOf(w, cast[n].at) = i}

Base(p, w, o) == {n \in Funding(cached[p], o) : IndexOf(w, cast[n].at) < 0}

RunningTotal(p, w, o) ==
    LET total[i \in {-1} \cup Buckets(w)] ==
            IF i = -1 THEN WeightOf(Base(p, w, o))
            ELSE total[i - 1] + WeightOf(InBucket(p, w, o, i))
    IN  total

\* The point of bucket i: its start, and its counts.
Point(p, w, i, running) ==
    [timestamp |-> w.start + i * StepOf(w),
     data |-> [o \in Outcomes |-> IF running THEN RunningTotal(p, w, o)[i]
                                  ELSE WeightOf(InBucket(p, w, o, i))]]

(***************************************************************************)
(* Properties.                                                             *)
(***************************************************************************)
\* The cache belongs to one cycle: when the marker moves to another, no
\* proposal and no vote of the last one is left, whatever step of whatever
\* earlier sync failed. It rests on the order of the commands: proposals are
\* registered before their votes, votes are dropped before the registry that
\* names them, and both before the marker.
NewCycleStartsEmpty ==
    [][cycle' # cycle => registry' = {} /\ \A p \in Proposals : cached'[p] = {}]_governanceVars

\* The chart counts every cached vote once, for windows of any width and any
\* choice of buckets: a bucket holds the votes after its start up to its end,
\* and the running total all the votes up to its end, those before the window
\* included; buckets follow one another from the window's start and leave
\* less than one bucket of it uncovered.
SeriesCountsOnce ==
    \A p \in {q \in Proposals : cached[q] # {}}, w \in Windows :
        LET until(i) == w.start + (i + 1) * StepOf(w)
            upTo(o, t) == WeightOf({n \in Funding(cached[p], o) : cast[n].at <= t})
        IN  /\ \A i \in Buckets(w), o \in Outcomes :
                /\ Point(p, w, i, TRUE).data[o] = upTo(o, until(i))
                /\ Point(p, w, i, FALSE).data[o] =
                       upTo(o, until(i)) - upTo(o, Point(p, w, i, FALSE).timestamp)
            /\ \A t \in w.start .. w.end - StepOf(w) :
                StepOf(w) > 0 => \E i \in Buckets(w) : t < until(i)

\* "A windowed runningTotal series ends at the all-time tally (matching the
\* proposal's vote counts)" (GovernanceDAO): when the indexer has synced
\* everything and no vote is later than the last bucket, the last point has
\* the counts that the node has.
SeriesEndsAtTally ==
    task.at = "idle" /\ upToDate =>
        \A w \in Windows, p \in objects :
            LET last == Max(Buckets(w))
            IN  Buckets(w) # {} /\ (\A n \in VoteIds : IndexOf(w, cast[n].at) <= last)
                => Point(p, w, last, TRUE).data = FundingResult(p)
=============================================================================
