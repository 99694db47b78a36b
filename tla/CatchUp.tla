------------------------------ MODULE CatchUp ------------------------------
(***************************************************************************)
(* BlockProcessor::catch_up: P2P streams fetch ranges of blocks in chunks  *)
(* and push them into bounded channels, a merge thread forwards stream A   *)
(* and then stream B, and the consumer commits batches.  A restart resumes *)
(* above MAX(height) of table blocks.                                      *)
(*                                                                         *)
(* A block is its height here.  Threads interleave freely; a chunk arrives *)
(* in any order and is sorted; a stream can fail whenever it waits for the *)
(* peer; the process can stop anywhere.                                    *)
(***************************************************************************)
EXTENDS Integers, Sequences, FiniteSets

CONSTANTS
  Threshold,     \* PARALLEL_P2P_THRESHOLD
  Prefetch,      \* P2P_PREFETCH_BUFFER
  Chunk,         \* p2p_batch_size
  BatchSize,     \* catch_up_batch_size
  Base,          \* start_height
  MaxTip,        \* bound: the height of the node's chain
  MaxFailures    \* bound: failed streams and stops before the tip

ASSUME CatchUpAssumption ==
  /\ Threshold \in Nat /\ Threshold >= 2
  /\ Prefetch \in Nat \ {0}
  /\ Chunk \in Nat \ {0}
  /\ BatchSize \in Nat \ {0}
  /\ Base \in Nat
  /\ MaxTip \in Nat
  /\ MaxFailures \in Nat

Streams == {"A", "B"}
Merged == "M"           \* the channel the consumer reads

VARIABLES
  nodeTip,     \* get_block_count
  blocks,      \* the heights in table blocks
  run,         \* "down", "fetching", "joining" (P2P handles), "live"
  parallel,    \* the range was split
  from,        \* db_height when catch_up started
  target,      \* chain_height when catch_up started
  stream,      \* stream[s]: "idle", "running", "ended" or "failed"
  next,        \* next[s]: the first height s has not requested
  end,         \* end[s]: the last height of its range
  got,         \* got[s]: the received chunk, not sent yet
  chan,        \* the channels
  mergeFrom,   \* the stream the merge thread drains, or "done"
  pending,     \* the consumer's batch
  last,        \* last_height
  failures,    \* bound counter
  halfFailed   \* history: stream A of a split range has failed

threads == <<stream, next, end, got, chan, mergeFrom, pending, last>>
config == <<parallel, from, target>>
vars == <<nodeTip, blocks, run, config, threads, failures, halfFailed>>

(* get_max_block_height, or start_height while the table is empty *)
DbHeight == IF blocks = {} THEN Base ELSE CHOOSE h \in blocks : \A g \in blocks : g <= h

Least(S) == CHOOSE h \in S : \A g \in S : h <= g

Capacity(c) == IF c = Merged THEN 2 * Chunk ELSE Prefetch

(* mutant: an unbounded channel *)
PushUnbounded(c, h) == chan' = [chan EXCEPT ![c] = Append(chan[c], h)]

Push(c, h) ==
  /\ Len(chan[c]) < Capacity(c)
  /\ chan' = [chan EXCEPT ![c] = Append(chan[c], h)]

(* The channel a stream sends into *)
Output(s) == IF parallel THEN s ELSE Merged

Sending(s) == stream[s] = "running"

-----------------------------------------------------------------------------

Idle ==
  /\ stream = [s \in Streams |-> "idle"]
  /\ next = [s \in Streams |-> 0]
  /\ end = [s \in Streams |-> 0]
  /\ got = [s \in Streams |-> {}]
  /\ chan = [c \in Streams \cup {Merged} |-> <<>>]
  /\ mergeFrom = "done"
  /\ pending = {}
  /\ last = 0

Reset ==
  /\ stream' = [s \in Streams |-> "idle"]
  /\ next' = [s \in Streams |-> 0]
  /\ end' = [s \in Streams |-> 0]
  /\ got' = [s \in Streams |-> {}]
  /\ chan' = [c \in Streams \cup {Merged} |-> <<>>]
  /\ mergeFrom' = "done"
  /\ pending' = {}
  /\ last' = 0

Init ==
  /\ nodeTip \in 0..MaxTip
  /\ blocks = {}
  /\ run = "down"
  /\ parallel = FALSE
  /\ from = Base
  /\ target = Base
  /\ Idle
  /\ failures = 0
  /\ halfFailed = FALSE

NodeMines ==
  /\ nodeTip < MaxTip
  /\ nodeTip' = nodeTip + 1
  /\ UNCHANGED <<blocks, run, config, threads, failures, halfFailed>>

-----------------------------------------------------------------------------
(* Start of catch_up *)

AlreadyUpToDate ==
  /\ run = "down"
  /\ DbHeight >= nodeTip
  /\ run' = "live"
  /\ from' = DbHeight
  /\ target' = nodeTip
  /\ UNCHANGED <<nodeTip, blocks, parallel, threads, failures, halfFailed>>

Begin(split) ==
  /\ run = "down"
  /\ DbHeight < nodeTip
  /\ run' = "fetching"
  /\ parallel' = split
  /\ from' = DbHeight
  /\ target' = nodeTip
  /\ last' = DbHeight
  /\ UNCHANGED <<nodeTip, blocks, got, chan, pending, failures, halfFailed>>

StartSingle ==
  /\ nodeTip - DbHeight < Threshold
  /\ Begin(FALSE)
  /\ stream' = [stream EXCEPT !["A"] = "running"]
  /\ next' = [next EXCEPT !["A"] = DbHeight + 1]
  /\ end' = [end EXCEPT !["A"] = nodeTip]
  /\ mergeFrom' = "done"

(* A = [start..=midpoint], B = [midpoint+1..=chain_height] *)
StartParallel ==
  LET start == DbHeight + 1
      midpoint == start + (nodeTip - DbHeight) \div 2 - 1
  IN
  /\ nodeTip - DbHeight >= Threshold
  /\ Begin(TRUE)
  /\ stream' = [s \in Streams |-> "running"]
  /\ next' = [s \in Streams |-> IF s = "A" THEN start ELSE midpoint + 1]
  /\ end' = [s \in Streams |-> IF s = "A" THEN midpoint ELSE nodeTip]
  /\ mergeFrom' = "A"

-----------------------------------------------------------------------------
(* stream_blocks *)

(* One getdata for the next chunk and all its blocks, sorted by height.    *)
FetchChunk(s) ==
  LET upto == IF next[s] + Chunk - 1 < end[s] THEN next[s] + Chunk - 1 ELSE end[s]
  IN
  /\ Sending(s)
  /\ got[s] = {}
  /\ next[s] <= end[s]
  /\ got' = [got EXCEPT ![s] = next[s] .. upto]
  /\ next' = [next EXCEPT ![s] = upto + 1]
  /\ UNCHANGED <<nodeTip, blocks, run, config, stream, end, chan, mergeFrom,
                 pending, last, failures, halfFailed>>

(* A refused connection, a read timeout, NotFound, a missing header: what  *)
(* was received of the chunk is dropped, and so is the sender.             *)
StreamFails(s) ==
  /\ Sending(s)
  /\ got[s] = {}
  /\ next[s] <= end[s]
  /\ failures < MaxFailures
  /\ failures' = failures + 1
  /\ stream' = [stream EXCEPT ![s] = "failed"]
  /\ halfFailed' = (halfFailed \/ (parallel /\ s = "A"))
  /\ UNCHANGED <<nodeTip, blocks, run, config, next, end, got, chan, mergeFrom,
                 pending, last>>

(* mutant: blocks leave the chunk as they arrived, not sorted *)
SendUnsorted(s) ==
  LET h == CHOOSE h \in got[s] : \A g \in got[s] : g <= h
  IN
  /\ Sending(s)
  /\ got[s] # {}
  /\ Push(Output(s), h)
  /\ got' = [got EXCEPT ![s] = got[s] \ {h}]
  /\ UNCHANGED <<nodeTip, blocks, run, config, stream, next, end, mergeFrom,
                 pending, last, failures, halfFailed>>

Send(s) ==
  LET h == Least(got[s])
  IN
  /\ Sending(s)
  /\ got[s] # {}
  /\ Push(Output(s), h)
  /\ got' = [got EXCEPT ![s] = got[s] \ {h}]
  /\ UNCHANGED <<nodeTip, blocks, run, config, stream, next, end, mergeFrom,
                 pending, last, failures, halfFailed>>

EndStream(s) ==
  /\ Sending(s)
  /\ got[s] = {}
  /\ next[s] > end[s]
  /\ stream' = [stream EXCEPT ![s] = "ended"]
  /\ UNCHANGED <<nodeTip, blocks, run, config, next, end, got, chan, mergeFrom,
                 pending, last, failures, halfFailed>>

-----------------------------------------------------------------------------
(* The merge thread: for item in a_rx, then for item in b_rx *)

Forward(s) ==
  /\ mergeFrom = s
  /\ chan[s] # <<>>
  /\ Len(chan[Merged]) < Capacity(Merged)
  /\ chan' = [chan EXCEPT ![s] = Tail(chan[s]),
                          ![Merged] = Append(chan[Merged], Head(chan[s]))]
  /\ UNCHANGED <<nodeTip, blocks, run, config, stream, next, end, got, mergeFrom,
                 pending, last, failures, halfFailed>>

(* mutant: only a stream that ended well hands over to the next *)
HandOverIfEnded(s) ==
  /\ mergeFrom = s
  /\ chan[s] = <<>>
  /\ stream[s] = "ended"
  /\ mergeFrom' = IF s = "A" THEN "B" ELSE "done"
  /\ UNCHANGED <<nodeTip, blocks, run, config, stream, next, end, got, chan,
                 pending, last, failures, halfFailed>>

(* mutant: the loop stops when it finds the channel empty *)
HandOverIfEmpty(s) ==
  /\ mergeFrom = s
  /\ chan[s] = <<>>
  /\ mergeFrom' = IF s = "A" THEN "B" ELSE "done"
  /\ UNCHANGED <<nodeTip, blocks, run, config, stream, next, end, got, chan,
                 pending, last, failures, halfFailed>>

(* The iterator stops when the channel is empty and its sender is dropped, *)
(* be it because the stream ended or because it failed.                    *)
HandOver(s) ==
  /\ mergeFrom = s
  /\ chan[s] = <<>>
  /\ ~Sending(s)
  /\ mergeFrom' = IF s = "A" THEN "B" ELSE "done"
  /\ UNCHANGED <<nodeTip, blocks, run, config, stream, next, end, got, chan,
                 pending, last, failures, halfFailed>>

-----------------------------------------------------------------------------
(* The consumer loop *)

(* A block at or below last_height is skipped; a full batch is written and *)
(* committed in one database transaction.                                  *)
Consume ==
  LET h == Head(chan[Merged])
      batch == pending \cup {h}
      full == Cardinality(batch) >= BatchSize
  IN
  /\ run = "fetching"
  /\ chan[Merged] # <<>>
  /\ chan' = [chan EXCEPT ![Merged] = Tail(chan[Merged])]
  /\ IF h <= last
       THEN UNCHANGED <<blocks, pending, last>>
       ELSE /\ last' = h
            /\ pending' = IF full THEN {} ELSE batch
            /\ blocks' = IF full THEN blocks \cup batch ELSE blocks
  /\ UNCHANGED <<nodeTip, run, config, stream, next, end, got, mergeFrom,
                 failures, halfFailed>>

(* Every sender of the merged channel is gone. *)
Disconnected ==
  IF parallel THEN mergeFrom = "done" ELSE ~Sending("A")

(* mutant: the partial last batch is not written *)
CommitNothing ==
  /\ run = "fetching"
  /\ chan[Merged] = <<>>
  /\ Disconnected
  /\ pending' = {}
  /\ run' = "joining"
  /\ UNCHANGED <<nodeTip, blocks, config, stream, next, end, got, chan, mergeFrom, last,
                 failures, halfFailed>>

CommitRest ==
  /\ run = "fetching"
  /\ chan[Merged] = <<>>
  /\ Disconnected
  /\ blocks' = blocks \cup pending
  /\ pending' = {}
  /\ run' = "joining"
  /\ UNCHANGED <<nodeTip, config, stream, next, end, got, chan, mergeFrom, last,
                 failures, halfFailed>>

(* mutant: the handles are not awaited *)
JoinBlindly ==
  /\ run = "joining"
  /\ run' = "live"
  /\ Reset
  /\ UNCHANGED <<nodeTip, blocks, config, failures, halfFailed>>

(* Await the P2P handles; an error ends the process (exit(1) in main).     *)
Join ==
  /\ run = "joining"
  /\ run' = IF \E s \in Streams : stream[s] = "failed" THEN "down" ELSE "live"
  /\ Reset
  /\ UNCHANGED <<nodeTip, blocks, config, failures, halfFailed>>

-----------------------------------------------------------------------------
(* A crash, a failed write_batch or a full disk: all threads are gone, and *)
(* so is what was not committed.                                           *)
Crash ==
  /\ run \in {"fetching", "joining"}
  /\ failures < MaxFailures
  /\ failures' = failures + 1
  /\ run' = "down"
  /\ Reset
  /\ UNCHANGED <<nodeTip, blocks, config, halfFailed>>

(* A deployment, or a crash of the live loop *)
Restart ==
  /\ run = "live"
  /\ run' = "down"
  /\ UNCHANGED <<nodeTip, blocks, config, threads, failures, halfFailed>>

Startup == AlreadyUpToDate \/ StartSingle \/ StartParallel

StreamStep(s) == FetchChunk(s) \/ StreamFails(s) \/ Send(s) \/ EndStream(s)

MergeStep == \E s \in Streams : Forward(s) \/ HandOver(s)

ConsumerStep == Consume \/ CommitRest \/ Join

Next ==
  \/ NodeMines
  \/ Startup
  \/ \E s \in Streams : StreamStep(s)
  \/ MergeStep
  \/ ConsumerStep
  \/ Crash
  \/ Restart

(* The container restarts unless stopped; reads from a peer time out.      *)
Fairness ==
  /\ WF_vars(Startup)
  /\ \A s \in Streams : WF_vars(StreamStep(s))
  /\ WF_vars(MergeStep)
  /\ WF_vars(ConsumerStep)

Spec == Init /\ [][Next]_vars /\ Fairness

-----------------------------------------------------------------------------
(* Properties *)

TypeOK ==
  /\ nodeTip \in 0..MaxTip
  /\ blocks \subseteq 1..MaxTip
  /\ run \in {"down", "fetching", "joining", "live"}
  /\ parallel \in BOOLEAN
  /\ from \in Nat /\ target \in Nat /\ last \in Nat
  /\ stream \in [Streams -> {"idle", "running", "ended", "failed"}]
  /\ next \in [Streams -> Nat] /\ end \in [Streams -> Nat]
  /\ got \in [Streams -> SUBSET (1..MaxTip)]
  /\ chan \in [Streams \cup {Merged} -> Seq(1..MaxTip)]
  /\ \A c \in DOMAIN chan : Len(chan[c]) <= Capacity(c)
  /\ mergeFrom \in Streams \cup {"done"}
  /\ pending \subseteq 1..MaxTip /\ Cardinality(pending) < BatchSize
  /\ failures \in 0..MaxFailures
  /\ halfFailed \in BOOLEAN

(* catch_up.rs:141-143: whatever order chunks arrive in and whichever      *)
(* stream is ahead, the consumer sees a strictly ascending sequence, so    *)
(* that skipping a height at or below last_height never loses a block.     *)
MergedAscends ==
  run = "fetching" =>
    \A i \in DOMAIN chan[Merged] :
      chan[Merged][i] > IF i = 1 THEN last ELSE chan[Merged][i - 1]

(* A catch-up that returns Ok has indexed all of its range: no block is    *)
(* lost between the two streams, the channels and the partial last batch.  *)
OkMeansComplete == run = "live" => from + 1 .. target \subseteq blocks

(* The table has no gap unless stream A of a split range has failed: a     *)
(* crash at any step, or a failure of stream B, is repaired by a restart.  *)
GapOnlyFromHalf == ~halfFailed => blocks = Base + 1 .. DbHeight

(* p2p.rs:195-197: insertion order "prevents data gaps if                  *)
(* get_max_block_height is used on restart".                               *)
NoGapOnRestart == run = "down" => blocks = Base + 1 .. DbHeight

(* The bounded channels cannot deadlock the streams, the merge thread and  *)
(* the consumer, whichever stream is slow or fails.                        *)
CatchUpEnds == run = "fetching" ~> run \in {"live", "down"}

(* With finitely many failures the indexer keeps reaching live indexing,   *)
(* and then the tip it aimed at is in the table.                           *)
ReachesTip == []<>(run = "live" /\ (target > Base => target \in blocks))

(* On the single path the table refines the promise of stream_blocks.      *)
Prefix == INSTANCE IndexPrefix WITH Base <- Base, blocks <- blocks
PrefixSpec == Prefix!Spec

=============================================================================
