------------------------------ MODULE LiveSync ------------------------------
(***************************************************************************)
(* The live loop (continuous_indexing), the polling task and the hashblock *)
(* notifications, over table blocks.  A block is its height and the branch *)
(* it was mined on, which together stand for its hash.  A start commits    *)
(* what catch_up is shown to commit: a prefix of the missing range         *)
(* (IndexPrefix; what a split range does instead is in CatchUp).           *)
(***************************************************************************)
EXTENDS Integers, Sequences

CONSTANTS
  StartHeight,   \* start_height
  QueueLength,   \* notifications ZMQ and the channel of 32 can hold
  MaxTip,        \* bound: the height of the node's chain
  MaxReorgs,     \* bound: reorganisations
  MaxFailures    \* bound: failed calls and panics of the poller

ASSUME LiveAssumption ==
  /\ StartHeight \in Nat
  /\ QueueLength \in Nat \ {0}
  /\ MaxTip \in Nat /\ MaxReorgs \in Nat /\ MaxFailures \in Nat

VARIABLES
  chain,       \* chain[h]: the branch of the node's block at height h
  branch,      \* the branch new blocks are mined on
  indexed,     \* table blocks: height -> branch
  notices,     \* hashblock notifications on their way
  main,        \* "down", "select" or "indexing" (inside index_new_blocks)
  cursor,      \* height of index_new_blocks' loop
  upto,        \* its chain_height
  poller,      \* "off", "waiting", "read", "sending" or "dead"
  seen,        \* chain_height the polling task has read
  polled,      \* the poll channel (capacity 1) holds a message
  failures,    \* bound counter
  failed,      \* history: heights whose indexing failed in the live loop
  jumped,      \* history: heights a notification went past
  replaced     \* history: heights a reorganisation replaced

node == <<chain, branch, replaced>>
looping == <<main, cursor, upto>>
polling == <<poller, seen, polled>>
history == <<failed, jumped>>
vars == <<node, indexed, notices, looping, polling, failures, history>>

(* get_max_block_height: 0 while the table is empty *)
MaxBlockHeight ==
  IF DOMAIN indexed = {} THEN 0
  ELSE CHOOSE h \in DOMAIN indexed : \A g \in DOMAIN indexed : g <= h

(* Where catch_up resumes *)
ResumeHeight == IF MaxBlockHeight = 0 THEN StartHeight ELSE MaxBlockHeight

Add(table, h, b) == [g \in DOMAIN table \cup {h} |-> IF g = h THEN b ELSE table[g]]

Failing == failures < MaxFailures /\ failures' = failures + 1

-----------------------------------------------------------------------------

Init ==
  /\ chain \in {[h \in 1..n |-> 0] : n \in StartHeight..MaxTip}
  /\ branch = 0
  /\ indexed = [h \in {} |-> 0]
  /\ notices = <<>>
  /\ main = "down" /\ cursor = 0 /\ upto = 0
  /\ poller = "off" /\ seen = 0 /\ polled = FALSE
  /\ failures = 0
  /\ failed = {} /\ jumped = {} /\ replaced = {}

-----------------------------------------------------------------------------
(* The node notifies its new tip; a notification is lost while the indexer *)
(* is not subscribed, or at the high-water mark.                           *)

(* mutant: an unbounded channel *)
NotifyUnbounded ==
  \/ UNCHANGED notices
  \/ /\ main # "down"
     /\ notices' = Append(notices, [height |-> Len(chain'), on |-> branch'])

Notify ==
  \/ UNCHANGED notices
  \/ /\ main # "down"
     /\ Len(notices) < QueueLength
     /\ notices' = Append(notices, [height |-> Len(chain'), on |-> branch'])

NodeMines ==
  /\ Len(chain) < MaxTip
  /\ chain' = Append(chain, branch)
  /\ UNCHANGED <<branch, replaced, indexed, looping, polling, failures, history>>
  /\ Notify

(* The last `depth` blocks give way to a longer branch. *)
NodeReorganises(depth) ==
  LET fork == Len(chain) - depth
  IN
  /\ branch < MaxReorgs
  /\ fork >= StartHeight
  /\ Len(chain) < MaxTip
  /\ branch' = branch + 1
  /\ chain' = [h \in 1..Len(chain) + 1 |-> IF h <= fork THEN chain[h] ELSE branch + 1]
  /\ replaced' = replaced \cup fork + 1 .. Len(chain)
  /\ Notify
  /\ UNCHANGED <<indexed, looping, polling, failures, history>>

-----------------------------------------------------------------------------
(* Start and stop of the process *)

(* catch_up commits `count` blocks.  Short of the tip it has failed, and   *)
(* the process exits; at the tip the live loop and the poller start.       *)
CatchUp(count) ==
  LET reached == ResumeHeight + count
  IN
  /\ main = "down"
  /\ reached <= Len(chain)
  /\ indexed' = [h \in DOMAIN indexed \cup (ResumeHeight + 1 .. reached) |->
                   IF h \in DOMAIN indexed THEN indexed[h] ELSE chain[h]]
  /\ IF reached = Len(chain)
       THEN /\ main' = "select"
            /\ poller' = "waiting"
            /\ UNCHANGED failures
       ELSE /\ Failing
            /\ UNCHANGED <<main, poller>>
  /\ UNCHANGED <<node, notices, cursor, upto, seen, polled, history>>

(* A panic of the main task, a kill, or an operator's restart *)
Crash ==
  /\ main # "down"
  /\ main' = "down" /\ cursor' = 0 /\ upto' = 0
  /\ poller' = "off" /\ seen' = 0 /\ polled' = FALSE
  /\ notices' = <<>>
  /\ UNCHANGED <<node, indexed, failures, history>>

-----------------------------------------------------------------------------
(* polling_loop *)

PollReadsChain ==
  /\ poller = "waiting"
  /\ seen' = Len(chain)
  /\ poller' = "read"
  /\ UNCHANGED <<node, indexed, notices, looping, polled, failures, history>>

(* mutant: one missing block does not count as behind *)
PollReadsTableLate ==
  /\ poller = "read"
  /\ poller' = IF seen > MaxBlockHeight + 1 THEN "sending" ELSE "waiting"
  /\ seen' = 0
  /\ UNCHANGED <<node, indexed, notices, looping, polled, failures, history>>

PollReadsTable ==
  /\ poller = "read"
  /\ poller' = IF seen > MaxBlockHeight THEN "sending" ELSE "waiting"
  /\ seen' = 0
  /\ UNCHANGED <<node, indexed, notices, looping, polled, failures, history>>

(* expect panics: the task is gone, the process is not. *)
PollPanics ==
  /\ poller = "read"
  /\ Failing
  /\ poller' = "dead"
  /\ seen' = 0
  /\ UNCHANGED <<node, indexed, notices, looping, polled, history>>

(* send waits while the channel is full. *)
PollSends ==
  /\ poller = "sending"
  /\ ~polled
  /\ polled' = TRUE
  /\ poller' = "waiting"
  /\ UNCHANGED <<node, indexed, notices, looping, seen, failures, history>>

-----------------------------------------------------------------------------
(* index_block_by_hash and process_block *)

(* mutant: the block is stored after the last one, not at its own height *)
StoreNext(h, b) ==
  IF \E g \in DOMAIN indexed : g = h /\ indexed[g] = b
    THEN UNCHANGED <<indexed, failed>>
    ELSE /\ indexed' = Add(indexed, MaxBlockHeight + 1, b)
         /\ UNCHANGED failed

(* A known hash is skipped.  A block at a height that holds another hash   *)
(* violates the primary key: the transaction rolls back, an error is       *)
(* logged.                                                                 *)
Store(h, b) ==
  IF h \in DOMAIN indexed
    THEN /\ failed' = IF indexed[h] = b THEN failed ELSE failed \cup {h}
         /\ UNCHANGED indexed
    ELSE /\ indexed' = Add(indexed, h, b)
         /\ UNCHANGED failed

(* RPC or the database fails: an error is logged. *)
StoreFails(h) ==
  /\ h \notin DOMAIN indexed
  /\ Failing
  /\ failed' = failed \cup {h}
  /\ UNCHANGED indexed

(* The branch Some(hash) of select! *)
HandleNotice ==
  LET notice == Head(notices)
  IN
  /\ main = "select"
  /\ notices # <<>>
  /\ notices' = Tail(notices)
  /\ \/ /\ Store(notice.height, notice.on)
        /\ jumped' = jumped \cup (MaxBlockHeight + 1 .. notice.height - 1)
        /\ UNCHANGED failures
     \/ /\ StoreFails(notice.height)
        /\ UNCHANGED jumped
  /\ UNCHANGED <<node, looping, polling>>

-----------------------------------------------------------------------------
(* index_new_blocks.  A failed read of either height panics: a Crash. *)

(* mutant: only the newest block is fetched *)
BeginAtTip ==
  /\ main = "select"
  /\ polled
  /\ polled' = FALSE
  /\ main' = "indexing"
  /\ upto' = Len(chain)
  /\ cursor' = Len(chain)
  /\ UNCHANGED <<node, indexed, notices, poller, seen, failures, history>>

BeginIndexNew ==
  /\ main = "select"
  /\ polled
  /\ polled' = FALSE
  /\ main' = "indexing"
  /\ upto' = Len(chain)
  /\ cursor' = MaxBlockHeight + 1
  /\ UNCHANGED <<node, indexed, notices, poller, seen, failures, history>>

(* index_block_by_height: the hash is asked when its turn comes.  After a  *)
(* failure the loop goes on with the next height.                          *)
IndexHeight ==
  /\ main = "indexing"
  /\ cursor <= upto
  /\ \/ Store(cursor, chain[cursor]) /\ UNCHANGED failures
     \/ StoreFails(cursor)
  /\ cursor' = cursor + 1
  /\ UNCHANGED <<node, notices, main, upto, polling, jumped>>

EndIndexNew ==
  /\ main = "indexing"
  /\ cursor > upto
  /\ main' = "select"
  /\ cursor' = 0 /\ upto' = 0
  /\ UNCHANGED <<node, indexed, notices, polling, failures, history>>

-----------------------------------------------------------------------------

Starting == \E count \in 0..MaxTip : CatchUp(count)
Poller == PollReadsChain \/ PollReadsTable \/ PollPanics \/ PollSends
Indexing == IndexHeight \/ EndIndexNew

Next ==
  \/ NodeMines
  \/ \E depth \in 1..2 : NodeReorganises(depth)
  \/ Starting
  \/ Crash
  \/ Poller
  \/ HandleNotice
  \/ BeginIndexNew
  \/ Indexing

(* The container restarts, the poll timer ticks, and select! picks among   *)
(* the ready channels at random.                                           *)
Fairness ==
  /\ WF_vars(Starting)
  /\ WF_vars(Poller)
  /\ SF_vars(HandleNotice)
  /\ SF_vars(BeginIndexNew)
  /\ WF_vars(Indexing)

Spec == Init /\ [][Next]_vars /\ Fairness

-----------------------------------------------------------------------------
(* Properties *)

(* The types of the variables. *)
TypeOK ==
  /\ chain \in Seq(0..MaxReorgs) /\ Len(chain) <= MaxTip
  /\ branch \in 0..MaxReorgs
  /\ DOMAIN indexed \subseteq 1..MaxTip
  /\ \A h \in DOMAIN indexed : indexed[h] \in 0..branch
  /\ notices \in Seq([height : 1..MaxTip, on : 0..MaxReorgs]) /\ Len(notices) <= QueueLength
  /\ main \in {"down", "select", "indexing"}
  /\ cursor \in 0..MaxTip + 1 /\ upto \in 0..MaxTip /\ seen \in 0..MaxTip
  /\ poller \in {"off", "waiting", "read", "sending", "dead"}
  /\ polled \in BOOLEAN
  /\ failures \in 0..MaxFailures
  /\ failed \subseteq 1..MaxTip /\ jumped \subseteq 1..MaxTip /\ replaced \subseteq 1..MaxTip

(* process_block writes whatever its hash stands for, also a notified block *)
(* that was replaced meanwhile: the table and the node disagree only at     *)
(* heights a reorganisation replaced, and are never mixed up otherwise.     *)
StaleOnlyReorged ==
  \A h \in DOMAIN indexed : indexed[h] # chain[h] => h \in replaced

(* index_new_blocks and the select! branch leave a hole above start_height  *)
(* in two ways only: indexing that height failed, or a notification of a    *)
(* later block was handled first.  Restarts, reorganisations and the poller *)
(* add none.                                                                *)
GapHasCause ==
  \A h \in StartHeight + 1 .. MaxBlockHeight :
    h \notin DOMAIN indexed => h \in failed \cup jumped

(* Without new failures the live loop reaches the node's tip and stays      *)
(* there (nothing above start_height is missing if the table is empty),     *)
(* with every notification lost and through any number of restarts, as      *)
(* long as polling_loop's task has not panicked.                            *)
TipReached ==
  \/ <>[](poller = "dead")
  \/ <>[](ResumeHeight = Len(chain))

(* "Spawn polling fallback" (main.rs): polling makes up for what the        *)
(* notifications miss, so every block above start_height is indexed.        *)
FallbackCompletes ==
  \A h \in StartHeight + 1 .. MaxTip :
    h <= Len(chain) ~> h \in DOMAIN indexed

(* START_HEIGHT: "Block height to begin indexing from" (README.md).         *)
NothingBelowStart ==
  \A h \in DOMAIN indexed : h >= StartHeight
=============================================================================
