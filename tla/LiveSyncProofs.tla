--------------------------- MODULE LiveSyncProofs ---------------------------
(***************************************************************************)
(* Proofs about LiveSync for every chain, queue length and number of       *)
(* reorganisations, failures and restarts.                                 *)
(*                                                                         *)
(* Gaps are explained because index_new_blocks starts right above          *)
(* MAX(height) and is not interleaved with the other branches of select!:  *)
(* everything between MAX(height) and its cursor has just failed           *)
(* (CursorInv).  Stale blocks are explained because a notification that no *)
(* longer stands for the node's block is one of a replaced height          *)
(* (NoticeInv).                                                            *)
(***************************************************************************)
EXTENDS LiveSync, SequenceTheorems, WellFoundedInduction, TLAPS

ChainInv ==
  /\ Len(chain) >= StartHeight
  /\ \A h \in 1..Len(chain) : chain[h] <= branch
  /\ DOMAIN indexed \subseteq 1..Len(chain)

NoticeInv ==
  \A i \in 1..Len(notices) :
    /\ notices[i].height <= Len(chain)
    /\ notices[i].on <= branch
    /\ notices[i].on # chain[notices[i].height] => notices[i].height \in replaced

Explained(h) == h \in DOMAIN indexed \/ h \in failed \cup jumped

CursorInv ==
  main = "indexing" =>
    /\ upto <= Len(chain)
    /\ cursor >= 1
    /\ \A g \in DOMAIN indexed : g < cursor
    /\ \A h \in StartHeight + 1 .. cursor - 1 : Explained(h)

GapInv ==
  \A g \in DOMAIN indexed : \A h \in StartHeight + 1 .. g : Explained(h)

IInv ==
  /\ TypeOK
  /\ ChainInv
  /\ NoticeInv
  /\ StaleOnlyReorged
  /\ CursorInv
  /\ GapInv

-----------------------------------------------------------------------------

(* A nonempty set of heights has a greatest one.                            *)
LEMMA GreatestHeight ==
  ASSUME NEW n \in Nat, NEW S \in SUBSET (1..n), S # {}
  PROVE  \E h \in S : \A g \in S : g <= h
  <1> DEFINE Bounds == {b \in Nat : \A g \in S : g <= b}
  <1>1. Bounds \subseteq Nat /\ n \in Bounds
    OBVIOUS
  <1>2. PICK b \in Bounds : \A y \in Bounds : ~ (<<y, b>> \in OpToRel(<, Nat))
    BY <1>1, NatLessThanWellFounded, WFMin
  <1>3. \A y \in Bounds : b <= y
    <2> SUFFICES ASSUME NEW y \in Bounds, ~ (b <= y) PROVE FALSE
      OBVIOUS
    <2>1. b \in Nat /\ y \in Nat /\ y < b
      BY <1>1
    <2>2. <<y, b>> \in OpToRel(<, Nat)
      BY <2>1 DEF OpToRel
    <2> QED
      BY <1>2, <2>2
  <1>4. b \in S
    <2>1. SUFFICES ASSUME b \notin S PROVE FALSE
      OBVIOUS
    <2>2. \A g \in S : g \in Int /\ g >= 1 /\ g <= b /\ g # b
      BY <2>1
    <2>3. b - 1 \in Bounds /\ b \in Nat
      <3>1. b \in Nat /\ b >= 1
        <4>1. PICK g \in S : TRUE
          OBVIOUS
        <4>2. b \in Nat
          BY <1>1
        <4> QED
          BY <2>2, <4>1, <4>2
      <3>2. \A g \in S : g <= b - 1
        BY <2>2, <3>1
      <3> QED
        BY <3>1, <3>2
    <2> QED
      BY <1>3, <2>3
  <1> QED
    BY <1>4

LEMMA MaxIsGreatest ==
  ASSUME TypeOK
  PROVE  /\ MaxBlockHeight \in 0..MaxTip
         /\ \A g \in DOMAIN indexed : g <= MaxBlockHeight
         /\ MaxBlockHeight = 0 \/ MaxBlockHeight \in DOMAIN indexed
         /\ MaxBlockHeight = 0 => DOMAIN indexed = {}
  <1>1. DOMAIN indexed \subseteq 1..MaxTip /\ MaxTip \in Nat
    BY LiveAssumption DEF TypeOK
  <1>2. CASE DOMAIN indexed = {}
    BY <1>1, <1>2 DEF MaxBlockHeight
  <1>3. CASE DOMAIN indexed # {}
    <2>1. \E h \in DOMAIN indexed : \A g \in DOMAIN indexed : g <= h
      BY <1>1, <1>3, GreatestHeight
    <2>2. /\ MaxBlockHeight \in DOMAIN indexed
          /\ \A g \in DOMAIN indexed : g <= MaxBlockHeight
      BY <1>3, <2>1 DEF MaxBlockHeight
    <2> QED
      BY <1>1, <2>2
  <1> QED
    BY <1>2, <1>3

(* The poller, and a start without blocks, disturb none of it.              *)
LEMMA PollingKeeps ==
  ASSUME IInv, TypeOK',
         UNCHANGED <<node, indexed, notices, looping, history>>
  PROVE  IInv'
  <1> USE DEF node, looping, history
  <1>1. ChainInv'
    BY DEF IInv, ChainInv
  <1>2. NoticeInv'
    BY DEF IInv, NoticeInv
  <1>3. StaleOnlyReorged'
    BY DEF IInv, StaleOnlyReorged
  <1>4. CursorInv' /\ GapInv'
    BY DEF IInv, CursorInv, GapInv, Explained
  <1> QED
    BY <1>1, <1>2, <1>3, <1>4 DEF IInv

-----------------------------------------------------------------------------

LEMMA InitEstablishes == Init => IInv
  <1> SUFFICES ASSUME Init PROVE IInv
    OBVIOUS
  <1> USE LiveAssumption DEF Init
  <1>1. PICK n \in StartHeight..MaxTip : chain = [h \in 1..n |-> 0]
    OBVIOUS
  <1>2. /\ n \in Nat /\ chain \in Seq(0..MaxReorgs) /\ Len(chain) = n
        /\ \A h \in 1..n : chain[h] = 0
    <2>1. n \in Nat
      BY <1>1
    <2> QED
      BY <1>1, <2>1, IsASeq, LenProperties
  <1>3. DOMAIN indexed = {}
    OBVIOUS
  <1>4. TypeOK
    <2>1. notices \in Seq([height : 1..MaxTip, on : 0..MaxReorgs]) /\ Len(notices) = 0
      BY EmptySeq
    <2>2. chain \in Seq(0..MaxReorgs) /\ Len(chain) <= MaxTip
      BY <1>1, <1>2
    <2>3. \A h \in DOMAIN indexed : indexed[h] \in 0..branch
      BY <1>3
    <2>4. /\ branch = 0 /\ main = "down" /\ cursor = 0 /\ upto = 0
          /\ poller = "off" /\ seen = 0 /\ polled = FALSE /\ failures = 0
          /\ failed = {} /\ jumped = {} /\ replaced = {}
      OBVIOUS
    <2>5. polled \in BOOLEAN
      OBVIOUS
    <2> HIDE DEF Init
    <2> QED
      BY <1>3, <2>1, <2>2, <2>3, <2>4, <2>5 DEF TypeOK
  <1>5. ChainInv
    BY <1>1, <1>2, <1>3 DEF ChainInv
  <1>6. NoticeInv
    BY DEF NoticeInv
  <1>7. StaleOnlyReorged /\ CursorInv /\ GapInv
    BY <1>3 DEF StaleOnlyReorged, CursorInv, GapInv
  <1> QED
    BY <1>4, <1>5, <1>6, <1>7 DEF IInv

-----------------------------------------------------------------------------

(* A grown chain: what is indexed and notified stays below its tip.         *)
LEMMA NotifyTypes ==
  ASSUME IInv, Notify,
         chain' \in Seq(0..MaxReorgs), Len(chain') \in 1..MaxTip,
         branch' \in 0..MaxReorgs, main' = main
  PROVE  /\ notices' \in Seq([height : 1..MaxTip, on : 0..MaxReorgs])
         /\ Len(notices') <= QueueLength
         /\ \A i \in 1..Len(notices') :
              \/ i \in 1..Len(notices) /\ notices'[i] = notices[i]
              \/ notices'[i] = [height |-> Len(chain'), on |-> branch']
  <1> DEFINE Message == [height : 1..MaxTip, on : 0..MaxReorgs]
             tip == [height |-> Len(chain'), on |-> branch']
  <1>1. notices \in Seq(Message) /\ Len(notices) <= QueueLength /\ QueueLength \in Nat
    BY LiveAssumption DEF IInv, TypeOK
  <1>2. CASE UNCHANGED notices
    BY <1>1, <1>2
  <1>3. CASE Len(notices) < QueueLength /\ notices' = Append(notices, tip)
    <2>1. tip \in Message
      OBVIOUS
    <2> HIDE DEF tip, Message
    <2>2. Len(notices) \in Nat
      BY <1>1, LenProperties
    <2>3. /\ notices' \in Seq(Message)
          /\ Len(notices') = Len(notices) + 1
          /\ \A i \in 1..Len(notices) : notices'[i] = notices[i]
          /\ notices'[Len(notices) + 1] = tip
      BY <1>1, <1>3, <2>1, AppendProperties
    <2>4. \A i \in 1..Len(notices') : i \in 1..Len(notices) \/ i = Len(notices) + 1
      BY <2>2, <2>3
    <2>5. Len(notices') <= QueueLength
      BY <1>1, <1>3, <2>2, <2>3
    <2>6. \A i \in 1..Len(notices') :
             \/ i \in 1..Len(notices) /\ notices'[i] = notices[i]
             \/ notices'[i] = tip
      BY <2>3, <2>4
    <2> QED
      BY <2>3, <2>5, <2>6 DEF tip, Message
  <1> QED
    BY <1>2, <1>3 DEF Notify

LEMMA NodeMinesKeeps ==
  ASSUME IInv, NodeMines
  PROVE  IInv'
  <1> USE LiveAssumption DEF NodeMines
  <1> DEFINE n == Len(chain)
  <1>1. /\ chain \in Seq(0..MaxReorgs) /\ branch \in 0..MaxReorgs
        /\ n \in Nat /\ n < MaxTip
    BY LenProperties DEF IInv, TypeOK
  <1>2. /\ chain' \in Seq(0..MaxReorgs) /\ Len(chain') = n + 1
        /\ \A h \in 1..n : chain'[h] = chain[h]
        /\ chain'[n + 1] = branch
    BY <1>1, AppendProperties
  <1>3. /\ UNCHANGED <<branch, replaced, indexed, main, cursor, upto, poller, seen, polled,
                        failures, failed, jumped>>
    BY DEF looping, polling, history
  <1>4. /\ notices' \in Seq([height : 1..MaxTip, on : 0..MaxReorgs])
        /\ Len(notices') <= QueueLength
        /\ \A i \in 1..Len(notices') :
             \/ i \in 1..Len(notices) /\ notices'[i] = notices[i]
             \/ notices'[i] = [height |-> n + 1, on |-> branch]
    BY <1>1, <1>2, <1>3, NotifyTypes
  <1> HIDE DEF NodeMines, n
  <1>5. TypeOK'
    BY <1>1, <1>2, <1>3, <1>4 DEF IInv, TypeOK
  <1>6. ChainInv'
    <2>1. \A h \in 1..n + 1 : h \in 1..n \/ h = n + 1
      BY <1>1
    <2> QED
      BY <1>1, <1>2, <1>3, <2>1 DEF IInv, ChainInv, n
  <1>7. NoticeInv'
    <2> SUFFICES ASSUME NEW i \in 1..Len(notices')
                 PROVE  /\ notices'[i].height <= Len(chain')
                        /\ notices'[i].on <= branch'
                        /\ notices'[i].on # chain'[notices'[i].height]
                             => notices'[i].height \in replaced'
      BY DEF NoticeInv
    <2>1. CASE i \in 1..Len(notices) /\ notices'[i] = notices[i]
      <3>1. notices[i] \in [height : 1..MaxTip, on : 0..MaxReorgs]
        BY <2>1, ElementOfSeq DEF IInv, TypeOK
      <3>2. /\ notices[i].height \in 1..n
            /\ notices[i].on <= branch
            /\ notices[i].on # chain[notices[i].height] => notices[i].height \in replaced
        BY <1>1, <2>1, <3>1 DEF IInv, NoticeInv, n
      <3> QED
        BY <1>1, <1>2, <1>3, <2>1, <3>2
    <2>2. CASE notices'[i] = [height |-> n + 1, on |-> branch]
      BY <1>1, <1>2, <1>3, <2>2
    <2> QED
      BY <1>4, <2>1, <2>2
  <1>8. StaleOnlyReorged'
    <2>1. DOMAIN indexed \subseteq 1..n
      BY DEF IInv, ChainInv, n
    <2> QED
      BY <1>2, <1>3, <2>1 DEF IInv, StaleOnlyReorged
  <1>9. CursorInv' /\ GapInv'
    BY <1>1, <1>2, <1>3 DEF IInv, TypeOK, CursorInv, GapInv, Explained, n
  <1> QED
    BY <1>5, <1>6, <1>7, <1>8, <1>9 DEF IInv

LEMMA NodeReorganisesKeeps ==
  ASSUME IInv, NEW depth \in 1..2, NodeReorganises(depth)
  PROVE  IInv'
  <1> USE LiveAssumption DEF NodeReorganises
  <1> DEFINE n == Len(chain)
             fork == n - depth
  <1>1. /\ chain \in Seq(0..MaxReorgs) /\ branch \in 0..MaxReorgs
        /\ n \in Nat /\ n < MaxTip /\ branch + 1 \in 0..MaxReorgs
        /\ fork \in Nat /\ fork < n
        /\ \A h \in 1..n : chain[h] \in 0..MaxReorgs /\ chain[h] <= branch
    BY LenProperties, ElementOfSeq DEF IInv, TypeOK, ChainInv
  <1>2. chain' = [h \in 1..n + 1 |-> IF h <= fork THEN chain[h] ELSE branch + 1]
    OBVIOUS
  <1>3. /\ chain' \in Seq(0..MaxReorgs) /\ Len(chain') = n + 1
        /\ \A h \in 1..fork : chain'[h] = chain[h]
        /\ \A h \in fork + 1 .. n + 1 : chain'[h] = branch + 1
    <2>1. \A h \in 1..n + 1 : (IF h <= fork THEN chain[h] ELSE branch + 1) \in 0..MaxReorgs
      BY <1>1
    <2>2. n + 1 \in Nat
      BY <1>1
    <2> HIDE DEF NodeReorganises, n, fork
    <2>3. chain' \in Seq(0..MaxReorgs) /\ DOMAIN chain' = 1..n + 1
      BY <1>2, <2>1, <2>2, IsASeq
    <2>4. Len(chain') = n + 1
      BY <2>2, <2>3, LenProperties
    <2> QED
      BY <1>1, <1>2, <2>3, <2>4
  <1>4. /\ branch' = branch + 1
        /\ replaced' = replaced \cup fork + 1 .. n
        /\ UNCHANGED <<indexed, main, cursor, upto, poller, seen, polled, failures, failed, jumped>>
    BY DEF looping, polling, history
  <1>5. /\ notices' \in Seq([height : 1..MaxTip, on : 0..MaxReorgs])
        /\ Len(notices') <= QueueLength
        /\ \A i \in 1..Len(notices') :
             \/ i \in 1..Len(notices) /\ notices'[i] = notices[i]
             \/ notices'[i] = [height |-> n + 1, on |-> branch + 1]
    BY <1>1, <1>3, <1>4, NotifyTypes
  <1> HIDE DEF NodeReorganises, n, fork
  <1>6. TypeOK'
    <2>1. \A h \in DOMAIN indexed : indexed[h] \in 0..branch + 1
      BY <1>1 DEF IInv, TypeOK
    <2>2. replaced' \subseteq 1..MaxTip
      BY <1>1, <1>4 DEF IInv, TypeOK
    <2> QED
      BY <1>1, <1>3, <1>4, <1>5, <2>1, <2>2 DEF IInv, TypeOK
  <1>7. ChainInv'
    <2>1. \A h \in 1..n + 1 : chain'[h] <= branch + 1
      <3> SUFFICES ASSUME NEW h \in 1..n + 1 PROVE chain'[h] <= branch + 1
        OBVIOUS
      <3>1. CASE h \in 1..fork
        <4>1. chain'[h] = chain[h] /\ chain[h] \in Int /\ chain[h] <= branch /\ branch \in Int
          BY <1>1, <1>3, <3>1
        <4> QED
          BY <4>1
      <3>2. CASE h \in fork + 1 .. n + 1
        <4>1. chain'[h] = branch + 1 /\ branch + 1 \in Int
          BY <1>1, <1>3, <3>2
        <4> QED
          BY <4>1
      <3> QED
        BY <1>1, <3>1, <3>2
    <2>2. DOMAIN indexed \subseteq 1..n + 1
      BY <1>1 DEF IInv, ChainInv, n
    <2> QED
      BY <1>1, <1>3, <1>4, <2>1, <2>2 DEF IInv, ChainInv, n
  <1>8. \A h \in 1..n : h \in replaced' \/ (chain'[h] = chain[h] /\ (h \in replaced => h \in replaced'))
    BY <1>1, <1>3, <1>4
  <1>9. NoticeInv'
    <2> SUFFICES ASSUME NEW i \in 1..Len(notices')
                 PROVE  /\ notices'[i].height <= Len(chain')
                        /\ notices'[i].on <= branch'
                        /\ notices'[i].on # chain'[notices'[i].height]
                             => notices'[i].height \in replaced'
      BY DEF NoticeInv
    <2>1. CASE i \in 1..Len(notices) /\ notices'[i] = notices[i]
      <3>1. notices[i] \in [height : 1..MaxTip, on : 0..MaxReorgs]
        BY <2>1, ElementOfSeq DEF IInv, TypeOK
      <3>2. /\ notices[i].height \in 1..n
            /\ notices[i].on <= branch
            /\ notices[i].on # chain[notices[i].height] => notices[i].height \in replaced
        BY <1>1, <2>1, <3>1 DEF IInv, NoticeInv, n
      <3> DEFINE m == notices[i]
      <3>3. m.height \in 1..n /\ m.on \in Nat /\ m.on <= branch
            /\ (m.on # chain[m.height] => m.height \in replaced)
        BY <3>1, <3>2
      <3>4. notices'[i] = m
        BY <2>1
      <3> HIDE DEF m
      <3>5. m.on # chain'[m.height] => m.height \in replaced'
        BY <1>8, <3>3
      <3> QED
        BY <1>1, <1>3, <1>4, <3>3, <3>4, <3>5
    <2>2. CASE notices'[i] = [height |-> n + 1, on |-> branch + 1]
      BY <1>1, <1>3, <1>4, <2>2
    <2> QED
      BY <1>5, <2>1, <2>2
  <1>10. StaleOnlyReorged'
    <2>1. DOMAIN indexed \subseteq 1..n
      BY DEF IInv, ChainInv, n
    <2> QED
      BY <1>4, <1>8, <2>1 DEF IInv, StaleOnlyReorged
  <1>11. CursorInv' /\ GapInv'
    BY <1>1, <1>3, <1>4 DEF IInv, TypeOK, CursorInv, GapInv, Explained, n
  <1> QED
    BY <1>6, <1>7, <1>9, <1>10, <1>11 DEF IInv

-----------------------------------------------------------------------------

LEMMA CatchUpKeeps ==
  ASSUME IInv, NEW count \in 0..MaxTip, CatchUp(count)
  PROVE  IInv'
  <1> USE LiveAssumption
  <1> DEFINE resume == ResumeHeight
             reached == resume + count
             n == Len(chain)
  <1>1. /\ chain \in Seq(0..MaxReorgs) /\ n \in Nat /\ n <= MaxTip
        /\ branch \in 0..MaxReorgs
        /\ \A h \in 1..n : chain[h] \in 0..branch
    BY LenProperties, ElementOfSeq DEF IInv, TypeOK, ChainInv
  <1>2. /\ resume \in Nat
        /\ \A g \in DOMAIN indexed : g <= resume
        /\ DOMAIN indexed = {} => resume = StartHeight
        /\ DOMAIN indexed # {} => resume \in DOMAIN indexed
    BY MaxIsGreatest DEF IInv, TypeOK, ResumeHeight
  <1>3. /\ main = "down" /\ reached <= n
        /\ indexed' = [h \in DOMAIN indexed \cup (resume + 1 .. reached) |->
                         IF h \in DOMAIN indexed THEN indexed[h] ELSE chain[h]]
        /\ UNCHANGED <<chain, branch, replaced, notices, cursor, upto, seen, polled, failed, jumped>>
    BY DEF CatchUp, node, history
  <1>4. main' \in {"down", "select"} /\ poller' \in {"off", "waiting", "read", "sending", "dead"}
        /\ failures' \in 0..MaxFailures
    BY DEF CatchUp, Failing, IInv, TypeOK
  <1>5. DOMAIN indexed \subseteq 1..n
    BY DEF IInv, ChainInv
  <1> HIDE DEF resume, reached, n
  <1>6. /\ DOMAIN indexed' = DOMAIN indexed \cup (resume + 1 .. reached)
        /\ reached = resume + count
        /\ DOMAIN indexed' \subseteq 1..n
        /\ \A h \in DOMAIN indexed : indexed'[h] = indexed[h]
        /\ \A h \in DOMAIN indexed' : h \notin DOMAIN indexed => indexed'[h] = chain[h]
    BY <1>1, <1>2, <1>3, <1>5 DEF reached
  <1>7. TypeOK'
    <2>1. \A h \in DOMAIN indexed' : indexed'[h] \in 0..branch'
      <3> SUFFICES ASSUME NEW h \in DOMAIN indexed' PROVE indexed'[h] \in 0..branch'
        OBVIOUS
      <3>1. CASE h \in DOMAIN indexed
        BY <1>3, <1>6, <3>1 DEF IInv, TypeOK
      <3>2. CASE h \notin DOMAIN indexed
        BY <1>1, <1>3, <1>6, <3>2
      <3> QED
        BY <3>1, <3>2
    <2>2. DOMAIN indexed' \subseteq 1..MaxTip
      BY <1>1, <1>6
    <2> QED
      BY <1>3, <1>4, <2>1, <2>2 DEF IInv, TypeOK
  <1>8. ChainInv' /\ NoticeInv'
    BY <1>3, <1>6 DEF IInv, ChainInv, NoticeInv, n
  <1>9. StaleOnlyReorged'
    BY <1>3, <1>6 DEF IInv, StaleOnlyReorged
  <1>10. CursorInv'
    BY <1>4 DEF CursorInv
  <1>11. GapInv'
    <2> SUFFICES ASSUME NEW g \in DOMAIN indexed', NEW h \in StartHeight + 1 .. g,
                        h \notin DOMAIN indexed'
                 PROVE  h \in failed \cup jumped
      BY <1>3 DEF GapInv, Explained
    <2>1. g \in Nat /\ h \in Nat /\ h > StartHeight /\ h <= g /\ h \notin DOMAIN indexed
      BY <1>6, <1>1
    <2>2. h <= resume
      BY <1>2, <1>6, <2>1
    <2>3. DOMAIN indexed # {}
      <3>1. resume # StartHeight
        BY <1>2, <2>1, <2>2
      <3> QED
        BY <1>2, <3>1
    <2>4. h \in StartHeight + 1 .. resume
      BY <1>2, <2>1, <2>2
    <2> QED
      BY <1>2, <2>1, <2>3, <2>4 DEF IInv, GapInv, Explained
  <1> QED
    BY <1>7, <1>8, <1>9, <1>10, <1>11 DEF IInv

LEMMA CrashKeeps ==
  ASSUME IInv, Crash
  PROVE  IInv'
  <1> USE LiveAssumption
  <1>1. /\ main' = "down" /\ cursor' = 0 /\ upto' = 0
        /\ poller' = "off" /\ seen' = 0 /\ notices' = <<>>
        /\ UNCHANGED <<chain, branch, replaced, indexed, failures, failed, jumped>>
    BY DEF Crash, node, history
  <1>2. polled' \in BOOLEAN
    BY DEF Crash
  <1>3. notices' \in Seq([height : 1..MaxTip, on : 0..MaxReorgs]) /\ Len(notices') = 0
    BY <1>1, EmptySeq
  <1>4. TypeOK'
    BY <1>1, <1>2, <1>3 DEF IInv, TypeOK
  <1>5. ChainInv' /\ NoticeInv' /\ StaleOnlyReorged'
    BY <1>1, <1>3 DEF IInv, ChainInv, NoticeInv, StaleOnlyReorged
  <1>6. CursorInv' /\ GapInv'
    BY <1>1 DEF IInv, CursorInv, GapInv, Explained
  <1> QED
    BY <1>4, <1>5, <1>6 DEF IInv

LEMMA PollerKeeps ==
  ASSUME IInv, Poller
  PROVE  IInv'
  <1> USE LiveAssumption
  <1>1. Len(chain) \in 0..MaxTip
    BY LenProperties DEF IInv, TypeOK
  <1>2. UNCHANGED <<node, indexed, notices, looping, history>>
    BY DEF Poller, PollReadsChain, PollReadsTable, PollPanics, PollSends
  <1>3. /\ poller' \in {"off", "waiting", "read", "sending", "dead"}
        /\ seen' \in 0..MaxTip
        /\ failures' \in 0..MaxFailures
    BY <1>1 DEF Poller, PollReadsChain, PollReadsTable, PollPanics, PollSends, Failing, IInv, TypeOK
  <1>4. polled' \in BOOLEAN
    BY DEF Poller, PollReadsChain, PollReadsTable, PollPanics, PollSends, IInv, TypeOK
  <1>5. TypeOK'
    BY <1>2, <1>3, <1>4 DEF node, looping, history, IInv, TypeOK
  <1> QED
    BY <1>2, <1>5, PollingKeeps

-----------------------------------------------------------------------------

(* What an attempt to index block b at height h leaves behind.              *)
LEMMA StoreLeaves ==
  ASSUME IInv, NEW h \in 1..Len(chain), NEW b \in 0..branch,
         b # chain[h] => h \in replaced,
         \/ Store(h, b) /\ UNCHANGED failures
         \/ StoreFails(h),
         UNCHANGED node
  PROVE  /\ DOMAIN indexed \subseteq DOMAIN indexed'
         /\ DOMAIN indexed' \subseteq DOMAIN indexed \cup {h}
         /\ failed \subseteq failed' /\ failed' \subseteq failed \cup {h}
         /\ h \in DOMAIN indexed' \cup failed'
         /\ \A g \in DOMAIN indexed' : indexed'[g] \in 0..branch
         /\ failures' \in 0..MaxFailures
         /\ ChainInv' /\ StaleOnlyReorged'
  <1> USE LiveAssumption DEF node
  <1>1. \/ indexed' = indexed
        \/ h \notin DOMAIN indexed /\ indexed' = Add(indexed, h, b)
    BY DEF Store, StoreFails
  <1>2. /\ failed \subseteq failed' /\ failed' \subseteq failed \cup {h}
        /\ h \in DOMAIN indexed' \cup failed'
    BY DEF Store, StoreFails, Add
  <1>3. failures' \in 0..MaxFailures
    BY DEF StoreFails, Failing, IInv, TypeOK
  <1>4. /\ DOMAIN indexed \subseteq DOMAIN indexed'
        /\ DOMAIN indexed' \subseteq DOMAIN indexed \cup {h}
        /\ \A g \in DOMAIN indexed : indexed'[g] = indexed[g]
        /\ h \in DOMAIN indexed' => h \in DOMAIN indexed \/ indexed'[h] = b
    BY <1>1 DEF Add
  <1>5. \A g \in DOMAIN indexed' : indexed'[g] \in 0..branch
    BY <1>4 DEF IInv, TypeOK
  <1>6. ChainInv'
    BY <1>4 DEF IInv, ChainInv
  <1>7. StaleOnlyReorged'
    BY <1>4 DEF IInv, StaleOnlyReorged
  <1> QED
    BY <1>2, <1>3, <1>4, <1>5, <1>6, <1>7

LEMMA HandleNoticeKeeps ==
  ASSUME IInv, HandleNotice
  PROVE  IInv'
  <1> USE LiveAssumption
  <1> DEFINE notice == Head(notices)
             h == notice.height
             Message == [height : 1..MaxTip, on : 0..MaxReorgs]
  <1>1. /\ main = "select" /\ notices # <<>> /\ notices' = Tail(notices)
        /\ UNCHANGED <<node, looping, polling>>
        /\ \/ Store(h, notice.on) /\ UNCHANGED failures
           \/ StoreFails(h)
        /\ jumped' = jumped \cup (MaxBlockHeight + 1 .. h - 1) \/ (StoreFails(h) /\ jumped' = jumped)
    BY DEF HandleNotice
  <1>2. notices \in Seq(Message) /\ Len(notices) <= QueueLength
    BY DEF IInv, TypeOK
  <1>3. /\ notice \in Message
        /\ notice = notices[1] /\ Len(notices) \in Nat \ {0}
        /\ notices' \in Seq(Message) /\ Len(notices') = Len(notices) - 1
        /\ \A i \in 1..Len(notices') : notices'[i] = notices[i + 1]
    <2> HIDE DEF Message
    <2>1. Len(notices) \in Nat \ {0}
      BY <1>1, <1>2, EmptySeq
    <2> QED
      BY <1>1, <1>2, <2>1, HeadTailProperties
  <1>4. /\ Len(chain) \in Nat /\ Len(chain) <= MaxTip /\ branch \in Nat
    BY LenProperties DEF IInv, TypeOK
  <1>5. /\ h \in 1..Len(chain) /\ notice.on \in 0..branch
        /\ notice.on # chain[h] => h \in replaced
    BY <1>3, <1>4 DEF IInv, NoticeInv
  <1> HIDE DEF notice, h, Message
  <1>6. UNCHANGED <<chain, branch, replaced, main, cursor, upto, poller, seen, polled>>
    BY <1>1 DEF node, looping, polling
  <1>7. /\ DOMAIN indexed \subseteq DOMAIN indexed'
        /\ DOMAIN indexed' \subseteq DOMAIN indexed \cup {h}
        /\ failed \subseteq failed' /\ failed' \subseteq failed \cup {h}
        /\ h \in DOMAIN indexed' \cup failed'
        /\ \A g \in DOMAIN indexed' : indexed'[g] \in 0..branch
        /\ failures' \in 0..MaxFailures
        /\ ChainInv' /\ StaleOnlyReorged'
    BY <1>1, <1>5, StoreLeaves
  <1>8. /\ MaxBlockHeight \in 0..MaxTip
        /\ \A g \in DOMAIN indexed : g <= MaxBlockHeight
        /\ MaxBlockHeight = 0 \/ MaxBlockHeight \in DOMAIN indexed
    BY MaxIsGreatest DEF IInv
  <1>9. jumped \subseteq jumped' /\ jumped' \subseteq 1..MaxTip
    <2>1. jumped \subseteq 1..MaxTip
      BY DEF IInv, TypeOK
    <2>2. h \in 1..MaxTip
      BY <1>4, <1>5
    <2>3. MaxBlockHeight + 1 .. h - 1 \subseteq 1..MaxTip
      BY <1>8, <2>2
    <2>4. jumped' = jumped \cup (MaxBlockHeight + 1 .. h - 1) \/ jumped' = jumped
      BY <1>1
    <2> QED
      BY <2>1, <2>3, <2>4
  <1>10. TypeOK'
    <2>1. DOMAIN indexed' \subseteq 1..MaxTip /\ failed' \subseteq 1..MaxTip
      BY <1>4, <1>5, <1>7 DEF IInv, TypeOK
    <2>2. notices' \in Seq([height : 1..MaxTip, on : 0..MaxReorgs]) /\ Len(notices') <= QueueLength
      BY <1>2, <1>3 DEF Message
    <2>3. polled' \in BOOLEAN
      BY <1>6 DEF IInv, TypeOK
    <2> QED
      BY <1>6, <1>7, <1>9, <2>1, <2>2, <2>3 DEF IInv, TypeOK
  <1>11. NoticeInv'
    <2> SUFFICES ASSUME NEW i \in 1..Len(notices')
                 PROVE  /\ notices'[i].height <= Len(chain')
                        /\ notices'[i].on <= branch'
                        /\ notices'[i].on # chain'[notices'[i].height]
                             => notices'[i].height \in replaced'
      BY DEF NoticeInv
    <2>1. i + 1 \in 1..Len(notices)
      BY <1>3
    <2> QED
      BY <1>3, <1>6, <2>1 DEF IInv, NoticeInv
  <1>12. CursorInv'
    BY <1>1, <1>6 DEF CursorInv
  <1>13. GapInv'
    <2> SUFFICES ASSUME NEW g \in DOMAIN indexed', NEW k \in StartHeight + 1 .. g,
                        k \notin DOMAIN indexed'
                 PROVE  k \in failed' \cup jumped'
      BY DEF GapInv, Explained
    <2>1. CASE g \in DOMAIN indexed
      BY <1>7, <1>9, <2>1 DEF IInv, GapInv, Explained
    <2>2. CASE g = h /\ g \notin DOMAIN indexed
      <3>1. k \in Nat /\ k < h /\ k > StartHeight /\ k \notin DOMAIN indexed /\ h \in Nat
        BY <1>4, <1>5, <1>7, <2>2
      <3>2. CASE k <= MaxBlockHeight
        <4>1. MaxBlockHeight \in DOMAIN indexed /\ k \in StartHeight + 1 .. MaxBlockHeight
          BY <1>8, <3>1, <3>2
        <4> QED
          BY <1>7, <1>9, <3>1, <4>1 DEF IInv, GapInv, Explained
      <3>3. CASE k > MaxBlockHeight
        <4>1. ~ StoreFails(h)
          BY <2>2 DEF StoreFails
        <4>2. k \in MaxBlockHeight + 1 .. h - 1
          BY <1>8, <3>1, <3>3
        <4> QED
          BY <1>1, <4>1, <4>2 DEF h
      <3> QED
        BY <1>8, <3>1, <3>2, <3>3
    <2> QED
      BY <1>7, <2>1, <2>2
  <1> QED
    BY <1>7, <1>10, <1>11, <1>12, <1>13 DEF IInv

-----------------------------------------------------------------------------

LEMMA BeginKeeps ==
  ASSUME IInv, BeginIndexNew
  PROVE  IInv'
  <1> USE LiveAssumption
  <1>1. /\ main' = "indexing" /\ upto' = Len(chain) /\ cursor' = MaxBlockHeight + 1
        /\ UNCHANGED <<chain, branch, replaced, indexed, notices, poller, seen, failures, failed, jumped>>
    BY DEF BeginIndexNew, node, history
  <1>2. polled' \in BOOLEAN
    BY DEF BeginIndexNew
  <1>3. Len(chain) \in 0..MaxTip
    BY LenProperties DEF IInv, TypeOK
  <1>4. /\ MaxBlockHeight \in 0..MaxTip
        /\ \A g \in DOMAIN indexed : g <= MaxBlockHeight
        /\ MaxBlockHeight = 0 \/ MaxBlockHeight \in DOMAIN indexed
    BY MaxIsGreatest DEF IInv
  <1>5. TypeOK'
    BY <1>1, <1>2, <1>3, <1>4 DEF IInv, TypeOK
  <1>6. ChainInv' /\ NoticeInv' /\ StaleOnlyReorged'
    BY <1>1 DEF IInv, ChainInv, NoticeInv, StaleOnlyReorged
  <1>7. GapInv'
    BY <1>1 DEF IInv, GapInv, Explained
  <1>8. CursorInv'
    <2>1. \A g \in DOMAIN indexed' : g < cursor'
      BY <1>1, <1>4 DEF IInv, TypeOK
    <2>2. \A h \in StartHeight + 1 .. cursor' - 1 : Explained(h)'
      BY <1>1, <1>4 DEF IInv, GapInv, Explained
    <2> QED
      BY <1>1, <1>3, <1>4, <2>1, <2>2 DEF CursorInv
  <1> QED
    BY <1>5, <1>6, <1>7, <1>8 DEF IInv

LEMMA IndexHeightKeeps ==
  ASSUME IInv, IndexHeight
  PROVE  IInv'
  <1> USE LiveAssumption
  <1>1. /\ main = "indexing" /\ cursor <= upto /\ cursor' = cursor + 1
        /\ \/ Store(cursor, chain[cursor]) /\ UNCHANGED failures
           \/ StoreFails(cursor)
        /\ UNCHANGED node
        /\ UNCHANGED <<chain, branch, replaced, notices, main, upto, poller, seen, polled, jumped>>
    BY DEF IndexHeight, node, polling
  <1>2. /\ Len(chain) \in Nat /\ Len(chain) <= MaxTip /\ cursor \in Nat /\ upto \in Nat
        /\ cursor >= 1 /\ upto <= Len(chain)
    BY <1>1, LenProperties DEF IInv, TypeOK, CursorInv
  <1>3. cursor \in 1..Len(chain)
    BY <1>1, <1>2
  <1>4. chain[cursor] \in 0..branch
    BY <1>3, ElementOfSeq DEF IInv, TypeOK, ChainInv
  <1>5. /\ DOMAIN indexed \subseteq DOMAIN indexed'
        /\ DOMAIN indexed' \subseteq DOMAIN indexed \cup {cursor}
        /\ failed \subseteq failed' /\ failed' \subseteq failed \cup {cursor}
        /\ cursor \in DOMAIN indexed' \cup failed'
        /\ \A g \in DOMAIN indexed' : indexed'[g] \in 0..branch
        /\ failures' \in 0..MaxFailures
        /\ ChainInv' /\ StaleOnlyReorged'
    BY <1>1, <1>3, <1>4, StoreLeaves
  <1>6. TypeOK'
    <2>1. /\ DOMAIN indexed' \subseteq 1..MaxTip /\ failed' \subseteq 1..MaxTip
          /\ cursor' \in 0..MaxTip + 1
      BY <1>1, <1>2, <1>3, <1>5 DEF IInv, TypeOK
    <2>2. polled' \in BOOLEAN
      BY <1>1 DEF IInv, TypeOK
    <2> QED
      BY <1>1, <1>5, <2>1, <2>2 DEF IInv, TypeOK
  <1>7. NoticeInv'
    BY <1>1 DEF IInv, NoticeInv
  <1>8. \A h \in StartHeight + 1 .. cursor : Explained(h)'
    <2> SUFFICES ASSUME NEW h \in StartHeight + 1 .. cursor PROVE Explained(h)'
      OBVIOUS
    <2>1. CASE h = cursor
      BY <1>5, <2>1 DEF Explained
    <2>2. CASE h \in StartHeight + 1 .. cursor - 1
      BY <1>1, <1>5, <2>2 DEF IInv, CursorInv, Explained
    <2> QED
      BY <1>2, <2>1, <2>2
  <1>9. \A g \in DOMAIN indexed' : g <= cursor
    <2>1. \A g \in DOMAIN indexed : g \in Nat /\ g < cursor
      BY <1>1 DEF IInv, TypeOK, CursorInv
    <2> QED
      BY <1>2, <1>5, <2>1
  <1>10. CursorInv'
    <2>1. \A g \in DOMAIN indexed' : g \in Nat
      BY <1>6 DEF TypeOK
    <2>2. cursor' - 1 = cursor
      BY <1>1, <1>2
    <2>3. \A g \in DOMAIN indexed' : g < cursor'
      BY <1>1, <1>2, <1>9, <2>1
    <2> QED
      BY <1>1, <1>2, <1>8, <2>2, <2>3 DEF CursorInv
  <1>11. GapInv'
    <2>1. \A g \in DOMAIN indexed' : g \in Nat
      BY <1>6 DEF TypeOK
    <2>2. \A g \in DOMAIN indexed' : \A h \in StartHeight + 1 .. g : h \in StartHeight + 1 .. cursor
      BY <1>2, <1>9, <2>1
    <2> QED
      BY <1>8, <2>2 DEF GapInv
  <1> QED
    BY <1>5, <1>6, <1>7, <1>10, <1>11 DEF IInv

LEMMA EndKeeps ==
  ASSUME IInv, EndIndexNew
  PROVE  IInv'
  <1> USE LiveAssumption
  <1>1. /\ main' = "select" /\ cursor' = 0 /\ upto' = 0
        /\ UNCHANGED <<chain, branch, replaced, indexed, notices, poller, seen, polled, failures, failed, jumped>>
    BY DEF EndIndexNew, node, polling, history
  <1>2. TypeOK'
    BY <1>1 DEF IInv, TypeOK
  <1>3. ChainInv' /\ NoticeInv' /\ StaleOnlyReorged'
    BY <1>1 DEF IInv, ChainInv, NoticeInv, StaleOnlyReorged
  <1>4. CursorInv' /\ GapInv'
    BY <1>1 DEF IInv, CursorInv, GapInv, Explained
  <1> QED
    BY <1>2, <1>3, <1>4 DEF IInv

LEMMA NextKeeps ==
  ASSUME IInv, [Next]_vars
  PROVE  IInv'
  <1>1. CASE NodeMines
    BY <1>1, NodeMinesKeeps
  <1>2. CASE \E depth \in 1..2 : NodeReorganises(depth)
    BY <1>2, NodeReorganisesKeeps
  <1>3. CASE Starting
    BY <1>3, CatchUpKeeps DEF Starting
  <1>4. CASE Crash
    BY <1>4, CrashKeeps
  <1>5. CASE Poller
    BY <1>5, PollerKeeps
  <1>6. CASE HandleNotice
    BY <1>6, HandleNoticeKeeps
  <1>7. CASE BeginIndexNew
    BY <1>7, BeginKeeps
  <1>8. CASE Indexing
    BY <1>8, IndexHeightKeeps, EndKeeps DEF Indexing
  <1>9. CASE UNCHANGED vars
    <2>1. UNCHANGED <<node, indexed, notices, looping, history>> /\ UNCHANGED <<polling, failures>>
      BY <1>9 DEF vars
    <2>2. TypeOK'
      BY <2>1 DEF node, looping, polling, history, IInv, TypeOK
    <2> QED
      BY <2>1, <2>2, PollingKeeps
  <1> QED
    BY <1>1, <1>2, <1>3, <1>4, <1>5, <1>6, <1>7, <1>8, <1>9 DEF Next

LEMMA GapsAreExplained == IInv => GapHasCause
  <1> SUFFICES ASSUME IInv, NEW h \in StartHeight + 1 .. MaxBlockHeight, h \notin DOMAIN indexed
               PROVE  h \in failed \cup jumped
    BY DEF GapHasCause
  <1>1. MaxBlockHeight \in DOMAIN indexed
    BY MaxIsGreatest, LiveAssumption DEF IInv
  <1> QED
    BY <1>1 DEF IInv, GapInv, Explained

THEOREM Inductive == Spec => []IInv
  <1>1. IInv /\ [Next]_vars => IInv'
    BY NextKeeps
  <1> QED
    BY InitEstablishes, <1>1, PTL DEF Spec

(* The live loop's variables keep their types.                              *)
THEOREM Typing == Spec => []TypeOK
  BY Inductive, PTL DEF IInv

(* continuous_indexing: the table and the node disagree only where a        *)
(* reorganisation replaced a block.                                         *)
THEOREM StaleBlocksAreReorged == Spec => []StaleOnlyReorged
  BY Inductive, PTL DEF IInv

(* continuous_indexing and index_new_blocks: a missing height has failed or *)
(* was gone past by a notification.                                         *)
THEOREM GapsHaveCauses == Spec => []GapHasCause
  BY Inductive, GapsAreExplained, PTL
=============================================================================
