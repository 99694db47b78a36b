---------------------------- MODULE CatchUpProofs ----------------------------
(***************************************************************************)
(* Proofs about CatchUp for every threshold, channel, chunk and batch      *)
(* size, every start_height, chain height and number of failures.          *)
(*                                                                         *)
(* A block is somewhere on its way: not sent, in its stream's channel, in  *)
(* the merged channel, in the batch, or in the table. The invariant says   *)
(* that these places hold adjoining runs of heights (StreamInv, OrderInv,  *)
(* WholeInv) and how the threads are connected meanwhile (ModeInv).        *)
(***************************************************************************)
EXTENDS CatchUp, SequenceTheorems, FiniteSetTheorems, WellFoundedInduction, TLAPS

-----------------------------------------------------------------------------
(* Heights.                                                                *)

LEMMA GreatestHeight ==
  ASSUME NEW n \in Nat, NEW S \in SUBSET (1..n), S # {}
  PROVE  \E h \in S : \A g \in S : g <= h
  <1> DEFINE T == {n - x : x \in S}
  <1>1. T \subseteq Nat /\ T # {}
    <2>1. \A x \in S : n - x \in Nat
      OBVIOUS
    <2>2. PICK x \in S : TRUE
      OBVIOUS
    <2>3. n - x \in T
      BY <2>2
    <2> QED
      BY <2>1, <2>3
  <1>2. PICK t \in T : \A u \in T : ~ (<<u, t>> \in OpToRel(<, Nat))
    <2> HIDE DEF T
    <2> QED
      BY <1>1, NatLessThanWellFounded, WFMin
  <1>3. PICK h \in S : t = n - h
    OBVIOUS
  <1>4. ASSUME NEW g \in S, ~ (g <= h) PROVE FALSE
    <2>1. n - g \in T /\ n - g \in Nat /\ n - h \in Nat /\ n - g < n - h
      BY <1>4
    <2>2. <<n - g, t>> \in OpToRel(<, Nat)
      BY <1>3, <2>1 DEF OpToRel
    <2> QED
      BY <1>2, <2>1, <2>2
  <1> QED
    BY <1>4

LEMMA DbHeightTyped ==
  ASSUME blocks \subseteq 1..MaxTip
  PROVE  /\ DbHeight \in Nat
         /\ blocks # {} => DbHeight \in blocks /\ \A g \in blocks : g <= DbHeight
  <1>1. MaxTip \in Nat /\ Base \in Nat
    BY CatchUpAssumption
  <1>2. CASE blocks = {}
    BY <1>1, <1>2 DEF DbHeight
  <1>3. CASE blocks # {}
    <2>1. \E h \in blocks : \A g \in blocks : g <= h
      BY <1>1, <1>3, GreatestHeight
    <2>2. DbHeight \in blocks /\ \A g \in blocks : g <= DbHeight
      BY <1>3, <2>1 DEF DbHeight
    <2> QED
      BY <1>1, <2>2
  <1> QED
    BY <1>2, <1>3

Highest(S) == IF S = {} THEN Base ELSE CHOOSE h \in S : \A g \in S : g <= h

LEMMA DbHeightIsHighest == DbHeight = Highest(blocks) /\ DbHeight' = Highest(blocks')
  BY DEF DbHeight, Highest

LEMMA HighestOfRange ==
  ASSUME NEW n \in Nat, Base <= n
  PROVE  Highest(Base + 1 .. n) = n
  <1> DEFINE S == Base + 1 .. n
  <1>1. Base \in Nat
    BY CatchUpAssumption
  <1>2. CASE n = Base
    BY <1>1, <1>2 DEF Highest
  <1>3. CASE n > Base
    <2>1. n \in S /\ \A g \in S : g <= n
      BY <1>1, <1>3
    <2>2. \A h \in S : (\A g \in S : g <= h) => h = n
      BY <1>1, <2>1
    <2> QED
      BY <2>1, <2>2 DEF Highest
  <1> QED
    BY <1>1, <1>2, <1>3

LEMMA LeastOfRange ==
  ASSUME NEW a \in Int, NEW b \in Int, a <= b
  PROVE  Least(a .. b) = a
  <1>1. a \in a .. b /\ \A g \in a .. b : a <= g
    OBVIOUS
  <1>2. \A h \in a .. b : (\A g \in a .. b : h <= g) => h = a
    BY <1>1
  <1> QED
    BY <1>1, <1>2 DEF Least

-----------------------------------------------------------------------------
(* The inductive invariant.                                                *)

Busy == run \in {"fetching", "joining"}

\* The first height stream s has fetched or will fetch, and not sent.
Unsent(s) == IF got[s] = {} THEN next[s] ELSE Least(got[s])

\* The first height stream s has not passed on: it is sent and waits in the
\* stream's own channel, or it is not sent.
Lo(s) == Unsent(s) - Len(chan[s])

\* The stream that feeds the merged channel.
Source == IF parallel /\ mergeFrom # "A" THEN "B" ELSE "A"

\* No half was cut short before the one that feeds the merged channel.
Whole == parallel /\ mergeFrom # "A" => stream["A"] # "failed"

\* Each stream delivers its range in order and without a hole.
StreamInv ==
    \A s \in Streams :
        /\ Unsent(s) \in Nat /\ Unsent(s) <= next[s]
        /\ got[s] = Unsent(s) .. next[s] - 1
        /\ next[s] <= end[s] + 1 /\ end[s] <= MaxTip
        /\ stream[s] = "running" => next[s] >= 1
        /\ stream[s] # "running" => got[s] = {}
        /\ stream[s] = "ended" => next[s] = end[s] + 1
        /\ \A i \in 1 .. Len(chan[s]) : chan[s][i] = Lo(s) + i - 1

\* How the threads are connected.
ModeInv ==
    /\ ~parallel => /\ mergeFrom = "done" /\ chan["A"] = <<>> /\ chan["B"] = <<>>
                    /\ stream["B"] = "idle" /\ stream["A"] # "idle"
                    /\ end["A"] = target
    /\ parallel => /\ stream["A"] # "idle" /\ stream["B"] # "idle"
                   /\ end["B"] = target
                   /\ mergeFrom = "A" => Lo("B") = end["A"] + 1
                   /\ mergeFrom # "A" => ~Sending("A") /\ chan["A"] = <<>>
                   /\ mergeFrom = "done" => ~Sending("B") /\ chan["B"] = <<>>
    /\ run = "joining" => chan[Merged] = <<>> /\ pending = {} /\ Disconnected

\* What is merged ascends, and stays below what is to come.
OrderInv ==
    /\ last < Lo(Source)
    /\ \A i \in 1 .. Len(chan[Merged]) :
           /\ chan[Merged][i] < Lo(Source)
           /\ chan[Merged][i] > IF i = 1 THEN last ELSE chan[Merged][i - 1]

\* While no half is cut short, nothing is missing anywhere on the way.
WholeInv ==
    Whole => /\ Lo(Source) = last + Len(chan[Merged]) + 1
             /\ \A i \in 1 .. Len(chan[Merged]) : chan[Merged][i] = last + i
             /\ from + 1 .. last \subseteq blocks \cup pending

BusyInv == Busy => StreamInv /\ ModeInv /\ OrderInv /\ WholeInv

\* Between two catch-ups there are no threads.
QuietInv == ~Busy => Idle

PrefixInv ==
    ~halfFailed =>
        /\ blocks = Base + 1 .. DbHeight
        /\ Busy => /\ pending = DbHeight + 1 .. last /\ DbHeight <= last
                   /\ parallel => stream["A"] # "failed"

IInv == TypeOK /\ BusyInv /\ QuietInv /\ PrefixInv /\ OkMeansComplete

Heights == 1..MaxTip

Phases == {"idle", "running", "ended", "failed"}

\* What TypeOK says of each thread.
LEMMA Typed ==
  ASSUME TypeOK
  PROVE  /\ \A s \in Streams : /\ next[s] \in Nat /\ end[s] \in Nat
                               /\ got[s] \subseteq Heights /\ stream[s] \in Phases
         /\ \A c \in Streams \cup {Merged} : /\ chan[c] \in Seq(Heights)
                                             /\ Len(chan[c]) \in Nat
                                             /\ chan[c] = <<>> => Len(chan[c]) = 0
                                             /\ chan[c] # <<>> => Len(chan[c]) >= 1
         /\ Streams \cup {Merged} = {"A", "B", "M"} /\ Merged \notin Streams
         /\ last \in Nat /\ from \in Nat /\ target \in Nat /\ blocks \subseteq Heights
         /\ MaxTip \in Nat /\ Base \in Nat
  <1>1. \A c \in Streams \cup {Merged} : chan[c] \in Seq(Heights)
    BY DEF TypeOK, Heights
  <1>2. ASSUME NEW q \in Seq(Heights) PROVE Len(q) \in Nat /\ (q = <<>> <=> Len(q) = 0)
    BY LenProperties, EmptySeq
  <1>3. \A c \in Streams \cup {Merged} : /\ Len(chan[c]) \in Nat
                                         /\ chan[c] = <<>> => Len(chan[c]) = 0
                                         /\ chan[c] # <<>> => Len(chan[c]) >= 1
    BY <1>1, <1>2
  <1>4. Streams \cup {Merged} = {"A", "B", "M"} /\ Merged \notin Streams
    BY DEF Streams, Merged
  <1>5. \A s \in Streams : /\ next[s] \in Nat /\ end[s] \in Nat
                           /\ got[s] \subseteq Heights /\ stream[s] \in Phases
    BY DEF TypeOK, Heights, Phases
  <1> QED
    BY <1>1, <1>3, <1>4, <1>5, CatchUpAssumption DEF TypeOK, Heights

\* Only a catch-up that fetches has threads at work.
LEMMA RunningFetches ==
  ASSUME IInv
  PROVE  /\ \A s \in Streams : Sending(s) => run = "fetching"
         /\ mergeFrom \in Streams => run = "fetching" /\ parallel
         /\ run = "fetching" => Busy /\ StreamInv /\ ModeInv /\ OrderInv /\ WholeInv
  <1>1. CASE run = "fetching"
    BY <1>1 DEF IInv, BusyInv, Busy, ModeInv, Streams
  <1>2. CASE run = "joining"
    BY <1>2 DEF IInv, BusyInv, Busy, ModeInv, Streams, Disconnected, Sending
  <1>3. CASE ~Busy
    BY <1>3 DEF IInv, QuietInv, Idle, Busy, Streams, Sending
  <1> QED
    BY <1>1, <1>2, <1>3 DEF Busy

LEMMA EmptyTyped ==
  /\ [s \in Streams |-> {}] \in [Streams -> SUBSET (1..MaxTip)]
  /\ [c \in Streams \cup {Merged} |-> <<>>] \in [Streams \cup {Merged} -> Seq(1..MaxTip)]
  /\ \A c \in Streams \cup {Merged} : Len(<<>>) <= Capacity(c)
  /\ Cardinality({}) < BatchSize
  <1>1. <<>> \in Seq(1..MaxTip) /\ Len(<<>>) = 0
    BY EmptySeq
  <1>2. \A c : Capacity(c) \in Nat
    BY CatchUpAssumption DEF Capacity
  <1>3. Cardinality({}) = 0 /\ BatchSize \in Nat \ {0}
    BY FS_EmptySet, CatchUpAssumption
  <1> QED
    BY <1>1, <1>2, <1>3

LEMMA InitHolds == Init => IInv
  <1> SUFFICES ASSUME Init PROVE IInv
    OBVIOUS
  <1> USE DEF Init, Idle
  <1>1. TypeOK
    <2>1. MaxTip \in Nat /\ Base \in Nat /\ MaxFailures \in Nat
      BY CatchUpAssumption
    <2>2. chan \in [Streams \cup {Merged} -> Seq(1..MaxTip)] /\ \A c \in DOMAIN chan : Len(chan[c]) <= Capacity(c)
      BY EmptyTyped
    <2>3. Cardinality(pending) < BatchSize
      BY EmptyTyped
    <2>4. blocks \subseteq 1..MaxTip /\ pending \subseteq 1..MaxTip /\ failures \in 0..MaxFailures
      BY <2>1
    <2>5. /\ next \in [Streams -> Nat] /\ end \in [Streams -> Nat]
          /\ got \in [Streams -> SUBSET (1..MaxTip)]
          /\ stream \in [Streams -> {"idle", "running", "ended", "failed"}]
      BY EmptyTyped
    <2> QED
      BY <2>1, <2>2, <2>3, <2>4, <2>5 DEF TypeOK
  <1>2. BusyInv /\ OkMeansComplete
    BY DEF BusyInv, Busy, OkMeansComplete
  <1>3. QuietInv
    BY DEF QuietInv
  <1>4. PrefixInv
    <2>1. Base \in Nat /\ DbHeight = Base
      BY CatchUpAssumption DEF DbHeight
    <2>2. Base + 1 .. Base = {}
      BY <2>1
    <2> QED
      BY <2>1, <2>2 DEF PrefixInv, Busy
  <1> QED
    BY <1>1, <1>2, <1>3, <1>4 DEF IInv

-----------------------------------------------------------------------------
(* The start of a catch-up.                                                *)

LEMMA NodeMinesKeeps == IInv /\ NodeMines => IInv'
  <1> SUFFICES ASSUME IInv, NodeMines PROVE IInv'
    OBVIOUS
  <1>1. /\ UNCHANGED <<blocks, run, config, threads, failures, halfFailed>>
        /\ nodeTip' \in 0..MaxTip
    BY CatchUpAssumption DEF NodeMines, IInv, TypeOK
  <1> USE DEF config, threads
  <1>2. TypeOK'
    BY <1>1 DEF IInv, TypeOK
  <1>3. BusyInv'
    BY <1>1 DEF IInv, BusyInv, Busy, StreamInv, ModeInv, OrderInv, WholeInv, Whole, Lo, Unsent,
                Source, Disconnected, Sending
  <1>4. QuietInv' /\ PrefixInv' /\ OkMeansComplete'
    BY <1>1 DEF IInv, QuietInv, Busy, Idle, PrefixInv, DbHeight, OkMeansComplete
  <1> QED
    BY <1>2, <1>3, <1>4 DEF IInv

LEMMA AlreadyUpToDateKeeps == IInv /\ AlreadyUpToDate => IInv'
  <1> SUFFICES ASSUME IInv, AlreadyUpToDate PROVE IInv'
    OBVIOUS
  <1>1. /\ UNCHANGED <<nodeTip, blocks, parallel, threads, failures, halfFailed>>
        /\ run = "down" /\ run' = "live" /\ from' = DbHeight /\ target' = nodeTip
        /\ DbHeight >= nodeTip
    BY DEF AlreadyUpToDate
  <1> USE DEF threads
  <1>2. DbHeight \in Nat /\ nodeTip \in Nat
    BY DbHeightTyped, CatchUpAssumption DEF IInv, TypeOK
  <1>3. TypeOK'
    BY <1>1, <1>2 DEF IInv, TypeOK
  <1>4. BusyInv'
    BY <1>1 DEF BusyInv, Busy
  <1>5. QuietInv'
    BY <1>1 DEF IInv, QuietInv, Busy, Idle
  <1>6. PrefixInv'
    BY <1>1 DEF IInv, PrefixInv, DbHeight, Busy
  <1>7. OkMeansComplete'
    BY <1>1, <1>2 DEF OkMeansComplete
  <1> QED
    BY <1>3, <1>4, <1>5, <1>6, <1>7 DEF IInv

\* The state in which a catch-up starts.
LEMMA Quiet ==
  ASSUME IInv, run = "down"
  PROVE  /\ Idle /\ DbHeight \in Nat /\ nodeTip \in 0..MaxTip /\ MaxTip \in Nat
         /\ Streams = {"A", "B"} /\ Len(<<>>) = 0
  BY EmptySeq, DbHeightTyped, CatchUpAssumption DEF IInv, QuietInv, Busy, TypeOK, Streams

LEMMA StartSingleKeeps == IInv /\ StartSingle => IInv'
  <1> SUFFICES ASSUME IInv, StartSingle PROVE IInv'
    OBVIOUS
  <1>1. /\ run = "down" /\ DbHeight < nodeTip /\ run' = "fetching" /\ parallel' = FALSE
        /\ from' = DbHeight /\ target' = nodeTip /\ last' = DbHeight
        /\ UNCHANGED <<nodeTip, blocks, got, chan, pending, failures, halfFailed>>
        /\ stream' = [stream EXCEPT !["A"] = "running"]
        /\ next' = [next EXCEPT !["A"] = DbHeight + 1]
        /\ end' = [end EXCEPT !["A"] = nodeTip]
        /\ mergeFrom' = "done"
    BY DEF StartSingle, Begin
  <1>2. /\ Idle /\ DbHeight \in Nat /\ nodeTip \in 0..MaxTip /\ MaxTip \in Nat
        /\ Streams = {"A", "B"} /\ Len(<<>>) = 0
    BY <1>1, Quiet
  <1> DEFINE d == DbHeight
    <1> HIDE DEF d
  <1>3. /\ stream' = [s \in Streams |-> IF s = "A" THEN "running" ELSE "idle"]
        /\ next' = [s \in Streams |-> IF s = "A" THEN d + 1 ELSE 0]
        /\ end' = [s \in Streams |-> IF s = "A" THEN nodeTip ELSE 0]
        /\ got' = [s \in Streams |-> {}]
        /\ chan' = [c \in Streams \cup {Merged} |-> <<>>]
        /\ pending' = {}
    <2>1. /\ stream = [s \in Streams |-> "idle"] /\ next = [s \in Streams |-> 0]
          /\ end = [s \in Streams |-> 0] /\ got = [s \in Streams |-> {}]
          /\ chan = [c \in Streams \cup {Merged} |-> <<>>] /\ pending = {}
      BY <1>2 DEF Idle
    <2>2. /\ stream' = [s \in Streams |-> IF s = "A" THEN "running" ELSE "idle"]
          /\ end' = [s \in Streams |-> IF s = "A" THEN nodeTip ELSE 0]
      BY <1>1, <2>1
    <2>3. next' = [s \in Streams |-> IF s = "A" THEN d + 1 ELSE 0]
      BY <1>1, <2>1 DEF d
    <2> QED
      BY <1>1, <2>1, <2>2, <2>3
  <1>4. TypeOK'
    <2>1. /\ stream' \in [Streams -> Phases] /\ next' \in [Streams -> Nat]
          /\ end' \in [Streams -> Nat] /\ from' \in Nat /\ target' \in Nat /\ last' \in Nat
      <3>1. d \in Nat /\ from' = d /\ last' = d /\ target' \in Nat /\ nodeTip \in Nat
        BY <1>1, <1>2 DEF d
      <3> QED
        BY <1>3, <3>1 DEF Phases
    <2> QED
      BY <1>1, <2>1 DEF IInv, TypeOK, Phases
  <1>5. \A s \in Streams : /\ Unsent(s)' = IF s = "A" THEN d + 1 ELSE 0
                           /\ Lo(s)' = Unsent(s)'
    <2> SUFFICES ASSUME NEW s \in Streams
                 PROVE  /\ Unsent(s)' = IF s = "A" THEN d + 1 ELSE 0
                        /\ Lo(s)' = Unsent(s)'
      OBVIOUS
    <2>1. /\ got'[s] = {} /\ chan'[s] = <<>> /\ next'[s] = IF s = "A" THEN d + 1 ELSE 0
      BY <1>3
    <2>2. Unsent(s)' = next'[s]
      BY <2>1 DEF Unsent
    <2>3. next'[s] \in Int
      BY <1>2, <2>1 DEF d
    <2> QED
      BY <1>2, <2>1, <2>2, <2>3 DEF Lo
  <1>6. BusyInv'
    <2>1. StreamInv'
      <3> SUFFICES ASSUME NEW s \in Streams
                   PROVE  /\ Unsent(s)' \in Nat /\ Unsent(s)' <= next'[s]
                          /\ got'[s] = Unsent(s)' .. next'[s] - 1
                          /\ next'[s] <= end'[s] + 1 /\ end'[s] <= MaxTip
                          /\ stream'[s] = "running" => next'[s] >= 1
                          /\ stream'[s] # "running" => got'[s] = {}
                          /\ stream'[s] = "ended" => next'[s] = end'[s] + 1
                          /\ \A i \in 1 .. Len(chan'[s]) : chan'[s][i] = Lo(s)' + i - 1
        BY DEF StreamInv
      <3>1. CASE s = "A"
        BY <1>1, <1>2, <1>3, <1>5, <3>1 DEF d
      <3>2. CASE s = "B"
        BY <1>1, <1>2, <1>3, <1>5, <3>2
      <3> QED
        BY <1>2, <3>1, <3>2
    <2>2. ModeInv'
      BY <1>1, <1>2, <1>3 DEF ModeInv
    <2>3. Source' = "A" /\ Lo("A")' = d + 1 /\ chan'[Merged] = <<>>
      BY <1>1, <1>2, <1>3, <1>5 DEF Source
    <2>4. OrderInv' /\ WholeInv'
      BY <1>1, <1>2, <2>3 DEF OrderInv, WholeInv, d
    <2> QED
      BY <2>1, <2>2, <2>4 DEF BusyInv
  <1>7. PrefixInv'
    <2>1. DbHeight' = d /\ DbHeight = d
      BY <1>1 DEF DbHeight, d
    <2>2. d + 1 .. d = {} /\ d <= d
      BY <1>2 DEF d
    <2> QED
      BY <1>1, <1>2, <1>3, <2>1, <2>2 DEF IInv, PrefixInv
  <1>8. QuietInv' /\ OkMeansComplete'
    BY <1>1 DEF QuietInv, Busy, OkMeansComplete
  <1> QED
    BY <1>4, <1>6, <1>7, <1>8 DEF IInv

LEMMA StartParallelKeeps == IInv /\ StartParallel => IInv'
  <1> SUFFICES ASSUME IInv, StartParallel PROVE IInv'
    OBVIOUS
  <1> DEFINE d == DbHeight
             mid == d + 1 + (nodeTip - d) \div 2 - 1
  <1>1. /\ run = "down" /\ d < nodeTip /\ run' = "fetching" /\ parallel' = TRUE
        /\ from' = d /\ target' = nodeTip /\ last' = d
        /\ UNCHANGED <<nodeTip, blocks, got, chan, pending, failures, halfFailed>>
        /\ nodeTip - d >= Threshold
        /\ stream' = [s \in Streams |-> "running"]
        /\ next' = [s \in Streams |-> IF s = "A" THEN d + 1 ELSE mid + 1]
        /\ end' = [s \in Streams |-> IF s = "A" THEN mid ELSE nodeTip]
        /\ mergeFrom' = "A"
    BY DEF StartParallel, Begin
  <1>2. /\ Idle /\ d \in Nat /\ nodeTip \in 0..MaxTip /\ MaxTip \in Nat
        /\ Streams = {"A", "B"} /\ Len(<<>>) = 0
    BY <1>1, Quiet
  <1>3. mid \in Nat /\ d < mid /\ mid < nodeTip
    <2>1. nodeTip - d \in Nat /\ nodeTip - d >= 2
      BY <1>1, <1>2, CatchUpAssumption
    <2>2. \A n \in Nat : n >= 2 => n \div 2 \in Nat /\ n \div 2 >= 1 /\ n \div 2 < n
      OBVIOUS
    <2>3. /\ (nodeTip - d) \div 2 \in Nat /\ (nodeTip - d) \div 2 >= 1
          /\ (nodeTip - d) \div 2 < nodeTip - d
      BY <2>1, <2>2
    <2> HIDE DEF d
    <2> QED
      BY <1>2, <2>3
  <1> HIDE DEF mid
  <1>4. /\ got' = [s \in Streams |-> {}]
        /\ chan' = [c \in Streams \cup {Merged} |-> <<>>]
        /\ pending' = {}
    BY <1>1, <1>2 DEF Idle
  <1> HIDE DEF d
  <1>5. TypeOK'
    <2>1. /\ stream' \in [Streams -> Phases] /\ next' \in [Streams -> Nat]
          /\ end' \in [Streams -> Nat] /\ from' \in Nat /\ target' \in Nat /\ last' \in Nat
      BY <1>1, <1>2, <1>3 DEF Phases
    <2> QED
      BY <1>1, <2>1 DEF IInv, TypeOK, Phases, Streams
  <1>6. \A s \in Streams : /\ Unsent(s)' = IF s = "A" THEN d + 1 ELSE mid + 1
                           /\ Lo(s)' = Unsent(s)'
    <2> SUFFICES ASSUME NEW s \in Streams
                 PROVE  /\ Unsent(s)' = IF s = "A" THEN d + 1 ELSE mid + 1
                        /\ Lo(s)' = Unsent(s)'
      OBVIOUS
    <2>1. /\ got'[s] = {} /\ chan'[s] = <<>> /\ next'[s] = IF s = "A" THEN d + 1 ELSE mid + 1
      BY <1>1, <1>4
    <2>2. Unsent(s)' = next'[s]
      BY <2>1 DEF Unsent
    <2>3. next'[s] \in Int
      BY <1>2, <1>3, <2>1
    <2> QED
      BY <1>2, <2>1, <2>2, <2>3 DEF Lo
  <1>7. BusyInv'
    <2>1. StreamInv'
      <3> SUFFICES ASSUME NEW s \in Streams
                   PROVE  /\ Unsent(s)' \in Nat /\ Unsent(s)' <= next'[s]
                          /\ got'[s] = Unsent(s)' .. next'[s] - 1
                          /\ next'[s] <= end'[s] + 1 /\ end'[s] <= MaxTip
                          /\ stream'[s] = "running" => next'[s] >= 1
                          /\ stream'[s] # "running" => got'[s] = {}
                          /\ stream'[s] = "ended" => next'[s] = end'[s] + 1
                          /\ \A i \in 1 .. Len(chan'[s]) : chan'[s][i] = Lo(s)' + i - 1
        BY DEF StreamInv
      <3>1. CASE s = "A"
        BY <1>1, <1>2, <1>3, <1>4, <1>6, <3>1
      <3>2. CASE s = "B"
        BY <1>1, <1>2, <1>3, <1>4, <1>6, <3>2
      <3> QED
        BY <1>2, <3>1, <3>2
    <2>2. ModeInv'
      BY <1>1, <1>2, <1>3, <1>4, <1>6 DEF ModeInv
    <2>3. Source' = "A" /\ Lo("A")' = d + 1 /\ chan'[Merged] = <<>>
      BY <1>1, <1>2, <1>4, <1>6 DEF Source
    <2>4. OrderInv' /\ WholeInv'
      BY <1>1, <1>2, <2>3 DEF OrderInv, WholeInv
    <2> QED
      BY <2>1, <2>2, <2>4 DEF BusyInv
  <1>8. PrefixInv'
    <2>1. DbHeight' = d /\ DbHeight = d
      BY <1>1 DEF DbHeight, d
    <2>2. d + 1 .. d = {} /\ d <= d
      BY <1>2
    <2> QED
      BY <1>1, <1>2, <1>4, <2>1, <2>2 DEF IInv, PrefixInv, Streams
  <1>9. QuietInv' /\ OkMeansComplete'
    BY <1>1 DEF QuietInv, Busy, OkMeansComplete
  <1> QED
    BY <1>5, <1>7, <1>8, <1>9 DEF IInv

-----------------------------------------------------------------------------
(* The streams.                                                            *)

\* A step of a stream that leaves its place in the order, the merge thread
\* and the consumer alone.
LEMMA InPlace ==
  ASSUME IInv, run = "fetching", TypeOK', StreamInv',
         \A s \in Streams : Lo(s)' = Lo(s) /\ (stream[s] # "idle" => stream'[s] # "idle"),
         ~parallel => chan'["A"] = <<>> /\ chan'["B"] = <<>> /\ stream'["B"] = "idle",
         parallel /\ mergeFrom # "A" => stream'["A"] = stream["A"] /\ chan'["A"] = <<>>,
         parallel /\ mergeFrom = "done" => stream'["B"] = stream["B"] /\ chan'["B"] = <<>>,
         chan'[Merged] = chan[Merged],
         UNCHANGED <<nodeTip, blocks, run, parallel, from, target, end, mergeFrom, pending, last>>,
         halfFailed => halfFailed',
         parallel /\ stream'["A"] = "failed" => halfFailed' \/ stream["A"] = "failed"
  PROVE  IInv'
  <1>1. StreamInv /\ ModeInv /\ OrderInv /\ WholeInv
    BY RunningFetches
  <1>2. ModeInv'
    BY <1>1 DEF ModeInv, Streams, Sending
  <1>3. Source' = Source /\ Source \in Streams
    BY DEF Source, Streams
  <1>4. OrderInv'
    BY <1>1, <1>3 DEF OrderInv
  <1>5. WholeInv'
    BY <1>1, <1>3 DEF WholeInv, Whole
  <1>6. PrefixInv'
    BY DEF IInv, PrefixInv, DbHeight, Busy
  <1>7. QuietInv' /\ OkMeansComplete'
    BY DEF QuietInv, Busy, OkMeansComplete
  <1> QED
    BY <1>2, <1>4, <1>5, <1>6, <1>7 DEF IInv, BusyInv

LEMMA FetchChunkKeeps ==
  ASSUME NEW s \in Streams, IInv, FetchChunk(s)
  PROVE  IInv'
  <1> DEFINE upto == IF next[s] + Chunk - 1 < end[s] THEN next[s] + Chunk - 1 ELSE end[s]
  <1>1. /\ Sending(s) /\ got[s] = {} /\ next[s] <= end[s]
        /\ got' = [got EXCEPT ![s] = next[s] .. upto]
        /\ next' = [next EXCEPT ![s] = upto + 1]
        /\ UNCHANGED <<nodeTip, blocks, run, config, stream, end, chan, mergeFrom,
                       pending, last, failures, halfFailed>>
    BY DEF FetchChunk
  <1>2. run = "fetching" /\ StreamInv /\ ModeInv
    BY <1>1, RunningFetches
  <1>3. /\ next[s] \in Nat /\ end[s] \in Nat /\ MaxTip \in Nat /\ next[s] >= 1
        /\ end[s] <= MaxTip /\ Unsent(s) = next[s]
    BY <1>1, <1>2, Typed DEF IInv, StreamInv, Sending, Unsent
  <1>4. upto \in Nat /\ next[s] <= upto /\ upto <= end[s]
    BY <1>1, <1>3, CatchUpAssumption
  <1> HIDE DEF upto
  <1>5. \A r \in Streams : /\ got'[r] = IF r = s THEN next[s] .. upto ELSE got[r]
                           /\ next'[r] = IF r = s THEN upto + 1 ELSE next[r]
    BY <1>1 DEF IInv, TypeOK
  <1>6. TypeOK'
    <2>1. next[s] .. upto \subseteq 1..MaxTip /\ upto + 1 \in Nat
      BY <1>3, <1>4
    <2>2. got' \in [Streams -> SUBSET (1..MaxTip)] /\ next' \in [Streams -> Nat]
      BY <1>1, <2>1 DEF IInv, TypeOK
    <2> QED
      BY <1>1, <2>2 DEF IInv, TypeOK, config
  <1>7. \A r \in Streams : Unsent(r)' = Unsent(r)
    <2> SUFFICES ASSUME NEW r \in Streams PROVE Unsent(r)' = Unsent(r)
      OBVIOUS
    <2>1. CASE r = s
      <3>1. got'[s] = next[s] .. upto /\ next[s] \in got'[s]
        BY <1>3, <1>4, <1>5
      <3>2. Least(next[s] .. upto) = next[s]
        BY <1>3, <1>4, LeastOfRange
      <3>3. Unsent(s)' = Least(got'[s])
        BY <3>1 DEF Unsent, Least
      <3> QED
        BY <1>3, <2>1, <3>1, <3>2, <3>3
    <2>2. CASE r # s
      <3>1. got'[r] = got[r] /\ next'[r] = next[r]
        BY <1>5, <2>2
      <3> QED
        BY <3>1 DEF Unsent
    <2> QED
      BY <2>1, <2>2
  <1>8. \A r \in Streams : Lo(r)' = Lo(r)
    BY <1>1, <1>7 DEF Lo
  <1>9. StreamInv'
    <2> SUFFICES ASSUME NEW r \in Streams
                 PROVE  /\ Unsent(r)' \in Nat /\ Unsent(r)' <= next'[r]
                        /\ got'[r] = Unsent(r)' .. next'[r] - 1
                        /\ next'[r] <= end[r] + 1 /\ end[r] <= MaxTip
                        /\ stream[r] = "running" => next'[r] >= 1
                        /\ stream[r] # "running" => got'[r] = {}
                        /\ stream[r] = "ended" => next'[r] = end[r] + 1
                        /\ \A i \in 1 .. Len(chan[r]) : chan[r][i] = Lo(r)' + i - 1
      BY <1>1 DEF StreamInv
    <2>1. CASE r = s
      <3>1. upto + 1 - 1 = upto /\ upto + 1 <= end[s] + 1 /\ next[s] <= upto + 1 /\ upto + 1 >= 1
        BY <1>3, <1>4
      <3>2. stream[s] = "running"
        BY <1>1 DEF Sending
      <3> QED
        <4>1. /\ Unsent(s)' = next[s] /\ next'[s] = upto + 1 /\ got'[s] = next[s] .. upto
              /\ Lo(s)' = Lo(s)
          BY <1>3, <1>5, <1>7, <1>8
        <4>2. \A i \in 1 .. Len(chan[s]) : chan[s][i] = Lo(s)' + i - 1
          BY <1>2, <4>1 DEF StreamInv
        <4> QED
          BY <1>3, <1>4, <2>1, <3>1, <3>2, <4>1, <4>2
    <2>2. CASE r # s
      BY <1>2, <1>5, <1>7, <1>8, <2>2 DEF StreamInv
    <2> QED
      BY <2>1, <2>2
  <1>10. /\ ~parallel => chan["A"] = <<>> /\ chan["B"] = <<>> /\ stream["B"] = "idle"
         /\ parallel /\ mergeFrom # "A" => chan["A"] = <<>>
         /\ parallel /\ mergeFrom = "done" => chan["B"] = <<>>
    BY <1>2 DEF ModeInv
  <1> QED
    BY <1>1, <1>2, <1>6, <1>8, <1>9, <1>10, InPlace DEF config

LEMMA StreamFailsKeeps ==
  ASSUME NEW s \in Streams, IInv, StreamFails(s)
  PROVE  IInv'
  <1>1. /\ Sending(s) /\ got[s] = {} /\ failures < MaxFailures /\ failures' = failures + 1
        /\ stream' = [stream EXCEPT ![s] = "failed"]
        /\ halfFailed' = (halfFailed \/ (parallel /\ s = "A"))
        /\ UNCHANGED <<nodeTip, blocks, run, config, next, end, got, chan, mergeFrom,
                       pending, last>>
    BY DEF StreamFails
  <1>2. run = "fetching" /\ StreamInv /\ ModeInv
    BY <1>1, RunningFetches
  <1>3. TypeOK'
    <2>1. failures' \in 0..MaxFailures
      BY <1>1, CatchUpAssumption DEF IInv, TypeOK
    <2>2. stream' \in [Streams -> {"idle", "running", "ended", "failed"}]
      BY <1>1 DEF IInv, TypeOK
    <2>3. halfFailed' \in BOOLEAN
      BY <1>1 DEF IInv, TypeOK
    <2> QED
      BY <1>1, <2>1, <2>2, <2>3 DEF IInv, TypeOK, config
  <1>4. \A r \in Streams : stream'[r] = IF r = s THEN "failed" ELSE stream[r]
    BY <1>1 DEF IInv, TypeOK
  <1>5. \A r \in Streams : Unsent(r)' = Unsent(r) /\ Lo(r)' = Lo(r)
    BY <1>1 DEF Unsent, Lo
  <1>6. StreamInv'
    BY <1>1, <1>2, <1>4, <1>5 DEF StreamInv
  <1>7. /\ ~parallel => /\ chan["A"] = <<>> /\ chan["B"] = <<>>
                        /\ stream'["B"] = "idle"
        /\ parallel /\ mergeFrom # "A" => stream'["A"] = stream["A"] /\ chan["A"] = <<>>
        /\ parallel /\ mergeFrom = "done" => stream'["B"] = stream["B"] /\ chan["B"] = <<>>
    BY <1>1, <1>2, <1>4 DEF ModeInv, Sending, Streams
  <1>8. halfFailed => halfFailed'
    BY <1>1
  <1>9. parallel /\ stream'["A"] = "failed" => halfFailed' \/ stream["A"] = "failed"
    BY <1>1, <1>4 DEF Streams
  <1> QED
    BY <1>1, <1>2, <1>3, <1>4, <1>5, <1>6, <1>7, <1>8, <1>9, InPlace DEF config

LEMMA EndStreamKeeps ==
  ASSUME NEW s \in Streams, IInv, EndStream(s)
  PROVE  IInv'
  <1>1. /\ Sending(s) /\ got[s] = {} /\ next[s] > end[s]
        /\ stream' = [stream EXCEPT ![s] = "ended"]
        /\ UNCHANGED <<nodeTip, blocks, run, config, next, end, got, chan, mergeFrom,
                       pending, last, failures, halfFailed>>
    BY DEF EndStream
  <1>2. run = "fetching" /\ StreamInv /\ ModeInv
    BY <1>1, RunningFetches
  <1>3. TypeOK'
    <2>1. stream' \in [Streams -> {"idle", "running", "ended", "failed"}]
      BY <1>1 DEF IInv, TypeOK
    <2> QED
      BY <1>1, <2>1 DEF IInv, TypeOK, config
  <1>4. \A r \in Streams : stream'[r] = IF r = s THEN "ended" ELSE stream[r]
    BY <1>1 DEF IInv, TypeOK
  <1>5. \A r \in Streams : Unsent(r)' = Unsent(r) /\ Lo(r)' = Lo(r)
    BY <1>1 DEF Unsent, Lo
  <1>6. StreamInv'
    <2>1. next[s] = end[s] + 1
      BY <1>1, <1>2, Typed DEF StreamInv, IInv
    <2> QED
      BY <1>1, <1>2, <1>4, <1>5, <2>1 DEF StreamInv
  <1>7. /\ ~parallel => /\ chan["A"] = <<>> /\ chan["B"] = <<>>
                        /\ stream'["B"] = "idle"
        /\ parallel /\ mergeFrom # "A" => stream'["A"] = stream["A"] /\ chan["A"] = <<>>
        /\ parallel /\ mergeFrom = "done" => stream'["B"] = stream["B"] /\ chan["B"] = <<>>
    BY <1>1, <1>2, <1>4 DEF ModeInv, Sending, Streams
  <1>8. stream'["A"] = "failed" => stream["A"] = "failed"
    BY <1>4 DEF Streams
  <1> QED
    BY <1>1, <1>2, <1>3, <1>4, <1>5, <1>6, <1>7, <1>8, InPlace DEF config

\* The block a stream sends, what is left of the chunk, and where it goes.
LEMMA SendFacts ==
  ASSUME NEW s \in Streams, IInv, Send(s)
  PROVE  LET h == Unsent(s)
             c == Output(s)
         IN  /\ run = "fetching" /\ StreamInv /\ ModeInv /\ OrderInv /\ WholeInv
             /\ stream[s] = "running" /\ h \in Heights /\ h < next[s] /\ h \in Nat
             /\ c \in Streams \cup {Merged} /\ Len(chan[c]) < Capacity(c)
             /\ chan' = [chan EXCEPT ![c] = Append(chan[c], h)]
             /\ \A r \in Streams : got'[r] = IF r = s THEN h + 1 .. next[s] - 1 ELSE got[r]
             /\ Unsent(s)' = h + 1
             /\ \A r \in Streams : r # s => Unsent(r)' = Unsent(r)
             /\ got' \in [Streams -> SUBSET (1..MaxTip)]
             /\ UNCHANGED <<nodeTip, blocks, run, config, stream, next, end, mergeFrom,
                            pending, last, failures, halfFailed>>
  <1> DEFINE h == Unsent(s)
             c == Output(s)
  <1>1. /\ stream[s] = "running" /\ got[s] # {}
        /\ got' = [got EXCEPT ![s] = got[s] \ {Least(got[s])}]
        /\ Push(c, Least(got[s]))
        /\ UNCHANGED <<nodeTip, blocks, run, config, stream, next, end, mergeFrom,
                       pending, last, failures, halfFailed>>
    BY DEF Send, Sending
  <1>2. run = "fetching" /\ StreamInv /\ ModeInv /\ OrderInv /\ WholeInv
    BY <1>1, RunningFetches DEF Sending
  <1>3. h \in Nat /\ got[s] = h .. next[s] - 1 /\ next[s] \in Nat /\ got[s] # {}
    BY <1>1, <1>2, Typed DEF StreamInv, IInv
  <1>4. h = Least(got[s])
    BY <1>1 DEF Unsent
  <1> HIDE DEF h
  <1>5. h < next[s]
    BY <1>3
  <1>6. h \in got[s] /\ got[s] \subseteq Heights
    BY <1>3, <1>5, Typed DEF IInv
  <1>7. got[s] \ {h} = h + 1 .. next[s] - 1
    BY <1>3, <1>5
  <1>8. got' \in [Streams -> SUBSET (1..MaxTip)]
    BY <1>1 DEF IInv, TypeOK
  <1>9. \A r \in Streams : got'[r] = IF r = s THEN h + 1 .. next[s] - 1 ELSE got[r]
    <2>1. got' = [got EXCEPT ![s] = h + 1 .. next[s] - 1]
      BY <1>1, <1>7, <1>4
    <2> QED
      BY <2>1 DEF IInv, TypeOK
  <1>10. ASSUME NEW r \in Streams, r # s PROVE Unsent(r)' = Unsent(r)
    <2>1. got'[r] = got[r] /\ next'[r] = next[r]
      BY <1>1, <1>9, <1>10
    <2> QED
      BY <2>1 DEF Unsent
  <1>11. Unsent(s)' = h + 1
    <2>1. got'[s] = h + 1 .. next[s] - 1 /\ next'[s] = next[s]
      BY <1>1, <1>9
    <2>2. CASE h + 1 <= next[s] - 1
      <3>1. got'[s] # {} /\ Least(h + 1 .. next[s] - 1) = h + 1
        BY <1>3, <2>1, <2>2, LeastOfRange
      <3> QED
        BY <2>1, <3>1 DEF Unsent
    <2>3. CASE h + 1 > next[s] - 1
      <3>1. got'[s] = {} /\ next[s] = h + 1
        BY <1>3, <1>5, <2>1, <2>3
      <3> QED
        BY <2>1, <3>1 DEF Unsent
    <2> QED
      BY <1>3, <2>2, <2>3
  <1>12. /\ c \in Streams \cup {Merged} /\ Len(chan[c]) < Capacity(c)
         /\ chan' = [chan EXCEPT ![c] = Append(chan[c], h)]
    BY <1>1, <1>4 DEF Push, Output
  <1> QED
    BY <1>1, <1>2, <1>3, <1>5, <1>6, <1>8, <1>9, <1>10, <1>11, <1>12 DEF h

\* A channel that has room stays within its bound when a block is added.
LEMMA AppendTyped ==
  ASSUME TypeOK, NEW c \in Streams \cup {Merged}, Len(chan[c]) < Capacity(c), NEW h \in Heights,
         chan' = [chan EXCEPT ![c] = Append(chan[c], h)]
  PROVE  /\ chan' \in [Streams \cup {Merged} -> Seq(1..MaxTip)]
         /\ \A d \in DOMAIN chan' : Len(chan'[d]) <= Capacity(d)
         /\ Len(chan'[c]) = Len(chan[c]) + 1 /\ Len(chan[c]) \in Nat
         /\ \A i \in 1 .. Len(chan[c]) : chan'[c][i] = chan[c][i]
         /\ chan'[c][Len(chan[c]) + 1] = h
         /\ \A d \in Streams \cup {Merged} : d # c => chan'[d] = chan[d]
  <1>1. /\ Append(chan[c], h) \in Seq(Heights) /\ Len(Append(chan[c], h)) = Len(chan[c]) + 1
        /\ \A i \in 1 .. Len(chan[c]) : Append(chan[c], h)[i] = chan[c][i]
        /\ Append(chan[c], h)[Len(chan[c]) + 1] = h
        /\ Len(chan[c]) \in Nat
    BY Typed, AppendProperties
  <1>2. chan \in [Streams \cup {Merged} -> Seq(1..MaxTip)]
    BY DEF TypeOK
  <1>3. chan'[c] = Append(chan[c], h)
        /\ \A d \in Streams \cup {Merged} : d # c => chan'[d] = chan[d]
    BY <1>2
  <1>4. chan' \in [Streams \cup {Merged} -> Seq(1..MaxTip)]
    BY <1>1, <1>2 DEF Heights
  <1>5. Capacity(c) \in Nat
    BY CatchUpAssumption DEF Capacity
  <1>6. ASSUME NEW d \in DOMAIN chan' PROVE Len(chan'[d]) <= Capacity(d)
    <2>1. CASE d = c
      BY <1>1, <1>3, <1>5, <2>1
    <2>2. CASE d # c
      BY <1>2, <1>3, <1>4, <2>2 DEF TypeOK
    <2> QED
      BY <2>1, <2>2
  <1> QED
    BY <1>1, <1>3, <1>4, <1>6

\* The next block enters the merged channel.
LEMMA MergedGrows ==
  ASSUME TypeOK, OrderInv, WholeInv, NEW h \in Nat, Lo(Source) = h, Lo(Source)' = h + 1,
         Len(chan'[Merged]) = Len(chan[Merged]) + 1,
         \A i \in 1 .. Len(chan[Merged]) : chan'[Merged][i] = chan[Merged][i],
         chan'[Merged][Len(chan[Merged]) + 1] = h,
         Whole' => Whole,
         UNCHANGED <<from, blocks, pending, last>>
  PROVE  OrderInv' /\ WholeInv'
  <1>1. Len(chan[Merged]) \in Nat /\ last \in Nat /\ chan[Merged] \in Seq(Heights)
    BY Typed
  <1>2. ASSUME NEW i \in 1 .. Len(chan'[Merged])
        PROVE  /\ chan'[Merged][i] < h + 1
               /\ chan'[Merged][i] > IF i = 1 THEN last ELSE chan'[Merged][i - 1]
    <2>1. CASE i \in 1 .. Len(chan[Merged])
      <3>1. i # 1 => chan'[Merged][i - 1] = chan[Merged][i - 1]
        <4>1. i # 1 => i - 1 \in 1 .. Len(chan[Merged])
          BY <1>1, <2>1
        <4> QED
          BY <4>1
      <3>2. chan[Merged][i] \in Nat
        <4>1. chan[Merged][i] \in Heights
          BY <1>1, <2>1, ElementOfSeq
        <4> QED
          BY <4>1, CatchUpAssumption DEF Heights
      <3>3. chan[Merged][i] < h
        BY <2>1 DEF OrderInv
      <3>4. chan[Merged][i] > IF i = 1 THEN last ELSE chan[Merged][i - 1]
        BY <2>1 DEF OrderInv
      <3> QED
        BY <2>1, <3>1, <3>2, <3>3, <3>4
    <2>2. CASE i = Len(chan[Merged]) + 1
      <3>1. CASE i = 1
        BY <1>1, <2>2, <3>1 DEF OrderInv
      <3>2. CASE i # 1
        <4>1. i - 1 \in 1 .. Len(chan[Merged]) /\ chan'[Merged][i - 1] = chan[Merged][i - 1]
          BY <1>1, <2>2, <3>2
        <4>2. chan[Merged][i - 1] < h
          BY <4>1 DEF OrderInv
        <4> QED
          BY <2>2, <3>2, <4>1, <4>2
      <3> QED
        BY <3>1, <3>2
    <2> QED
      BY <1>1, <2>1, <2>2
  <1>3. OrderInv'
    <2>1. last < h + 1
      BY <1>1 DEF OrderInv
    <2> QED
      BY <1>2, <2>1 DEF OrderInv
  <1>4. WholeInv'
    <2> SUFFICES ASSUME Whole' PROVE WholeInv'
      BY DEF WholeInv
    <2>1. h = last + Len(chan[Merged]) + 1
      BY DEF WholeInv
    <2>2. ASSUME NEW i \in 1 .. Len(chan'[Merged]) PROVE chan'[Merged][i] = last + i
      <3>1. CASE i \in 1 .. Len(chan[Merged])
        BY <3>1 DEF WholeInv
      <3>2. CASE i = Len(chan[Merged]) + 1
        BY <1>1, <2>1, <3>2
      <3> QED
        BY <1>1, <3>1, <3>2
    <2>3. h + 1 = last + Len(chan'[Merged]) + 1
      BY <1>1, <2>1
    <2> QED
      BY <2>2, <2>3 DEF WholeInv
  <1> QED
    BY <1>3, <1>4

LEMMA SendKeeps ==
  ASSUME NEW s \in Streams, IInv, Send(s)
  PROVE  IInv'
  <1> DEFINE h == Unsent(s)
             c == Output(s)
  <1>1. /\ run = "fetching" /\ StreamInv /\ ModeInv /\ OrderInv /\ WholeInv
        /\ stream[s] = "running" /\ h \in Heights /\ h < next[s] /\ h \in Nat
        /\ c \in Streams \cup {Merged} /\ Len(chan[c]) < Capacity(c)
        /\ chan' = [chan EXCEPT ![c] = Append(chan[c], h)]
        /\ got' \in [Streams -> SUBSET (1..MaxTip)]
        /\ UNCHANGED <<nodeTip, blocks, run, config, stream, next, end, mergeFrom,
                       pending, last, failures, halfFailed>>
    BY SendFacts
  <1>2. /\ \A r \in Streams : got'[r] = IF r = s THEN h + 1 .. next[s] - 1 ELSE got[r]
        /\ Unsent(s)' = h + 1
        /\ \A r \in Streams : r # s => Unsent(r)' = Unsent(r)
    BY SendFacts
  <1>3. TypeOK
    BY DEF IInv
  <1>4. /\ chan' \in [Streams \cup {Merged} -> Seq(1..MaxTip)]
        /\ \A d \in DOMAIN chan' : Len(chan'[d]) <= Capacity(d)
        /\ Len(chan'[c]) = Len(chan[c]) + 1 /\ Len(chan[c]) \in Nat
        /\ \A i \in 1 .. Len(chan[c]) : chan'[c][i] = chan[c][i]
        /\ chan'[c][Len(chan[c]) + 1] = h
        /\ \A d \in Streams \cup {Merged} : d # c => chan'[d] = chan[d]
    BY <1>1, <1>3, AppendTyped
  <1>5. TypeOK'
    BY <1>1, <1>4 DEF IInv, TypeOK, config
  <1>6. /\ \A r \in Streams : next[r] \in Nat /\ end[r] \in Nat /\ Unsent(r) \in Nat
                              /\ Len(chan[r]) \in Nat
        /\ Len(chan[Merged]) \in Nat /\ last \in Nat /\ Merged \notin Streams
        /\ Streams = {"A", "B"}
    BY <1>1, <1>3, Typed DEF StreamInv, Streams
  <1> HIDE DEF h, c
  <1>7. CASE parallel
    <2>1. c = s
      BY <1>7 DEF c, Output
    <2>2. /\ Len(chan'[s]) = Len(chan[s]) + 1 /\ Len(chan[s]) \in Nat
          /\ \A i \in 1 .. Len(chan[s]) : chan'[s][i] = chan[s][i]
          /\ chan'[s][Len(chan[s]) + 1] = h
          /\ Unsent(s)' = h + 1 /\ h \in Nat
      BY <1>1, <1>2, <1>4, <2>1
    <2>3. Lo(s) = h - Len(chan[s])
      BY DEF Lo, h
    <2>4. \A r \in Streams : Lo(r)' = Lo(r)
      <3> SUFFICES ASSUME NEW r \in Streams PROVE Lo(r)' = Lo(r)
        OBVIOUS
      <3>1. CASE r = s
        <4>1. Lo(s)' = h + 1 - (Len(chan[s]) + 1)
          BY <2>2 DEF Lo
        <4> QED
          BY <2>3, <2>2, <3>1, <4>1
      <3>2. CASE r # s
        BY <1>2, <1>4, <2>1, <3>2 DEF Lo
      <3> QED
        BY <3>1, <3>2
    <2>5. StreamInv'
      <3> SUFFICES ASSUME NEW r \in Streams
                   PROVE  /\ Unsent(r)' \in Nat /\ Unsent(r)' <= next[r]
                          /\ got'[r] = Unsent(r)' .. next[r] - 1
                          /\ next[r] <= end[r] + 1 /\ end[r] <= MaxTip
                          /\ stream[r] = "running" => next[r] >= 1
                          /\ stream[r] # "running" => got'[r] = {}
                          /\ stream[r] = "ended" => next[r] = end[r] + 1
                          /\ \A i \in 1 .. Len(chan'[r]) : chan'[r][i] = Lo(r) + i - 1
        BY <1>1, <2>4 DEF StreamInv
      <3>1. CASE r = s
        <4>1. ASSUME NEW i \in 1 .. Len(chan'[s]) PROVE chan'[s][i] = Lo(s) + i - 1
          <5>1. CASE i \in 1 .. Len(chan[s])
            BY <1>1, <2>2, <5>1 DEF StreamInv
          <5>2. CASE i = Len(chan[s]) + 1
            BY <2>3, <2>2, <5>2
          <5> QED
            BY <2>2, <5>1, <5>2
        <4> QED
          <5>1. /\ next[s] <= end[s] + 1 /\ end[s] <= MaxTip /\ next[s] >= 1
            BY <1>1 DEF StreamInv
          <5>2. h + 1 <= next[s] /\ h + 1 \in Nat
            BY <1>1, <1>6
          <5>3. got'[s] = h + 1 .. next[s] - 1
            BY <1>2
          <5> QED
            BY <1>1, <2>2, <3>1, <4>1, <5>1, <5>2, <5>3
      <3>2. CASE r # s
        BY <1>1, <1>2, <1>4, <2>1, <3>2 DEF StreamInv
      <3> QED
        BY <3>1, <3>2
    <2>6. /\ mergeFrom # "A" => chan'["A"] = <<>>
          /\ mergeFrom # "done"
      BY <1>1, <1>4, <1>6, <1>7, <2>1 DEF ModeInv, Sending
    <2>7. chan'[Merged] = chan[Merged]
      BY <1>4, <1>6, <2>1
    <2> QED
      BY <1>1, <1>5, <1>7, <2>4, <2>5, <2>6, <2>7, InPlace DEF IInv, PrefixInv, config
  <1>8. CASE ~parallel
    <2>1. c = Merged /\ s = "A" /\ chan["A"] = <<>> /\ chan["B"] = <<>> /\ Source = "A"
      BY <1>1, <1>6, <1>8 DEF c, Output, ModeInv, Source
    <2>2. chan'["A"] = <<>> /\ chan'["B"] = <<>> /\ Len(<<>>) = 0
      BY <1>4, <1>6, <2>1, EmptySeq
    <2>3. Lo("A") = h /\ Lo("A")' = h + 1 /\ Lo("B")' = Lo("B") /\ h \in Nat
      BY <1>1, <1>2, <1>6, <2>1, <2>2 DEF Lo, h
    <2>4. /\ Len(chan'[Merged]) = Len(chan[Merged]) + 1 /\ Len(chan[Merged]) \in Nat
           /\ \A i \in 1 .. Len(chan[Merged]) : chan'[Merged][i] = chan[Merged][i]
           /\ chan'[Merged][Len(chan[Merged]) + 1] = h
      BY <1>4, <2>1
    <2>5. StreamInv'
      <3> SUFFICES ASSUME NEW r \in Streams
                   PROVE  /\ Unsent(r)' \in Nat /\ Unsent(r)' <= next[r]
                          /\ got'[r] = Unsent(r)' .. next[r] - 1
                          /\ next[r] <= end[r] + 1 /\ end[r] <= MaxTip
                          /\ stream[r] = "running" => next[r] >= 1
                          /\ stream[r] # "running" => got'[r] = {}
                          /\ stream[r] = "ended" => next[r] = end[r] + 1
                          /\ \A i \in 1 .. Len(chan'[r]) : chan'[r][i] = Lo(r)' + i - 1
        BY <1>1 DEF StreamInv
      <3>1. CASE r = s
        BY <1>1, <1>2, <1>6, <2>1, <2>2, <3>1 DEF StreamInv
      <3>2. CASE r # s
        BY <1>1, <1>2, <1>6, <2>1, <2>2, <3>2 DEF StreamInv
      <3> QED
        BY <3>1, <3>2
    <2>6. ModeInv'
      BY <1>1, <1>6, <1>8, <2>1, <2>2 DEF ModeInv, config
    <2>7. Source' = "A" /\ Whole /\ Whole'
      BY <1>1, <1>8 DEF Source, Whole, config
    <2>8. OrderInv' /\ WholeInv'
      <3>1. Lo(Source) = h /\ Lo(Source)' = h + 1
        BY <2>1, <2>3, <2>7
      <3> QED
        BY <1>1, <1>3, <2>3, <2>7, <2>4, <3>1, MergedGrows DEF config
    <2>9. PrefixInv'
      BY <1>1 DEF IInv, PrefixInv, DbHeight, Busy, config
    <2>10. QuietInv' /\ OkMeansComplete'
      BY <1>1 DEF QuietInv, Busy, OkMeansComplete
    <2> QED
      BY <1>5, <2>5, <2>6, <2>8, <2>9, <2>10 DEF IInv, BusyInv
  <1> QED
    BY <1>7, <1>8

-----------------------------------------------------------------------------
(* The merge thread.                                                       *)

LEMMA ForwardKeeps ==
  ASSUME NEW s \in Streams, IInv, Forward(s)
  PROVE  IInv'
  <1> DEFINE q == chan[s]
             h == Head(q)
  <1>1. /\ mergeFrom = s /\ q # <<>> /\ Len(chan[Merged]) < Capacity(Merged)
        /\ chan' = [chan EXCEPT ![s] = Tail(q), ![Merged] = Append(chan[Merged], h)]
        /\ UNCHANGED <<nodeTip, blocks, run, config, stream, next, end, got, mergeFrom,
                       pending, last, failures, halfFailed>>
    BY DEF Forward
  <1>2. run = "fetching" /\ parallel /\ StreamInv /\ ModeInv /\ OrderInv /\ WholeInv
    BY <1>1, RunningFetches
  <1>3. /\ chan \in [Streams \cup {Merged} -> Seq(Heights)]
        /\ q \in Seq(Heights) /\ chan[Merged] \in Seq(Heights)
        /\ Merged \notin Streams /\ Streams = {"A", "B"}
        /\ \A r \in Streams : Unsent(r) \in Nat /\ Len(chan[r]) \in Nat /\ next[r] \in Nat
    BY <1>2, Typed DEF IInv, TypeOK, Heights, StreamInv, Streams
  <1>4. Source = s /\ Source' = s
    BY <1>1, <1>2, <1>3 DEF Source, config
  <1>5. /\ Len(q) \in Nat /\ Len(q) >= 1 /\ h = q[1]
        /\ h \in Heights /\ Tail(q) \in Seq(Heights) /\ Len(Tail(q)) = Len(q) - 1
        /\ \A i \in 1 .. Len(Tail(q)) : Tail(q)[i] = q[i + 1]
    <2>1. Len(q) \in Nat /\ Len(q) >= 1
      BY <1>1, <1>3, Typed DEF IInv
    <2> HIDE DEF q
    <2>2. Head(q) = q[1]
      BY <1>1, <1>3
    <2>3. /\ Head(q) \in Heights /\ Tail(q) \in Seq(Heights) /\ Len(Tail(q)) = Len(q) - 1
          /\ \A i \in 1 .. Len(Tail(q)) : Tail(q)[i] = q[i + 1]
      BY <1>1, <1>3, HeadTailProperties
    <2> QED
      BY <2>1, <2>2, <2>3
  <1>6. h = Lo(s) /\ h \in Nat
    <2>1. q[1] = Lo(s) + 1 - 1 /\ Lo(s) \in Int
      BY <1>2, <1>3, <1>5 DEF StreamInv, Lo
    <2> QED
      BY <1>5, <2>1, CatchUpAssumption DEF Heights
  <1>7. LET m == Append(chan[Merged], h)
        IN  /\ m \in Seq(Heights) /\ Len(m) = Len(chan[Merged]) + 1
            /\ \A i \in 1 .. Len(chan[Merged]) : m[i] = chan[Merged][i]
            /\ m[Len(chan[Merged]) + 1] = h
    BY <1>3, <1>5, AppendProperties
  <1>8. /\ chan'[s] = Tail(q) /\ chan'[Merged] = Append(chan[Merged], h)
        /\ \A r \in Streams : r # s => chan'[r] = chan[r]
    BY <1>1, <1>3
  <1>9. TypeOK'
    <2>1. chan' \in [Streams \cup {Merged} -> Seq(Heights)]
      BY <1>1, <1>3, <1>5, <1>7
    <2>2. ASSUME NEW c \in Streams \cup {Merged} PROVE Len(chan'[c]) <= Capacity(c)
      <3>1. Len(chan[c]) <= Capacity(c) /\ Capacity(c) \in Nat /\ Len(chan[c]) \in Nat
        BY <1>3, Typed, CatchUpAssumption DEF IInv, TypeOK, Capacity
      <3>2. CASE c = s
        <4>1. Len(chan'[s]) = Len(q) - 1 /\ Len(q) <= Capacity(s) /\ Capacity(s) \in Nat
          BY <1>5, <1>8, <3>1, <3>2
        <4> QED
          BY <1>5, <3>2, <4>1
      <3>3. CASE c = Merged
        BY <1>1, <1>7, <1>8, <3>1, <3>3
      <3>4. CASE c # s /\ c # Merged
        BY <1>8, <3>1, <3>4
      <3> QED
        BY <3>2, <3>3, <3>4
    <2>3. \A c \in DOMAIN chan' : Len(chan'[c]) <= Capacity(c)
      BY <2>1, <2>2
    <2> QED
      BY <1>1, <2>1, <2>3 DEF IInv, TypeOK, Heights, config
  <1> HIDE DEF h
  <1>10. /\ \A r \in Streams : Unsent(r)' = Unsent(r)
         /\ \A r \in Streams : r # s => Lo(r)' = Lo(r)
    BY <1>1, <1>8 DEF Unsent, Lo
  <1>11. Lo(s)' = h + 1
    <2>1. Lo(s)' = Unsent(s) - (Len(q) - 1) /\ Lo(s) = Unsent(s) - Len(q)
      BY <1>5, <1>8, <1>10 DEF Lo
    <2> QED
      BY <1>3, <1>5, <1>6, <2>1
  <1>12. StreamInv'
    <2>1. ASSUME NEW r \in Streams, NEW i \in 1 .. Len(chan'[r])
          PROVE  chan'[r][i] = Lo(r)' + i - 1
      <3>1. CASE r = s
        <4>1. i \in 1 .. Len(q) - 1 /\ chan'[s][i] = q[i + 1]
          BY <1>5, <1>8, <3>1
        <4>2. q[i + 1] = Lo(s) + (i + 1) - 1
          BY <1>2, <1>5, <4>1 DEF StreamInv
        <4> QED
          BY <1>6, <1>11, <3>1, <4>1, <4>2
      <3>2. CASE r # s
        BY <1>2, <1>8, <1>10, <3>2 DEF StreamInv
      <3> QED
        BY <3>1, <3>2
    <2> QED
      BY <1>1, <1>2, <1>10, <2>1 DEF StreamInv
  <1>13. ModeInv'
    BY <1>1, <1>2, <1>3, <1>8, <1>10 DEF ModeInv, Sending, config
  <1>14. OrderInv' /\ WholeInv'
    <2>1. Lo(Source) = h /\ Lo(Source)' = h + 1
      BY <1>4, <1>6, <1>11
    <2>2. Whole' => Whole
      BY <1>1 DEF Whole, config
    <2>3. TypeOK
      BY DEF IInv
    <2> QED
      BY <1>1, <1>2, <1>6, <1>7, <1>8, <2>1, <2>2, <2>3, MergedGrows DEF config
  <1>15. PrefixInv'
    BY <1>1 DEF IInv, PrefixInv, DbHeight, Busy, config
  <1>16. QuietInv' /\ OkMeansComplete'
    BY <1>1, <1>2 DEF QuietInv, Busy, OkMeansComplete
  <1> QED
    BY <1>9, <1>12, <1>13, <1>14, <1>15, <1>16 DEF IInv, BusyInv

LEMMA HandOverKeeps ==
  ASSUME NEW s \in Streams, IInv, HandOver(s)
  PROVE  IInv'
  <1>1. /\ mergeFrom = s /\ chan[s] = <<>> /\ ~Sending(s)
        /\ mergeFrom' = IF s = "A" THEN "B" ELSE "done"
        /\ UNCHANGED <<nodeTip, blocks, run, config, stream, next, end, got, chan,
                       pending, last, failures, halfFailed>>
    BY DEF HandOver
  <1>2. run = "fetching" /\ parallel /\ StreamInv /\ ModeInv /\ OrderInv /\ WholeInv
    BY <1>1, RunningFetches
  <1>3. /\ Merged \notin Streams /\ Streams = {"A", "B"} /\ last \in Nat
        /\ \A r \in Streams : /\ Unsent(r) \in Nat /\ Len(chan[r]) \in Nat /\ next[r] \in Nat
                              /\ end[r] \in Nat
        /\ Len(<<>>) = 0
    BY <1>2, Typed, EmptySeq DEF IInv, StreamInv, Streams
  <1>4. TypeOK'
    BY <1>1, <1>3 DEF IInv, TypeOK, config
  <1>5. \A r \in Streams : Unsent(r)' = Unsent(r) /\ Lo(r)' = Lo(r)
    BY <1>1 DEF Unsent, Lo
  <1>6. StreamInv'
    BY <1>1, <1>2, <1>5 DEF StreamInv
  <1>7. ModeInv'
    BY <1>1, <1>2, <1>3, <1>5 DEF ModeInv, Sending, config
  <1>8. OrderInv' /\ WholeInv'
    <2>1. CASE s = "A"
      <3>1. Source = "A" /\ Source' = "B"
        BY <1>1, <1>2, <2>1 DEF Source, config
      <3>2. Lo("A") = Unsent("A") /\ Lo("A") \in Nat /\ Lo("B") = end["A"] + 1
        BY <1>1, <1>2, <1>3, <2>1 DEF Lo, ModeInv
      <3>3. Lo("A") <= Lo("B")
        BY <1>2, <1>3, <3>2 DEF StreamInv
      <3>4. OrderInv'
        <4>1. last < Lo("B")
          BY <1>2, <1>3, <3>1, <3>2, <3>3 DEF OrderInv
        <4>2. ASSUME NEW i \in 1 .. Len(chan[Merged]) PROVE chan[Merged][i] < Lo("B")
          <5>1. chan[Merged][i] \in Heights /\ chan[Merged][i] < Lo("A")
            BY <1>2, <3>1, Typed, ElementOfSeq DEF IInv, OrderInv
          <5> QED
            BY <1>3, <3>2, <3>3, <5>1, CatchUpAssumption DEF Heights
        <4> QED
          BY <1>1, <1>2, <1>3, <1>5, <3>1, <4>1, <4>2 DEF OrderInv
      <3>5. WholeInv'
        <4> SUFFICES ASSUME stream["A"] # "failed" PROVE WholeInv'
          BY <1>1, <1>2, <2>1 DEF WholeInv, Whole, config
        <4>1. stream["A"] = "ended"
          BY <1>1, <1>2, <1>3, <2>1, Typed DEF IInv, ModeInv, Sending, Phases
        <4>2. got["A"] = {} /\ next["A"] = end["A"] + 1
          BY <1>2, <1>3, <4>1 DEF StreamInv
        <4>3. Lo("B") = Lo("A")
          BY <3>2, <4>2 DEF Unsent
        <4>4. Whole
          BY <1>1, <2>1 DEF Whole
        <4> QED
          BY <1>1, <1>2, <1>3, <1>5, <3>1, <4>3, <4>4 DEF WholeInv, config
      <3> QED
        BY <3>4, <3>5
    <2>2. CASE s = "B"
      <3>1. Source = "B" /\ Source' = "B"
        BY <1>1, <1>2, <2>2 DEF Source, config
      <3>2. Whole' => Whole
        BY <1>1, <1>2, <2>2 DEF Whole, config
      <3> QED
        BY <1>1, <1>2, <1>3, <1>5, <3>1, <3>2 DEF OrderInv, WholeInv, config
    <2> QED
      BY <1>3, <2>1, <2>2
  <1>9. PrefixInv'
    BY <1>1 DEF IInv, PrefixInv, DbHeight, Busy, config
  <1>10. QuietInv' /\ OkMeansComplete'
    BY <1>1, <1>2 DEF QuietInv, Busy, OkMeansComplete
  <1> QED
    BY <1>4, <1>6, <1>7, <1>8, <1>9, <1>10 DEF IInv, BusyInv

-----------------------------------------------------------------------------
(* The consumer.                                                           *)

\* The table while no half has been cut short, and the batch above it.
LEMMA PrefixFacts ==
  ASSUME IInv, ~halfFailed, Busy
  PROVE  /\ blocks = Base + 1 .. DbHeight /\ pending = DbHeight + 1 .. last
         /\ Base \in Nat /\ DbHeight \in Nat /\ last \in Nat
         /\ Base <= DbHeight /\ DbHeight <= last /\ Whole
  <1>1. /\ blocks = Base + 1 .. DbHeight /\ pending = DbHeight + 1 .. last /\ DbHeight <= last
        /\ Whole
    BY DEF IInv, PrefixInv, Whole
  <1>2. /\ DbHeight \in Nat /\ Base \in Nat /\ last \in Nat
        /\ blocks # {} => DbHeight \in blocks
    BY DbHeightTyped, CatchUpAssumption DEF IInv, TypeOK
  <1>3. Base <= DbHeight
    <2>1. CASE blocks = {}
      BY <1>2, <2>1 DEF DbHeight
    <2>2. CASE blocks # {}
      <3>1. DbHeight \in Base + 1 .. DbHeight
        BY <1>1, <1>2, <2>2
      <3> QED
        BY <1>2, <3>1
    <2> QED
      BY <2>1, <2>2
  <1> QED
    BY <1>1, <1>2, <1>3

\* The block the consumer receives is above every block before it.
LEMMA ConsumeFacts ==
  ASSUME IInv, Consume
  PROVE  LET q == chan[Merged]
             h == q[1]
         IN  /\ run = "fetching" /\ StreamInv /\ ModeInv /\ OrderInv /\ WholeInv
             /\ q \in Seq(Heights) /\ Len(q) \in Nat /\ Len(q) >= 1
             /\ h \in Heights /\ h \in Nat /\ h > last
             /\ chan' = [chan EXCEPT ![Merged] = Tail(q)]
             /\ Tail(q) \in Seq(Heights) /\ Len(Tail(q)) = Len(q) - 1
             /\ \A i \in 1 .. Len(q) - 1 : Tail(q)[i] = q[i + 1]
             /\ last' = h
             /\ \/ /\ blocks' = blocks \cup (pending \cup {h}) /\ pending' = {}
                \/ /\ blocks' = blocks /\ pending' = pending \cup {h}
                   /\ ~(Cardinality(pending \cup {h}) >= BatchSize)
             /\ UNCHANGED <<nodeTip, run, config, stream, next, end, got, mergeFrom,
                            failures, halfFailed>>
  <1> DEFINE q == chan[Merged]
  <1>1. q # <<>> /\ run = "fetching"
    BY DEF Consume
  <1>2. StreamInv /\ ModeInv /\ OrderInv /\ WholeInv
    BY <1>1, RunningFetches
  <1>3. q \in Seq(Heights) /\ Len(q) \in Nat /\ Len(q) >= 1 /\ last \in Nat
    BY <1>1, Typed DEF IInv
  <1>4. q[1] > last
    BY <1>2, <1>3 DEF OrderInv
  <1>5. Head(q) = q[1] /\ q[1] \in Heights
    <2> HIDE DEF q
    <2> QED
      BY <1>1, <1>3, HeadTailProperties
  <1>6. Tail(q) \in Seq(Heights) /\ Len(Tail(q)) = Len(q) - 1
        /\ \A i \in 1 .. Len(q) - 1 : Tail(q)[i] = q[i + 1]
    <2> HIDE DEF q
    <2> QED
      BY <1>1, <1>3, HeadTailProperties
  <1>7. q[1] \in Nat /\ ~(q[1] <= last)
    BY <1>3, <1>4, <1>5, CatchUpAssumption DEF Heights
  <1>8. /\ last' = q[1]
        /\ \/ /\ blocks' = blocks \cup (pending \cup {q[1]}) /\ pending' = {}
           \/ /\ blocks' = blocks /\ pending' = pending \cup {q[1]}
              /\ ~(Cardinality(pending \cup {q[1]}) >= BatchSize)
    BY <1>5, <1>7 DEF Consume
  <1>9. /\ chan' = [chan EXCEPT ![Merged] = Tail(q)]
        /\ UNCHANGED <<nodeTip, run, config, stream, next, end, got, mergeFrom,
                       failures, halfFailed>>
    BY DEF Consume
  <1> QED
    BY <1>1, <1>2, <1>3, <1>4, <1>5, <1>6, <1>7, <1>8, <1>9

LEMMA ConsumeKeeps ==
  ASSUME IInv, Consume
  PROVE  IInv'
  <1> DEFINE q == chan[Merged]
             h == q[1]
  <1>1. /\ run = "fetching" /\ StreamInv /\ ModeInv /\ OrderInv /\ WholeInv
        /\ q \in Seq(Heights) /\ Len(q) \in Nat /\ Len(q) >= 1
        /\ h \in Heights /\ h \in Nat /\ h > last
        /\ chan' = [chan EXCEPT ![Merged] = Tail(q)]
        /\ Tail(q) \in Seq(Heights) /\ Len(Tail(q)) = Len(q) - 1
        /\ \A i \in 1 .. Len(q) - 1 : Tail(q)[i] = q[i + 1]
        /\ last' = h
        /\ UNCHANGED <<nodeTip, run, config, stream, next, end, got, mergeFrom,
                       failures, halfFailed>>
    BY ConsumeFacts
  <1>2. \/ /\ blocks' = blocks \cup (pending \cup {h}) /\ pending' = {}
        \/ /\ blocks' = blocks /\ pending' = pending \cup {h}
           /\ ~(Cardinality(pending \cup {h}) >= BatchSize)
    BY ConsumeFacts
  <1>3. /\ chan \in [Streams \cup {Merged} -> Seq(Heights)] /\ Merged \notin Streams
        /\ Streams = {"A", "B"} /\ last \in Nat /\ from \in Nat
        /\ blocks \subseteq Heights /\ pending \subseteq Heights
        /\ IsFiniteSet(Heights)
    <2>1. IsFiniteSet(Heights)
      BY FS_Interval, CatchUpAssumption DEF Heights
    <2>2. Merged \notin Streams /\ Streams = {"A", "B"} /\ last \in Nat /\ from \in Nat
      BY Typed DEF IInv, Streams
    <2> QED
      BY <2>1, <2>2 DEF IInv, TypeOK, Heights
  <1>4. chan'[Merged] = Tail(q) /\ \A r \in Streams : chan'[r] = chan[r]
    BY <1>1, <1>3
  <1>5. TypeOK'
    <2>1. chan' \in [Streams \cup {Merged} -> Seq(Heights)]
      BY <1>1, <1>3
    <2>2. ASSUME NEW c \in Streams \cup {Merged} PROVE Len(chan'[c]) <= Capacity(c)
      <3>1. Len(chan[c]) <= Capacity(c) /\ Capacity(c) \in Nat
        BY <1>3, CatchUpAssumption DEF IInv, TypeOK, Capacity
      <3>2. CASE c = Merged
        <4>1. Len(chan'[Merged]) = Len(q) - 1 /\ Len(q) <= Capacity(Merged)
              /\ Capacity(Merged) \in Nat
          BY <1>1, <1>4, <3>1, <3>2
        <4> QED
          BY <1>1, <3>2, <4>1
      <3>3. CASE c # Merged
        BY <1>4, <3>1, <3>3
      <3> QED
        BY <3>2, <3>3
    <2>3. \A c \in DOMAIN chan' : Len(chan'[c]) <= Capacity(c)
      BY <2>1, <2>2
    <2>4. blocks' \subseteq Heights /\ pending' \subseteq Heights
      BY <1>1, <1>2, <1>3
    <2>5. Cardinality(pending') < BatchSize
      <3>1. Cardinality(pending') \in Nat /\ BatchSize \in Nat
        BY <1>3, <2>4, FS_Subset, FS_CardinalityType, CatchUpAssumption
      <3> QED
        BY <1>2, <3>1, EmptyTyped
    <2> QED
      BY <1>1, <2>1, <2>3, <2>4, <2>5 DEF IInv, TypeOK, Heights, config
  <1> HIDE DEF h
  <1>6. /\ \A r \in Streams : Unsent(r)' = Unsent(r) /\ Lo(r)' = Lo(r)
        /\ Source' = Source /\ Source \in Streams
    BY <1>1, <1>3, <1>4 DEF Unsent, Lo, Source, config
  <1>7. StreamInv'
    BY <1>1, <1>4, <1>6 DEF StreamInv
  <1>8. ModeInv'
    BY <1>1, <1>3, <1>4, <1>6 DEF ModeInv, Sending, config
  <1>9. OrderInv'
    <2>1. h < Lo(Source)
      BY <1>1 DEF OrderInv, h
    <2>2. ASSUME NEW i \in 1 .. Len(q) - 1
          PROVE  /\ chan'[Merged][i] < Lo(Source)
                 /\ chan'[Merged][i] > IF i = 1 THEN h ELSE chan'[Merged][i - 1]
      <3>1. i + 1 \in 1 .. Len(q) /\ chan'[Merged][i] = q[i + 1] /\ i \in Nat
        <4>1. i \in 1 .. Len(q) - 1 /\ Len(q) \in Nat
          BY <1>1
        <4>2. i + 1 \in 1 .. Len(q) /\ i \in Nat
          BY <4>1
        <4> QED
          BY <1>1, <1>4, <4>1, <4>2
      <3>2. q[i + 1] < Lo(Source) /\ q[i + 1] > q[i]
        BY <1>1, <3>1 DEF OrderInv
      <3>3. CASE i = 1
        BY <3>1, <3>2, <3>3 DEF h
      <3>4. CASE i # 1
        <4>1. i - 1 \in 1 .. Len(q) - 1
          BY <1>1, <3>1, <3>4
        <4>2. chan'[Merged][i - 1] = q[i - 1 + 1]
          BY <1>1, <1>4, <4>1
        <4>3. chan'[Merged][i - 1] = q[i]
          BY <3>1, <4>2
        <4> QED
          BY <3>1, <3>2, <3>4, <4>3
      <3> QED
        BY <3>3, <3>4
    <2> QED
      BY <1>1, <1>4, <1>6, <2>1, <2>2 DEF OrderInv
  <1>10. WholeInv'
    <2> SUFFICES ASSUME Whole
                 PROVE  /\ Lo(Source) = h + Len(Tail(q)) + 1
                        /\ \A i \in 1 .. Len(Tail(q)) : Tail(q)[i] = h + i
                        /\ from + 1 .. h \subseteq blocks' \cup pending'
      BY <1>1, <1>4, <1>6 DEF WholeInv, Whole, config
    <2>1. /\ Lo(Source) = last + Len(q) + 1 /\ h = last + 1
          /\ \A i \in 1 .. Len(q) : q[i] = last + i
          /\ from + 1 .. last \subseteq blocks \cup pending
      BY <1>1 DEF WholeInv, h
    <2>2. Lo(Source) = h + Len(Tail(q)) + 1
      BY <1>1, <1>3, <2>1
    <2>3. ASSUME NEW i \in 1 .. Len(Tail(q)) PROVE Tail(q)[i] = h + i
      <3>1. i \in 1 .. Len(q) - 1 /\ i + 1 \in 1 .. Len(q) /\ i \in Nat
        BY <1>1
      <3>2. Tail(q)[i] = last + (i + 1)
        BY <1>1, <2>1, <3>1
      <3> QED
        BY <1>3, <2>1, <3>1, <3>2
    <2>4. from + 1 .. h \subseteq blocks' \cup pending'
      <3>1. from + 1 .. h \subseteq (from + 1 .. last) \cup {h}
        BY <1>3, <2>1
      <3>2. blocks \cup pending \cup {h} \subseteq blocks' \cup pending'
        BY <1>2
      <3> QED
        BY <2>1, <3>1, <3>2
    <2> QED
      BY <2>2, <2>3, <2>4
  <1>11. PrefixInv'
    <2> SUFFICES ASSUME ~halfFailed PROVE PrefixInv'
      BY <1>1 DEF PrefixInv
    <2>1. /\ blocks = Base + 1 .. DbHeight /\ pending = DbHeight + 1 .. last
          /\ Base \in Nat /\ DbHeight \in Nat
          /\ Base <= DbHeight /\ DbHeight <= last /\ Whole
      BY <1>1, PrefixFacts DEF Busy
    <2>2. h = last + 1
      BY <1>1, <2>1 DEF WholeInv, h
    <2>3. parallel' => stream'["A"] # "failed"
      BY <1>1 DEF IInv, PrefixInv, Busy, config
    <2>4. CASE blocks' = blocks \cup (pending \cup {h}) /\ pending' = {}
      <3>1. blocks' = Base + 1 .. h
        BY <1>3, <2>1, <2>2, <2>4
      <3>2. DbHeight' = h
        BY <1>1, <1>3, <2>1, <2>2, <3>1, DbHeightIsHighest, HighestOfRange
      <3>3. h + 1 .. h = {} /\ h <= h
        BY <1>1
      <3> QED
        BY <1>1, <2>3, <2>4, <3>1, <3>2, <3>3 DEF PrefixInv
    <2>5. CASE blocks' = blocks /\ pending' = pending \cup {h}
      <3>1. DbHeight' = DbHeight
        BY <2>5 DEF DbHeight
      <3>2. pending' = DbHeight + 1 .. h /\ DbHeight <= h
        BY <1>3, <2>1, <2>2, <2>5
      <3> QED
        BY <1>1, <2>1, <2>3, <2>5, <3>1, <3>2 DEF PrefixInv
    <2> QED
      BY <1>2, <2>4, <2>5
  <1>12. QuietInv' /\ OkMeansComplete'
    BY <1>1 DEF QuietInv, Busy, OkMeansComplete
  <1> QED
    BY <1>5, <1>7, <1>8, <1>9, <1>10, <1>11, <1>12 DEF IInv, BusyInv

LEMMA CommitRestKeeps ==
  ASSUME IInv, CommitRest
  PROVE  IInv'
  <1>1. /\ run = "fetching" /\ chan[Merged] = <<>> /\ Disconnected
        /\ blocks' = blocks \cup pending /\ pending' = {} /\ run' = "joining"
        /\ UNCHANGED <<nodeTip, config, stream, next, end, got, chan, mergeFrom, last,
                       failures, halfFailed>>
    BY DEF CommitRest
  <1>2. StreamInv /\ ModeInv /\ OrderInv /\ WholeInv
    BY <1>1, RunningFetches
  <1>3. TypeOK'
    BY <1>1, EmptyTyped DEF IInv, TypeOK, config
  <1>4. /\ \A r \in Streams : Unsent(r)' = Unsent(r) /\ Lo(r)' = Lo(r)
        /\ Source' = Source /\ Source \in Streams
    BY <1>1 DEF Unsent, Lo, Source, config, Streams
  <1>5. StreamInv' /\ OrderInv'
    BY <1>1, <1>2, <1>4 DEF StreamInv, OrderInv
  <1>6. ModeInv'
    BY <1>1, <1>2, <1>4 DEF ModeInv, Sending, config, Disconnected, Streams
  <1>7. WholeInv'
    BY <1>1, <1>2, <1>4 DEF WholeInv, Whole, config
  <1>8. PrefixInv'
    <2> SUFFICES ASSUME ~halfFailed PROVE PrefixInv'
      BY <1>1 DEF PrefixInv
    <2>1. /\ blocks = Base + 1 .. DbHeight /\ pending = DbHeight + 1 .. last
          /\ Base \in Nat /\ DbHeight \in Nat /\ last \in Nat
          /\ Base <= DbHeight /\ DbHeight <= last
      BY <1>1, PrefixFacts DEF Busy
    <2>2. blocks' = Base + 1 .. last
      BY <1>1, <2>1
    <2>3. DbHeight' = last
      BY <2>1, <2>2, DbHeightIsHighest, HighestOfRange
    <2>4. last + 1 .. last = {} /\ last <= last
      BY <2>1
    <2>5. parallel' => stream'["A"] # "failed"
      BY <1>1 DEF IInv, PrefixInv, Busy, config
    <2> QED
      BY <1>1, <2>2, <2>3, <2>4, <2>5 DEF PrefixInv
  <1>9. QuietInv' /\ OkMeansComplete'
    BY <1>1 DEF QuietInv, Busy, OkMeansComplete
  <1> QED
    BY <1>3, <1>5, <1>6, <1>7, <1>8, <1>9 DEF IInv, BusyInv

-----------------------------------------------------------------------------
(* The end of a catch-up.                                                  *)

\* All threads are gone, and nothing they held was committed.
LEMMA ResetKeeps ==
  ASSUME IInv, Reset, run' \in {"down", "live"}, failures' \in 0..MaxFailures,
         UNCHANGED <<nodeTip, blocks, config, halfFailed>>, OkMeansComplete'
  PROVE  IInv'
  <1>1. TypeOK'
    <2>1. /\ stream' \in [Streams -> {"idle", "running", "ended", "failed"}]
          /\ next' \in [Streams -> Nat] /\ end' \in [Streams -> Nat] /\ last' \in Nat
          /\ pending' \subseteq 1..MaxTip /\ mergeFrom' = "done"
      BY DEF Reset
    <2>2. /\ got' \in [Streams -> SUBSET (1..MaxTip)]
          /\ chan' \in [Streams \cup {Merged} -> Seq(1..MaxTip)]
          /\ \A c \in DOMAIN chan' : Len(chan'[c]) <= Capacity(c)
          /\ Cardinality(pending') < BatchSize
      BY EmptyTyped DEF Reset
    <2> QED
      BY <2>1, <2>2 DEF IInv, TypeOK, config
  <1>2. BusyInv'
    BY DEF BusyInv, Busy
  <1>3. QuietInv'
    BY DEF QuietInv, Idle, Reset
  <1>4. PrefixInv'
    BY DEF IInv, PrefixInv, DbHeight, Busy
  <1> QED
    BY <1>1, <1>2, <1>3, <1>4 DEF IInv

LEMMA JoinKeeps ==
  ASSUME IInv, Join
  PROVE  IInv'
  <1>1. /\ run = "joining" /\ Reset
        /\ run' = IF \E s \in Streams : stream[s] = "failed" THEN "down" ELSE "live"
        /\ UNCHANGED <<nodeTip, blocks, config, failures, halfFailed>>
    BY DEF Join
  <1>2. StreamInv /\ ModeInv /\ WholeInv
    BY <1>1 DEF IInv, BusyInv, Busy
  <1>3. OkMeansComplete'
    <2> SUFFICES ASSUME \A s \in Streams : stream[s] # "failed"
                 PROVE  from + 1 .. target \subseteq blocks
      BY <1>1 DEF OkMeansComplete, config
    <2>1. chan[Merged] = <<>> /\ pending = {} /\ Disconnected
      BY <1>1, <1>2 DEF ModeInv
    <2>2. /\ Lo(Source) = last + Len(chan[Merged]) + 1
          /\ from + 1 .. last \subseteq blocks \cup pending
      BY <1>2 DEF WholeInv, Whole, Streams
    <2>3. stream[Source] = "ended" /\ chan[Source] = <<>> /\ end[Source] = target
      <3>1. CASE parallel
        BY <1>2, <2>1, <3>1, Typed DEF IInv, Source, Disconnected, ModeInv, Sending, Phases, Streams
      <3>2. CASE ~parallel
        BY <1>2, <2>1, <3>2, Typed DEF IInv, Source, Disconnected, ModeInv, Sending, Phases, Streams
      <3> QED
        BY <3>1, <3>2
    <2>4. Source \in Streams
      BY DEF Source, Streams
    <2>5. got[Source] = {} /\ next[Source] = target + 1
      BY <1>2, <2>3, <2>4 DEF StreamInv
    <2>6. Lo(Source) = target + 1
      <3>1. Unsent(Source) = target + 1
        BY <2>5 DEF Unsent
      <3>2. Lo(Source) = Unsent(Source) - Len(chan[Source])
        BY DEF Lo
      <3>3. Len(chan[Source]) = 0 /\ target \in Nat
        BY <2>3, EmptySeq, Typed DEF IInv
      <3> QED
        BY <3>1, <3>2, <3>3
    <2>7. last = target
      <3>1. Len(<<>>) = 0 /\ last \in Nat /\ target \in Nat
        BY Typed, EmptySeq DEF IInv
      <3> QED
        BY <2>1, <2>2, <2>6, <3>1
    <2> QED
      BY <2>1, <2>2, <2>7
  <1>4. failures' \in 0..MaxFailures /\ run' \in {"down", "live"}
    BY <1>1 DEF IInv, TypeOK
  <1> QED
    BY <1>1, <1>3, <1>4, ResetKeeps

LEMMA CrashKeeps ==
  ASSUME IInv, Crash
  PROVE  IInv'
  <1>1. /\ Reset /\ run' = "down"
        /\ UNCHANGED <<nodeTip, blocks, config, halfFailed>>
    BY DEF Crash
  <1>2. failures' \in 0..MaxFailures
    BY CatchUpAssumption DEF Crash, IInv, TypeOK
  <1>3. OkMeansComplete'
    BY <1>1 DEF OkMeansComplete
  <1> QED
    BY <1>1, <1>2, <1>3, ResetKeeps

LEMMA RestartKeeps ==
  ASSUME IInv, Restart
  PROVE  IInv'
  <1>1. /\ run = "live" /\ run' = "down"
        /\ UNCHANGED <<nodeTip, blocks, config, threads, failures, halfFailed>>
    BY DEF Restart
  <1>2. TypeOK'
    BY <1>1 DEF IInv, TypeOK, config, threads
  <1>3. BusyInv' /\ OkMeansComplete'
    BY <1>1 DEF BusyInv, Busy, OkMeansComplete
  <1>4. QuietInv' /\ PrefixInv'
    BY <1>1 DEF IInv, QuietInv, PrefixInv, Busy, Idle, DbHeight, threads
  <1> QED
    BY <1>2, <1>3, <1>4 DEF IInv

LEMMA StutterKeeps ==
  ASSUME IInv, UNCHANGED vars
  PROVE  IInv'
  <1> USE DEF vars, config, threads
  <1>1. TypeOK'
    BY DEF IInv, TypeOK
  <1>2. BusyInv'
    BY DEF IInv, BusyInv, Busy, StreamInv, ModeInv, OrderInv, WholeInv, Whole, Lo, Unsent,
           Source, Disconnected, Sending
  <1>3. QuietInv' /\ PrefixInv' /\ OkMeansComplete'
    BY DEF IInv, QuietInv, Busy, Idle, PrefixInv, DbHeight, OkMeansComplete
  <1> QED
    BY <1>1, <1>2, <1>3 DEF IInv

LEMMA StepKeeps == IInv /\ [Next]_vars => IInv'
  <1> SUFFICES ASSUME IInv, [Next]_vars PROVE IInv'
    OBVIOUS
  <1>1. CASE NodeMines
    BY <1>1, NodeMinesKeeps
  <1>2. CASE Startup
    BY <1>2, AlreadyUpToDateKeeps, StartSingleKeeps, StartParallelKeeps DEF Startup
  <1>3. ASSUME NEW s \in Streams, StreamStep(s) PROVE IInv'
    BY <1>3, FetchChunkKeeps, StreamFailsKeeps, SendKeeps, EndStreamKeeps DEF StreamStep
  <1>4. CASE MergeStep
    BY <1>4, ForwardKeeps, HandOverKeeps DEF MergeStep
  <1>5. CASE ConsumerStep
    BY <1>5, ConsumeKeeps, CommitRestKeeps, JoinKeeps DEF ConsumerStep
  <1>6. CASE Crash \/ Restart
    BY <1>6, CrashKeeps, RestartKeeps
  <1>7. CASE UNCHANGED vars
    BY <1>7, StutterKeeps
  <1> QED
    BY <1>1, <1>2, <1>3, <1>4, <1>5, <1>6, <1>7 DEF Next

LEMMA InvHolds == Spec => []IInv
  BY InitHolds, StepKeeps, PTL DEF Spec

-----------------------------------------------------------------------------
(* The theorems.                                                           *)

\* Every reachable state is well typed: no channel exceeds its capacity and
\* no batch its size.
THEOREM Typing == Spec => []TypeOK
  BY InvHolds, PTL DEF IInv

\* The consumer sees a strictly ascending sequence above last_height, so
\* skipping a height it has seen loses no block.
THEOREM MergedOrder == Spec => []MergedAscends
  <1>1. IInv => MergedAscends
    <2> SUFFICES ASSUME IInv, run = "fetching", NEW i \in DOMAIN chan[Merged]
                 PROVE  chan[Merged][i] > IF i = 1 THEN last ELSE chan[Merged][i - 1]
      BY DEF MergedAscends
    <2>1. i \in 1 .. Len(chan[Merged])
      BY Typed, LenProperties DEF IInv
    <2> QED
      BY <2>1, RunningFetches DEF OrderInv
  <1> QED
    BY <1>1, InvHolds, PTL

\* A catch-up that returns Ok has written every block of its range.
THEOREM OkIsComplete == Spec => []OkMeansComplete
  BY InvHolds, PTL DEF IInv

\* The table has a gap only after the first stream of a split range failed.
THEOREM GapsFromHalf == Spec => []GapOnlyFromHalf
  <1>1. IInv => GapOnlyFromHalf
    BY DEF IInv, PrefixInv, GapOnlyFromHalf
  <1> QED
    BY <1>1, InvHolds, PTL

-----------------------------------------------------------------------------
(* The refinement.                                                         *)

\* While no half is cut short, every commit extends the prefix upwards.
LEMMA StepCommits ==
  ASSUME IInv, [Next]_vars, ~halfFailed
  PROVE  [Prefix!Commit]_blocks
  <1> SUFFICES ASSUME blocks' # blocks PROVE Prefix!Commit
    OBVIOUS
  <1>1. Consume \/ CommitRest
    BY DEF vars, Next, NodeMines, Startup, AlreadyUpToDate, StartSingle, StartParallel, Begin,
           StreamStep, FetchChunk, StreamFails, Send, EndStream, MergeStep, Forward, HandOver,
           ConsumerStep, Join, Crash, Restart
  <1>2. run = "fetching"
    BY <1>1 DEF Consume, CommitRest
  <1>3. /\ blocks = Base + 1 .. DbHeight /\ pending = DbHeight + 1 .. last
        /\ Base \in Nat /\ DbHeight \in Nat /\ last \in Nat
        /\ Base <= DbHeight /\ DbHeight <= last /\ Whole
    BY <1>2, PrefixFacts DEF Busy
  <1>4. CASE Consume
    <2> DEFINE h == chan[Merged][1]
    <2>1. blocks' = blocks \cup (pending \cup {h}) /\ h \in Nat /\ h > last
      BY <1>4, ConsumeFacts
    <2>2. h = last + 1
      <3>1. WholeInv /\ Len(chan[Merged]) \in Nat /\ Len(chan[Merged]) >= 1
        BY <1>4, ConsumeFacts
      <3> QED
        BY <1>3, <3>1 DEF WholeInv
    <2> HIDE DEF h
    <2>3. blocks' = Base + 1 .. h /\ h \in blocks' /\ \A g \in blocks : g < h
      BY <1>3, <2>1, <2>2
    <2> QED
      BY <2>3 DEF Prefix!Commit
  <1>5. CASE CommitRest
    <2>1. blocks' = blocks \cup pending
      BY <1>5 DEF CommitRest
    <2>2. DbHeight < last
      BY <1>3, <2>1
    <2>3. blocks' = Base + 1 .. last /\ last \in blocks' /\ \A g \in blocks : g < last
      BY <1>3, <2>1, <2>2
    <2> QED
      BY <2>3 DEF Prefix!Commit
  <1> QED
    BY <1>1, <1>4, <1>5

\* Where no range is long enough to be split, the table implements what
\* stream_blocks promises of it: it is always a prefix of the chain, and a
\* commit only extends it.
THEOREM Refinement ==
  ASSUME Threshold > MaxTip
  PROVE  Spec => PrefixSpec
  <1> DEFINE Single == ~parallel /\ ~halfFailed
  <1>1. Init => Prefix!Init /\ Single
    BY DEF Init, Prefix!Init
  <1>2. IInv /\ Single /\ [Next]_vars => Single'
    <2> SUFFICES ASSUME IInv, Single, [Next]_vars PROVE Single'
      OBVIOUS
    <2>1. ~StartParallel
      <3>1. DbHeight \in Nat /\ nodeTip \in 0..MaxTip
        BY DbHeightTyped, CatchUpAssumption DEF IInv, TypeOK
      <3>2. ~(nodeTip - DbHeight >= Threshold)
        BY <3>1, CatchUpAssumption
      <3> QED
        BY <3>2 DEF StartParallel
    <2>2. CASE StartSingle
      BY <2>2 DEF StartSingle, Begin
    <2>3. CASE \E s \in Streams : StreamFails(s)
      <3>1. PICK s \in Streams : StreamFails(s)
        BY <2>3
      <3>2. parallel' = parallel
        BY <3>1 DEF StreamFails, config
      <3>3. halfFailed' = (halfFailed \/ (parallel /\ s = "A"))
        BY <3>1 DEF StreamFails
      <3>4. ~halfFailed'
        BY <3>3, Zenon
      <3> QED
        BY <3>2, <3>4
    <2>4. CASE parallel' = parallel /\ halfFailed' = halfFailed
      BY <2>4
    <2>5. \/ StartSingle
          \/ \E s \in Streams : StreamFails(s)
          \/ parallel' = parallel /\ halfFailed' = halfFailed
      BY <2>1 DEF vars, config, Next, NodeMines, Startup, AlreadyUpToDate,
           StreamStep, FetchChunk, Send, EndStream, MergeStep, Forward, HandOver,
           ConsumerStep, Consume, CommitRest, Join, Crash, Restart
    <2> QED
      BY <2>2, <2>3, <2>4, <2>5
  <1>3. IInv /\ Single /\ [Next]_vars => [Prefix!Commit]_blocks
    BY StepCommits
  <1> QED
    BY <1>1, <1>2, <1>3, InvHolds, PTL DEF Spec, PrefixSpec, Prefix!Spec
=============================================================================
