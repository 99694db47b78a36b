---------------------------- MODULE MarketProofs ----------------------------
(***************************************************************************)
(* Proofs about MarketCache for every number of instances and requests,    *)
(* every scenario and every setting of the lives.                          *)
(*                                                                         *)
(* A refresh in flight is the one that the instance's map names            *)
(* (FlightInv), whoever awaits it finds it settled when it is over         *)
(* (OutcomeInv), and a request has at most one command on its connection,  *)
(* the one its stage waits for (PipeInv). That a marker costs one attempt  *)
(* rests on the order of a connection: an answer "no marker" older than    *)
(* the marker still has the marker's own reply behind it (AttemptInv), so  *)
(* that refresh has not settled and is joined.                             *)
(*                                                                         *)
(* That the cache implements MarketPromise rests on what every value and   *)
(* every refusal on its way to a request can show for itself (PromiseInv): *)
(* its source, its age, and the failure that explains it.                  *)
(***************************************************************************)
EXTENDS MarketCache, SequenceTheorems, TLAPS

\* The stage of a request whose command op is on its way.
StageOf(op) ==
    CASE op = "get" -> "reading"
      [] op = "delete" -> "dropping"
      [] op = "getDown" -> "probing"
      [] op = "set" -> "saving"
      [] op = "setDown" -> "marking"

FlightInv ==
    /\ \A r \in Requests : stage[r] \in Refreshing => inFlight[home[r]][key[r]] = r
    /\ \A i \in Instances, k \in Keys :
           LET r == inFlight[i][k]
           IN  r # Nobody => stage[r] \in Refreshing /\ home[r] = i /\ key[r] = k

\* The refresh that r started for key k is over, with v.
IsSettled(v) == v \in Values \/ v = Thrown

OutcomeInv ==
    \A r \in Requests :
        /\ stage[r] = "saving" => outcome[r][key[r]] \in Values
        /\ stage[r] = "settling" => IsSettled(outcome[r][key[r]])
        /\ stage[r] = "awaiting" =>
               /\ joined[r] \in Requests
               /\ \/ stage[joined[r]] \in Refreshing /\ key[joined[r]] = key[r]
                  \/ IsSettled(outcome[joined[r]][key[r]])

\* Commands of connection q of instance i: each is the one its request waits
\* for, a request has one, and Redis has executed the first so many.
Expected(q, i) ==
    \A n \in DOMAIN q : home[q[n].by] = i /\ stage[q[n].by] = StageOf(q[n].op)

OneEach(q) == \A m, n \in DOMAIN q : q[m].by = q[n].by => m = n

InOrder(q) ==
    \A m, n \in DOMAIN q : m < n /\ q[n].reply # Queued => q[m].reply # Queued

PipeInv ==
    \A i \in Instances : Expected(pipe[i], i) /\ OneEach(pipe[i]) /\ InOrder(pipe[i])

\* Behind every answer that key k has no marker, a marker for k is on its way.
Covered(q, k) ==
    \A n \in DOMAIN q :
        q[n].op = "getDown" /\ q[n].reply = Absent /\ key[q[n].by] = k =>
            \E m \in DOMAIN q : n < m /\ q[m].op = "setDown" /\ key[q[m].by] = k

AttemptInv ==
    \A k \in Keys : Alive(marker[k]) => Covered(pipe[marker[k].by], k)

IInv == MarketTypeOK /\ FlightInv /\ OutcomeInv /\ PipeInv /\ AttemptInv

Commands == [by : Requests, op : Ops,
             reply : Values \cup {Queued, Absent, Garbage, Failure, Stored}]

\* What the types say of the variables a lookup keeps for itself.
RequestTypes ==
    /\ stage \in [Requests -> Stages]
    /\ key \in [Requests -> Keys]
    /\ seen \in [Requests -> Values \cup {Absent}]
    /\ joined \in [Requests -> Requests \cup {Nobody}]
    /\ outcome \in [Requests -> [Keys -> Values \cup {Thrown, Unsettled}]]
    /\ asked \in [Requests -> Times \cup {NotBegun}]
    /\ looked \in [Requests -> Times]
    /\ answer \in [Requests -> Values \cup {Waiting, Refused}]

\* A step of r's code leaves the other requests alone.
Only(r) ==
    \A s \in Requests \ {r} :
        stage'[s] = stage[s] /\ key'[s] = key[s] /\ joined'[s] = joined[s]
        /\ outcome'[s] = outcome[s]

\* Expected and Covered of a connection as the requests are after a step.
ExpectedNext(q, i) ==
    \A n \in DOMAIN q : home'[q[n].by] = i /\ stage'[q[n].by] = StageOf(q[n].op)

CoveredNext(q, k) ==
    \A n \in DOMAIN q :
        q[n].op = "getDown" /\ q[n].reply = Absent /\ key'[q[n].by] = k =>
            \E m \in DOMAIN q : n < m /\ q[m].op = "setDown" /\ key'[q[m].by] = k

\* q is what is left of connection p when r's command, if any, is taken off.
Rest(p, q, r) ==
    /\ q \in Seq(Commands)
    /\ \E d \in Nat :
           /\ \A n \in DOMAIN q : n + d \in DOMAIN p /\ q[n] = p[n + d]
           /\ \A m \in DOMAIN p : d < m => m - d \in DOMAIN q
    /\ \A n \in DOMAIN q : q[n].by # r

USE MarketAssumption

-----------------------------------------------------------------------------
(* Values, stages and sequences.                                           *)

LEMMA SpecialsDiffer ==
    /\ Absent # Queued /\ Stored # Queued /\ Failure # Queued /\ Garbage # Queued
    /\ Absent # Stored /\ Absent # Failure /\ Absent # Garbage /\ Thrown # Unsettled
    /\ \A v \in Values : v \notin {Queued, Absent, Stored, Failure, Garbage, Thrown, Unsettled}
    /\ Nobody \notin Requests
  BY DEF Absent, Queued, Stored, Failure, Garbage, Thrown, Unsettled, Special, Values, Keys,
         Primary, Fallback, Nobody

LEMMA StageOfOps ==
    /\ StageOf("get") = "reading" /\ StageOf("delete") = "dropping"
    /\ StageOf("getDown") = "probing" /\ StageOf("set") = "saving"
    /\ StageOf("setDown") = "marking"
    /\ \A op \in Ops : StageOf(op) \in {"reading", "dropping", "probing", "saving", "marking"}
    /\ \A op \in Ops : StageOf(op) = "marking" => op = "setDown"
  BY DEF StageOf, Ops

LEMMA PipeType ==
    ASSUME MarketTypeOK, NEW i \in Instances
    PROVE  pipe[i] \in Seq(Commands)
  BY DEF MarketTypeOK, Commands

\* The connection of r once its answered command is gone.
LEMMA RestOfAnswered ==
    ASSUME MarketTypeOK, PipeInv, NEW r \in Requests, NEW op, Replied(r, op)
    PROVE  Rest(pipe[home[r]], Tail(pipe[home[r]]), r) /\ stage[r] = StageOf(op)
  <1> DEFINE p == pipe[home[r]]
  <1>1. home[r] \in Instances
    BY DEF MarketTypeOK
  <1>2. p \in Seq(Commands) /\ p # <<>> /\ Head(p).by = r /\ Head(p).op = op
    BY <1>1, PipeType DEF Replied
  <1>3. Expected(p, home[r]) /\ OneEach(p)
    BY <1>1 DEF PipeInv
  <1> HIDE DEF p
  <1>4. /\ Tail(p) \in Seq(Commands) /\ Len(Tail(p)) = Len(p) - 1
        /\ DOMAIN Tail(p) = 1 .. Len(p) - 1 /\ DOMAIN p = 1 .. Len(p) /\ Len(p) \in Nat
        /\ Head(p) = p[1] /\ 1 \in DOMAIN p
        /\ \A n \in 1 .. Len(p) - 1 : Tail(p)[n] = p[n + 1]
    <2>1. Tail(p) \in Seq(Commands) /\ Len(Tail(p)) = Len(p) - 1
      BY <1>2, HeadTailProperties
    <2>2. \A n \in 1 .. Len(Tail(p)) : Tail(p)[n] = p[n + 1]
      BY <1>2, HeadTailProperties
    <2>3. DOMAIN Tail(p) = 1 .. Len(Tail(p)) /\ DOMAIN p = 1 .. Len(p) /\ Len(p) \in Nat
      BY <1>2, <2>1
    <2>4. Len(p) >= 1 /\ Head(p) = p[1]
      BY <1>2
    <2> QED
      BY <2>1, <2>2, <2>3, <2>4
  <1>5. stage[r] = StageOf(op)
    BY <1>2, <1>3, <1>4 DEF Expected
  <1>6. \A n \in DOMAIN Tail(p) : Tail(p)[n].by # r
    BY <1>2, <1>3, <1>4 DEF OneEach
  <1>7. /\ \A n \in DOMAIN Tail(p) : n + 1 \in DOMAIN p /\ Tail(p)[n] = p[n + 1]
        /\ \A m \in DOMAIN p : 1 < m => m - 1 \in DOMAIN Tail(p)
    BY <1>4
  <1> QED
    BY <1>4, <1>5, <1>6, <1>7 DEF Rest, p

\* A request that waits for no reply has no command.
LEMMA RestOfQuiet ==
    ASSUME MarketTypeOK, PipeInv, NEW r \in Requests,
           stage[r] \notin {"reading", "dropping", "probing", "saving", "marking"}
    PROVE  Rest(pipe[home[r]], pipe[home[r]], r)
  <1> DEFINE p == pipe[home[r]]
  <1>1. home[r] \in Instances
    BY DEF MarketTypeOK
  <1>2. p \in Seq(Commands) /\ Expected(p, home[r])
    BY <1>1, PipeType DEF PipeInv
  <1> HIDE DEF p
  <1>3. \A n \in DOMAIN p : p[n].op \in Ops
    <2>1. \A n \in DOMAIN p : p[n] \in Commands
      BY <1>2, ElementOfSeq
    <2> QED
      BY <2>1 DEF Commands
  <1>4. \A n \in DOMAIN p : p[n].by # r
    BY <1>2, <1>3, StageOfOps DEF Expected
  <1>5. /\ \A n \in DOMAIN p : n + 0 \in DOMAIN p /\ p[n] = p[n + 0]
        /\ \A m \in DOMAIN p : 0 < m => m - 0 \in DOMAIN p
    BY <1>2
  <1> QED
    BY <1>2, <1>4, <1>5 DEF Rest, p

-----------------------------------------------------------------------------
(* What a step of one request does to the connections.                     *)

\* What is left of a connection keeps its properties, and takes one command
\* of r that r's new stage waits for.
LEMMA RestKeeps ==
    ASSUME MarketTypeOK, PipeInv, NEW r \in Requests, NEW q,
           Rest(pipe[home[r]], q, r), Only(r), home' = home
    PROVE  /\ ExpectedNext(q, home[r]) /\ OneEach(q) /\ InOrder(q)
           /\ \A k \in Keys : Covered(pipe[home[r]], k) => CoveredNext(q, k)
  <1> DEFINE p == pipe[home[r]]
  <1>1. home[r] \in Instances
    BY DEF MarketTypeOK
  <1>2. p \in Seq(Commands) /\ Expected(p, home[r]) /\ OneEach(p) /\ InOrder(p)
    BY <1>1, PipeType DEF PipeInv
  <1>3. /\ q \in Seq(Commands)
        /\ \A n \in DOMAIN q : q[n].by # r
    BY DEF Rest, p
  <1>4. PICK d \in Nat :
           /\ \A n \in DOMAIN q : n + d \in DOMAIN p /\ q[n] = p[n + d]
           /\ \A m \in DOMAIN p : d < m => m - d \in DOMAIN q
    BY DEF Rest, p
  <1>5. \A n \in DOMAIN q : n \in Nat /\ q[n].by \in Requests \ {r}
    <2>1. \A n \in DOMAIN q : n \in Nat /\ q[n] \in Commands
      BY <1>3, ElementOfSeq
    <2> QED
      BY <2>1, <1>3 DEF Commands
  <1>9. \A m \in DOMAIN p : m \in Nat
    BY <1>2
  <1> HIDE DEF p
  <1>6. ExpectedNext(q, home[r])
    <2>1. \A n \in DOMAIN q : home[q[n].by] = home[r] /\ stage[q[n].by] = StageOf(q[n].op)
      BY <1>2, <1>4 DEF Expected
    <2>2. \A n \in DOMAIN q : stage'[q[n].by] = stage[q[n].by]
      BY <1>5 DEF Only
    <2> QED
      BY <2>1, <2>2 DEF ExpectedNext
  <1>7. OneEach(q)
    <2> SUFFICES ASSUME NEW m \in DOMAIN q, NEW n \in DOMAIN q, q[m].by = q[n].by
                 PROVE  m = n
      BY DEF OneEach
    <2>1. m + d = n + d
      BY <1>2, <1>4 DEF OneEach
    <2> QED
      BY <2>1, <1>5
  <1>8. InOrder(q)
    <2> SUFFICES ASSUME NEW m \in DOMAIN q, NEW n \in DOMAIN q, m < n, q[n].reply # Queued
                 PROVE  q[m].reply # Queued
      BY DEF InOrder
    <2>1. m + d < n + d
      BY <1>5
    <2> QED
      BY <1>2, <1>4, <2>1 DEF InOrder
  <1>10. ASSUME NEW k \in Keys, Covered(p, k)
         PROVE  CoveredNext(q, k)
    <2> SUFFICES ASSUME NEW n \in DOMAIN q, q[n].op = "getDown", q[n].reply = Absent,
                        key'[q[n].by] = k
                 PROVE  \E m \in DOMAIN q : n < m /\ q[m].op = "setDown" /\ key'[q[m].by] = k
      BY DEF CoveredNext
    <2>1. key[q[n].by] = k
      BY <1>5 DEF Only
    <2>2. PICK m \in DOMAIN p : n + d < m /\ p[m].op = "setDown" /\ key[p[m].by] = k
      BY <1>4, <1>10, <2>1 DEF Covered
    <2>3. m - d \in Int /\ n < m - d /\ (m - d) + d = m /\ d < m
      BY <1>5, <1>9, <2>2
    <2>4. m - d \in DOMAIN q
      BY <1>4, <2>3
    <2>5. q[m - d] = p[m]
      BY <1>4, <2>3, <2>4
    <2>6. key'[p[m].by] = key[p[m].by]
      BY <1>5, <2>4, <2>5 DEF Only
    <2> QED
      BY <2>2, <2>3, <2>4, <2>5, <2>6
  <1> QED
    BY <1>6, <1>7, <1>8, <1>10 DEF p

\* The continuation of r's answered command, or of a request without one:
\* it leaves the connection so, or issues the command its new stage waits for.
LEMMA PipesKeep ==
    ASSUME MarketTypeOK, PipeInv, AttemptInv, NEW r \in Requests, NEW q,
           Rest(pipe[home[r]], q, r), Only(r), UNCHANGED <<home, marker, clock>>,
           \/ pipe' = [pipe EXCEPT ![home[r]] = q]
           \/ \E op \in Ops : /\ pipe' = [pipe EXCEPT ![home[r]] = Append(q, Command(r, op))]
                             /\ stage'[r] = StageOf(op)
    PROVE  pipe' \in [Instances -> Seq(Commands)] /\ PipeInv' /\ AttemptInv'
  <1>1. home[r] \in Instances /\ pipe \in [Instances -> Seq(Commands)]
    BY DEF MarketTypeOK, Commands
  <1>2. /\ ExpectedNext(q, home[r]) /\ OneEach(q) /\ InOrder(q)
        /\ \A k \in Keys : Covered(pipe[home[r]], k) => CoveredNext(q, k)
    BY RestKeeps
  <1>3. q \in Seq(Commands) /\ \A n \in DOMAIN q : q[n].by # r
    BY DEF Rest
  <1> DEFINE Kept == /\ pipe'[home[r]] \in Seq(Commands)
                     /\ ExpectedNext(pipe'[home[r]], home[r]) /\ OneEach(pipe'[home[r]])
                     /\ InOrder(pipe'[home[r]])
                     /\ \A k \in Keys : CoveredNext(q, k) => CoveredNext(pipe'[home[r]], k)
  <1>4. Kept
    <2>1. CASE pipe' = [pipe EXCEPT ![home[r]] = q]
      <3>1. pipe'[home[r]] = q
        BY <1>1, <2>1
      <3> QED
        BY <3>1, <1>2, <1>3
    <2>2. ASSUME NEW op \in Ops, stage'[r] = StageOf(op),
                 pipe' = [pipe EXCEPT ![home[r]] = Append(q, Command(r, op))]
          PROVE  Kept
      <3> DEFINE c == Command(r, op)
                 p == pipe'[home[r]]
      <3>1. c \in Commands /\ c.by = r /\ c.op = op /\ c.reply = Queued
        BY DEF Command, Commands
      <3>2. p = Append(q, c)
        BY <1>1, <2>2
      <3> HIDE DEF c, p
      <3>4. /\ p \in Seq(Commands) /\ DOMAIN p = 1 .. Len(q) + 1 /\ Len(q) \in Nat
            /\ DOMAIN q = 1 .. Len(q)
            /\ \A n \in DOMAIN q : n \in DOMAIN p /\ p[n] = q[n]
            /\ p[Len(q) + 1] = c
            /\ \A n \in DOMAIN p : n \in DOMAIN q \/ n = Len(q) + 1
        <4>1. Len(q) \in Nat /\ DOMAIN q = 1 .. Len(q)
          BY <1>3
        <4>2. p \in Seq(Commands) /\ Len(p) = Len(q) + 1
              /\ (\A n \in 1 .. Len(q) : p[n] = q[n]) /\ p[Len(q) + 1] = c
          BY <1>3, <3>1, <3>2, AppendProperties
        <4>3. DOMAIN p = 1 .. Len(q) + 1
          BY <4>2
        <4> QED
          BY <4>1, <4>2, <4>3
      <3>5. ExpectedNext(p, home[r])
        <4>1. \A n \in DOMAIN p : home'[p[n].by] = home'[r] /\ stage'[p[n].by] = StageOf(p[n].op)
          BY <1>2, <2>2, <3>1, <3>4 DEF Expected, ExpectedNext
        <4> QED
          BY <4>1 DEF ExpectedNext
      <3>6. OneEach(p)
        BY <1>2, <1>3, <3>1, <3>4 DEF OneEach
      <3>7. InOrder(p)
        BY <1>2, <1>3, <3>1, <3>4 DEF InOrder
      <3>8. ASSUME NEW k \in Keys, CoveredNext(q, k)
            PROVE  CoveredNext(p, k)
        <4>1. Queued # Absent
          BY SpecialsDiffer
        <4> QED
          BY <3>1, <3>4, <3>8, <4>1 DEF CoveredNext
      <3> QED
        BY <3>4, <3>5, <3>6, <3>7, <3>8 DEF p
    <2> QED
      BY <2>1, <2>2
  <1>5. pipe' \in [Instances -> Seq(Commands)]
    <2>1. \E x : pipe' = [pipe EXCEPT ![home[r]] = x]
      OBVIOUS
    <2> QED
      BY <1>1, <1>4, <2>1
  <1>6. \A i \in Instances \ {home[r]} : pipe'[i] = pipe[i]
    <2>1. \E x : pipe' = [pipe EXCEPT ![home[r]] = x]
      OBVIOUS
    <2> QED
      BY <1>1, <2>1
  <1>7. PipeInv'
    <2> SUFFICES ASSUME NEW i \in Instances
                 PROVE  ExpectedNext(pipe'[i], i) /\ OneEach(pipe'[i]) /\ InOrder(pipe'[i])
      BY DEF PipeInv, Expected, ExpectedNext
    <2>1. CASE i = home[r]
      BY <1>4, <2>1 DEF Kept
    <2>2. CASE i # home[r]
      <3> DEFINE p == pipe[i]
      <3>1. pipe'[i] = p /\ p \in Seq(Commands)
        BY <1>1, <1>6, <2>2
      <3>2. Expected(p, i) /\ OneEach(p) /\ InOrder(p)
        BY DEF PipeInv
      <3> HIDE DEF p
      <3>3. \A n \in DOMAIN p : p[n].by \in Requests
        <4>1. \A n \in DOMAIN p : p[n] \in Commands
          BY <3>1, ElementOfSeq
        <4> QED
          BY <4>1 DEF Commands
      <3>4. \A n \in DOMAIN p : stage'[p[n].by] = stage[p[n].by]
        BY <2>2, <3>2, <3>3 DEF Expected, Only
      <3>5. ExpectedNext(p, i)
        BY <3>2, <3>4 DEF Expected, ExpectedNext
      <3> QED
        BY <3>1, <3>2, <3>5
    <2> QED
      BY <2>1, <2>2
  <1>8. AttemptInv'
    <2> SUFFICES ASSUME NEW k \in Keys, Alive(marker[k])
                 PROVE  CoveredNext(pipe'[marker[k].by], k)
      BY DEF AttemptInv, Alive, Covered, CoveredNext
    <2> DEFINE i == marker[k].by
    <2>1. i \in Instances /\ Covered(pipe[i], k)
      BY DEF AttemptInv, MarketTypeOK
    <2> HIDE DEF i
    <2>2. CASE i = home[r]
      BY <1>2, <1>4, <2>1, <2>2 DEF Kept, i
    <2>3. CASE i # home[r]
      <3> DEFINE p == pipe[i]
      <3>1. pipe'[i] = p /\ p \in Seq(Commands)
        BY <1>1, <1>6, <2>1, <2>3
      <3>2. Expected(p, i) /\ Covered(p, k)
        BY <2>1 DEF PipeInv
      <3> HIDE DEF p
      <3>3. \A n \in DOMAIN p : p[n].by \in Requests
        <4>1. \A n \in DOMAIN p : p[n] \in Commands
          BY <3>1, ElementOfSeq
        <4> QED
          BY <4>1 DEF Commands
      <3>4. \A n \in DOMAIN p : key'[p[n].by] = key[p[n].by]
        BY <2>3, <3>2, <3>3 DEF Expected, Only
      <3>5. CoveredNext(p, k)
        BY <3>2, <3>4 DEF Covered, CoveredNext
      <3> QED
        BY <3>1, <3>5 DEF i
    <2> QED
      BY <2>2, <2>3
  <1> QED
    BY <1>5, <1>7, <1>8

PipesOK ==
    /\ pipe \in [Instances -> Seq(Commands)]
    /\ PipeInv
    /\ AttemptInv

LEMMA AnsweredKeeps ==
    ASSUME MarketTypeOK, PipeInv, AttemptInv, NEW r \in Requests, NEW op, Replied(r, op),
           Only(r), UNCHANGED <<home, marker, clock>>,
           Pop(r) \/ \E o \in Ops : PopAndSend(r, o) /\ stage'[r] = StageOf(o)
    PROVE  PipesOK'
  <1> DEFINE q == Tail(pipe[home[r]])
  <1>1. Rest(pipe[home[r]], q, r)
    BY RestOfAnswered
  <1>2. \/ pipe' = [pipe EXCEPT ![home[r]] = q]
        \/ \E o \in Ops : /\ pipe' = [pipe EXCEPT ![home[r]] = Append(q, Command(r, o))]
                          /\ stage'[r] = StageOf(o)
    BY DEF Pop, PopAndSend
  <1> HIDE DEF q
  <1> QED
    BY <1>1, <1>2, PipesKeep DEF PipesOK

LEMMA UnpromptedKeeps ==
    ASSUME MarketTypeOK, PipeInv, AttemptInv, NEW r \in Requests,
           stage[r] \notin {"reading", "dropping", "probing", "saving", "marking"},
           Only(r), UNCHANGED <<home, marker, clock>>,
           (UNCHANGED pipe) \/ \E o \in Ops : Send(r, o) /\ stage'[r] = StageOf(o)
    PROVE  PipesOK'
  <1> DEFINE q == pipe[home[r]]
  <1>1. Rest(q, q, r)
    BY RestOfQuiet
  <1>2. \/ pipe' = [pipe EXCEPT ![home[r]] = q]
        \/ \E o \in Ops : /\ pipe' = [pipe EXCEPT ![home[r]] = Append(q, Command(r, o))]
                          /\ stage'[r] = StageOf(o)
    <2>1. CASE UNCHANGED pipe
      BY <2>1 DEF MarketTypeOK
    <2>2. CASE \E o \in Ops : Send(r, o) /\ stage'[r] = StageOf(o)
      BY <2>2 DEF Send
    <2> QED
      BY <2>1, <2>2
  <1> QED
    BY <1>1, <1>2, PipesKeep DEF PipesOK

-----------------------------------------------------------------------------
(* How refreshes and those who await them go on.                           *)

\* r has no refresh and awaits none after the step: nobody notices.
LEMMA BystanderKeeps ==
    ASSUME MarketTypeOK, FlightInv, OutcomeInv, NEW r \in Requests, Only(r),
           UNCHANGED <<home, inFlight, outcome>>,
           stage[r] \notin Refreshing, stage'[r] \notin Refreshing \cup {"awaiting"}
    PROVE  FlightInv' /\ OutcomeInv'
  <1>1. \A s \in Requests : home[s] \in Instances /\ key[s] \in Keys
    BY DEF MarketTypeOK
  <1>2. FlightInv'
    <2>1. ASSUME NEW s \in Requests, stage'[s] \in Refreshing
          PROVE  inFlight'[home'[s]][key'[s]] = s
      BY <2>1 DEF FlightInv, Only
    <2>2. ASSUME NEW i \in Instances, NEW k \in Keys, inFlight[i][k] # Nobody
          PROVE  LET s == inFlight[i][k]
                 IN  stage'[s] \in Refreshing /\ home[s] = i /\ key'[s] = k
      <3>1. inFlight[i][k] \in Requests
        BY <2>2 DEF MarketTypeOK
      <3> QED
        BY <2>2, <3>1 DEF FlightInv, Only
    <2> QED
      BY <2>1, <2>2 DEF FlightInv
  <1>3. OutcomeInv'
    <2> SUFFICES ASSUME NEW s \in Requests
                 PROVE  /\ stage'[s] = "saving" => outcome[s][key'[s]] \in Values
                        /\ stage'[s] = "settling" => IsSettled(outcome[s][key'[s]])
                        /\ stage'[s] = "awaiting" =>
                               /\ joined'[s] \in Requests
                               /\ \/ /\ stage'[joined'[s]] \in Refreshing
                                     /\ key'[joined'[s]] = key'[s]
                                  \/ IsSettled(outcome[joined'[s]][key'[s]])
      BY DEF OutcomeInv, IsSettled
    <2>1. CASE s = r
      BY <2>1 DEF Refreshing
    <2>2. CASE s # r
      <3>1. stage'[s] = stage[s] /\ key'[s] = key[s] /\ joined'[s] = joined[s]
        BY <2>2 DEF Only
      <3>2. stage[s] = "awaiting" /\ stage[joined[s]] \in Refreshing /\ joined[s] \in Requests
            => stage'[joined[s]] = stage[joined[s]] /\ key'[joined[s]] = key[joined[s]]
        BY DEF Only
      <3> QED
        BY <3>1, <3>2 DEF OutcomeInv
    <2> QED
      BY <2>1, <2>2
  <1> QED
    BY <1>2, <1>3

\* r's refresh goes on, perhaps with an outcome for its key.
LEMMA RefresherKeeps ==
    ASSUME MarketTypeOK, FlightInv, OutcomeInv, NEW r \in Requests, Only(r),
           UNCHANGED <<home, inFlight>>,
           stage[r] \in Refreshing, stage'[r] \in Refreshing, key'[r] = key[r],
           \A k \in Keys : IsSettled(outcome[r][k]) => IsSettled(outcome'[r][k]),
           stage'[r] = "saving" => outcome'[r][key[r]] \in Values,
           stage'[r] = "settling" => IsSettled(outcome'[r][key[r]])
    PROVE  FlightInv' /\ OutcomeInv'
  <1>1. \A s \in Requests : home[s] \in Instances /\ key[s] \in Keys
    BY DEF MarketTypeOK
  <1>2. \A s \in Requests : key'[s] = key[s]
    BY DEF Only
  <1>3. \A s \in Requests : stage[s] \in Refreshing <=> stage'[s] \in Refreshing
    BY DEF Only
  <1>4. FlightInv'
    <2>1. ASSUME NEW i \in Instances, NEW k \in Keys
          PROVE  inFlight[i][k] \in Requests \cup {Nobody}
      BY DEF MarketTypeOK
    <2> QED
      BY <1>2, <1>3, <2>1 DEF FlightInv
  <1>5. ASSUME NEW s \in Requests
        PROVE  /\ stage'[s] = "saving" => outcome'[s][key[s]] \in Values
               /\ stage'[s] = "settling" => IsSettled(outcome'[s][key[s]])
               /\ stage'[s] = "awaiting" =>
                      /\ joined'[s] \in Requests
                      /\ \/ stage'[joined'[s]] \in Refreshing /\ key[joined'[s]] = key[s]
                         \/ IsSettled(outcome'[joined'[s]][key[s]])
    <2>1. CASE s = r
      BY <2>1 DEF Refreshing
    <2>2. CASE s # r
      <3>1. stage'[s] = stage[s] /\ joined'[s] = joined[s] /\ outcome'[s] = outcome[s]
        BY <2>2 DEF Only
      <3>2. ASSUME NEW j \in Requests, IsSettled(outcome[j][key[s]])
            PROVE  IsSettled(outcome'[j][key[s]])
        <4>1. CASE j = r
          BY <1>1, <3>2, <4>1
        <4>2. CASE j # r
          BY <3>2, <4>2 DEF Only
        <4> QED
          BY <4>1, <4>2
      <3> QED
        BY <1>3, <3>1, <3>2 DEF OutcomeInv
    <2> QED
      BY <2>1, <2>2
  <1>6. OutcomeInv'
    BY <1>2, <1>5 DEF OutcomeInv, IsSettled
  <1> QED
    BY <1>4, <1>6

\* r starts a refresh, or joins the one that is in flight.
LEMMA RefreshKeeps ==
    ASSUME MarketTypeOK, FlightInv, OutcomeInv, NEW r \in Requests,
           StartRefresh(r) \/ JoinRefresh(r), stage[r] \notin Refreshing,
           UNCHANGED <<home, key, outcome>>
    PROVE  /\ FlightInv' /\ OutcomeInv' /\ Only(r)
           /\ inFlight' \in [Instances -> [Keys -> Requests \cup {Nobody}]]
           /\ stage' \in [Requests -> Stages]
           /\ joined' \in [Requests -> Requests \cup {Nobody}]
           /\ stage'[r] = "fetching" => inFlight[home[r]][key[r]] = Nobody
  <1>1. /\ stage \in [Requests -> Stages] /\ joined \in [Requests -> Requests \cup {Nobody}]
        /\ inFlight \in [Instances -> [Keys -> Requests \cup {Nobody}]]
        /\ \A s \in Requests : home[s] \in Instances /\ key[s] \in Keys
    BY DEF MarketTypeOK
  <1>2. CASE StartRefresh(r)
    <2>1. /\ inFlight[home[r]][key[r]] = Nobody /\ joined' = joined
          /\ stage' = [stage EXCEPT ![r] = "fetching"]
          /\ inFlight' = [inFlight EXCEPT ![home[r]][key[r]] = r]
      BY <1>2 DEF StartRefresh
    <2>2. /\ stage' \in [Requests -> Stages] /\ stage'[r] = "fetching"
          /\ \A s \in Requests \ {r} : stage'[s] = stage[s]
      BY <1>1, <2>1 DEF Stages
    <2>3. inFlight' \in [Instances -> [Keys -> Requests \cup {Nobody}]]
      BY <1>1, <2>1
    <2>4. /\ inFlight'[home[r]][key[r]] = r
          /\ \A i \in Instances, k \in Keys :
                 i # home[r] \/ k # key[r] => inFlight'[i][k] = inFlight[i][k]
      BY <1>1, <2>1
    <2>5. Only(r)
      BY <2>1, <2>2 DEF Only
    <2>6. FlightInv'
      <3>1. ASSUME NEW s \in Requests, stage'[s] \in Refreshing
            PROVE  inFlight'[home[s]][key[s]] = s
        <4>1. CASE s = r
          BY <2>4, <4>1
        <4>2. CASE s # r
          <5>1. inFlight[home[s]][key[s]] = s /\ s # Nobody
            BY <2>2, <3>1, <4>2, SpecialsDiffer DEF FlightInv
          <5> QED
            BY <1>1, <2>1, <2>4, <5>1
        <4> QED
          BY <4>1, <4>2
      <3>2. ASSUME NEW i \in Instances, NEW k \in Keys, inFlight'[i][k] # Nobody
            PROVE  LET s == inFlight'[i][k]
                   IN  stage'[s] \in Refreshing /\ home[s] = i /\ key[s] = k
        <4>1. CASE i = home[r] /\ k = key[r]
          BY <2>2, <2>4, <4>1 DEF Refreshing
        <4>2. CASE i # home[r] \/ k # key[r]
          <5> DEFINE s == inFlight[i][k]
          <5>1. inFlight'[i][k] = s /\ s \in Requests
            BY <1>1, <2>4, <3>2, <4>2
          <5>2. stage[s] \in Refreshing /\ home[s] = i /\ key[s] = k
            BY <3>2, <5>1 DEF FlightInv
          <5> QED
            BY <2>2, <5>1, <5>2
        <4> QED
          BY <4>1, <4>2
      <3> QED
        BY <3>1, <3>2 DEF FlightInv
    <2>7. OutcomeInv'
      <3>1. \A s \in Requests : stage[s] \in Refreshing => stage'[s] \in Refreshing
        BY <2>2
      <3> QED
        BY <2>1, <2>2, <3>1 DEF OutcomeInv, IsSettled
    <2> QED
      BY <1>1, <2>1, <2>2, <2>3, <2>5, <2>6, <2>7
  <1>3. CASE JoinRefresh(r)
    <2>1. /\ inFlight[home[r]][key[r]] # Nobody /\ inFlight' = inFlight
          /\ stage' = [stage EXCEPT ![r] = "awaiting"]
          /\ joined' = [joined EXCEPT ![r] = inFlight[home[r]][key[r]]]
      BY <1>3 DEF JoinRefresh
    <2> DEFINE j == inFlight[home[r]][key[r]]
    <2>2. j \in Requests /\ stage[j] \in Refreshing /\ key[j] = key[r] /\ j # r
      BY <1>1, <2>1 DEF FlightInv
    <2>3. /\ stage' \in [Requests -> Stages] /\ stage'[r] = "awaiting"
          /\ \A s \in Requests \ {r} : stage'[s] = stage[s]
          /\ joined' \in [Requests -> Requests \cup {Nobody}] /\ joined'[r] = j
          /\ \A s \in Requests \ {r} : joined'[s] = joined[s]
      BY <1>1, <2>1, <2>2 DEF Stages
    <2>4. Only(r)
      BY <2>3 DEF Only
    <2>5. \A s \in Requests : stage[s] \in Refreshing <=> stage'[s] \in Refreshing
      BY <2>3 DEF Refreshing
    <2> HIDE DEF j
    <2>6. FlightInv'
      <3>1. ASSUME NEW i \in Instances, NEW k \in Keys
            PROVE  inFlight[i][k] \in Requests \cup {Nobody}
        BY <1>1
      <3> QED
        BY <2>1, <2>5, <3>1 DEF FlightInv
    <2>7. OutcomeInv'
      <3> SUFFICES ASSUME NEW s \in Requests
                   PROVE  /\ stage'[s] = "saving" => outcome[s][key[s]] \in Values
                          /\ stage'[s] = "settling" => IsSettled(outcome[s][key[s]])
                          /\ stage'[s] = "awaiting" =>
                                 /\ joined'[s] \in Requests
                                 /\ \/ /\ stage'[joined'[s]] \in Refreshing
                                       /\ key[joined'[s]] = key[s]
                                    \/ IsSettled(outcome[joined'[s]][key[s]])
        BY DEF OutcomeInv, IsSettled
      <3>1. CASE s = r
        BY <2>2, <2>3, <2>5, <3>1
      <3>2. CASE s # r
        <4>1. stage'[s] = stage[s] /\ joined'[s] = joined[s]
          BY <2>3, <3>2
        <4> QED
          BY <2>5, <4>1 DEF OutcomeInv
      <3> QED
        BY <3>1, <3>2
    <2> QED
      BY <1>1, <2>1, <2>3, <2>4, <2>6, <2>7
  <1> QED
    BY <1>2, <1>3

\* r's refresh settles: nobody is left in flight, and those who await it find
\* its outcome.
LEMMA SettlerKeeps ==
    ASSUME MarketTypeOK, FlightInv, OutcomeInv, NEW r \in Requests, Only(r),
           UNCHANGED <<home, outcome>>, stage[r] = "settling",
           stage'[r] \notin Refreshing \cup {"awaiting"},
           inFlight' = [inFlight EXCEPT ![home[r]][key[r]] = Nobody]
    PROVE  /\ FlightInv' /\ OutcomeInv'
           /\ inFlight' \in [Instances -> [Keys -> Requests \cup {Nobody}]]
  <1>1. /\ inFlight \in [Instances -> [Keys -> Requests \cup {Nobody}]]
        /\ \A s \in Requests : home[s] \in Instances /\ key[s] \in Keys
    BY DEF MarketTypeOK
  <1>2. inFlight' \in [Instances -> [Keys -> Requests \cup {Nobody}]]
    BY <1>1
  <1>3. /\ inFlight'[home[r]][key[r]] = Nobody
        /\ \A i \in Instances, k \in Keys :
               i # home[r] \/ k # key[r] => inFlight'[i][k] = inFlight[i][k]
    BY <1>1
  <1>4. inFlight[home[r]][key[r]] = r /\ IsSettled(outcome[r][key[r]])
    BY DEF FlightInv, OutcomeInv, Refreshing
  <1>5. FlightInv'
    <2>1. ASSUME NEW s \in Requests, stage'[s] \in Refreshing
          PROVE  inFlight'[home[s]][key'[s]] = s
      <3>1. s # r /\ stage[s] \in Refreshing /\ key'[s] = key[s]
        BY <2>1 DEF Only
      <3>2. inFlight[home[s]][key[s]] = s
        BY <3>1 DEF FlightInv
      <3> QED
        BY <1>1, <1>3, <1>4, <3>1, <3>2
    <2>2. ASSUME NEW i \in Instances, NEW k \in Keys, inFlight'[i][k] # Nobody
          PROVE  LET s == inFlight'[i][k]
                 IN  stage'[s] \in Refreshing /\ home[s] = i /\ key'[s] = k
      <3> DEFINE s == inFlight[i][k]
      <3>1. ~ (i = home[r] /\ k = key[r])
        BY <1>3, <2>2
      <3>2. inFlight'[i][k] = s /\ s \in Requests
        BY <1>1, <1>3, <2>2, <3>1
      <3>3. stage[s] \in Refreshing /\ home[s] = i /\ key[s] = k
        BY <2>2, <3>2 DEF FlightInv
      <3>4. s # r
        BY <3>1, <3>3
      <3> QED
        BY <3>2, <3>3, <3>4 DEF Only
    <2> QED
      BY <2>1, <2>2 DEF FlightInv
  <1>6. OutcomeInv'
    <2> SUFFICES ASSUME NEW s \in Requests
                 PROVE  /\ stage'[s] = "saving" => outcome[s][key'[s]] \in Values
                        /\ stage'[s] = "settling" => IsSettled(outcome[s][key'[s]])
                        /\ stage'[s] = "awaiting" =>
                               /\ joined'[s] \in Requests
                               /\ \/ /\ stage'[joined'[s]] \in Refreshing
                                     /\ key'[joined'[s]] = key'[s]
                                  \/ IsSettled(outcome[joined'[s]][key'[s]])
      BY DEF OutcomeInv, IsSettled
    <2>1. CASE s = r
      BY <2>1 DEF Refreshing
    <2>2. CASE s # r
      <3>1. stage'[s] = stage[s] /\ key'[s] = key[s] /\ joined'[s] = joined[s]
        BY <2>2 DEF Only
      <3>2. ASSUME stage[s] = "awaiting", stage[joined[s]] \in Refreshing,
                   key[joined[s]] = key[s], joined[s] # r
            PROVE  stage'[joined[s]] \in Refreshing /\ key'[joined[s]] = key[s]
        BY <3>2 DEF Only, OutcomeInv
      <3> QED
        BY <1>4, <3>1, <3>2 DEF OutcomeInv
    <2> QED
      BY <2>1, <2>2
  <1> QED
    BY <1>2, <1>5, <1>6

-----------------------------------------------------------------------------
(* What the parts of a continuation do to a request's own variables.       *)

LEMMA TypesTogether ==
    ASSUME MarketTypeOK, RequestTypes', PipesOK',
           inFlight' \in [Instances -> [Keys -> Requests \cup {Nobody}]],
           UNCHANGED <<clock, redisVars, home, faults>>,
           fetched' \in SUBSET Values, failed' \in [Keys -> Times \cup {Never}]
    PROVE  MarketTypeOK'
  BY DEF MarketTypeOK, RequestTypes, PipesOK, Commands, redisVars

LEMMA LeaveTypes ==
    ASSUME MarketTypeOK, NEW r \in Requests, Leave(r)
    PROVE  /\ seen' \in [Requests -> Values \cup {Absent}]
           /\ joined' \in [Requests -> Requests \cup {Nobody}]
           /\ \A s \in Requests \ {r} : joined'[s] = joined[s]
  BY DEF MarketTypeOK, Leave

LEMMA ReturnKeeps ==
    ASSUME MarketTypeOK, NEW r \in Requests, NEW v \in Values, Return(r, v)
    PROVE  RequestTypes' /\ Only(r) /\ stage'[r] = "done" /\ outcome' = outcome
  <1>1. /\ stage \in [Requests -> Stages] /\ looked \in [Requests -> Times]
        /\ answer \in [Requests -> Values \cup {Waiting, Refused}]
    BY DEF MarketTypeOK
  <1>2. /\ stage' = [stage EXCEPT ![r] = "done"] /\ looked' = [looked EXCEPT ![r] = 0]
        /\ answer' = [answer EXCEPT ![r] = IF v.src = Fallback /\ r \in OneSource
                                           THEN Refused ELSE v]
        /\ UNCHANGED <<key, outcome, asked>> /\ Leave(r)
    BY DEF Return
  <1>3. /\ stage' \in [Requests -> Stages] /\ stage'[r] = "done"
        /\ \A s \in Requests \ {r} : stage'[s] = stage[s]
    BY <1>1, <1>2 DEF Stages
  <1>4. looked' \in [Requests -> Times]
    <2>1. 0 \in Times
      BY DEF Times
    <2> QED
      BY <1>1, <1>2, <2>1
  <1>5. answer' \in [Requests -> Values \cup {Waiting, Refused}]
    BY <1>1, <1>2
  <1>6. RequestTypes'
    BY <1>2, <1>3, <1>4, <1>5, LeaveTypes DEF RequestTypes, MarketTypeOK
  <1> QED
    BY <1>2, <1>3, <1>6, LeaveTypes DEF Only

LEMMA ThrowKeeps ==
    ASSUME MarketTypeOK, NEW r \in Requests, ThrowPrimary(r) \/ ThrowFallback(r)
    PROVE  /\ RequestTypes' /\ Only(r) /\ outcome' = outcome
           /\ stage'[r] \in {"reading", "done"} /\ (ThrowPrimary(r) => stage'[r] = "reading")
  <1>1. /\ stage \in [Requests -> Stages] /\ looked \in [Requests -> Times]
        /\ key \in [Requests -> Keys] /\ clock \in Times
        /\ answer \in [Requests -> Values \cup {Waiting, Refused}]
    BY DEF MarketTypeOK
  <1>2. Leave(r) /\ UNCHANGED <<outcome, asked>>
    BY DEF ThrowPrimary, ThrowFallback
  <1>3. CASE ThrowPrimary(r)
    <2>1. /\ key' = [key EXCEPT ![r] = Fallback] /\ stage' = [stage EXCEPT ![r] = "reading"]
          /\ looked' = [looked EXCEPT ![r] = clock] /\ answer' = answer
      BY <1>3 DEF ThrowPrimary
    <2>2. /\ stage' \in [Requests -> Stages] /\ stage'[r] = "reading"
          /\ \A s \in Requests \ {r} : stage'[s] = stage[s]
      BY <1>1, <2>1 DEF Stages
    <2>3. key' \in [Requests -> Keys] /\ \A s \in Requests \ {r} : key'[s] = key[s]
      BY <1>1, <2>1 DEF Keys
    <2>4. looked' \in [Requests -> Times]
      BY <1>1, <2>1
    <2>5. RequestTypes'
      BY <1>2, <2>1, <2>2, <2>3, <2>4, LeaveTypes DEF RequestTypes, MarketTypeOK
    <2> QED
      BY <1>2, <2>2, <2>3, <2>5, LeaveTypes DEF Only
  <1>4. CASE ThrowFallback(r)
    <2>1. /\ stage' = [stage EXCEPT ![r] = "done"] /\ key' = key
          /\ looked' = [looked EXCEPT ![r] = 0] /\ answer' = [answer EXCEPT ![r] = Refused]
      BY <1>4 DEF ThrowFallback
    <2>2. /\ stage' \in [Requests -> Stages] /\ stage'[r] = "done"
          /\ \A s \in Requests \ {r} : stage'[s] = stage[s]
      BY <1>1, <2>1 DEF Stages
    <2>3. looked' \in [Requests -> Times]
      <3>1. 0 \in Times
        BY DEF Times
      <3> QED
        BY <1>1, <2>1, <3>1
    <2>4. answer' \in [Requests -> Values \cup {Waiting, Refused}]
      BY <1>1, <2>1
    <2>5. RequestTypes'
      BY <1>2, <2>1, <2>2, <2>3, <2>4, LeaveTypes DEF RequestTypes, MarketTypeOK
    <2>6. ThrowPrimary(r) => FALSE
      BY <1>4 DEF ThrowPrimary, ThrowFallback, Primary, Fallback
    <2> QED
      BY <1>2, <2>1, <2>2, <2>5, <2>6, LeaveTypes DEF Only
  <1> QED
    BY <1>3, <1>4

-----------------------------------------------------------------------------
(* The continuations of a reply.                                           *)

\* A lookup that ends on a reply: it returns or throws.
LEMMA EndOnReplyKeeps ==
    ASSUME IInv, NEW r \in Requests, NEW op \in {"get", "delete", "getDown"}, Replied(r, op),
           UNCHANGED <<clock, redisVars, inFlight, historyVars>>,
           \/ \E v \in Values : Return(r, v) /\ Pop(r)
           \/ ThrowOnReply(r)
    PROVE  IInv'
  <1>1. stage[r] \in {"reading", "dropping", "probing"}
    BY RestOfAnswered, StageOfOps DEF IInv
  <1>2. /\ RequestTypes' /\ Only(r) /\ outcome' = outcome
        /\ stage'[r] \in {"reading", "done"}
        /\ Pop(r) \/ \E o \in Ops : PopAndSend(r, o) /\ stage'[r] = StageOf(o)
    <2>1. CASE \E v \in Values : Return(r, v) /\ Pop(r)
      BY <2>1, ReturnKeeps DEF IInv
    <2>2. CASE ThrowPrimary(r) /\ PopAndSend(r, "get")
      <3>1. "get" \in Ops
        BY DEF Ops
      <3> QED
        BY <2>2, <3>1, ThrowKeeps, StageOfOps DEF IInv
    <2>3. CASE ThrowFallback(r) /\ Pop(r)
      BY <2>3, ThrowKeeps DEF IInv
    <2> QED
      BY <2>1, <2>2, <2>3 DEF ThrowOnReply
  <1>3. UNCHANGED <<home, marker, clock, faults, fetched, failed, inFlight>>
    BY DEF redisVars, historyVars
  <1>4. PipesOK'
    BY <1>2, <1>3, AnsweredKeeps DEF IInv
  <1>5. FlightInv' /\ OutcomeInv'
    BY <1>1, <1>2, <1>3, BystanderKeeps DEF IInv, Refreshing
  <1>6. MarketTypeOK'
    <2>1. /\ inFlight' \in [Instances -> [Keys -> Requests \cup {Nobody}]]
          /\ fetched' \in SUBSET Values /\ failed' \in [Keys -> Times \cup {Never}]
      BY <1>3 DEF IInv, MarketTypeOK
    <2> QED
      BY <1>2, <1>3, <1>4, <2>1, TypesTogether DEF IInv
  <1> QED
    BY <1>4, <1>5, <1>6 DEF IInv, PipesOK

\* A lookup that goes on to its next command.
LEMMA NextCommandKeeps ==
    ASSUME IInv, NEW r \in Requests, NEW op \in {"get", "delete"}, Replied(r, op),
           UNCHANGED <<clock, redisVars, inFlight, historyVars>>,
           UNCHANGED <<key, joined, outcome, asked, looked, answer>>,
           seen' \in [Requests -> Values \cup {Absent}],
           NEW o \in {"delete", "getDown"}, PopAndSend(r, o),
           stage' = [stage EXCEPT ![r] = StageOf(o)]
    PROVE  IInv'
  <1>1. stage[r] \in {"reading", "dropping"} /\ StageOf(o) \in {"dropping", "probing"}
    BY RestOfAnswered, StageOfOps DEF IInv
  <1>2. /\ stage' \in [Requests -> Stages] /\ stage'[r] = StageOf(o)
        /\ \A s \in Requests \ {r} : stage'[s] = stage[s]
    <2>1. stage \in [Requests -> Stages]
      BY DEF IInv, MarketTypeOK
    <2> QED
      BY <1>1, <2>1 DEF Stages
  <1>3. Only(r)
    BY <1>2 DEF Only
  <1>4. RequestTypes'
    BY <1>2 DEF RequestTypes, IInv, MarketTypeOK
  <1>5. UNCHANGED <<home, marker, clock, faults, fetched, failed, inFlight>>
    BY DEF redisVars, historyVars
  <1>6. PipesOK'
    <2>1. o \in Ops
      BY DEF Ops
    <2> QED
      BY <1>2, <1>3, <1>5, <2>1, AnsweredKeeps DEF IInv
  <1>7. FlightInv' /\ OutcomeInv'
    BY <1>1, <1>2, <1>3, <1>5, BystanderKeeps DEF IInv, Refreshing
  <1>8. MarketTypeOK'
    <2>1. /\ inFlight' \in [Instances -> [Keys -> Requests \cup {Nobody}]]
          /\ fetched' \in SUBSET Values /\ failed' \in [Keys -> Times \cup {Never}]
      BY <1>5 DEF IInv, MarketTypeOK
    <2> QED
      BY <1>4, <1>5, <1>6, <2>1, TypesTogether DEF IInv
  <1> QED
    BY <1>6, <1>7, <1>8 DEF IInv, PipesOK

\* What Redis answers a GET, or anything else, is typed.
LEMMA ReplyType ==
    ASSUME MarketTypeOK, NEW r \in Requests, NEW op, Replied(r, op)
    PROVE  Reply(r) \in Values \cup {Absent, Garbage, Failure, Stored}
  <1> DEFINE p == pipe[home[r]]
  <1>1. home[r] \in Instances
    BY DEF MarketTypeOK
  <1>2. p \in Seq(Commands) /\ p # <<>> /\ Head(p).reply # Queued /\ Reply(r) = Head(p).reply
    BY <1>1, PipeType DEF Replied, Reply
  <1> HIDE DEF p
  <1>3. Head(p) \in Commands
    BY <1>2
  <1> QED
    BY <1>2, <1>3 DEF Commands

LEMMA AfterGetKeeps ==
    ASSUME IInv, NEW r \in Requests, AfterGet(r)
    PROVE  IInv'
  <1> DEFINE v == Reply(r)
  <1>1. Replied(r, "get") /\ UNCHANGED <<clock, redisVars, inFlight, historyVars>>
    BY DEF AfterGet
  <1>2. CASE v \in Values /\ Return(r, v) /\ Pop(r)
    BY <1>1, <1>2, EndOnReplyKeeps
  <1>3. CASE ThrowOnReply(r)
    BY <1>1, <1>3, EndOnReplyKeeps
  <1>4. CASE /\ stage' = [stage EXCEPT ![r] = "dropping"]
             /\ PopAndSend(r, "delete")
             /\ UNCHANGED <<key, seen, joined, outcome, asked, looked, answer>>
    <2>1. seen' \in [Requests -> Values \cup {Absent}]
      BY <1>4 DEF IInv, MarketTypeOK
    <2> QED
      BY <1>1, <1>4, <2>1, StageOfOps, NextCommandKeeps
  <1>5. CASE /\ v \in Values \cup {Absent}
             /\ seen' = [seen EXCEPT ![r] = v]
             /\ stage' = [stage EXCEPT ![r] = "probing"]
             /\ PopAndSend(r, "getDown")
             /\ UNCHANGED <<key, joined, outcome, asked, looked, answer>>
    <2>1. seen' \in [Requests -> Values \cup {Absent}]
      BY <1>5 DEF IInv, MarketTypeOK
    <2> QED
      BY <1>1, <1>5, <2>1, StageOfOps, NextCommandKeeps
  <1> QED
    BY <1>2, <1>3, <1>4, <1>5 DEF AfterGet

LEMMA AfterDeleteKeeps ==
    ASSUME IInv, NEW r \in Requests, AfterDelete(r)
    PROVE  IInv'
  <1>1. Replied(r, "delete") /\ UNCHANGED <<clock, redisVars, inFlight, historyVars>>
    BY DEF AfterDelete
  <1>2. CASE ThrowOnReply(r)
    BY <1>1, <1>2, EndOnReplyKeeps
  <1>3. CASE /\ seen' = [seen EXCEPT ![r] = Absent]
             /\ stage' = [stage EXCEPT ![r] = "probing"]
             /\ PopAndSend(r, "getDown")
             /\ UNCHANGED <<key, joined, outcome, asked, looked, answer>>
    <2>1. seen' \in [Requests -> Values \cup {Absent}]
      BY <1>3 DEF IInv, MarketTypeOK
    <2> QED
      BY <1>1, <1>3, <2>1, StageOfOps, NextCommandKeeps
  <1> QED
    BY <1>2, <1>3 DEF AfterDelete

\* A request starts a refresh only when its answer was the oldest of its
\* connection, so that no marker of its instance is behind it.
LEMMA AfterGetDownKeeps ==
    ASSUME IInv, NEW r \in Requests, AfterGetDown(r)
    PROVE  IInv'
  <1>1. Replied(r, "getDown") /\ UNCHANGED <<clock, redisVars, historyVars>>
    BY DEF AfterGetDown
  <1>2. CASE Reply(r) = Stored /\ seen[r] # Absent /\ Return(r, seen[r]) /\ Pop(r)
             /\ UNCHANGED inFlight
    <2>1. seen[r] \in Values
      BY <1>2 DEF IInv, MarketTypeOK
    <2> QED
      BY <1>1, <1>2, <2>1, EndOnReplyKeeps
  <1>3. CASE ThrowOnReply(r) /\ UNCHANGED inFlight
    BY <1>1, <1>3, EndOnReplyKeeps
  <1>4. CASE /\ Reply(r) = Absent
             /\ StartRefresh(r) \/ JoinRefresh(r)
             /\ Pop(r)
             /\ UNCHANGED <<key, seen, outcome, asked, looked, answer>>
    <2>1. UNCHANGED <<home, marker, clock, faults, fetched, failed>>
      BY <1>1 DEF redisVars, historyVars
    <2>2. stage[r] = "probing"
      BY <1>1, RestOfAnswered, StageOfOps DEF IInv
    <2>3. /\ FlightInv' /\ OutcomeInv' /\ Only(r)
          /\ inFlight' \in [Instances -> [Keys -> Requests \cup {Nobody}]]
          /\ stage' \in [Requests -> Stages]
          /\ joined' \in [Requests -> Requests \cup {Nobody}]
      BY <1>4, <2>1, <2>2, RefreshKeeps DEF IInv, Refreshing
    <2>4. PipesOK'
      BY <1>1, <1>4, <2>1, <2>3, AnsweredKeeps DEF IInv
    <2>5. RequestTypes'
      BY <1>4, <2>3 DEF RequestTypes, IInv, MarketTypeOK
    <2>6. fetched' \in SUBSET Values /\ failed' \in [Keys -> Times \cup {Never}]
      BY <2>1 DEF IInv, MarketTypeOK
    <2>7. MarketTypeOK'
      BY <1>1, <2>1, <2>3, <2>4, <2>5, <2>6, TypesTogether DEF IInv
    <2> QED
      BY <2>3, <2>4, <2>7 DEF IInv, PipesOK
  <1> QED
    BY <1>2, <1>3, <1>4 DEF AfterGetDown

\* A refresh that goes on, with an outcome for its key or without.
LEMMA RefreshStepKeeps ==
    ASSUME IInv, NEW r \in Requests, stage[r] \in Refreshing, PipesOK',
           UNCHANGED <<clock, redisVars, inFlight, key, seen, joined, asked, looked, answer,
                       home, faults>>,
           fetched' \in SUBSET Values, failed' \in [Keys -> Times \cup {Never}],
           NEW st \in Refreshing, stage' = [stage EXCEPT ![r] = st],
           NEW o, IsSettled(o) \/ o = outcome[r][key[r]],
           outcome' = [outcome EXCEPT ![r][key[r]] = o],
           st = "saving" => o \in Values, st = "settling" => IsSettled(o)
    PROVE  IInv'
  <1>1. /\ stage \in [Requests -> Stages] /\ key[r] \in Keys
        /\ outcome \in [Requests -> [Keys -> Values \cup {Thrown, Unsettled}]]
    BY DEF IInv, MarketTypeOK
  <1>2. o \in Values \cup {Thrown, Unsettled}
    BY <1>1 DEF IsSettled
  <1>3. /\ stage' \in [Requests -> Stages] /\ stage'[r] = st
        /\ \A s \in Requests \ {r} : stage'[s] = stage[s]
    BY <1>1 DEF Stages, Refreshing
  <1>4. /\ outcome' \in [Requests -> [Keys -> Values \cup {Thrown, Unsettled}]]
        /\ outcome'[r][key[r]] = o
        /\ \A k \in Keys \ {key[r]} : outcome'[r][k] = outcome[r][k]
        /\ \A s \in Requests \ {r} : outcome'[s] = outcome[s]
    BY <1>1, <1>2
  <1>5. Only(r)
    BY <1>3, <1>4 DEF Only
  <1>6. \A k \in Keys : IsSettled(outcome[r][k]) => IsSettled(outcome'[r][k])
    BY <1>4
  <1>7. FlightInv' /\ OutcomeInv'
    BY <1>3, <1>4, <1>5, <1>6, RefresherKeeps DEF IInv
  <1>8. RequestTypes'
    BY <1>3, <1>4 DEF RequestTypes, IInv, MarketTypeOK
  <1>9. inFlight' \in [Instances -> [Keys -> Requests \cup {Nobody}]]
    BY DEF IInv, MarketTypeOK
  <1>10. MarketTypeOK'
    BY <1>8, <1>9, TypesTogether DEF IInv
  <1> QED
    BY <1>7, <1>10 DEF IInv, PipesOK

LEMMA AfterSetKeeps ==
    ASSUME IInv, NEW r \in Requests, AfterSet(r)
    PROVE  IInv'
  <1>1. /\ Replied(r, "set")
        /\ UNCHANGED <<clock, redisVars, inFlight, key, seen, joined, outcome, asked, looked,
                       answer, historyVars>>
    BY DEF AfterSet
  <1>2. UNCHANGED <<home, marker, clock, faults, fetched, failed>>
    BY <1>1 DEF redisVars, historyVars
  <1>3. stage[r] = "saving" /\ outcome[r][key[r]] \in Values
    BY <1>1, RestOfAnswered, StageOfOps DEF IInv, OutcomeInv
  <1>4. PICK st \in {"settling", "marking"} :
            /\ stage' = [stage EXCEPT ![r] = st]
            /\ Pop(r) \/ (PopAndSend(r, "setDown") /\ st = "marking")
    BY DEF AfterSet
  <1>5. Only(r) /\ stage'[r] = st
    BY <1>1, <1>4 DEF Only, IInv, MarketTypeOK
  <1>6. PipesOK'
    <2>1. "setDown" \in Ops
      BY DEF Ops
    <2> QED
      BY <1>1, <1>2, <1>4, <1>5, <2>1, StageOfOps, AnsweredKeeps DEF IInv
  <1>7. outcome' = [outcome EXCEPT ![r][key[r]] = outcome[r][key[r]]]
    BY <1>1 DEF IInv, MarketTypeOK
  <1>8. fetched' \in SUBSET Values /\ failed' \in [Keys -> Times \cup {Never}]
    BY <1>2 DEF IInv, MarketTypeOK
  <1>9. st \in Refreshing /\ stage[r] \in Refreshing /\ IsSettled(outcome[r][key[r]])
    BY <1>3 DEF Refreshing, IsSettled
  <1> QED
    BY <1>1, <1>2, <1>3, <1>4, <1>6, <1>7, <1>8, <1>9, RefreshStepKeeps

LEMMA AfterSetDownKeeps ==
    ASSUME IInv, NEW r \in Requests, AfterSetDown(r)
    PROVE  IInv'
  <1> DEFINE o == IF Reply(r) = Stored /\ seen[r] # Absent THEN seen[r] ELSE Thrown
  <1>1. /\ Replied(r, "setDown") /\ Pop(r)
        /\ stage' = [stage EXCEPT ![r] = "settling"]
        /\ outcome' = [outcome EXCEPT ![r][key[r]] = o]
        /\ UNCHANGED <<clock, redisVars, inFlight, key, seen, joined, asked, looked, answer,
                       historyVars>>
    BY DEF AfterSetDown
  <1>2. UNCHANGED <<home, marker, clock, faults, fetched, failed>>
    BY <1>1 DEF redisVars, historyVars
  <1>3. stage[r] = "marking"
    BY <1>1, RestOfAnswered, StageOfOps DEF IInv
  <1>4. IsSettled(o)
    BY DEF IsSettled, IInv, MarketTypeOK
  <1> HIDE DEF o
  <1>5. Only(r)
    BY <1>1 DEF Only, IInv, MarketTypeOK
  <1>6. PipesOK'
    BY <1>1, <1>2, <1>5, AnsweredKeeps DEF IInv
  <1>7. fetched' \in SUBSET Values /\ failed' \in [Keys -> Times \cup {Never}]
    BY <1>2 DEF IInv, MarketTypeOK
  <1>8. "settling" \in Refreshing /\ stage[r] \in Refreshing
    BY <1>3 DEF Refreshing
  <1> QED
    BY <1>1, <1>2, <1>4, <1>6, <1>7, <1>8, RefreshStepKeeps

-----------------------------------------------------------------------------
(* Steps that no reply starts.                                             *)

LEMMA AskKeeps ==
    ASSUME IInv, NEW r \in Requests, Ask(r)
    PROVE  IInv'
  <1>1. /\ stage[r] = "idle" /\ Send(r, "get")
        /\ stage' = [stage EXCEPT ![r] = "reading"]
        /\ asked' = [asked EXCEPT ![r] = clock]
        /\ looked' = [looked EXCEPT ![r] = clock]
        /\ UNCHANGED <<clock, redisVars, inFlight, key, seen, joined, outcome, answer,
                       historyVars>>
    BY DEF Ask
  <1>2. UNCHANGED <<home, marker, clock, faults, fetched, failed>>
    BY <1>1 DEF redisVars, historyVars
  <1>3. /\ stage' \in [Requests -> Stages] /\ stage'[r] = "reading"
        /\ \A s \in Requests \ {r} : stage'[s] = stage[s]
    <2>1. stage \in [Requests -> Stages]
      BY DEF IInv, MarketTypeOK
    <2> QED
      BY <1>1, <2>1 DEF Stages
  <1>4. Only(r)
    BY <1>1, <1>3 DEF Only
  <1>5. PipesOK'
    <2>1. "get" \in Ops
      BY DEF Ops
    <2> QED
      BY <1>1, <1>2, <1>3, <1>4, <2>1, StageOfOps, UnpromptedKeeps DEF IInv
  <1>6. FlightInv' /\ OutcomeInv'
    BY <1>1, <1>2, <1>3, <1>4, BystanderKeeps DEF IInv, Refreshing
  <1>7. RequestTypes'
    <2>1. asked' \in [Requests -> Times \cup {NotBegun}] /\ looked' \in [Requests -> Times]
      BY <1>1 DEF IInv, MarketTypeOK
    <2> QED
      BY <1>1, <1>3, <2>1 DEF RequestTypes, IInv, MarketTypeOK
  <1>8. /\ inFlight' \in [Instances -> [Keys -> Requests \cup {Nobody}]]
        /\ fetched' \in SUBSET Values /\ failed' \in [Keys -> Times \cup {Never}]
    BY <1>1, <1>2 DEF IInv, MarketTypeOK
  <1> QED
    BY <1>1, <1>2, <1>5, <1>6, <1>7, <1>8, TypesTogether DEF IInv, PipesOK

LEMMA FetchKeeps ==
    ASSUME IInv, NEW r \in Requests, FetchSucceeds(r) \/ FetchFails(r)
    PROVE  IInv'
  <1> DEFINE v == [src |-> key[r], at |-> clock]
  <1>1. v \in Values
    BY DEF IInv, MarketTypeOK, Values
  <1>2. /\ stage[r] = "fetching"
        /\ UNCHANGED <<clock, redisVars, inFlight, key, seen, joined, asked, looked, answer,
                       home, faults>>
    BY DEF FetchSucceeds, FetchFails
  <1>3. UNCHANGED <<home, marker, clock>> /\ stage[r] \in Refreshing
    BY <1>2 DEF redisVars, Refreshing
  <1>4. /\ stage \in [Requests -> Stages]
        /\ outcome \in [Requests -> [Keys -> Values \cup {Thrown, Unsettled}]]
    BY DEF IInv, MarketTypeOK
  <1>5. CASE FetchSucceeds(r)
    <2>1. /\ stage' = [stage EXCEPT ![r] = "saving"] /\ Send(r, "set")
          /\ outcome' = [outcome EXCEPT ![r][key[r]] = v]
          /\ fetched' = fetched \cup {v} /\ failed' = failed
      BY <1>5 DEF FetchSucceeds
    <2> HIDE DEF v
    <2>2. Only(r) /\ stage'[r] = "saving"
      BY <1>2, <1>4, <2>1 DEF Only
    <2>3. PipesOK'
      <3>1. "set" \in Ops
        BY DEF Ops
      <3> QED
        BY <1>2, <1>3, <2>1, <2>2, <3>1, StageOfOps, UnpromptedKeeps DEF IInv
    <2>4. fetched' \in SUBSET Values /\ failed' \in [Keys -> Times \cup {Never}]
      BY <1>1, <2>1 DEF IInv, MarketTypeOK
    <2>5. "saving" \in Refreshing /\ IsSettled(v)
      BY <1>1 DEF Refreshing, IsSettled
    <2> QED
      BY <1>1, <1>2, <1>3, <2>1, <2>3, <2>4, <2>5, RefreshStepKeeps
  <1>6. CASE FetchFails(r)
    <2>1. /\ stage' = [stage EXCEPT ![r] = "marking"] /\ Send(r, "setDown")
          /\ failed' = [failed EXCEPT ![key[r]] = clock]
          /\ UNCHANGED <<outcome, fetched>>
      BY <1>6 DEF FetchFails
    <2>2. Only(r) /\ stage'[r] = "marking"
      BY <1>2, <1>4, <2>1 DEF Only
    <2>3. PipesOK'
      <3>1. "setDown" \in Ops
        BY DEF Ops
      <3> QED
        BY <1>2, <1>3, <2>1, <2>2, <3>1, StageOfOps, UnpromptedKeeps DEF IInv
    <2>4. fetched' \in SUBSET Values /\ failed' \in [Keys -> Times \cup {Never}]
      BY <2>1 DEF IInv, MarketTypeOK
    <2>5. outcome' = [outcome EXCEPT ![r][key[r]] = outcome[r][key[r]]]
      BY <1>4, <2>1
    <2>6. "marking" \in Refreshing
      BY DEF Refreshing
    <2> QED
      BY <1>2, <1>3, <2>1, <2>3, <2>4, <2>5, <2>6, RefreshStepKeeps
  <1> QED
    BY <1>5, <1>6

\* The end of a lookup that no reply starts: a refresh has settled, r's own
\* or the one it awaits.
LEMMA EndOnSettledTypes ==
    ASSUME IInv, NEW r \in Requests,
           stage[r] \notin {"reading", "dropping", "probing", "saving", "marking"},
           UNCHANGED <<clock, redisVars, historyVars>>,
           \/ \E v \in Values : Return(r, v) /\ UNCHANGED pipe
           \/ ThrowOnSettled(r)
    PROVE  /\ PipesOK' /\ RequestTypes' /\ Only(r) /\ outcome' = outcome
           /\ stage'[r] \in {"reading", "done"}
  <1>1. /\ RequestTypes' /\ Only(r) /\ outcome' = outcome
        /\ stage'[r] \in {"reading", "done"}
        /\ (UNCHANGED pipe) \/ \E o \in Ops : Send(r, o) /\ stage'[r] = StageOf(o)
    <2>1. CASE \E v \in Values : Return(r, v) /\ UNCHANGED pipe
      BY <2>1, ReturnKeeps DEF IInv
    <2>2. CASE ThrowPrimary(r) /\ Send(r, "get")
      <3>1. "get" \in Ops
        BY DEF Ops
      <3> QED
        BY <2>2, <3>1, ThrowKeeps, StageOfOps DEF IInv
    <2>3. CASE ThrowFallback(r) /\ UNCHANGED pipe
      BY <2>3, ThrowKeeps DEF IInv
    <2> QED
      BY <2>1, <2>2, <2>3 DEF ThrowOnSettled
  <1>2. UNCHANGED <<home, marker, clock>>
    BY DEF redisVars, historyVars
  <1>3. PipesOK'
    BY <1>1, <1>2, UnpromptedKeeps DEF IInv
  <1> QED
    BY <1>1, <1>3

LEMMA SettleKeeps ==
    ASSUME IInv, NEW r \in Requests, Settle(r)
    PROVE  IInv'
  <1> DEFINE o == outcome[r][key[r]]
  <1>1. /\ stage[r] = "settling" /\ UNCHANGED <<clock, redisVars, historyVars>>
        /\ inFlight' = [inFlight EXCEPT ![home[r]][key[r]] = Nobody]
    BY DEF Settle
  <1>2. UNCHANGED <<home, faults, fetched, failed>>
    BY <1>1 DEF historyVars
  <1>3. IsSettled(o)
    BY <1>1 DEF IInv, OutcomeInv
  <1>4. (\E v \in Values : Return(r, v) /\ UNCHANGED pipe) \/ ThrowOnSettled(r)
    BY <1>3 DEF Settle, IsSettled
  <1>5. /\ PipesOK' /\ RequestTypes' /\ Only(r) /\ outcome' = outcome
        /\ stage'[r] \in {"reading", "done"}
    BY <1>1, <1>4, EndOnSettledTypes
  <1>6. /\ FlightInv' /\ OutcomeInv'
        /\ inFlight' \in [Instances -> [Keys -> Requests \cup {Nobody}]]
    BY <1>1, <1>2, <1>5, SettlerKeeps DEF IInv, Refreshing
  <1>7. fetched' \in SUBSET Values /\ failed' \in [Keys -> Times \cup {Never}]
    BY <1>2 DEF IInv, MarketTypeOK
  <1> QED
    BY <1>1, <1>2, <1>5, <1>6, <1>7, TypesTogether DEF IInv, PipesOK

LEMMA WakeKeeps ==
    ASSUME IInv, NEW r \in Requests, Wake(r)
    PROVE  IInv'
  <1> DEFINE o == outcome[joined[r]][key[r]]
  <1>1. /\ stage[r] = "awaiting" /\ UNCHANGED <<clock, redisVars, inFlight, historyVars>>
        /\ ~ (stage[joined[r]] \in Refreshing /\ key[joined[r]] = key[r])
    BY DEF Wake, Settled
  <1>2. UNCHANGED <<home, faults, fetched, failed>>
    BY <1>1 DEF historyVars
  <1>3. IsSettled(o)
    BY <1>1 DEF IInv, OutcomeInv
  <1>4. (\E v \in Values : Return(r, v) /\ UNCHANGED pipe) \/ ThrowOnSettled(r)
    BY <1>3 DEF Wake, IsSettled
  <1>5. /\ PipesOK' /\ RequestTypes' /\ Only(r) /\ outcome' = outcome
        /\ stage'[r] \in {"reading", "done"}
    BY <1>1, <1>4, EndOnSettledTypes
  <1>6. FlightInv' /\ OutcomeInv'
    BY <1>1, <1>2, <1>5, BystanderKeeps DEF IInv, Refreshing
  <1>7. /\ inFlight' \in [Instances -> [Keys -> Requests \cup {Nobody}]]
        /\ fetched' \in SUBSET Values /\ failed' \in [Keys -> Times \cup {Never}]
    BY <1>1, <1>2 DEF IInv, MarketTypeOK
  <1> QED
    BY <1>1, <1>2, <1>5, <1>6, <1>7, TypesTogether DEF IInv, PipesOK

-----------------------------------------------------------------------------
(* Redis and time.                                                         *)

GivesReply(i, n, x) == pipe' = [pipe EXCEPT ![i][n].reply = x]

\* Redis gives the next command of connection i its reply.
LEMMA ReplyKeeps ==
    ASSUME MarketTypeOK, PipeInv, NEW i \in Instances, NEW n \in DOMAIN pipe[i],
           NextCommand(i, n), NEW x \in Values \cup {Absent, Garbage, Failure, Stored},
           GivesReply(i, n, x), UNCHANGED <<stage, key, home>>
    PROVE  /\ pipe' \in [Instances -> Seq(Commands)] /\ PipeInv'
           /\ pipe[i][n] \in Commands
           /\ DOMAIN pipe'[i] = DOMAIN pipe[i]
           /\ \A m \in DOMAIN pipe[i] : /\ pipe'[i][m].op = pipe[i][m].op
                                        /\ pipe'[i][m].by = pipe[i][m].by
                                        /\ m # n => pipe'[i][m] = pipe[i][m]
           /\ pipe'[i][n].reply = x
           /\ \A m \in DOMAIN pipe[i] : n < m => pipe[i][m].reply = Queued
           /\ \A j \in Instances, k \in Keys :
                  /\ Covered(pipe[j], k)
                  /\ j = i /\ key[pipe[i][n].by] = k /\ pipe[i][n].op = "getDown" => x # Absent
                  => CoveredNext(pipe'[j], k)
  <1> DEFINE p == pipe[i]
             c == p[n]
             d == [c EXCEPT !.reply = x]
             q == [p EXCEPT ![n] = d]
  <1>1. pipe \in [Instances -> Seq(Commands)]
    BY DEF MarketTypeOK, Commands
  <1>2. pipe' = [pipe EXCEPT ![i] = q]
    BY DEF GivesReply
  <1>3. pipe'[i] = q /\ \A j \in Instances \ {i} : pipe'[j] = pipe[j]
    BY <1>1, <1>2
  <1>4. p \in Seq(Commands) /\ Expected(p, i) /\ OneEach(p) /\ InOrder(p)
    BY <1>1 DEF PipeInv
  <1>5. c.reply = Queued /\ \A m \in 1 .. n - 1 : p[m].reply # Queued
    BY DEF NextCommand
  <1> HIDE DEF p
  <1>6. /\ n \in Nat /\ n \in DOMAIN p /\ DOMAIN p = 1 .. Len(p) /\ Len(p) \in Nat
        /\ \A m \in DOMAIN p : p[m] \in Commands
    <2>1. DOMAIN p = 1 .. Len(p) /\ Len(p) \in Nat /\ n \in DOMAIN p
      BY <1>4 DEF p
    <2>2. \A m \in 1 .. Len(p) : p[m] \in Commands
      BY <1>4, ElementOfSeq
    <2> QED
      BY <2>1, <2>2
  <1>7. c \in Commands
    BY <1>6
  <1> HIDE DEF c
  <1>8. /\ d \in Commands /\ d.by = c.by /\ d.op = c.op /\ d.reply = x
    BY <1>7 DEF Commands
  <1> HIDE DEF d
  <1>9. /\ q \in Seq(Commands) /\ DOMAIN q = DOMAIN p /\ q[n] = d
        /\ \A m \in DOMAIN p : m # n => q[m] = p[m]
    <2>1. q \in Seq(Commands)
      BY <1>4, <1>6, <1>8, ExceptSeq
    <2> QED
      BY <1>6, <2>1
  <1> HIDE DEF q
  <1>10. \A m \in DOMAIN p : q[m].op = p[m].op /\ q[m].by = p[m].by
    BY <1>8, <1>9 DEF c
  <1>11. pipe' \in [Instances -> Seq(Commands)]
    BY <1>1, <1>2, <1>9
  <1>12. \A m \in DOMAIN p : n < m => p[m].reply = Queued
    BY <1>4, <1>5, <1>6 DEF InOrder, c
  <1>13. InOrder(q)
    <2> SUFFICES ASSUME NEW m \in DOMAIN q, NEW o \in DOMAIN q, m < o, q[o].reply # Queued
                 PROVE  q[m].reply # Queued
      BY DEF InOrder
    <2>1. x # Queued
      BY SpecialsDiffer
    <2>2. CASE o = n
      <3>1. m \in 1 .. n - 1 /\ m # n
        BY <1>6, <1>9, <2>2
      <3> QED
        BY <1>5, <1>9, <3>1
    <2>3. CASE o # n
      <3>1. q[o] = p[o] /\ ~ (n < o)
        BY <1>9, <1>12, <2>3
      <3>2. m \in 1 .. n - 1 /\ m # n
        BY <1>6, <1>9, <2>3, <3>1
      <3> QED
        BY <1>5, <1>9, <3>2
    <2> QED
      BY <2>2, <2>3
  <1>14. PipeInv'
    <2> SUFFICES ASSUME NEW j \in Instances
                 PROVE  ExpectedNext(pipe'[j], j) /\ OneEach(pipe'[j]) /\ InOrder(pipe'[j])
      BY DEF PipeInv, Expected, ExpectedNext
    <2>1. CASE j = i
      <3>1. ExpectedNext(q, i) /\ OneEach(q)
        BY <1>4, <1>9, <1>10 DEF Expected, ExpectedNext, OneEach
      <3> QED
        BY <1>3, <1>13, <2>1, <3>1
    <2>2. CASE j # i
      <3>1. pipe'[j] = pipe[j]
        BY <1>3, <2>2
      <3> QED
        BY <3>1 DEF PipeInv, Expected, ExpectedNext
    <2> QED
      BY <2>1, <2>2
  <1>15. ASSUME NEW j \in Instances, NEW k \in Keys, Covered(pipe[j], k),
                j = i /\ key[c.by] = k /\ c.op = "getDown" => x # Absent
         PROVE  CoveredNext(pipe'[j], k)
    <2>1. CASE j # i
      <3>1. pipe'[j] = pipe[j]
        BY <1>3, <2>1
      <3>2. Covered(pipe[j], k)
        BY <1>15
      <3>3. CoveredNext(pipe[j], k)
        BY <3>2 DEF Covered, CoveredNext
      <3> QED
        BY <3>1, <3>3
    <2>2. CASE j = i
      <3>1. Covered(p, k)
        BY <1>15, <2>2 DEF p
      <3>2. ASSUME NEW m \in DOMAIN q, q[m].op = "getDown", q[m].reply = Absent,
                   key[q[m].by] = k
            PROVE  p[m].reply = Absent
        BY <1>8, <1>9, <1>15, <2>2, <3>2
      <3>3. CoveredNext(q, k)
        BY <1>9, <1>10, <3>1, <3>2 DEF Covered, CoveredNext
      <3> QED
        BY <1>3, <2>2, <3>3
    <2> QED
      BY <2>1, <2>2
  <1> QED
    BY <1>3, <1>6, <1>8, <1>9, <1>10, <1>11, <1>12, <1>14, <1>15 DEF p, c

\* Redis answers: what it stores and what it reads is typed.
LEMMA RedisTypes ==
    ASSUME IInv, UNCHANGED <<clock, inFlight, requestVars, home, fetched>>, faults' \in Nat,
           entry' \in [Keys -> [value : Values \cup {Absent, Garbage}, until : Expiries]],
           marker' \in [Keys -> [until : Expiries, by : Instances]],
           failed' \in [Keys -> Times \cup {Never}],
           pipe' \in [Instances -> Seq(Commands)]
    PROVE  MarketTypeOK' /\ FlightInv' /\ OutcomeInv'
  <1>1. UNCHANGED <<stage, key, seen, joined, outcome, asked, looked, answer>>
    BY DEF requestVars
  <1>2. MarketTypeOK'
    BY <1>1 DEF IInv, MarketTypeOK, Commands
  <1>3. FlightInv' /\ OutcomeInv'
    BY <1>1 DEF IInv, FlightInv, OutcomeInv, IsSettled
  <1> QED
    BY <1>2, <1>3

LEMMA FailCommandKeeps ==
    ASSUME IInv, NEW i \in Instances, FailCommand(i)
    PROVE  IInv'
  <1>1. PICK n \in DOMAIN pipe[i] :
            /\ NextCommand(i, n) /\ faults > 0 /\ faults' = faults - 1
            /\ pipe' = [pipe EXCEPT ![i][n].reply = Failure]
            /\ failed' = [failed EXCEPT ![key[pipe[i][n].by]] = clock]
            /\ UNCHANGED <<clock, redisVars, inFlight, requestVars, home, fetched>>
    BY DEF FailCommand
  <1>2. UNCHANGED <<entry, marker, stage, key, clock, home>>
    BY <1>1 DEF redisVars, requestVars
  <1>3. Failure # Absent
    BY SpecialsDiffer
  <1>4. /\ pipe' \in [Instances -> Seq(Commands)] /\ PipeInv'
        /\ \A j \in Instances, k \in Keys : Covered(pipe[j], k) => CoveredNext(pipe'[j], k)
    <2>1. PICK x \in Values \cup {Absent, Garbage, Failure, Stored} : x = Failure
      OBVIOUS
    <2>2. NextCommand(i, n) /\ GivesReply(i, n, x) /\ x # Absent
      BY <1>1, <1>3, <2>1 DEF GivesReply
    <2>3. UNCHANGED <<stage, key, home>>
      BY <1>2
    <2>4. MarketTypeOK /\ PipeInv
      BY DEF IInv
    <2>5. /\ pipe' \in [Instances -> Seq(Commands)] /\ PipeInv'
          /\ \A j \in Instances, k \in Keys :
                 /\ Covered(pipe[j], k)
                 /\ j = i /\ key[pipe[i][n].by] = k /\ pipe[i][n].op = "getDown" => x # Absent
                 => CoveredNext(pipe'[j], k)
      BY <2>2, <2>3, <2>4, ReplyKeeps
    <2> QED
      BY <2>2, <2>5
  <1>5. AttemptInv'
    <2> SUFFICES ASSUME NEW k \in Keys, Alive(marker[k])
                 PROVE  CoveredNext(pipe'[marker[k].by], k)
      BY <1>2 DEF AttemptInv, Alive, Covered, CoveredNext
    <2>1. marker[k].by \in Instances
      BY DEF IInv, MarketTypeOK
    <2> QED
      BY <1>4, <2>1 DEF IInv, AttemptInv
  <1>6. /\ faults' \in Nat /\ failed' \in [Keys -> Times \cup {Never}]
        /\ entry' \in [Keys -> [value : Values \cup {Absent, Garbage}, until : Expiries]]
        /\ marker' \in [Keys -> [until : Expiries, by : Instances]]
    <2>1. faults' \in Nat
      BY <1>1 DEF IInv, MarketTypeOK
    <2>2. failed' \in [Keys -> Times \cup {Never}]
      BY <1>1 DEF IInv, MarketTypeOK
    <2>3. UNCHANGED <<entry, marker>>
      BY <1>2
    <2> QED
      BY <2>1, <2>2, <2>3 DEF IInv, MarketTypeOK
  <1> QED
    BY <1>1, <1>4, <1>5, <1>6, RedisTypes DEF IInv

LEMMA ExecuteKeeps ==
    ASSUME IInv, NEW i \in Instances, Execute(i)
    PROVE  IInv'
  <1>1. PICK n \in DOMAIN pipe[i] :
            LET c == pipe[i][n]
                k == key[c.by]
            IN  /\ NextCommand(i, n)
                /\ \/ /\ c.op = "get"
                      /\ pipe' = [pipe EXCEPT ![i][n].reply = Read(k)]
                      /\ UNCHANGED redisVars
                   \/ /\ c.op = "getDown"
                      /\ pipe' = [pipe EXCEPT ![i][n].reply =
                            IF Alive(marker[k]) THEN Stored ELSE Absent]
                      /\ UNCHANGED redisVars
                   \/ /\ c.op = "delete"
                      /\ pipe' = [pipe EXCEPT ![i][n].reply = Stored]
                      /\ entry' = [entry EXCEPT ![k] = [value |-> Absent, until |-> 0]]
                      /\ UNCHANGED marker
                   \/ /\ c.op = "set"
                      /\ pipe' = [pipe EXCEPT ![i][n].reply = Stored]
                      /\ entry' = [entry EXCEPT ![k] = [value |-> Refreshed(c.by),
                                                        until |-> clock + StaleLife]]
                      /\ UNCHANGED marker
                   \/ /\ c.op = "setDown"
                      /\ pipe' = [pipe EXCEPT ![i][n].reply = Stored]
                      /\ marker' = [marker EXCEPT ![k] = [until |-> clock + FailureLife,
                                                          by |-> i]]
                      /\ UNCHANGED entry
                /\ UNCHANGED <<clock, inFlight, requestVars, historyVars>>
    BY Zenon DEF Execute
  <1> DEFINE c == pipe[i][n]
             k == key[c.by]
             Replies == Values \cup {Absent, Garbage, Failure, Stored}
  <1>2. UNCHANGED <<clock, inFlight, requestVars, stage, key, home, faults, fetched, failed>>
    BY <1>1 DEF requestVars, historyVars
  <1>3. c \in Commands /\ k \in Keys /\ stage[c.by] = StageOf(c.op)
    <2>1. pipe[i] \in Seq(Commands) /\ Expected(pipe[i], i)
      BY PipeType DEF IInv, PipeInv
    <2>2. c \in Commands
      BY <2>1, ElementOfSeq
    <2> QED
      BY <2>1, <2>2 DEF Expected, Commands, IInv, MarketTypeOK
  <1>4. PICK x \in Replies :
            /\ GivesReply(i, n, x)
            /\ Alive(marker[k]) /\ c.op = "getDown" => x # Absent
    <2>1. Read(k) \in Values \cup {Absent, Garbage}
      BY <1>3 DEF Read, IInv, MarketTypeOK
    <2>2. Stored # Absent
      BY SpecialsDiffer
    <2> QED
      BY <1>1, <2>1, <2>2 DEF GivesReply
  <1>5. /\ pipe' \in [Instances -> Seq(Commands)] /\ PipeInv'
        /\ DOMAIN pipe'[i] = DOMAIN pipe[i]
        /\ \A m \in DOMAIN pipe[i] : /\ pipe'[i][m].op = pipe[i][m].op
                                     /\ pipe'[i][m].by = pipe[i][m].by
                                     /\ m # n => pipe'[i][m] = pipe[i][m]
        /\ \A m \in DOMAIN pipe[i] : n < m => pipe[i][m].reply = Queued
        /\ \A j \in Instances, l \in Keys :
               Covered(pipe[j], l) /\ (j = i /\ k = l /\ c.op = "getDown" => x # Absent)
               => CoveredNext(pipe'[j], l)
    BY <1>1, <1>2, <1>4, ReplyKeeps DEF IInv
  <1>6. /\ entry' \in [Keys -> [value : Values \cup {Absent, Garbage}, until : Expiries]]
        /\ marker' \in [Keys -> [until : Expiries, by : Instances]]
    <2>1. /\ entry \in [Keys -> [value : Values \cup {Absent, Garbage}, until : Expiries]]
          /\ marker \in [Keys -> [until : Expiries, by : Instances]]
      BY DEF IInv, MarketTypeOK
    <2>2. 0 \in Expiries /\ clock + StaleLife \in Expiries /\ clock + FailureLife \in Expiries
      BY DEF IInv, MarketTypeOK, Times, Expiries
    <2>3. c.op = "set" => Refreshed(c.by) \in Values
      BY <1>3, StageOfOps DEF Refreshed, IInv, OutcomeInv, Commands
    <2> HIDE DEF c, k
    <2>4. CASE UNCHANGED redisVars
      BY <2>1, <2>4 DEF redisVars
    <2>5. CASE entry' = [entry EXCEPT ![k] = [value |-> Absent, until |-> 0]] /\ UNCHANGED marker
      BY <2>1, <2>2, <2>5
    <2>6. CASE /\ entry' = [entry EXCEPT ![k] = [value |-> Refreshed(c.by),
                                                 until |-> clock + StaleLife]]
               /\ c.op = "set" /\ UNCHANGED marker
      BY <2>1, <2>2, <2>3, <2>6
    <2>7. CASE /\ marker' = [marker EXCEPT ![k] = [until |-> clock + FailureLife, by |-> i]]
               /\ UNCHANGED entry
      BY <2>1, <2>2, <2>7
    <2> QED
      BY <1>1, <2>4, <2>5, <2>6, <2>7 DEF c, k
  <1>7. AttemptInv'
    <2> SUFFICES ASSUME NEW l \in Keys, Alive(marker'[l])
                 PROVE  CoveredNext(pipe'[marker'[l].by], l)
      BY <1>2 DEF AttemptInv, Alive, Covered, CoveredNext
    <2>1. marker[l] \in [until : Expiries, by : Instances]
      BY DEF IInv, MarketTypeOK
    <2>2. CASE marker'[l] = marker[l]
      BY <1>2, <1>4, <1>5, <2>1, <2>2 DEF IInv, AttemptInv, Alive
    <2>3. CASE marker'[l] # marker[l]
      <3>1. /\ c.op = "setDown"
            /\ marker' = [marker EXCEPT ![k] = [until |-> clock + FailureLife, by |-> i]]
        BY <1>1, <2>3 DEF redisVars
      <3>2. l = k /\ marker'[l].by = i
        BY <1>3, <2>3, <3>1 DEF IInv, MarketTypeOK
      <3>3. ASSUME NEW m \in DOMAIN pipe'[i], pipe'[i][m].op = "getDown",
                   pipe'[i][m].reply = Absent
            PROVE  m < n
        <4>1. m # n /\ m \in DOMAIN pipe[i]
          BY <1>5, <3>1, <3>3
        <4>2. pipe[i][m].reply # Queued
          BY <1>5, <3>3, <4>1, SpecialsDiffer
        <4>3. m \in Nat /\ n \in Nat
          BY <1>5, <4>1 DEF IInv, MarketTypeOK
        <4> QED
          BY <1>5, <4>1, <4>2, <4>3
      <3>4. CoveredNext(pipe'[i], k)
        BY <1>2, <1>5, <3>1, <3>3 DEF CoveredNext
      <3> QED
        BY <3>2, <3>4
    <2> QED
      BY <2>2, <2>3
  <1>8. faults' \in Nat /\ failed' \in [Keys -> Times \cup {Never}]
    BY <1>2 DEF IInv, MarketTypeOK
  <1> QED
    BY <1>2, <1>5, <1>6, <1>7, <1>8, RedisTypes DEF IInv

LEMMA TickKeeps ==
    ASSUME IInv, Tick
    PROVE  IInv'
  <1>1. /\ clock' = clock + 1 /\ clock < MaxClock
        /\ UNCHANGED <<entry, marker, pipe, inFlight, stage, key, seen, joined, outcome, asked,
                       looked, answer, home, faults, fetched, failed>>
    BY DEF Tick, redisVars, requestVars, historyVars
  <1>2. MarketTypeOK'
    <2>1. clock' \in Times
      BY <1>1 DEF IInv, MarketTypeOK, Times
    <2> QED
      BY <1>1, <2>1 DEF IInv, MarketTypeOK
  <1>3. AttemptInv'
    <2>1. \A k \in Keys : clock' < marker[k].until => clock < marker[k].until
      BY <1>1 DEF IInv, MarketTypeOK, Times, Expiries
    <2> QED
      BY <1>1, <2>1 DEF IInv, AttemptInv, Alive, Covered
  <1>4. FlightInv' /\ OutcomeInv' /\ PipeInv'
    BY <1>1 DEF IInv, FlightInv, OutcomeInv, IsSettled, PipeInv, Expected
  <1> QED
    BY <1>2, <1>3, <1>4 DEF IInv

-----------------------------------------------------------------------------
(* The theorems.                                                           *)

LEMMA EmptyConnection ==
    \A i \in Instances : Expected(<<>>, i) /\ OneEach(<<>>) /\ InOrder(<<>>)
  <1>1. DOMAIN <<>> = {}
    OBVIOUS
  <1> QED
    BY <1>1 DEF Expected, OneEach, InOrder

LEMMA InitHolds == MarketInit => IInv
  <1> SUFFICES ASSUME MarketInit PROVE IInv
    OBVIOUS
  <1>1. PICK s \in Scenarios : Begin(s)
    BY DEF MarketInit
  <1>2. /\ s.home \in [Requests -> Instances] /\ s.faults \in Nat /\ s.start \in Times
        /\ s.cached \in Values \cup {Absent, Garbage}
    BY CacheAssumption DEF Times
  <1>3. /\ clock \in Times /\ home \in [Requests -> Instances] /\ faults \in Nat
        /\ fetched \in SUBSET Values
    BY <1>1, <1>2 DEF Begin
  <1>4. entry \in [Keys -> [value : Values \cup {Absent, Garbage}, until : Expiries]]
    <2>1. s.start + StaleLife \in Expiries /\ 0 \in Expiries
      BY <1>2 DEF Times, Expiries
    <2> QED
      BY <1>1, <1>2, <2>1 DEF Begin
  <1>5. marker \in [Keys -> [until : Expiries, by : Instances]]
    <2> DEFINE i == CHOOSE j \in Instances : TRUE
    <2>1. 0 \in Expiries /\ i \in Instances
      BY DEF Expiries
    <2>2. marker = [k \in Keys |-> [until |-> 0, by |-> i]]
      BY DEF MarketInit
    <2> HIDE DEF i
    <2> QED
      BY <2>1, <2>2
  <1>6. pipe \in [Instances -> Seq(Commands)] /\ \A i \in Instances : pipe[i] = <<>>
    <2>1. <<>> \in Seq(Commands)
      OBVIOUS
    <2> QED
      BY <2>1 DEF MarketInit
  <1>7. MarketTypeOK
    <2>1. RequestTypes
      BY DEF MarketInit, RequestTypes, Stages, Keys, Times
    <2>2. /\ inFlight \in [Instances -> [Keys -> Requests \cup {Nobody}]]
          /\ failed \in [Keys -> Times \cup {Never}]
      BY DEF MarketInit
    <2> QED
      BY <1>3, <1>4, <1>5, <1>6, <2>1, <2>2 DEF MarketTypeOK, RequestTypes, Commands
  <1>8. FlightInv /\ OutcomeInv
    BY DEF MarketInit, FlightInv, OutcomeInv, Refreshing
  <1>9. PipeInv
    BY <1>6, EmptyConnection, Zenon DEF PipeInv
  <1>10. AttemptInv
    BY <1>5, <1>6 DEF AttemptInv, Covered
  <1> QED
    BY <1>7, <1>8, <1>9, <1>10 DEF IInv

LEMMA StepKeeps == IInv /\ [MarketNext]_marketVars => IInv'
  <1> SUFFICES ASSUME IInv, [MarketNext]_marketVars
               PROVE  IInv'
    OBVIOUS
  <1>1. CASE Tick
    BY <1>1, TickKeeps
  <1>2. ASSUME NEW i \in Instances, Execute(i) \/ FailCommand(i)
        PROVE  IInv'
    BY <1>2, ExecuteKeeps, FailCommandKeeps
  <1>3. ASSUME NEW r \in Requests, Ask(r)
        PROVE  IInv'
    BY <1>3, AskKeeps
  <1>4. ASSUME NEW r \in Requests, RequestStep(r)
        PROVE  IInv'
    <2>1. CASE AfterGet(r) \/ AfterDelete(r) \/ AfterGetDown(r)
      BY <2>1, AfterGetKeeps, AfterDeleteKeeps, AfterGetDownKeeps
    <2>2. CASE FetchSucceeds(r) \/ FetchFails(r)
      BY <2>2, FetchKeeps
    <2>3. CASE AfterSet(r) \/ AfterSetDown(r)
      BY <2>3, AfterSetKeeps, AfterSetDownKeeps
    <2>4. CASE Settle(r) \/ Wake(r)
      BY <2>4, SettleKeeps, WakeKeeps
    <2> QED
      BY <1>4, <2>1, <2>2, <2>3, <2>4 DEF RequestStep
  <1>5. CASE UNCHANGED marketVars
    <2>1. UNCHANGED <<clock, entry, marker, pipe, inFlight, stage, key, seen, joined, outcome,
                      asked, looked, answer, home, faults, fetched, failed>>
      BY <1>5 DEF marketVars, redisVars, requestVars, historyVars
    <2>2. MarketTypeOK'
      BY <2>1 DEF IInv, MarketTypeOK
    <2>4. FlightInv'
      BY <2>1 DEF IInv, FlightInv
    <2>3. OutcomeInv' /\ PipeInv' /\ AttemptInv'
      BY <2>1 DEF IInv, OutcomeInv, IsSettled, PipeInv, Expected, AttemptInv, Alive, Covered
    <2> QED
      BY <2>2, <2>3, <2>4 DEF IInv
  <1> QED
    BY <1>1, <1>2, <1>3, <1>4, <1>5 DEF MarketNext

LEMMA InvHolds == MarketSpec => []IInv
  BY InitHolds, StepKeeps, PTL DEF MarketSpec

\* Every reachable state is well typed: what Redis stores, what it answers and
\* what a request is answered with are values an upstream gave, or refusals.
THEOREM Typing == MarketSpec => []MarketTypeOK
  BY InvHolds, PTL DEF IInv

\* An instance never has two refreshes of one key in flight, for any number of
\* requests and any interleaving of their awaits.
THEOREM OneRefresh == MarketSpec => []OneRefreshPerInstance
  <1>1. IInv => OneRefreshPerInstance
    <2> SUFFICES ASSUME IInv, NEW r \in Requests, NEW s \in Requests,
                        stage[r] \in Refreshing, stage[s] \in Refreshing,
                        home[r] = home[s], key[r] = key[s]
                 PROVE  r = s
      BY DEF OneRefreshPerInstance
    <2>1. inFlight[home[r]][key[r]] = r /\ inFlight[home[s]][key[s]] = s
      BY DEF IInv, FlightInv
    <2> QED
      BY <2>1
  <1> QED
    BY <1>1, InvHolds, PTL

\* Only a request that has read no marker and found no refresh starts one.
LEMMA OnlyProbesStart ==
    ASSUME IInv, [MarketNext]_marketVars, NEW r \in Requests,
           stage[r] # "fetching", stage'[r] = "fetching"
    PROVE  /\ Replied(r, "getDown") /\ Reply(r) = Absent
           /\ inFlight[home[r]][key[r]] = Nobody
  <1> DEFINE Starts(s) == /\ Replied(s, "getDown") /\ Reply(s) = Absent
                          /\ inFlight[home[s]][key[s]] = Nobody
  <1> SUFFICES Starts(r)
    BY DEF Starts
  <1>1. stage \in [Requests -> Stages]
    BY DEF IInv, MarketTypeOK
  <1>2. ASSUME NEW s \in Requests, NEW x, stage' = [stage EXCEPT ![s] = x],
               x = "fetching" => Starts(s)
        PROVE  Starts(r)
    <2>1. s = r /\ x = "fetching"
      BY <1>1, <1>2
    <2> QED
      BY <1>2, <2>1
  <1> HIDE DEF Starts
  <1>3. ~ UNCHANGED stage
    OBVIOUS
  <1>4. PICK s \in Requests : Ask(s) \/ RequestStep(s)
    BY <1>3 DEF MarketNext, Tick, Execute, FailCommand, marketVars, requestVars
  <1>5. ASSUME \E v : Return(s, v)
        PROVE  Starts(r)
    BY <1>2, <1>5 DEF Return
  <1>6. ASSUME ThrowPrimary(s) \/ ThrowFallback(s)
        PROVE  Starts(r)
    BY <1>2, <1>6 DEF ThrowPrimary, ThrowFallback
  <1>7. CASE Ask(s) \/ FetchSucceeds(s) \/ FetchFails(s) \/ AfterSet(s) \/ AfterSetDown(s)
    <2>1. PICK x \in {"reading", "saving", "marking", "settling"} : stage' = [stage EXCEPT ![s] = x]
      BY <1>7 DEF Ask, FetchSucceeds, FetchFails, AfterSet, AfterSetDown
    <2> QED
      BY <1>2, <2>1
  <1>8. CASE AfterGet(s) \/ AfterDelete(s)
    <2>1. \/ \E v : Return(s, v)
          \/ ThrowPrimary(s) \/ ThrowFallback(s)
          \/ \E x \in {"dropping", "probing"} : stage' = [stage EXCEPT ![s] = x]
      BY <1>8 DEF AfterGet, AfterDelete, ThrowOnReply
    <2> QED
      BY <1>2, <1>5, <1>6, <2>1
  <1>9. CASE AfterGetDown(s)
    <2>1. CASE Reply(s) = Absent /\ StartRefresh(s)
      <3>1. stage' = [stage EXCEPT ![s] = "fetching"] /\ Starts(s)
        BY <1>9, <2>1 DEF AfterGetDown, StartRefresh, Starts
      <3> QED
        BY <1>2, <3>1
    <2>2. CASE JoinRefresh(s)
      <3>1. stage' = [stage EXCEPT ![s] = "awaiting"]
        BY <2>2 DEF JoinRefresh
      <3> QED
        BY <1>2, <3>1
    <2>3. \/ \E v : Return(s, v)
          \/ ThrowPrimary(s) \/ ThrowFallback(s)
          \/ Reply(s) = Absent /\ (StartRefresh(s) \/ JoinRefresh(s))
      BY <1>9 DEF AfterGetDown, ThrowOnReply
    <2> QED
      BY <1>5, <1>6, <2>1, <2>2, <2>3
  <1>10. CASE Settle(s) \/ Wake(s)
    <2>1. (\E v : Return(s, v)) \/ ThrowPrimary(s) \/ ThrowFallback(s)
      BY <1>10 DEF Settle, Wake, ThrowOnSettled
    <2> QED
      BY <1>5, <1>6, <2>1
  <1> QED
    BY <1>4, <1>7, <1>8, <1>9, <1>10 DEF RequestStep

\* While the marker that an instance wrote is alive, the instance starts no
\* other attempt at the key.
THEOREM OneAttempt == MarketSpec => OneAttemptPerMarker
  <1> DEFINE Attempt ==
        \A r \in Requests :
            stage[r] # "fetching" /\ stage'[r] = "fetching" =>
                LET m == marker[key[r]] IN ~ (m.by = home[r] /\ Alive(m))
  <1>1. ASSUME IInv, [MarketNext]_marketVars
        PROVE  Attempt
    <2> SUFFICES ASSUME NEW r \in Requests, stage[r] # "fetching", stage'[r] = "fetching",
                        marker[key[r]].by = home[r], Alive(marker[key[r]])
                 PROVE  FALSE
      OBVIOUS
    <2> DEFINE p == pipe[home[r]]
    <2>1. /\ Replied(r, "getDown") /\ Reply(r) = Absent
          /\ inFlight[home[r]][key[r]] = Nobody
      BY <1>1, OnlyProbesStart
    <2>2. home[r] \in Instances /\ key[r] \in Keys
      BY <1>1 DEF IInv, MarketTypeOK
    <2>3. p \in Seq(Commands) /\ Expected(p, home[r]) /\ Covered(p, key[r])
      BY <1>1, <2>2, PipeType DEF IInv, PipeInv, AttemptInv
    <2>4. p # <<>> /\ Head(p).by = r /\ Head(p).op = "getDown" /\ Head(p).reply = Absent
      BY <2>1 DEF Replied, Reply
    <2> HIDE DEF p
    <2>5. /\ 1 \in DOMAIN p /\ Head(p) = p[1]
          /\ \A m \in DOMAIN p : p[m] \in Commands
      <3>1. 1 \in DOMAIN p /\ Head(p) = p[1]
        BY <2>3, <2>4
      <3>2. \A m \in DOMAIN p : p[m] \in Commands
        BY <2>3, ElementOfSeq
      <3> QED
        BY <3>1, <3>2
    <2>6. PICK m \in DOMAIN p : p[m].op = "setDown" /\ key[p[m].by] = key[r]
      BY <2>3, <2>4, <2>5 DEF Covered
    <2>7. /\ p[m].by \in Requests /\ home[p[m].by] = home[r]
          /\ stage[p[m].by] = "marking"
      BY <2>3, <2>5, <2>6, StageOfOps DEF Expected, Commands
    <2>8. inFlight[home[r]][key[r]] = p[m].by
      BY <1>1, <2>6, <2>7 DEF IInv, FlightInv, Refreshing
    <2> QED
      BY <2>1, <2>7, <2>8, SpecialsDiffer
  <1>2. IInv /\ [MarketNext]_marketVars => [Attempt]_marketVars
    BY <1>1
  <1> QED
    BY <1>2, InvHolds, PTL DEF MarketSpec, OneAttemptPerMarker

-----------------------------------------------------------------------------
(* The promise. Every value on its way to a request, in Redis, in a reply, *)
(* in a lookup's variables or in the outcome of a refresh, was fetched for *)
(* the key it is looked up under and is not older than the stale life by   *)
(* more than a lookup; and whatever makes a lookup throw or turn to a      *)
(* stale value, a failed command, a marker or a failed fetch, goes back to *)
(* a failure of that key that is recent enough.                            *)

Active(r) == stage[r] \notin {"idle", "done"}

Sourced(v, k) == v.src = k /\ v \in fetched
Kept(v, t) == v.at + StaleLife + 1 > t
\* Key k failed so recently that a request begun at t may be refused it.
Explained(k, t) == failed[k] + FailureLife + 1 > t

EntryOK(k) ==
    LET e == entry[k]
    IN  e.value \in Values => Sourced(e.value, k) /\ e.until <= e.value.at + StaleLife + 1

MarkerOK(k) == failed[k] <= clock /\ marker[k].until <= failed[k] + FailureLife + 1

ReplyOK(c) ==
    LET k == key[c.by]
        t == looked[c.by]
    IN  /\ c.reply \in Values => Sourced(c.reply, k) /\ Kept(c.reply, t)
        /\ c.reply = Failure => t <= failed[k]
        /\ c.op = "getDown" /\ c.reply = Stored => Explained(k, t)

AgeOK(r) ==
    /\ stage[r] = "idle" =>
           asked[r] = NotBegun /\ answer[r] = Waiting /\ seen[r] = Absent /\ key[r] = Primary
    /\ Active(r) =>
           /\ asked[r] \in Times /\ answer[r] = Waiting
           /\ asked[r] <= looked[r] /\ looked[r] <= clock /\ clock <= looked[r] + 1
           /\ key[r] = Fallback => Explained(Primary, asked[r])

SeenOK(r) == seen[r] \in Values => Sourced(seen[r], key[r]) /\ Kept(seen[r], looked[r])

\* What a refresh of k may leave to those who looked k up at t or later.
Good(o, k, t) ==
    /\ o \in Values => t <= o.at \/ (Kept(o, t) /\ t <= failed[k])
    /\ o = Thrown => t <= failed[k]

OutcomeOK(r) ==
    /\ \A k \in Keys : outcome[r][k] \in Values => Sourced(outcome[r][k], k)
    /\ stage[r] = "saving" => looked[r] <= Refreshed(r).at
    /\ stage[r] = "marking" => looked[r] <= failed[key[r]]
    /\ stage[r] = "settling" => Good(Refreshed(r), key[r], looked[r])

\* Who joins a refresh began at most a tick after it: it will be good for him.
AwaitOK(r) ==
    LET s == joined[r]
    IN  stage[r] = "awaiting" =>
           IF stage[s] \in Refreshing /\ key[s] = key[r]
           THEN asked[r] <= looked[s] + 1
           ELSE Good(outcome[s][key[r]], key[r], asked[r] - 1)

RequestOK(r) == AgeOK(r) /\ SeenOK(r) /\ OutcomeOK(r) /\ AwaitOK(r)

RedisOK == \A k \in Keys : EntryOK(k) /\ MarkerOK(k)
PipesGood == \A i \in Instances : \A n \in DOMAIN pipe[i] : ReplyOK(pipe[i][n])
PromiseInv == RedisOK /\ PipesGood /\ \A r \in Requests : RequestOK(r)

\* What the rest of the program sees of a step of r's code.
Others(r) ==
    \A s \in Requests \ {r} :
        /\ stage'[s] = stage[s] /\ key'[s] = key[s] /\ seen'[s] = seen[s]
        /\ joined'[s] = joined[s] /\ outcome'[s] = outcome[s] /\ asked'[s] = asked[s]
        /\ looked'[s] = looked[s] /\ answer'[s] = answer[s]

\* The histories only grow, up to the present time.
Grows ==
    /\ clock' = clock /\ fetched \subseteq fetched'
    /\ \A k \in Keys : failed'[k] \in Int /\ failed[k] <= failed'[k] /\ failed'[k] <= clock

\* r starts a refresh only within its lookup, decides an outcome only while it
\* refreshes, and ends a refresh only by settling.
Refreshes(r) ==
    /\ stage'[r] \in Refreshing =>
           Active(r) /\ key'[r] = key[r] /\ looked'[r] = looked[r]
    /\ \/ outcome'[r] = outcome[r]
       \/ /\ stage[r] \in Refreshing /\ stage'[r] \in Refreshing
          /\ \A k \in Keys \ {key[r]} : outcome'[r][k] = outcome[r][k]
    /\ stage[r] \in Refreshing /\ stage'[r] \notin Refreshing => stage[r] = "settling"

\* A connection after a step of r holds what it held of others, and perhaps a
\* new command of r.
Sends(r) ==
    \A i \in Instances : \A n \in DOMAIN pipe'[i] :
        \/ \E op \in Ops : pipe'[i][n] = Command(r, op)
        \/ \E m \in DOMAIN pipe[i] : pipe'[i][n] = pipe[i][m] /\ pipe[i][m].by # r

LEMMA Numbers ==
    /\ Times \subseteq Int /\ Expiries \subseteq Int /\ Never \in Int /\ NotBegun \notin Times
    /\ \A v \in Values : v.src \in Keys /\ v.at \in Times
    /\ Ttl \in Int /\ StaleLife \in Nat /\ FailureLife \in Nat
    /\ Ttl >= 2 /\ FailureLife >= 1
  BY LivesAssumption DEF Times, Expiries, Never, NotBegun, Values

LEMMA Facts ==
    ASSUME MarketTypeOK
    PROVE  /\ clock \in Int
           /\ \A k \in Keys : failed[k] \in Int /\ entry[k].until \in Int /\ marker[k].until \in Int
           /\ \A r \in Requests : /\ looked[r] \in Int /\ asked[r] \in Int /\ key[r] \in Keys
                                  /\ outcome[r] \in [Keys -> Values \cup {Thrown, Unsettled}]
                                  /\ home[r] \in Instances
           /\ \A i \in Instances : \A n \in DOMAIN pipe[i] : pipe[i][n] \in Commands
  <1>1. clock \in Int
    BY Numbers DEF MarketTypeOK
  <1>2. \A k \in Keys : failed[k] \in Int
    BY Numbers DEF MarketTypeOK
  <1>3. \A k \in Keys : entry[k].until \in Int /\ marker[k].until \in Int
    BY Numbers DEF MarketTypeOK
  <1>4. ASSUME NEW r \in Requests
        PROVE  /\ looked[r] \in Int /\ asked[r] \in Int /\ key[r] \in Keys
               /\ outcome[r] \in [Keys -> Values \cup {Thrown, Unsettled}]
               /\ home[r] \in Instances
    <2>1. looked[r] \in Times /\ asked[r] \in Times \cup {NotBegun} /\ key[r] \in Keys
      BY DEF MarketTypeOK
    <2>2. /\ outcome[r] \in [Keys -> Values \cup {Thrown, Unsettled}]
          /\ home[r] \in Instances
      BY DEF MarketTypeOK
    <2>3. Times \subseteq Int /\ NotBegun \in Int
      BY Numbers DEF NotBegun
    <2> QED
      BY <2>1, <2>2, <2>3
  <1>5. \A i \in Instances : \A n \in DOMAIN pipe[i] : pipe[i][n] \in Commands
    <2> SUFFICES ASSUME NEW i \in Instances, NEW n \in DOMAIN pipe[i]
                 PROVE  pipe[i][n] \in Commands
      OBVIOUS
    <2>1. pipe[i] \in Seq(Commands)
      BY PipeType
    <2> QED
      BY <2>1, ElementOfSeq
  <1> QED
    BY <1>1, <1>2, <1>3, <1>4, <1>5

LEMMA FailedLater ==
    ASSUME MarketTypeOK, MarketTypeOK', Grows, NEW k \in Keys
    PROVE  failed[k] \in Int /\ failed'[k] \in Int /\ failed[k] <= failed'[k]
  <1>1. failed[k] \in Times \cup {Never} /\ failed'[k] \in Times \cup {Never}
    BY DEF MarketTypeOK
  <1> QED
    BY <1>1, Numbers DEF Grows

\* What was explained by a failure or had a value stays so.
LEMMA GoodStays ==
    ASSUME MarketTypeOK, MarketTypeOK', Grows, NEW k \in Keys, NEW t \in Int,
           NEW o \in Values \cup {Thrown, Unsettled}
    PROVE  /\ Good(o, k, t) => Good(o, k, t)'
           /\ Explained(k, t) => Explained(k, t)'
           /\ t <= failed[k] => t <= failed'[k]
  <1>1. failed[k] \in Int /\ failed'[k] \in Int /\ failed[k] <= failed'[k] /\ FailureLife \in Int
    BY FailedLater, Numbers
  <1>2. t <= failed[k] => t <= failed'[k]
    BY <1>1
  <1>3. Explained(k, t) => Explained(k, t)'
    BY <1>1 DEF Explained
  <1>4. Good(o, k, t) => Good(o, k, t)'
    BY <1>2 DEF Good, Kept
  <1> QED
    BY <1>2, <1>3, <1>4

\* An outcome good for those who looked at t is good for those before.
LEMMA GoodBefore ==
    ASSUME MarketTypeOK, NEW k \in Keys, NEW s \in Int, NEW t \in Int, s <= t,
           NEW o \in Values \cup {Thrown, Unsettled}, Good(o, k, t)
    PROVE  Good(o, k, s)
  <1>1. failed[k] \in Int /\ StaleLife \in Int /\ (o \in Values => o.at \in Int)
    <2>1. failed[k] \in Int
      BY Facts
    <2>2. o \in Values => o.at \in Int
      BY Numbers
    <2>3. StaleLife \in Int
      BY Numbers
    <2> QED
      BY <2>1, <2>2, <2>3
  <1> QED
    BY <1>1 DEF Good, Kept

\* A request that a step leaves alone, and whose joined refresh goes on or ends
\* as it should, stays as good as it was.
LEMMA RequestStays ==
    ASSUME IInv, PromiseInv, MarketTypeOK', Grows, NEW q \in Requests,
           stage'[q] = stage[q], key'[q] = key[q], seen'[q] = seen[q],
           joined'[q] = joined[q], outcome'[q] = outcome[q], asked'[q] = asked[q],
           looked'[q] = looked[q], answer'[q] = answer[q],
           stage[q] = "awaiting" =>
              LET s == joined[q]
                  k == key[q]
              IN  IF stage'[s] \in Refreshing /\ key'[s] = k THEN asked[q] <= looked'[s] + 1
                  ELSE Good(outcome[s][k], k, asked[q] - 1) /\ outcome'[s][k] = outcome[s][k]
    PROVE  RequestOK(q)'
  <1>0. MarketTypeOK
    BY DEF IInv
  <1>2. AgeOK(q) /\ SeenOK(q) /\ OutcomeOK(q) /\ AwaitOK(q)
    BY DEF PromiseInv, RequestOK
  <1>3. /\ looked[q] \in Int /\ asked[q] \in Int /\ key[q] \in Keys /\ clock \in Int
        /\ outcome[q] \in [Keys -> Values \cup {Thrown, Unsettled}]
    BY <1>0, Facts
  <1>4. Primary \in Keys
    BY DEF Keys
  <1>5. AgeOK(q)'
    <2>1. Explained(Primary, asked[q]) => failed'[Primary] + FailureLife + 1 > asked[q]
      BY <1>0, <1>3, <1>4, GoodStays DEF Explained
    <2> QED
      BY <1>2, <2>1 DEF AgeOK, Active, Grows, Explained
  <1>6. SeenOK(q)'
    BY <1>2 DEF SeenOK, Sourced, Kept, Grows
  <1>7. OutcomeOK(q)'
    <2>1. /\ Good(Refreshed(q), key[q], looked[q]) => Good(Refreshed(q), key[q], looked[q])'
          /\ looked[q] <= failed[key[q]] => looked'[q] <= failed'[key'[q]]
      <3> DEFINE o == Refreshed(q)
                 k == key[q]
                 t == looked[q]
      <3>1. o \in Values \cup {Thrown, Unsettled} /\ k \in Keys /\ t \in Int
        BY <1>3 DEF Refreshed
      <3>2. Refreshed(q)' = o /\ key'[q] = k /\ looked'[q] = t
        BY DEF Refreshed
      <3>3. failed[k] \in Int /\ failed'[k] \in Int /\ failed[k] <= failed'[k]
        BY <1>0, <3>1, FailedLater
      <3> HIDE DEF o, k, t
      <3>4. t <= failed[k] => t <= failed'[k]
        BY <3>1, <3>3
      <3>5. Good(o, k, t) =>
              /\ o \in Values => t <= o.at \/ (Kept(o, t) /\ t <= failed'[k])
              /\ o = Thrown => t <= failed'[k]
        BY <3>4 DEF Good
      <3> QED
        BY <3>2, <3>4, <3>5 DEF Good, Kept, o, k, t
    <2> QED
      BY <1>2, <2>1 DEF OutcomeOK, Sourced, Grows, Refreshed
  <1>8. AwaitOK(q)'
    <2> SUFFICES ASSUME stage[q] = "awaiting"
                 PROVE  AwaitOK(q)'
      BY DEF AwaitOK
    <2> DEFINE s == joined[q]
               k == key[q]
               a == asked[q]
    <2>1. s \in Requests /\ k \in Keys /\ a \in Int /\ a - 1 \in Int
      BY <1>3 DEF IInv, OutcomeInv
    <2>2. joined'[q] = s /\ key'[q] = k /\ asked'[q] = a
      OBVIOUS
    <2> HIDE DEF s, k, a
    <2>7. IF stage'[s] \in Refreshing /\ key'[s] = k THEN a <= looked'[s] + 1
          ELSE Good(outcome[s][k], k, a - 1) /\ outcome'[s][k] = outcome[s][k]
      BY DEF s, k, a
    <2>8. Good(outcome[s][k], k, a - 1) =>
            /\ outcome[s][k] \in Values =>
                  \/ a - 1 <= outcome[s][k].at
                  \/ Kept(outcome[s][k], a - 1) /\ a - 1 <= failed'[k]
            /\ outcome[s][k] = Thrown => a - 1 <= failed'[k]
      <3>1. failed[k] \in Int /\ failed'[k] \in Int /\ failed[k] <= failed'[k]
        BY <1>0, <2>1, FailedLater
      <3>2. a - 1 <= failed[k] => a - 1 <= failed'[k]
        BY <2>1, <3>1
      <3> QED
        BY <3>2 DEF Good
    <2>9. LET o == outcome'[s][k]
          IN  IF stage'[s] \in Refreshing /\ key'[s] = k THEN a <= looked'[s] + 1
              ELSE /\ o \in Values => a - 1 <= o.at \/ (Kept(o, a - 1) /\ a - 1 <= failed'[k])
                   /\ o = Thrown => a - 1 <= failed'[k]
      BY <2>7, <2>8
    <2> QED
      BY <2>2, <2>9 DEF AwaitOK, Good, Kept
  <1> QED
    BY <1>5, <1>6, <1>7, <1>8 DEF RequestOK

\* r's code leaves what it does not touch as good as it was.
LEMMA StepStays ==
    ASSUME IInv, PromiseInv, MarketTypeOK', Grows, UNCHANGED redisVars,
           NEW r \in Requests, Others(r), Refreshes(r), Sends(r), RequestOK(r)'
    PROVE  PromiseInv'
  <1>1. MarketTypeOK
    BY DEF IInv
  <1>2. RedisOK'
    <2> SUFFICES ASSUME NEW k \in Keys PROVE EntryOK(k)' /\ MarkerOK(k)'
      BY DEF RedisOK
    <2>1. entry' = entry /\ marker' = marker
      BY DEF redisVars
    <2>2. EntryOK(k) /\ MarkerOK(k)
      BY DEF PromiseInv, RedisOK
    <2>3. /\ failed[k] \in Int /\ failed'[k] \in Int /\ marker[k].until \in Int
          /\ FailureLife \in Int
      BY <1>1, FailedLater, Facts, Numbers
    <2>4. EntryOK(k)'
      BY <2>1, <2>2 DEF EntryOK, Sourced, Grows
    <2>5. MarkerOK(k)'
      BY <2>1, <2>2, <2>3 DEF MarkerOK, Grows
    <2> QED
      BY <2>4, <2>5
  <1>3. PipesGood'
    <2> SUFFICES ASSUME NEW i \in Instances, NEW n \in DOMAIN pipe'[i]
                 PROVE  ReplyOK(pipe[i][n])'
      BY DEF PipesGood
    <2> DEFINE c == pipe'[i][n]
    <2>1. CASE \E op \in Ops : c = Command(r, op)
      <3>1. c.reply = Queued
        BY <2>1 DEF Command
      <3> HIDE DEF c
      <3> QED
        BY <3>1, SpecialsDiffer DEF ReplyOK, c
    <2>2. ASSUME NEW m \in DOMAIN pipe[i], c = pipe[i][m], pipe[i][m].by # r
          PROVE  ReplyOK(pipe[i][n])'
      <3> DEFINE b == pipe[i][m]
      <3>1. b \in Commands /\ ReplyOK(b)
        BY <1>1, Facts DEF PromiseInv, PipesGood
      <3>2. b.by \in Requests \ {r}
        BY <2>2, <3>1 DEF Commands
      <3> HIDE DEF b
      <3>3. key'[b.by] = key[b.by] /\ looked'[b.by] = looked[b.by]
        BY <3>2 DEF Others
      <3>4. key[b.by] \in Keys /\ looked[b.by] \in Int
        BY <1>1, <3>2, Facts
      <3>5. /\ Explained(key[b.by], looked[b.by]) =>
                 failed'[key[b.by]] + FailureLife + 1 > looked[b.by]
            /\ looked[b.by] <= failed[key[b.by]] => looked[b.by] <= failed'[key[b.by]]
        <4> DEFINE kk == key[b.by]
                   tt == looked[b.by]
        <4>1. failed[kk] \in Int /\ failed'[kk] \in Int /\ tt \in Int /\ FailureLife \in Int
              /\ failed[kk] <= failed'[kk]
          BY <1>1, <3>4, FailedLater, Numbers
        <4> HIDE DEF kk, tt
        <4>2. failed[kk] + FailureLife + 1 > tt => failed'[kk] + FailureLife + 1 > tt
          BY <4>1
        <4>3. tt <= failed[kk] => tt <= failed'[kk]
          BY <4>1
        <4> QED
          BY <4>2, <4>3 DEF Explained, kk, tt
      <3>6. /\ c.reply \in Values =>
                 c.reply.src = key'[c.by] /\ c.reply \in fetched' /\ Kept(c.reply, looked'[c.by])
            /\ c.reply = Failure => looked'[c.by] <= failed'[key'[c.by]]
            /\ c.op = "getDown" /\ c.reply = Stored =>
                 failed'[key'[c.by]] + FailureLife + 1 > looked'[c.by]
        <4>1. c = b
          BY <2>2 DEF b
        <4> HIDE DEF c
        <4> QED
          BY <4>1, <3>1, <3>3, <3>5 DEF ReplyOK, Sourced, Grows
      <3> QED
        BY <3>6 DEF ReplyOK, Sourced, Explained, Kept, c
    <2> QED
      BY <2>1, <2>2 DEF Sends
  <1>4. ASSUME NEW q \in Requests \ {r}
        PROVE  RequestOK(q)'
    <2>1. /\ stage'[q] = stage[q] /\ key'[q] = key[q] /\ seen'[q] = seen[q]
          /\ joined'[q] = joined[q] /\ outcome'[q] = outcome[q] /\ asked'[q] = asked[q]
          /\ looked'[q] = looked[q] /\ answer'[q] = answer[q]
      BY <1>4 DEF Others
    <2>2. ASSUME stage[q] = "awaiting"
          PROVE  LET s == joined[q]
                     k == key[q]
                 IN  IF stage'[s] \in Refreshing /\ key'[s] = k THEN asked[q] <= looked'[s] + 1
                     ELSE Good(outcome[s][k], k, asked[q] - 1) /\ outcome'[s][k] = outcome[s][k]
      <3> DEFINE s == joined[q]
                 k == key[q]
                 a == asked[q]
      <3>1. s \in Requests /\ k \in Keys /\ a \in Int /\ a - 1 \in Int /\ clock \in Int
        BY <1>1, <1>4, <2>2, Facts DEF IInv, OutcomeInv
      <3>3. /\ looked[s] \in Int /\ outcome[s][k] \in Values \cup {Thrown, Unsettled}
            /\ looked'[s] \in Int
        BY <1>1, <3>1, Facts, Numbers DEF MarketTypeOK
      <3>2. RequestOK(q) /\ RequestOK(s)
        BY <1>4, <3>1 DEF PromiseInv
      <3>4. IF stage[s] \in Refreshing /\ key[s] = k THEN a <= looked[s] + 1
            ELSE Good(outcome[s][k], k, a - 1)
        BY <2>2, <3>2 DEF RequestOK, AwaitOK
      <3>5. a <= clock
        BY <1>1, <1>4, <2>2, <3>1, <3>2, Facts DEF RequestOK, AgeOK, Active
      <3>6. RequestOK(s)
        BY <3>2
      <3> HIDE DEF s, k, a
      <3>7. IF stage'[s] \in Refreshing /\ key'[s] = k THEN a <= looked'[s] + 1
            ELSE Good(outcome[s][k], k, a - 1) /\ outcome'[s][k] = outcome[s][k]
        <4>1. CASE s # r
          BY <3>1, <3>4, <4>1 DEF Others
        <4>2. CASE s = r /\ stage'[s] \in Refreshing /\ key'[s] = k
          <5>1. Active(s) /\ looked'[s] = looked[s]
            BY <4>2 DEF Refreshes
          <5>2. clock <= looked[s] + 1
            BY <3>6, <5>1 DEF RequestOK, AgeOK
          <5> QED
            BY <3>1, <3>3, <3>5, <4>2, <5>1, <5>2
        <4>3. CASE s = r /\ ~ (stage'[s] \in Refreshing /\ key'[s] = k)
          <5>1. CASE stage[s] \in Refreshing /\ key[s] = k
            <6>1. stage[s] = "settling" /\ outcome'[s] = outcome[s]
              BY <4>3, <5>1 DEF Refreshes
            <6>2. Good(outcome[s][k], k, looked[s])
              BY <3>6, <5>1, <6>1 DEF RequestOK, OutcomeOK, Refreshed
            <6>3. a - 1 <= looked[s]
              BY <3>1, <3>3, <3>4, <5>1
            <6>4. Good(outcome[s][k], k, a - 1)
              BY <1>1, <3>1, <3>3, <6>2, <6>3, GoodBefore
            <6> QED
              BY <4>3, <6>1, <6>4
          <5>2. CASE ~ (stage[s] \in Refreshing /\ key[s] = k)
            <6>1. outcome'[s][k] = outcome[s][k]
              BY <3>1, <4>3, <5>2 DEF Refreshes
            <6> QED
              BY <3>4, <4>3, <5>2, <6>1
          <5> QED
            BY <5>1, <5>2
        <4> QED
          BY <4>1, <4>2, <4>3
      <3> QED
        BY <3>7 DEF s, k, a
    <2> QED
      BY <2>1, <2>2, RequestStays
  <1> QED
    BY <1>2, <1>3, <1>4 DEF PromiseInv

-----------------------------------------------------------------------------
(* What a step of a request's code answers, and why it may.                *)

Promised == [Promise!PromiseNext]_Promise!promiseVars

\* The part of a step that its own request accounts for.
StepOK(r) == RequestOK(r)' /\ Others(r) /\ Refreshes(r) /\ Promised

LEMMA Sent ==
    ASSUME MarketTypeOK, PipeInv, NEW r \in Requests,
           \/ \E op : Replied(r, op) /\ (Pop(r) \/ \E o \in Ops : PopAndSend(r, o))
           \/ /\ stage[r] \notin {"reading", "dropping", "probing", "saving", "marking"}
              /\ (UNCHANGED pipe) \/ \E o \in Ops : Send(r, o)
    PROVE  Sends(r)
  <1>1. home[r] \in Instances /\ pipe \in [Instances -> Seq(Commands)]
    BY DEF MarketTypeOK, Commands
  <1>2. PICK q : /\ Rest(pipe[home[r]], q, r)
                 /\ \/ pipe' = [pipe EXCEPT ![home[r]] = q]
                    \/ \E o \in Ops : pipe' = [pipe EXCEPT ![home[r]] = Append(q, Command(r, o))]
    <2>1. CASE \E op : Replied(r, op) /\ (Pop(r) \/ \E o \in Ops : PopAndSend(r, o))
      <3>1. Rest(pipe[home[r]], Tail(pipe[home[r]]), r)
        BY <2>1, RestOfAnswered
      <3> QED
        BY <2>1, <3>1 DEF Pop, PopAndSend
    <2>2. CASE /\ stage[r] \notin {"reading", "dropping", "probing", "saving", "marking"}
               /\ (UNCHANGED pipe) \/ \E o \in Ops : Send(r, o)
      <3>1. Rest(pipe[home[r]], pipe[home[r]], r)
        BY <2>2, RestOfQuiet
      <3> QED
        BY <1>1, <2>2, <3>1 DEF Send
    <2> QED
      BY <2>1, <2>2
  <1>3. q \in Seq(Commands)
    BY <1>2 DEF Rest
  <1>4. \A n \in DOMAIN q : \E m \in DOMAIN pipe[home[r]] :
            q[n] = pipe[home[r]][m] /\ pipe[home[r]][m].by # r
    BY <1>2 DEF Rest
  <1> SUFFICES ASSUME NEW i \in Instances, NEW n \in DOMAIN pipe'[i]
               PROVE  \/ \E op \in Ops : pipe'[i][n] = Command(r, op)
                      \/ \E m \in DOMAIN pipe[i] : pipe'[i][n] = pipe[i][m] /\ pipe[i][m].by # r
    BY DEF Sends
  <1>5. CASE i # home[r]
    <2>1. pipe'[i] = pipe[i]
      BY <1>1, <1>2, <1>5
    <2>2. Expected(pipe[i], i) /\ pipe[i] \in Seq(Commands)
      BY <1>1 DEF PipeInv
    <2>3. home[pipe[i][n].by] = i
      BY <2>1, <2>2 DEF Expected
    <2> QED
      BY <1>5, <2>1, <2>3
  <1>6. CASE i = home[r] /\ pipe' = [pipe EXCEPT ![home[r]] = q]
    <2>1. pipe'[i] = q
      BY <1>1, <1>6
    <2> QED
      BY <1>4, <1>6, <2>1
  <1>7. ASSUME i = home[r], NEW o \in Ops,
               pipe' = [pipe EXCEPT ![home[r]] = Append(q, Command(r, o))]
        PROVE  \/ \E op \in Ops : pipe'[i][n] = Command(r, op)
               \/ \E m \in DOMAIN pipe[i] : pipe'[i][n] = pipe[i][m] /\ pipe[i][m].by # r
    <2> DEFINE c == Command(r, o)
               p == pipe'[i]
    <2>1. p = Append(q, c)
      BY <1>1, <1>7
    <2>2. c \in Commands
      BY DEF Command, Commands
    <2> HIDE DEF c, p
    <2>3. \A m \in DOMAIN p : (m \in DOMAIN q /\ p[m] = q[m]) \/ p[m] = c
      <3>1. Len(q) \in Nat /\ DOMAIN q = 1 .. Len(q)
        BY <1>3
      <3>2. p \in Seq(Commands) /\ Len(p) = Len(q) + 1
            /\ (\A m \in 1 .. Len(q) : p[m] = q[m]) /\ p[Len(q) + 1] = c
        BY <1>3, <2>1, <2>2, AppendProperties
      <3>3. DOMAIN p = 1 .. Len(q) + 1
        BY <3>1, <3>2
      <3> QED
        BY <3>1, <3>2, <3>3
    <2>4. n \in DOMAIN p
      BY DEF p
    <2> QED
      BY <1>4, <1>7, <2>3, <2>4 DEF c, p
  <1> QED
    BY <1>2, <1>5, <1>6, <1>7

\* What the reply that r handles says.
LEMMA HeadOK ==
    ASSUME MarketTypeOK, PipesGood, NEW r \in Requests, NEW op, Replied(r, op)
    PROVE  /\ Reply(r) \in Values => Sourced(Reply(r), key[r]) /\ Kept(Reply(r), looked[r])
           /\ Reply(r) = Failure => looked[r] <= failed[key[r]]
           /\ op = "getDown" /\ Reply(r) = Stored => Explained(key[r], looked[r])
  <1> DEFINE p == pipe[home[r]]
  <1>1. home[r] \in Instances
    BY DEF MarketTypeOK
  <1>2. p \in Seq(Commands) /\ p # <<>> /\ Head(p).by = r /\ Head(p).op = op
        /\ Reply(r) = Head(p).reply
    BY <1>1, PipeType DEF Replied, Reply
  <1>3. \A n \in DOMAIN p : ReplyOK(p[n])
    BY <1>1 DEF PipesGood
  <1> HIDE DEF p
  <1>4. Head(p) = p[1] /\ 1 \in DOMAIN p
    BY <1>2
  <1>5. ReplyOK(Head(p))
    BY <1>3, <1>4
  <1> QED
    BY <1>2, <1>5 DEF ReplyOK

\* A failure since the lookup began, or one that a marker met in it stands
\* for, explains an answer to the request as a whole.
LEMMA ExplainedSinceAsked ==
    ASSUME MarketTypeOK, NEW r \in Requests, AgeOK(r), Active(r), NEW k \in Keys,
           looked[r] <= failed[k] \/ Explained(k, looked[r])
           \/ asked[r] - 1 <= failed[k]
    PROVE  Explained(k, asked[r])
  <1>1. /\ looked[r] \in Int /\ asked[r] \in Int /\ failed[k] \in Int
        /\ FailureLife \in Int /\ FailureLife >= 1
    BY Facts, Numbers
  <1>2. asked[r] <= looked[r]
    BY DEF AgeOK
  <1> QED
    BY <1>1, <1>2 DEF Explained

LEMMA ReturnGood ==
    ASSUME IInv, PromiseInv, NEW r \in Requests, Active(r),
           stage[r] \in Refreshing => stage[r] = "settling",
           NEW v \in Values, Sourced(v, key[r]), Return(r, v),
           UNCHANGED <<clock, historyVars>>,
           \/ v.at + Ttl > asked[r]
           \/ v.at + StaleLife + 2 > asked[r] /\ Explained(key[r], asked[r])
    PROVE  StepOK(r)
  <1>1. /\ stage' = [stage EXCEPT ![r] = "done"] /\ looked' = [looked EXCEPT ![r] = 0]
        /\ answer' = [answer EXCEPT ![r] = IF v.src = Fallback /\ r \in OneSource
                                           THEN Refused ELSE v]
        /\ seen' = [seen EXCEPT ![r] = Absent] /\ joined' = [joined EXCEPT ![r] = Nobody]
        /\ UNCHANGED <<key, outcome, asked>>
    BY DEF Return, Leave
  <1>2. UNCHANGED <<clock, fetched, failed>>
    BY DEF historyVars
  <1>3. /\ stage \in [Requests -> Stages] /\ seen \in [Requests -> Values \cup {Absent}]
        /\ asked[r] \in Times /\ answer[r] = Waiting /\ AgeOK(r) /\ OutcomeOK(r)
    BY DEF IInv, MarketTypeOK, PromiseInv, RequestOK, AgeOK
  <1>4. stage'[r] = "done" /\ seen'[r] = Absent
    BY <1>1, <1>3
  <1>5. RequestOK(r)'
    <2>1. OutcomeOK(r)'
      BY <1>1, <1>2, <1>3, <1>4 DEF OutcomeOK, Sourced
    <2> QED
      BY <1>4, <2>1, SpecialsDiffer DEF RequestOK, AgeOK, Active, SeenOK, AwaitOK
  <1>6. Others(r)
    BY <1>1 DEF Others, IInv, MarketTypeOK
  <1>7. Refreshes(r)
    BY <1>1, <1>4 DEF Refreshes, Refreshing
  <1>8. Promised
    <2>1. key[r] = Fallback => Explained(Primary, asked[r])
      BY <1>3 DEF AgeOK
    <2>2. asked[r] # NotBegun /\ v \in fetched /\ v.src = key[r]
      BY <1>3, Numbers DEF Sourced
    <2>3. CASE v.src = Fallback /\ r \in OneSource
      <3>1. Promise!Refuse(r)
        BY <1>1, <1>2, <1>3, <2>1, <2>2, <2>3
           DEF Promise!Refuse, Promise!Failing, Promise!Primary, Promise!Fallback,
               Promise!NotBegun, Promise!Waiting, Promise!Refused, Explained, Primary, Fallback,
               NotBegun, Waiting, Refused, Special
      <3> QED
        BY <3>1 DEF Promised, Promise!PromiseNext
    <2>4. CASE ~ (v.src = Fallback /\ r \in OneSource)
      <3>1. Promise!MayGive(r, v)
        BY <2>1, <2>2 DEF Promise!MayGive, Promise!Fresh, Promise!Stale, Promise!Failing,
             Promise!Primary, Promise!Fallback, Explained, Primary, Fallback
      <3>2. Promise!Give(r, v)
        BY <1>1, <1>2, <1>3, <2>2, <2>4, <3>1
           DEF Promise!Give, Promise!NotBegun, Promise!Waiting, NotBegun, Waiting, Special
      <3> QED
        BY <2>2, <3>2 DEF Promised, Promise!PromiseNext
    <2> QED
      BY <2>3, <2>4
  <1> QED
    BY <1>5, <1>6, <1>7, <1>8 DEF StepOK

LEMMA ThrowGood ==
    ASSUME IInv, PromiseInv, NEW r \in Requests, Active(r),
           stage[r] \in Refreshing => stage[r] = "settling",
           ThrowPrimary(r) \/ ThrowFallback(r), Explained(key[r], asked[r]),
           UNCHANGED <<clock, historyVars>>
    PROVE  StepOK(r)
  <1>1. /\ seen' = [seen EXCEPT ![r] = Absent] /\ joined' = [joined EXCEPT ![r] = Nobody]
        /\ UNCHANGED <<outcome, asked>>
    BY DEF ThrowPrimary, ThrowFallback, Leave
  <1>2. UNCHANGED <<clock, fetched, failed>>
    BY DEF historyVars
  <1>3. /\ stage \in [Requests -> Stages] /\ seen \in [Requests -> Values \cup {Absent}]
        /\ key \in [Requests -> Keys] /\ looked \in [Requests -> Times] /\ clock \in Times
        /\ answer \in [Requests -> Values \cup {Waiting, Refused}]
    BY DEF IInv, MarketTypeOK
  <1>4. /\ asked[r] \in Times /\ answer[r] = Waiting /\ AgeOK(r) /\ OutcomeOK(r)
        /\ asked[r] # NotBegun /\ asked[r] \in Int /\ looked[r] \in Int /\ clock \in Int
    BY <1>3, Numbers DEF PromiseInv, RequestOK, AgeOK
  <1>5. seen'[r] = Absent
    BY <1>1, <1>3
  <1>6. CASE ThrowPrimary(r)
    <2>1. /\ key[r] = Primary /\ key' = [key EXCEPT ![r] = Fallback]
          /\ stage' = [stage EXCEPT ![r] = "reading"]
          /\ looked' = [looked EXCEPT ![r] = clock] /\ answer' = answer
      BY <1>6 DEF ThrowPrimary
    <2>2. stage'[r] = "reading" /\ looked'[r] = clock
      BY <1>3, <2>1
    <2>3. AgeOK(r)'
      <3>1. asked[r] <= clock
        BY <1>4 DEF AgeOK
      <3> QED
        BY <1>1, <1>2, <1>4, <2>1, <2>2, <3>1 DEF AgeOK, Active, Explained
    <2>4. OutcomeOK(r)'
      BY <1>1, <1>2, <1>4, <2>2 DEF OutcomeOK, Sourced
    <2>5. RequestOK(r)'
      BY <1>5, <2>2, <2>3, <2>4, SpecialsDiffer DEF RequestOK, SeenOK, AwaitOK
    <2>6. Others(r)
      BY <1>1, <2>1 DEF Others, IInv, MarketTypeOK
    <2>7. Refreshes(r)
      BY <1>1, <2>2 DEF Refreshes, Refreshing
    <2>8. Promised
      BY <1>1, <1>2, <2>1 DEF Promised, Promise!promiseVars
    <2> QED
      BY <2>5, <2>6, <2>7, <2>8 DEF StepOK
  <1>7. CASE ThrowFallback(r)
    <2>1. /\ key[r] = Fallback /\ key' = key /\ stage' = [stage EXCEPT ![r] = "done"]
          /\ looked' = [looked EXCEPT ![r] = 0] /\ answer' = [answer EXCEPT ![r] = Refused]
      BY <1>7 DEF ThrowFallback
    <2>2. stage'[r] = "done"
      BY <1>3, <2>1
    <2>3. OutcomeOK(r)'
      BY <1>1, <1>2, <1>4, <2>2 DEF OutcomeOK, Sourced
    <2>4. RequestOK(r)'
      BY <1>5, <2>2, <2>3, SpecialsDiffer DEF RequestOK, AgeOK, Active, SeenOK, AwaitOK
    <2>5. Others(r)
      BY <1>1, <2>1 DEF Others, IInv, MarketTypeOK
    <2>6. Refreshes(r)
      BY <1>1, <2>2 DEF Refreshes, Refreshing
    <2>7. Promise!Refuse(r)
      <3>1. Explained(Primary, asked[r])
        BY <1>4, <2>1 DEF AgeOK
      <3> QED
        BY <1>1, <1>2, <1>4, <2>1, <3>1
           DEF Promise!Refuse, Promise!Failing, Promise!Primary, Promise!Fallback,
               Promise!NotBegun, Promise!Waiting, Promise!Refused, Explained, Primary, Fallback,
               NotBegun, Waiting, Refused, Special
    <2>8. Promised
      BY <2>7 DEF Promised, Promise!PromiseNext
    <2> QED
      BY <2>4, <2>5, <2>6, <2>8 DEF StepOK
  <1> QED
    BY <1>6, <1>7

-----------------------------------------------------------------------------
(* The continuations.                                                      *)

\* A step that fetches and fails nothing leaves the histories as they were.
LEMMA StillGrows ==
    ASSUME IInv, PromiseInv, UNCHANGED <<clock, fetched, failed>>
    PROVE  Grows
  <1>1. \A k \in Keys : failed[k] <= clock
    BY DEF PromiseInv, RedisOK, MarkerOK
  <1>2. \A k \in Keys : failed[k] \in Int
    BY Facts DEF IInv
  <1>3. \A k \in Keys : failed[k] <= failed[k]
    BY <1>2
  <1> QED
    BY <1>1, <1>2, <1>3 DEF Grows

\* What a request still at work knows of itself.
LEMMA AtWork ==
    ASSUME IInv, PromiseInv, NEW r \in Requests, stage[r] \notin {"idle", "done"}
    PROVE  /\ Active(r) /\ AgeOK(r) /\ SeenOK(r) /\ OutcomeOK(r) /\ AwaitOK(r)
           /\ asked[r] \in Int /\ looked[r] \in Int /\ clock \in Int /\ key[r] \in Keys
           /\ asked[r] <= looked[r] /\ looked[r] <= clock /\ clock <= looked[r] + 1
           /\ answer[r] = Waiting /\ asked[r] \in Times
           /\ home[r] \in Instances /\ failed[key[r]] \in Int
  BY Facts DEF IInv, PromiseInv, RequestOK, AgeOK, Active

LEMMA ReplyStage ==
    ASSUME IInv, NEW r \in Requests, NEW op \in Ops, Replied(r, op)
    PROVE  stage[r] = StageOf(op)
           /\ stage[r] \in {"reading", "dropping", "probing", "saving", "marking"}
  BY RestOfAnswered, StageOfOps DEF IInv

\* A lookup that ends on a reply.
LEMMA EndOnReplyGood ==
    ASSUME IInv, PromiseInv, NEW r \in Requests, NEW op \in {"get", "delete", "getDown"},
           Replied(r, op), UNCHANGED <<clock, redisVars, historyVars>>,
           \/ \E v \in Values :
                 /\ Return(r, v) /\ Pop(r) /\ Sourced(v, key[r])
                 /\ \/ v.at + Ttl > clock
                    \/ Kept(v, looked[r]) /\ Explained(key[r], looked[r])
           \/ /\ ThrowOnReply(r)
              /\ looked[r] <= failed[key[r]] \/ Explained(key[r], looked[r])
    PROVE  StepOK(r) /\ Sends(r)
  <1>1. op \in Ops /\ "get" \in Ops
    BY DEF Ops
  <1>2. stage[r] \in {"reading", "dropping", "probing"}
    BY <1>1, ReplyStage, StageOfOps
  <1>3. /\ Active(r) /\ AgeOK(r) /\ asked[r] \in Int /\ looked[r] \in Int /\ clock \in Int
        /\ asked[r] <= looked[r] /\ looked[r] <= clock /\ key[r] \in Keys
    BY <1>2, AtWork
  <1>4. looked[r] <= failed[key[r]] \/ Explained(key[r], looked[r]) =>
            Explained(key[r], asked[r])
    BY <1>3, ExplainedSinceAsked DEF IInv
  <1>5. StepOK(r)
    <2>1. ASSUME NEW v \in Values, Return(r, v), Sourced(v, key[r]),
                 \/ v.at + Ttl > clock
                 \/ Kept(v, looked[r]) /\ Explained(key[r], looked[r])
          PROVE  StepOK(r)
      <3>1. v.at \in Int /\ Ttl \in Int /\ StaleLife \in Int
        <4>1. v.at \in Int
          BY Numbers
        <4> QED
          BY <4>1, Numbers
      <3>2. \/ v.at + Ttl > asked[r]
            \/ v.at + StaleLife + 2 > asked[r] /\ Explained(key[r], asked[r])
        BY <1>3, <1>4, <2>1, <3>1 DEF Kept
      <3> QED
        BY <1>2, <1>3, <2>1, <3>2, ReturnGood DEF Refreshing
    <2>2. CASE ThrowOnReply(r) /\ Explained(key[r], asked[r])
      BY <1>2, <1>3, <2>2, ThrowGood DEF ThrowOnReply, Refreshing
    <2> QED
      BY <1>4, <2>1, <2>2
  <1>6. Sends(r)
    <2>1. Pop(r) \/ \E o \in Ops : PopAndSend(r, o)
      BY <1>1 DEF ThrowOnReply
    <2> QED
      BY <2>1, Sent DEF IInv
  <1> QED
    BY <1>5, <1>6

\* A lookup that goes on, with what Redis holds or with nothing.
LEMMA NextCommandGood ==
    ASSUME IInv, PromiseInv, NEW r \in Requests, NEW op \in {"get", "delete"}, Replied(r, op),
           UNCHANGED <<clock, historyVars, key, joined, outcome, asked, looked, answer>>,
           NEW v \in Values \cup {Absent}, seen' = [seen EXCEPT ![r] = v],
           v \in Values => Sourced(v, key[r]) /\ Kept(v, looked[r]),
           NEW o \in Ops, PopAndSend(r, o),
           NEW x \in {"dropping", "probing"}, stage' = [stage EXCEPT ![r] = x]
    PROVE  StepOK(r) /\ Sends(r)
  <1>1. stage[r] \in {"reading", "dropping"}
    BY ReplyStage, StageOfOps DEF Ops
  <1>2. UNCHANGED <<clock, fetched, failed>>
    BY DEF historyVars
  <1>3. stage \in [Requests -> Stages] /\ seen \in [Requests -> Values \cup {Absent}]
    BY DEF IInv, MarketTypeOK
  <1>4. stage'[r] = x /\ seen'[r] = v
    BY <1>3
  <1>5. /\ Active(r) /\ AgeOK(r) /\ OutcomeOK(r)
    BY <1>1, AtWork
  <1>6. RequestOK(r)'
    <2>1. AgeOK(r)'
      BY <1>2, <1>4, <1>5 DEF AgeOK, Active, Explained
    <2>2. SeenOK(r)'
      BY <1>2, <1>4 DEF SeenOK, Sourced, Kept
    <2>3. OutcomeOK(r)'
      BY <1>2, <1>4, <1>5 DEF OutcomeOK, Sourced
    <2> QED
      BY <1>4, <2>1, <2>2, <2>3 DEF RequestOK, AwaitOK
  <1>7. Others(r)
    BY <1>3 DEF Others
  <1>8. Refreshes(r)
    BY <1>1, <1>4 DEF Refreshes, Refreshing
  <1>9. Promised
    BY <1>2 DEF Promised, Promise!promiseVars
  <1>10. Sends(r)
    BY Sent DEF IInv
  <1> QED
    BY <1>6, <1>7, <1>8, <1>9, <1>10 DEF StepOK

LEMMA AfterGetGood ==
    ASSUME IInv, PromiseInv, NEW r \in Requests, AfterGet(r)
    PROVE  StepOK(r) /\ Sends(r)
  <1> DEFINE v == Reply(r)
  <1>1. Replied(r, "get") /\ UNCHANGED <<clock, redisVars, historyVars>>
    BY DEF AfterGet
  <1>2. /\ v \in Values => Sourced(v, key[r]) /\ Kept(v, looked[r])
        /\ v = Failure => looked[r] <= failed[key[r]]
    BY <1>1, HeadOK DEF IInv, PromiseInv
  <1>3. CASE v \in Values /\ clock - v.at < Ttl /\ Return(r, v) /\ Pop(r)
    <2>1. v.at + Ttl > clock
      <3>1. v.at \in Int /\ clock \in Int
        BY <1>3, Numbers, Facts DEF IInv
      <3> QED
        BY <1>3, <3>1
    <2> QED
      BY <1>1, <1>2, <1>3, <2>1, EndOnReplyGood
  <1>4. CASE v = Failure /\ ThrowOnReply(r)
    BY <1>1, <1>2, <1>4, EndOnReplyGood
  <1>5. CASE /\ stage' = [stage EXCEPT ![r] = "dropping"]
             /\ PopAndSend(r, "delete")
             /\ UNCHANGED <<key, seen, joined, outcome, asked, looked, answer>>
    <2>1. seen' = [seen EXCEPT ![r] = seen[r]] /\ seen[r] \in Values \cup {Absent}
      BY <1>5 DEF IInv, MarketTypeOK
    <2>2. SeenOK(r)
      BY DEF PromiseInv, RequestOK
    <2>3. "delete" \in Ops
      BY DEF Ops
    <2>4. seen[r] \in Values => Sourced(seen[r], key[r]) /\ Kept(seen[r], looked[r])
      BY <2>2 DEF SeenOK
    <2> QED
      BY <1>1, <1>5, <2>1, <2>3, <2>4, NextCommandGood
  <1>6. CASE /\ v \in Values \cup {Absent}
             /\ seen' = [seen EXCEPT ![r] = v]
             /\ stage' = [stage EXCEPT ![r] = "probing"]
             /\ PopAndSend(r, "getDown")
             /\ UNCHANGED <<key, joined, outcome, asked, looked, answer>>
    <2>1. "getDown" \in Ops
      BY DEF Ops
    <2> QED
      BY <1>1, <1>2, <1>6, <2>1, NextCommandGood
  <1> QED
    BY <1>3, <1>4, <1>5, <1>6 DEF AfterGet

LEMMA AfterDeleteGood ==
    ASSUME IInv, PromiseInv, NEW r \in Requests, AfterDelete(r)
    PROVE  StepOK(r) /\ Sends(r)
  <1>1. Replied(r, "delete") /\ UNCHANGED <<clock, redisVars, historyVars>>
    BY DEF AfterDelete
  <1>2. CASE Reply(r) = Failure /\ ThrowOnReply(r)
    <2>1. looked[r] <= failed[key[r]]
      BY <1>1, <1>2, HeadOK DEF IInv, PromiseInv
    <2> QED
      BY <1>1, <1>2, <2>1, EndOnReplyGood
  <1>3. CASE /\ seen' = [seen EXCEPT ![r] = Absent]
             /\ stage' = [stage EXCEPT ![r] = "probing"]
             /\ PopAndSend(r, "getDown")
             /\ UNCHANGED <<key, joined, outcome, asked, looked, answer>>
    <2>1. "getDown" \in Ops /\ Absent \notin Values
      BY SpecialsDiffer DEF Ops
    <2> QED
      BY <1>1, <1>3, <2>1, NextCommandGood
  <1> QED
    BY <1>2, <1>3 DEF AfterDelete

LEMMA AfterGetDownGood ==
    ASSUME IInv, PromiseInv, NEW r \in Requests, AfterGetDown(r)
    PROVE  StepOK(r) /\ Sends(r)
  <1>1. Replied(r, "getDown") /\ UNCHANGED <<clock, redisVars, historyVars>>
    BY DEF AfterGetDown
  <1>2. stage[r] = "probing"
    BY <1>1, ReplyStage, StageOfOps DEF Ops
  <1>3. /\ Active(r) /\ AgeOK(r) /\ SeenOK(r) /\ OutcomeOK(r) /\ key[r] \in Keys
        /\ asked[r] \in Int /\ asked[r] <= clock /\ clock \in Int
    BY <1>2, AtWork
  <1>4. CASE Reply(r) = Stored /\ seen[r] # Absent /\ Return(r, seen[r]) /\ Pop(r)
    <2>1. seen[r] \in Values
      BY <1>4 DEF IInv, MarketTypeOK
    <2>2. Explained(key[r], looked[r])
      BY <1>1, <1>4, HeadOK DEF IInv, PromiseInv
    <2> QED
      BY <1>1, <1>3, <1>4, <2>1, <2>2, EndOnReplyGood DEF SeenOK
  <1>5. CASE (Reply(r) = Stored \/ Reply(r) = Failure) /\ ThrowOnReply(r)
    <2>1. looked[r] <= failed[key[r]] \/ Explained(key[r], looked[r])
      BY <1>1, <1>5, HeadOK DEF IInv, PromiseInv
    <2> QED
      BY <1>1, <1>5, <2>1, EndOnReplyGood
  <1>6. CASE /\ StartRefresh(r) \/ JoinRefresh(r)
             /\ Pop(r)
             /\ UNCHANGED <<key, seen, outcome, asked, looked, answer>>
    <2>1. UNCHANGED <<clock, fetched, failed>>
      BY <1>1 DEF historyVars
    <2>2. PICK x \in {"fetching", "awaiting"} :
              /\ stage' = [stage EXCEPT ![r] = x]
              /\ x = "fetching" => joined' = joined
              /\ x = "awaiting" =>
                     /\ joined' = [joined EXCEPT ![r] = inFlight[home[r]][key[r]]]
                     /\ inFlight[home[r]][key[r]] # Nobody
      BY <1>6 DEF StartRefresh, JoinRefresh
    <2>3. /\ stage \in [Requests -> Stages] /\ home[r] \in Instances
          /\ joined \in [Requests -> Requests \cup {Nobody}]
          /\ inFlight \in [Instances -> [Keys -> Requests \cup {Nobody}]]
      BY DEF IInv, MarketTypeOK
    <2>4. stage'[r] = x /\ \A s \in Requests \ {r} : stage'[s] = stage[s]
                                                  /\ joined'[s] = joined[s]
      BY <2>2, <2>3
    <2>5. AgeOK(r)'
      BY <1>3, <1>6, <2>1, <2>4 DEF AgeOK, Active, Explained
    <2>6. SeenOK(r)'
      BY <1>3, <1>6, <2>1 DEF SeenOK, Sourced, Kept
    <2>7. OutcomeOK(r)'
      BY <1>3, <1>6, <2>1, <2>4 DEF OutcomeOK, Sourced
    <2>8. AwaitOK(r)'
      <3> SUFFICES ASSUME x = "awaiting"
                   PROVE  AwaitOK(r)'
        BY <2>2, <2>4 DEF AwaitOK
      <3> DEFINE s == inFlight[home[r]][key[r]]
      <3>1. s \in Requests /\ joined'[r] = s
        BY <1>3, <2>2, <2>3
      <3>2. stage[s] \in Refreshing /\ key[s] = key[r]
        BY <1>3, <2>2, <2>3 DEF IInv, FlightInv
      <3>3. s # r
        BY <1>2, <3>2 DEF Refreshing
      <3>4. stage'[s] = stage[s]
        BY <2>4, <3>1, <3>3
      <3>5. clock <= looked[s] + 1 /\ looked[s] \in Int
        BY <3>1, <3>2, AtWork DEF Refreshing
      <3> HIDE DEF s
      <3>6. asked[r] <= looked[s] + 1
        BY <1>3, <3>5
      <3> QED
        BY <1>6, <3>1, <3>2, <3>4, <3>6 DEF AwaitOK
    <2>9. Others(r)
      BY <1>6, <2>4 DEF Others
    <2>10. Refreshes(r)
      BY <1>2, <1>3, <1>6 DEF Refreshes, Refreshing
    <2>11. Promised
      BY <1>6, <2>1 DEF Promised, Promise!promiseVars
    <2>12. Sends(r)
      BY <1>1, <1>6, Sent DEF IInv
    <2> QED
      BY <2>5, <2>6, <2>7, <2>8, <2>9, <2>10, <2>11, <2>12 DEF StepOK, RequestOK
  <1> QED
    BY <1>4, <1>5, <1>6 DEF AfterGetDown

\* A refresh that goes on: only its request's stage and outcome change.
LEMMA RefreshGoesOnGood ==
    ASSUME IInv, PromiseInv, NEW r \in Requests, stage[r] \in Refreshing,
           UNCHANGED <<key, seen, joined, asked, looked, answer>>,
           NEW x \in Refreshing, stage' = [stage EXCEPT ![r] = x],
           Grows, OutcomeOK(r)',
           \/ outcome' = outcome
           \/ \E o : outcome' = [outcome EXCEPT ![r][key[r]] = o]
    PROVE  RequestOK(r)' /\ Others(r) /\ Refreshes(r)
  <1>1. /\ stage \in [Requests -> Stages]
        /\ outcome \in [Requests -> [Keys -> Values \cup {Thrown, Unsettled}]]
    BY DEF IInv, MarketTypeOK
  <1>2. stage'[r] = x /\ \A s \in Requests \ {r} : stage'[s] = stage[s]
    BY <1>1
  <1>3. /\ \A s \in Requests \ {r} : outcome'[s] = outcome[s]
        /\ \A k \in Keys \ {key[r]} : outcome'[r][k] = outcome[r][k]
    BY <1>1
  <1>4. /\ Active(r) /\ AgeOK(r) /\ SeenOK(r) /\ asked[r] \in Int /\ key[r] \in Keys
    BY AtWork DEF Refreshing
  <1>5. AgeOK(r)'
    <2>1. Explained(Primary, asked[r]) => failed'[Primary] + FailureLife + 1 > asked[r]
      <3>1. Primary \in Keys
        BY DEF Keys
      <3>2. /\ failed[Primary] \in Int /\ failed'[Primary] \in Int
            /\ failed[Primary] <= failed'[Primary]
        BY <3>1, Facts DEF IInv, Grows
      <3> QED
        BY <1>4, <3>2, Numbers DEF Explained
    <2>2. x \notin {"idle", "done"}
      BY DEF Refreshing
    <2> QED
      BY <1>2, <1>4, <2>1, <2>2 DEF AgeOK, Active, Grows, Explained
  <1>6. SeenOK(r)'
    BY <1>4 DEF SeenOK, Sourced, Kept, Grows
  <1>7. AwaitOK(r)'
    BY <1>2 DEF AwaitOK, Refreshing
  <1>8. Others(r) /\ Refreshes(r)
    BY <1>2, <1>3, <1>4 DEF Others, Refreshes
  <1> QED
    BY <1>5, <1>6, <1>7, <1>8 DEF RequestOK

LEMMA FetchSucceedsGood ==
    ASSUME IInv, PromiseInv, NEW r \in Requests, FetchSucceeds(r)
    PROVE  StepOK(r) /\ Sends(r) /\ Grows
  <1> DEFINE v == [src |-> key[r], at |-> clock]
  <1>1. /\ stage[r] = "fetching" /\ stage' = [stage EXCEPT ![r] = "saving"]
        /\ outcome' = [outcome EXCEPT ![r][key[r]] = v]
        /\ fetched' = fetched \cup {v} /\ Send(r, "set")
        /\ UNCHANGED <<clock, key, seen, joined, asked, looked, answer, failed>>
    BY DEF FetchSucceeds
  <1>2. /\ AgeOK(r) /\ OutcomeOK(r) /\ key[r] \in Keys /\ looked[r] <= clock
        /\ stage[r] \in Refreshing
    BY <1>1, AtWork DEF Refreshing
  <1>3. Grows
    <2>1. \A k \in Keys : failed[k] <= clock /\ failed[k] \in Int
      BY Facts DEF PromiseInv, RedisOK, MarkerOK, IInv
    <2>2. \A k \in Keys : failed[k] <= failed[k]
      BY <2>1
    <2> QED
      BY <1>1, <2>1, <2>2 DEF Grows
  <1>4. /\ outcome \in [Requests -> [Keys -> Values \cup {Thrown, Unsettled}]]
        /\ stage \in [Requests -> Stages]
    BY DEF IInv, MarketTypeOK
  <1>5. stage'[r] = "saving"
    BY <1>1, <1>4
  <1>6. outcome'[r][key[r]] = v /\ \A k \in Keys \ {key[r]} : outcome'[r][k] = outcome[r][k]
    BY <1>1, <1>2, <1>4
  <1>7. OutcomeOK(r)'
    <2>1. \A k \in Keys : outcome'[r][k] \in Values =>
              outcome'[r][k].src = k /\ outcome'[r][k] \in fetched'
      BY <1>1, <1>2, <1>6 DEF OutcomeOK, Sourced
    <2>2. looked'[r] <= outcome'[r][key'[r]].at
      BY <1>1, <1>2, <1>6
    <2> QED
      BY <1>5, <2>1, <2>2 DEF OutcomeOK, Sourced, Refreshed
  <1>8. RequestOK(r)' /\ Others(r) /\ Refreshes(r)
    <2>1. "saving" \in Refreshing
      BY DEF Refreshing
    <2> QED
      BY <1>1, <1>2, <1>3, <1>7, <2>1, RefreshGoesOnGood
  <1>9. Promised
    <2>1. Promise!Pull(key[r])
      BY <1>1 DEF Promise!Pull
    <2> QED
      BY <1>2, <2>1 DEF Promised, Promise!PromiseNext, Promise!Upstreams, Promise!Primary,
           Promise!Fallback, Keys, Primary, Fallback
  <1>10. Sends(r)
    BY <1>1, Sent DEF IInv, Ops
  <1> QED
    BY <1>3, <1>8, <1>9, <1>10 DEF StepOK

LEMMA FetchFailsGood ==
    ASSUME IInv, PromiseInv, NEW r \in Requests, FetchFails(r)
    PROVE  StepOK(r) /\ Sends(r) /\ Grows
  <1>1. /\ stage[r] = "fetching" /\ stage' = [stage EXCEPT ![r] = "marking"]
        /\ failed' = [failed EXCEPT ![key[r]] = clock] /\ Send(r, "setDown")
        /\ UNCHANGED <<clock, key, seen, joined, outcome, asked, looked, answer, fetched>>
    BY DEF FetchFails
  <1>2. /\ AgeOK(r) /\ OutcomeOK(r) /\ key[r] \in Keys /\ looked[r] <= clock
        /\ stage[r] \in Refreshing
    BY <1>1, AtWork DEF Refreshing
  <1>3. failed \in [Keys -> Times \cup {Never}] /\ stage \in [Requests -> Stages]
    BY DEF IInv, MarketTypeOK
  <1>4. failed'[key[r]] = clock /\ \A k \in Keys \ {key[r]} : failed'[k] = failed[k]
    BY <1>1, <1>2, <1>3
  <1>5. Grows
    <2>1. \A k \in Keys : failed[k] <= clock /\ failed[k] \in Int
      BY Facts DEF PromiseInv, RedisOK, MarkerOK, IInv
    <2>2. clock \in Int /\ clock <= clock /\ \A k \in Keys : failed[k] <= failed[k]
      BY <2>1, Facts DEF IInv
    <2> QED
      BY <1>1, <1>4, <2>1, <2>2 DEF Grows
  <1>6. stage'[r] = "marking"
    BY <1>1, <1>3
  <1>7. OutcomeOK(r)'
    BY <1>1, <1>2, <1>4, <1>6 DEF OutcomeOK, Sourced
  <1>8. RequestOK(r)' /\ Others(r) /\ Refreshes(r)
    <2>1. "marking" \in Refreshing
      BY DEF Refreshing
    <2> QED
      BY <1>1, <1>2, <1>5, <1>7, <2>1, RefreshGoesOnGood
  <1>9. Promised
    <2>1. Promise!Fail(key[r])
      BY <1>1 DEF Promise!Fail
    <2> QED
      BY <1>2, <2>1 DEF Promised, Promise!PromiseNext, Promise!Upstreams, Promise!Primary,
           Promise!Fallback, Keys, Primary, Fallback
  <1>10. Sends(r)
    BY <1>1, Sent DEF IInv, Ops
  <1> QED
    BY <1>5, <1>8, <1>9, <1>10 DEF StepOK

LEMMA AfterSetGood ==
    ASSUME IInv, PromiseInv, NEW r \in Requests, AfterSet(r)
    PROVE  StepOK(r) /\ Sends(r)
  <1>1. /\ Replied(r, "set")
        /\ UNCHANGED <<clock, key, seen, joined, outcome, asked, looked, answer, fetched, failed>>
    BY DEF AfterSet, historyVars
  <1>2. stage[r] = "saving"
    BY <1>1, ReplyStage, StageOfOps DEF Ops
  <1>3. OutcomeOK(r) /\ stage[r] \in Refreshing /\ Grows
    BY <1>1, <1>2, AtWork, StillGrows DEF Refreshing
  <1>4. Refreshed(r) \in Values /\ stage \in [Requests -> Stages]
    BY <1>2 DEF IInv, OutcomeInv, MarketTypeOK, Refreshed
  <1>5. PICK x \in {"settling", "marking"} :
            /\ stage' = [stage EXCEPT ![r] = x]
            /\ x = "marking" => Reply(r) = Failure
    BY DEF AfterSet
  <1>6. stage'[r] = x
    BY <1>4, <1>5
  <1>7. OutcomeOK(r)'
    <2>1. x = "marking" => looked[r] <= failed[key[r]]
      BY <1>1, <1>5, HeadOK DEF IInv, PromiseInv
    <2>2. Good(Refreshed(r), key[r], looked[r])
      BY <1>2, <1>3, <1>4, SpecialsDiffer DEF OutcomeOK, Good
    <2>3. Good(Refreshed(r), key[r], looked[r])'
      BY <1>1, <2>2 DEF Good, Kept, Refreshed
    <2> QED
      BY <1>1, <1>3, <1>6, <2>1, <2>3 DEF OutcomeOK, Sourced
  <1>8. RequestOK(r)' /\ Others(r) /\ Refreshes(r)
    <2>1. x \in Refreshing
      BY DEF Refreshing
    <2> QED
      BY <1>1, <1>3, <1>5, <1>7, <2>1, RefreshGoesOnGood
  <1>9. Promised
    BY <1>1 DEF Promised, Promise!promiseVars
  <1>10. Sends(r)
    <2>1. Pop(r) \/ \E o \in Ops : PopAndSend(r, o)
      BY DEF AfterSet, Ops
    <2> QED
      BY <1>1, <2>1, Sent DEF IInv
  <1> QED
    BY <1>8, <1>9, <1>10 DEF StepOK

LEMMA AfterSetDownGood ==
    ASSUME IInv, PromiseInv, NEW r \in Requests, AfterSetDown(r)
    PROVE  StepOK(r) /\ Sends(r)
  <1> DEFINE o == IF Reply(r) = Stored /\ seen[r] # Absent THEN seen[r] ELSE Thrown
  <1>1. /\ Replied(r, "setDown") /\ Pop(r) /\ stage' = [stage EXCEPT ![r] = "settling"]
        /\ outcome' = [outcome EXCEPT ![r][key[r]] = o]
        /\ UNCHANGED <<clock, key, seen, joined, asked, looked, answer, fetched, failed>>
    BY DEF AfterSetDown, historyVars
  <1>2. stage[r] = "marking"
    BY <1>1, ReplyStage, StageOfOps DEF Ops
  <1>3. OutcomeOK(r) /\ SeenOK(r) /\ stage[r] \in Refreshing /\ Grows /\ key[r] \in Keys
    BY <1>1, <1>2, AtWork, StillGrows DEF Refreshing
  <1>4. /\ outcome \in [Requests -> [Keys -> Values \cup {Thrown, Unsettled}]]
        /\ stage \in [Requests -> Stages] /\ seen[r] \in Values \cup {Absent}
    BY DEF IInv, MarketTypeOK
  <1>5. o = Thrown \/ (o = seen[r] /\ o \in Values)
    BY <1>4
  <1>6. stage'[r] = "settling"
    BY <1>1, <1>4
  <1> HIDE DEF o
  <1>7. outcome'[r][key[r]] = o /\ \A k \in Keys \ {key[r]} : outcome'[r][k] = outcome[r][k]
    BY <1>1, <1>3, <1>4
  <1>8. OutcomeOK(r)'
    <2>1. o \in Values => o.src = key[r] /\ o \in fetched /\ Kept(o, looked[r])
      BY <1>3, <1>5, SpecialsDiffer DEF SeenOK, Sourced
    <2>2. looked[r] <= failed[key[r]]
      BY <1>2, <1>3 DEF OutcomeOK
    <2>3. \A k \in Keys : outcome'[r][k] \in Values =>
              outcome'[r][k].src = k /\ outcome'[r][k] \in fetched'
      BY <1>1, <1>3, <1>7, <2>1 DEF OutcomeOK, Sourced
    <2>4. Good(Refreshed(r), key[r], looked[r])'
      BY <1>1, <1>7, <2>1, <2>2 DEF Good, Refreshed, Kept
    <2> QED
      BY <1>6, <2>3, <2>4 DEF OutcomeOK, Sourced
  <1>9. RequestOK(r)' /\ Others(r) /\ Refreshes(r)
    <2>1. "settling" \in Refreshing
      BY DEF Refreshing
    <2> QED
      BY <1>1, <1>3, <1>8, <2>1, RefreshGoesOnGood
  <1>10. Promised
    BY <1>1 DEF Promised, Promise!promiseVars
  <1>11. Sends(r)
    BY <1>1, Sent DEF IInv
  <1> QED
    BY <1>9, <1>10, <1>11 DEF StepOK

\* A lookup that ends with the outcome of a refresh.
LEMMA EndOnSettledGood ==
    ASSUME IInv, PromiseInv, NEW r \in Requests, stage[r] \in {"settling", "awaiting"},
           UNCHANGED <<clock, historyVars>>,
           NEW o \in Values \cup {Thrown, Unsettled}, Good(o, key[r], asked[r] - 1),
           o \in Values => Sourced(o, key[r]),
           \/ o \in Values /\ Return(r, o) /\ UNCHANGED pipe
           \/ o = Thrown /\ ThrowOnSettled(r)
    PROVE  StepOK(r) /\ Sends(r)
  <1>1. /\ Active(r) /\ AgeOK(r) /\ asked[r] \in Int /\ key[r] \in Keys
        /\ failed[key[r]] \in Int
    BY AtWork
  <1>2. asked[r] - 1 <= failed[key[r]] => Explained(key[r], asked[r])
    BY <1>1, ExplainedSinceAsked DEF IInv
  <1>3. CASE o \in Values /\ Return(r, o) /\ UNCHANGED pipe
    <2>1. o.at \in Int /\ Ttl \in Int /\ Ttl >= 2 /\ StaleLife \in Int
      <3>1. o.at \in Int
        BY <1>3, Numbers
      <3> QED
        BY <3>1, Numbers
    <2>2. \/ o.at + Ttl > asked[r]
          \/ o.at + StaleLife + 2 > asked[r] /\ Explained(key[r], asked[r])
      BY <1>1, <1>2, <1>3, <2>1 DEF Good, Kept
    <2>3. StepOK(r)
      BY <1>1, <1>3, <2>2, ReturnGood DEF Refreshing
    <2>4. Sends(r)
      BY <1>3, Sent DEF IInv
    <2> QED
      BY <2>3, <2>4
  <1>4. CASE o = Thrown /\ ThrowOnSettled(r)
    <2>1. Explained(key[r], asked[r])
      BY <1>2, <1>4 DEF Good
    <2>2. StepOK(r)
      BY <1>1, <1>4, <2>1, ThrowGood DEF ThrowOnSettled, Refreshing
    <2>3. Sends(r)
      BY <1>4, Sent DEF IInv, ThrowOnSettled, Ops
    <2> QED
      BY <2>2, <2>3
  <1> QED
    BY <1>3, <1>4

LEMMA SettleGood ==
    ASSUME IInv, PromiseInv, NEW r \in Requests, Settle(r)
    PROVE  StepOK(r) /\ Sends(r)
  <1> DEFINE o == outcome[r][key[r]]
  <1>1. stage[r] = "settling" /\ UNCHANGED <<clock, historyVars>>
    BY DEF Settle
  <1>2. /\ OutcomeOK(r) /\ key[r] \in Keys /\ asked[r] \in Int /\ looked[r] \in Int
        /\ asked[r] <= looked[r]
    BY <1>1, AtWork
  <1>3. o \in Values \cup {Thrown} /\ o \in Values \cup {Thrown, Unsettled}
    BY <1>1 DEF IInv, OutcomeInv, IsSettled
  <1>4. Good(o, key[r], looked[r]) /\ (o \in Values => Sourced(o, key[r]))
    BY <1>1, <1>2 DEF OutcomeOK, Refreshed
  <1>5. \/ o \in Values /\ Return(r, o) /\ UNCHANGED pipe
        \/ o = Thrown /\ ThrowOnSettled(r)
    BY <1>3 DEF Settle
  <1> HIDE DEF o
  <1>6. Good(o, key[r], asked[r] - 1)
    <2>1. asked[r] - 1 \in Int /\ asked[r] - 1 <= looked[r]
      BY <1>2
    <2> QED
      BY <1>2, <1>3, <1>4, <2>1, GoodBefore DEF IInv
  <1> QED
    BY <1>1, <1>3, <1>4, <1>5, <1>6, EndOnSettledGood

LEMMA WakeGood ==
    ASSUME IInv, PromiseInv, NEW r \in Requests, Wake(r)
    PROVE  StepOK(r) /\ Sends(r)
  <1> DEFINE o == outcome[joined[r]][key[r]]
  <1>1. /\ stage[r] = "awaiting" /\ UNCHANGED <<clock, historyVars>>
        /\ ~ (stage[joined[r]] \in Refreshing /\ key[joined[r]] = key[r])
    BY DEF Wake, Settled
  <1>2. AwaitOK(r) /\ key[r] \in Keys
    BY <1>1, AtWork
  <1>3. /\ o \in Values \cup {Thrown} /\ o \in Values \cup {Thrown, Unsettled}
        /\ joined[r] \in Requests
    BY <1>1 DEF IInv, OutcomeInv, IsSettled
  <1>4. OutcomeOK(joined[r])
    BY <1>3 DEF PromiseInv, RequestOK
  <1>5. Good(o, key[r], asked[r] - 1) /\ (o \in Values => Sourced(o, key[r]))
    BY <1>1, <1>2, <1>4 DEF OutcomeOK, AwaitOK
  <1>6. \/ o \in Values /\ Return(r, o) /\ UNCHANGED pipe
        \/ o = Thrown /\ ThrowOnSettled(r)
    BY <1>3 DEF Wake
  <1> HIDE DEF o
  <1> QED
    BY <1>1, <1>3, <1>5, <1>6, EndOnSettledGood

LEMMA AskGood ==
    ASSUME IInv, PromiseInv, NEW r \in Requests, Ask(r)
    PROVE  StepOK(r) /\ Sends(r)
  <1>1. /\ stage[r] = "idle" /\ stage' = [stage EXCEPT ![r] = "reading"]
        /\ asked' = [asked EXCEPT ![r] = clock] /\ looked' = [looked EXCEPT ![r] = clock]
        /\ Send(r, "get")
        /\ UNCHANGED <<clock, key, seen, joined, outcome, answer, fetched, failed>>
    BY DEF Ask, historyVars
  <1>2. /\ asked[r] = NotBegun /\ answer[r] = Waiting /\ seen[r] = Absent /\ key[r] = Primary
        /\ OutcomeOK(r)
    BY <1>1 DEF PromiseInv, RequestOK, AgeOK
  <1>3. /\ stage \in [Requests -> Stages] /\ clock \in Times /\ clock \in Int
        /\ asked \in [Requests -> Times \cup {NotBegun}] /\ looked \in [Requests -> Times]
    BY Facts DEF IInv, MarketTypeOK
  <1>4. stage'[r] = "reading" /\ asked'[r] = clock /\ looked'[r] = clock
    BY <1>1, <1>3
  <1>5. RequestOK(r)'
    <2>1. AgeOK(r)'
      <3>1. Primary # Fallback /\ clock <= clock /\ clock <= clock + 1
        BY <1>3 DEF Primary, Fallback
      <3> QED
        BY <1>1, <1>2, <1>3, <1>4, <3>1 DEF AgeOK, Active
    <2>2. SeenOK(r)'
      BY <1>1, <1>2, SpecialsDiffer DEF SeenOK
    <2>3. OutcomeOK(r)'
      BY <1>1, <1>2, <1>4 DEF OutcomeOK, Sourced
    <2> QED
      BY <1>4, <2>1, <2>2, <2>3 DEF RequestOK, AwaitOK
  <1>6. Others(r)
    BY <1>1, <1>3 DEF Others
  <1>7. Refreshes(r)
    BY <1>1, <1>4 DEF Refreshes, Refreshing
  <1>8. Promised
    <2>1. Promise!Ask(r)
      BY <1>1, <1>2 DEF Promise!Ask, Promise!NotBegun, NotBegun
    <2> QED
      BY <2>1 DEF Promised, Promise!PromiseNext
  <1>9. Sends(r)
    BY <1>1, Sent DEF IInv, Ops
  <1> QED
    BY <1>5, <1>6, <1>7, <1>8, <1>9 DEF StepOK

-----------------------------------------------------------------------------
(* Redis, time and the beginning.                                          *)

\* Redis answers the next command of a connection truly and stores nothing
\* worse than it was given.
LEMMA AnswerGood ==
    ASSUME IInv, PromiseInv, MarketTypeOK', NEW i \in Instances, NEW n \in DOMAIN pipe[i],
           NextCommand(i, n), NEW x \in Values \cup {Absent, Garbage, Failure, Stored},
           GivesReply(i, n, x), UNCHANGED <<requestVars, home>>, Grows,
           LET c == pipe[i][n]
               k == key[c.by]
               t == looked[c.by]
           IN  /\ x \in Values => Sourced(x, k) /\ Kept(x, t)
               /\ x = Failure => t <= failed'[k]
               /\ c.op = "getDown" /\ x = Stored => Explained(k, t),
           RedisOK'
    PROVE  PromiseInv'
  <1> DEFINE c == pipe[i][n]
  <1>1. UNCHANGED <<stage, key, seen, joined, outcome, asked, looked, answer, home>>
    BY DEF requestVars
  <1>2. MarketTypeOK /\ PipeInv /\ pipe \in [Instances -> Seq(Commands)]
    BY DEF IInv, MarketTypeOK, Commands
  <1>3. /\ DOMAIN pipe'[i] = DOMAIN pipe[i]
        /\ \A m \in DOMAIN pipe[i] : /\ pipe'[i][m].op = pipe[i][m].op
                                     /\ pipe'[i][m].by = pipe[i][m].by
                                     /\ m # n => pipe'[i][m] = pipe[i][m]
        /\ pipe'[i][n].reply = x
    BY <1>1, <1>2, ReplyKeeps
  <1>4. PipesGood'
    <2> SUFFICES ASSUME NEW j \in Instances, NEW m \in DOMAIN pipe'[j]
                 PROVE  ReplyOK(pipe[j][m])'
      BY DEF PipesGood
    <2> DEFINE b == pipe'[j][m]
               k == key[b.by]
               t == looked[b.by]
    <2>1. CASE j = i /\ m = n
      <3>1. b.op = c.op /\ b.by = c.by /\ b.reply = x
        BY <1>3, <2>1
      <3>2. b.by \in Requests
        BY <1>2, <3>1, Facts DEF Commands
      <3>3. k \in Keys /\ t \in Int
        BY <1>2, <3>2, Facts
      <3>4. /\ b.reply \in Values => Sourced(b.reply, k) /\ Kept(b.reply, t)
            /\ b.reply = Failure => t <= failed'[k]
            /\ b.op = "getDown" /\ b.reply = Stored => Explained(k, t)
        BY <3>1
      <3>5. Explained(k, t) => failed'[k] + FailureLife + 1 > t
        BY <1>2, <3>3, GoodStays DEF Explained
      <3>6. key'[b.by] = k /\ looked'[b.by] = t
        BY <1>1
      <3> HIDE DEF b, k, t
      <3> QED
        BY <3>4, <3>5, <3>6 DEF ReplyOK, Sourced, Kept, Grows, Explained, b
    <2>2. CASE ~ (j = i /\ m = n)
      <3>1. m \in DOMAIN pipe[j] /\ b = pipe[j][m]
        <4>1. CASE j = i
          BY <1>3, <2>2, <4>1
        <4>2. CASE j # i
          <5>1. pipe'[j] = pipe[j]
            BY <1>2, <4>2 DEF GivesReply
          <5> QED
            BY <5>1
        <4> QED
          BY <4>1, <4>2
      <3>2. ReplyOK(b) /\ b \in Commands
        BY <1>2, <3>1, Facts DEF PromiseInv, PipesGood
      <3>3. k \in Keys /\ t \in Int
        BY <1>2, <3>2, Facts DEF Commands
      <3>4. /\ Explained(k, t) => failed'[k] + FailureLife + 1 > t
            /\ t <= failed[k] => t <= failed'[k]
        <4>1. failed[k] \in Int /\ failed'[k] \in Int /\ failed[k] <= failed'[k]
          BY <1>2, <3>3, FailedLater
        <4> HIDE DEF k, t
        <4> QED
          BY <3>3, <4>1, Numbers DEF Explained
      <3>5. key'[b.by] = k /\ looked'[b.by] = t
        BY <1>1
      <3>6. /\ b.reply \in Values => Sourced(b.reply, k) /\ Kept(b.reply, t)
            /\ b.reply = Failure => t <= failed[k]
            /\ b.op = "getDown" /\ b.reply = Stored => Explained(k, t)
        BY <3>2 DEF ReplyOK
      <3> HIDE DEF b, k, t
      <3> QED
        BY <3>4, <3>5, <3>6 DEF ReplyOK, Sourced, Kept, Grows, Explained, b
    <2> QED
      BY <2>1, <2>2
  <1>5. ASSUME NEW q \in Requests
        PROVE  RequestOK(q)'
    <2>1. AwaitOK(q)
      BY DEF PromiseInv, RequestOK
    <2> QED
      BY <1>1, <1>2, <2>1, RequestStays DEF AwaitOK
  <1> QED
    BY <1>4, <1>5 DEF PromiseInv

LEMMA FailCommandGood ==
    ASSUME IInv, PromiseInv, IInv', NEW i \in Instances, FailCommand(i)
    PROVE  PromiseInv' /\ Promised
  <1>1. PICK n \in DOMAIN pipe[i] :
            /\ NextCommand(i, n)
            /\ pipe' = [pipe EXCEPT ![i][n].reply = Failure]
            /\ failed' = [failed EXCEPT ![key[pipe[i][n].by]] = clock]
            /\ UNCHANGED <<clock, redisVars, inFlight, requestVars, home, fetched>>
    BY DEF FailCommand
  <1> DEFINE c == pipe[i][n]
             k == key[c.by]
  <1>2. UNCHANGED <<entry, marker, asked, answer, clock, fetched>>
    BY <1>1 DEF redisVars, requestVars
  <1>3. c \in Commands
    BY Facts DEF IInv
  <1>4. c.by \in Requests /\ k \in Keys /\ stage[c.by] = StageOf(c.op) /\ c.op \in Ops
    <2>1. Expected(pipe[i], i)
      BY DEF IInv, PipeInv
    <2> QED
      BY <1>3, <2>1, Facts DEF Expected, Commands, IInv
  <1>5. looked[c.by] <= clock
    <2>1. stage[c.by] \notin {"idle", "done"}
      BY <1>4, StageOfOps
    <2> QED
      BY <1>4, <2>1, AtWork
  <1>6. failed \in [Keys -> Times \cup {Never}] /\ clock \in Int
    BY Facts DEF IInv, MarketTypeOK
  <1> HIDE DEF c, k
  <1>7. failed'[k] = clock /\ \A l \in Keys \ {k} : failed'[l] = failed[l]
    BY <1>1, <1>4, <1>6 DEF c, k
  <1>8. Grows
    <2>1. \A l \in Keys : failed[l] <= clock /\ failed[l] \in Int
      BY Facts DEF PromiseInv, RedisOK, MarkerOK, IInv
    <2>2. clock \in Int /\ clock <= clock /\ \A l \in Keys : failed[l] <= failed[l]
      BY <1>6, <2>1
    <2> QED
      BY <1>2, <1>7, <2>1, <2>2 DEF Grows
  <1>9. RedisOK'
    <2> SUFFICES ASSUME NEW l \in Keys
                 PROVE  EntryOK(l)' /\ MarkerOK(l)'
      BY DEF RedisOK
    <2>1. EntryOK(l) /\ MarkerOK(l)
      BY DEF PromiseInv, RedisOK
    <2>2. /\ failed[l] \in Int /\ failed'[l] \in Int /\ failed[l] <= failed'[l]
          /\ failed'[l] <= clock /\ marker[l].until \in Int
      BY <1>8, Facts DEF Grows, IInv
    <2>3. EntryOK(l)'
      BY <1>2, <2>1 DEF EntryOK, Sourced
    <2>4. MarkerOK(l)'
      BY <1>2, <2>1, <2>2, Numbers DEF MarkerOK
    <2> QED
      BY <2>3, <2>4
  <1>10. PromiseInv'
    <2>1. PICK x \in Values \cup {Absent, Garbage, Failure, Stored} : x = Failure
      OBVIOUS
    <2>2. x \notin Values /\ x # Stored
      BY <2>1, SpecialsDiffer DEF Failure, Stored, Special
    <2>3. GivesReply(i, n, x) /\ UNCHANGED <<requestVars, home>>
      BY <1>1, <2>1 DEF GivesReply
    <2>4. looked[c.by] <= failed'[k] /\ MarketTypeOK'
      BY <1>5, <1>7 DEF IInv
    <2> QED
      BY <1>1, <1>8, <1>9, <2>2, <2>3, <2>4, AnswerGood DEF c, k
  <1>11. Promised
    <2>1. Promise!Fail(k)
      BY <1>1, <1>2 DEF Promise!Fail, c, k
    <2> QED
      BY <1>4, <2>1 DEF Promised, Promise!PromiseNext, Promise!Upstreams, Promise!Primary,
           Promise!Fallback, Keys, Primary, Fallback
  <1> QED
    BY <1>10, <1>11

LEMMA ExecuteGood ==
    ASSUME IInv, PromiseInv, IInv', NEW i \in Instances, Execute(i)
    PROVE  PromiseInv' /\ Promised
  <1>1. PICK n \in DOMAIN pipe[i] :
            LET c == pipe[i][n]
                k == key[c.by]
            IN  /\ NextCommand(i, n)
                /\ \/ /\ c.op = "get"
                      /\ pipe' = [pipe EXCEPT ![i][n].reply = Read(k)]
                      /\ UNCHANGED redisVars
                   \/ /\ c.op = "getDown"
                      /\ pipe' = [pipe EXCEPT ![i][n].reply =
                            IF Alive(marker[k]) THEN Stored ELSE Absent]
                      /\ UNCHANGED redisVars
                   \/ /\ c.op = "delete"
                      /\ pipe' = [pipe EXCEPT ![i][n].reply = Stored]
                      /\ entry' = [entry EXCEPT ![k] = [value |-> Absent, until |-> 0]]
                      /\ UNCHANGED marker
                   \/ /\ c.op = "set"
                      /\ pipe' = [pipe EXCEPT ![i][n].reply = Stored]
                      /\ entry' = [entry EXCEPT ![k] = [value |-> Refreshed(c.by),
                                                        until |-> clock + StaleLife]]
                      /\ UNCHANGED marker
                   \/ /\ c.op = "setDown"
                      /\ pipe' = [pipe EXCEPT ![i][n].reply = Stored]
                      /\ marker' = [marker EXCEPT ![k] = [until |-> clock + FailureLife,
                                                          by |-> i]]
                      /\ UNCHANGED entry
                /\ UNCHANGED <<clock, inFlight, requestVars, historyVars>>
    BY Zenon DEF Execute
  <1> DEFINE c == pipe[i][n]
             k == key[c.by]
             t == looked[c.by]
  <1>2. UNCHANGED <<requestVars, home, asked, answer, clock, fetched, failed>>
    BY <1>1 DEF requestVars, historyVars
  <1>3. c \in Commands
    BY Facts DEF IInv
  <1>4. c.by \in Requests /\ k \in Keys /\ stage[c.by] = StageOf(c.op) /\ c.op \in Ops
    <2>1. Expected(pipe[i], i)
      BY DEF IInv, PipeInv
    <2> QED
      BY <1>3, <2>1, Facts DEF Expected, Commands, IInv
  <1>5. /\ t \in Int /\ clock \in Int /\ t <= clock /\ clock <= t + 1 /\ OutcomeOK(c.by)
    <2>1. stage[c.by] \notin {"idle", "done"}
      BY <1>4, StageOfOps
    <2> QED
      BY <1>4, <2>1, AtWork
  <1>6. Grows
    BY <1>2, StillGrows
  <1>7. EntryOK(k) /\ MarkerOK(k) /\ entry[k].until \in Int /\ marker[k].until \in Int
        /\ failed[k] \in Int
    BY <1>4, Facts DEF PromiseInv, RedisOK, IInv
  <1>8. PICK x \in Values \cup {Absent, Garbage, Failure, Stored} :
            /\ GivesReply(i, n, x)
            /\ x \in Values => Sourced(x, k) /\ Kept(x, t)
            /\ x # Failure
            /\ c.op = "getDown" /\ x = Stored => Explained(k, t)
    <2>1. CASE c.op = "get" /\ pipe' = [pipe EXCEPT ![i][n].reply = Read(k)]
      <3>1. Read(k) \in Values \cup {Absent, Garbage}
        BY <1>4 DEF Read, IInv, MarketTypeOK
      <3>2. Read(k) # Failure
        BY <3>1, SpecialsDiffer DEF Failure, Garbage, Special
      <3>3. Read(k) \in Values => Sourced(Read(k), k) /\ Kept(Read(k), t)
        <4> SUFFICES ASSUME Read(k) \in Values
                     PROVE  Sourced(Read(k), k) /\ Kept(Read(k), t)
          OBVIOUS
        <4>1. Read(k) = entry[k].value /\ clock < entry[k].until
          BY SpecialsDiffer DEF Read, Alive
        <4>2. Sourced(Read(k), k) /\ entry[k].until <= Read(k).at + StaleLife + 1
          BY <1>7, <4>1 DEF EntryOK
        <4>3. Read(k).at \in Int /\ StaleLife \in Int
          <5>1. Read(k).at \in Int
            BY Numbers
          <5> QED
            BY <5>1, Numbers
        <4> HIDE DEF k, t
        <4> QED
          BY <1>5, <1>7, <4>1, <4>2, <4>3 DEF Kept
      <3> QED
        BY <2>1, <3>1, <3>2, <3>3 DEF GivesReply
    <2>2. CASE /\ c.op = "getDown"
               /\ pipe' = [pipe EXCEPT ![i][n].reply = IF Alive(marker[k]) THEN Stored ELSE Absent]
      <3>1. Alive(marker[k]) => Explained(k, t)
        <4> HIDE DEF k, t
        <4> QED
          BY <1>5, <1>7, Numbers DEF Alive, MarkerOK, Explained
      <3>2. Stored \notin Values /\ Absent \notin Values /\ Stored # Failure /\ Absent # Failure
            /\ Stored # Absent
        BY SpecialsDiffer DEF Stored, Failure, Special
      <3>3. PICK x \in {Stored, Absent} : x = IF Alive(marker[k]) THEN Stored ELSE Absent
        OBVIOUS
      <3>4. GivesReply(i, n, x)
        BY <2>2, <3>3 DEF GivesReply
      <3> QED
        BY <3>1, <3>2, <3>3, <3>4
    <2>3. CASE /\ c.op \in {"delete", "set", "setDown"}
               /\ pipe' = [pipe EXCEPT ![i][n].reply = Stored]
      <3>1. Stored \notin Values /\ Stored # Failure
        BY SpecialsDiffer DEF Stored, Failure, Special
      <3> QED
        BY <2>3, <3>1 DEF GivesReply
    <2> QED
      BY <1>1, <2>1, <2>2, <2>3
  <1> HIDE DEF c, k, t
  <1>9. RedisOK'
    <2> SUFFICES ASSUME NEW l \in Keys
                 PROVE  EntryOK(l)' /\ MarkerOK(l)'
      BY DEF RedisOK
    <2>1. EntryOK(l) /\ MarkerOK(l)
      BY DEF PromiseInv, RedisOK
    <2>2. /\ entry \in [Keys -> [value : Values \cup {Absent, Garbage}, until : Expiries]]
          /\ marker \in [Keys -> [until : Expiries, by : Instances]]
      BY DEF IInv, MarketTypeOK
    <2>3. EntryOK(l)'
      <3>1. CASE entry'[l] = entry[l]
        BY <1>2, <2>1, <3>1 DEF EntryOK, Sourced
      <3>2. CASE entry' = [entry EXCEPT ![k] = [value |-> Absent, until |-> 0]]
        <4>1. entry'[l] = entry[l] \/ entry'[l].value = Absent
          BY <2>2, <3>2
        <4> QED
          BY <3>1, <4>1, SpecialsDiffer DEF EntryOK
      <3>3. CASE /\ c.op = "set"
                 /\ entry' = [entry EXCEPT ![k] = [value |-> Refreshed(c.by),
                                                   until |-> clock + StaleLife]]
        <4> DEFINE v == Refreshed(c.by)
        <4>1. stage[c.by] = "saving" /\ v \in Values
          BY <1>4, <3>3, StageOfOps DEF IInv, OutcomeInv, Refreshed
        <4>2. t <= v.at /\ Sourced(v, k)
          BY <1>4, <1>5, <4>1 DEF OutcomeOK, Refreshed, k, t
        <4>3. v.at \in Int /\ StaleLife \in Int
          <5>1. v.at \in Int
            BY <4>1, Numbers
          <5> QED
            BY <5>1, Numbers
        <4> HIDE DEF v
        <4>4. clock + StaleLife <= v.at + StaleLife + 1
          BY <1>5, <4>2, <4>3
        <4>5. entry'[l] = entry[l] \/ (l = k /\ entry'[l] = [value |-> v, until |-> clock + StaleLife])
          BY <2>2, <3>3 DEF v
        <4> QED
          BY <1>2, <3>1, <4>2, <4>4, <4>5 DEF EntryOK, Sourced
      <3> QED
        BY <1>1, <3>1, <3>2, <3>3 DEF redisVars, c, k
    <2>4. MarkerOK(l)'
      <3>1. CASE marker'[l] = marker[l]
        BY <1>2, <2>1, <3>1 DEF MarkerOK
      <3>2. CASE /\ c.op = "setDown"
                 /\ marker' = [marker EXCEPT ![k] = [until |-> clock + FailureLife, by |-> i]]
        <4>1. t <= failed[k]
          BY <1>4, <1>5, <3>2, StageOfOps DEF OutcomeOK, k, t
        <4>2. clock + FailureLife <= failed[k] + FailureLife + 1
          BY <1>5, <1>7, <4>1, Numbers
        <4>3. marker'[l] = marker[l]
              \/ (l = k /\ marker'[l] = [until |-> clock + FailureLife, by |-> i])
          BY <2>2, <3>2
        <4> QED
          BY <1>2, <2>1, <3>1, <4>2, <4>3 DEF MarkerOK
      <3> QED
        BY <1>1, <3>1, <3>2 DEF redisVars, c, k
    <2> QED
      BY <2>3, <2>4
  <1>10. PromiseInv'
    <2>1. MarketTypeOK' /\ NextCommand(i, n)
      BY <1>1 DEF IInv
    <2> QED
      BY <1>2, <1>6, <1>8, <1>9, <2>1, AnswerGood DEF c, k, t
  <1>11. Promised
    BY <1>2 DEF Promised, Promise!promiseVars
  <1> QED
    BY <1>10, <1>11

LEMMA TickGood ==
    ASSUME IInv, PromiseInv, Tick
    PROVE  PromiseInv' /\ Promised
  <1>1. /\ clock' = clock + 1
        /\ UNCHANGED <<entry, marker, pipe, inFlight, stage, key, seen, joined, outcome, asked,
                       looked, answer, home, faults, fetched, failed>>
        /\ \A r \in Requests : stage[r] \in {"idle", "done"} \/ looked[r] = clock
    BY DEF Tick, redisVars, requestVars, historyVars
  <1>2. RedisOK'
    <2>1. \A k \in Keys : failed[k] \in Int /\ clock \in Int
      BY Facts DEF IInv
    <2> QED
      BY <1>1, <2>1 DEF PromiseInv, RedisOK, EntryOK, MarkerOK, Sourced
  <1>3. PipesGood'
    BY <1>1 DEF PromiseInv, PipesGood, ReplyOK, Sourced, Kept, Explained
  <1>4. ASSUME NEW r \in Requests
        PROVE  RequestOK(r)'
    <2>1. AgeOK(r) /\ SeenOK(r) /\ OutcomeOK(r) /\ AwaitOK(r)
      BY DEF PromiseInv, RequestOK
    <2>2. clock \in Int
      BY Facts DEF IInv
    <2>3. AgeOK(r)'
      BY <1>1, <2>1, <2>2 DEF AgeOK, Active, Explained
    <2>4. SeenOK(r)' /\ OutcomeOK(r)'
      BY <1>1, <2>1 DEF SeenOK, OutcomeOK, Sourced, Kept, Good, Refreshed
    <2>5. AwaitOK(r)'
      BY <1>1, <2>1 DEF AwaitOK, Good, Kept
    <2> QED
      BY <2>3, <2>4, <2>5 DEF RequestOK
  <1>5. Promised
    <2>1. Promise!Elapse
      BY <1>1 DEF Promise!Elapse
    <2> QED
      BY <2>1 DEF Promised, Promise!PromiseNext
  <1> QED
    BY <1>2, <1>3, <1>4, <1>5 DEF PromiseInv

LEMMA PromiseBegins == MarketInit => PromiseInv /\ Promise!PromiseInit
  <1> SUFFICES ASSUME MarketInit PROVE PromiseInv /\ Promise!PromiseInit
    OBVIOUS
  <1>1. PICK s \in Scenarios : Begin(s)
    BY DEF MarketInit
  <1>2. /\ s.start \in Nat /\ s.cached \in Values \cup {Absent, Garbage}
        /\ s.cached \in Values => /\ s.cached.src = Primary
                                  /\ s.cached.at <= s.start /\ s.start <= s.cached.at + 1
                                  /\ s.cached.at \in Nat
    <2>1. s.start \in Nat
      BY DEF Times
    <2>2. s.cached \in Values => s.cached.at \in Nat
      BY Numbers DEF Times
    <2> QED
      BY <2>1, <2>2, CacheAssumption
  <1>3. /\ clock = s.start /\ fetched = {s.cached} \cap Values
        /\ entry = [k \in Keys |-> IF k = Primary
                              THEN [value |-> s.cached, until |-> s.start + StaleLife]
                              ELSE [value |-> Absent, until |-> 0]]
    BY <1>1 DEF Begin
  <1>4. RedisOK
    <2> SUFFICES ASSUME NEW k \in Keys PROVE EntryOK(k) /\ MarkerOK(k)
      BY DEF RedisOK
    <2>1. EntryOK(k)
      <3>1. s.cached \in Values => s.start + StaleLife <= s.cached.at + StaleLife + 1
        BY <1>2, Numbers
      <3>2. CASE k = Primary
        BY <1>2, <1>3, <3>1, <3>2 DEF EntryOK, Sourced
      <3>3. CASE k # Primary
        BY <1>3, <3>3, SpecialsDiffer DEF EntryOK
      <3> QED
        BY <3>2, <3>3
    <2>2. failed[k] = Never /\ marker[k].until = 0
      BY DEF MarketInit
    <2>3. Never <= s.start /\ 0 <= Never + FailureLife + 1
      BY <1>2, Numbers DEF Never
    <2> QED
      BY <1>3, <2>1, <2>2, <2>3 DEF MarkerOK
  <1>5. PipesGood
    BY DEF MarketInit, PipesGood
  <1>6. ASSUME NEW r \in Requests
        PROVE  RequestOK(r)
    <2>1. /\ stage[r] = "idle" /\ key[r] = Primary /\ seen[r] = Absent /\ asked[r] = NotBegun
          /\ answer[r] = Waiting /\ \A k \in Keys : outcome[r][k] = Unsettled
      BY DEF MarketInit
    <2> QED
      BY <2>1, SpecialsDiffer
         DEF RequestOK, AgeOK, Active, SeenOK, OutcomeOK, AwaitOK
  <1>7. Promise!PromiseInit
    <2>1. clock \in Nat
      BY <1>2, <1>3
    <2>2. fetched \in SUBSET [src : Promise!Upstreams, at : 0 .. clock]
      <3>1. Primary \in Promise!Upstreams
        BY DEF Promise!Upstreams, Promise!Primary, Primary
      <3>2. ASSUME s.cached \in Values
            PROVE  s.cached \in [src : Promise!Upstreams, at : 0 .. clock]
        <4>1. s.cached = [src |-> s.cached.src, at |-> s.cached.at]
          BY <3>2 DEF Values
        <4>2. s.cached.at \in 0 .. clock
          BY <1>2, <1>3, <3>2
        <4> QED
          BY <1>2, <3>1, <3>2, <4>1, <4>2
      <3> QED
        BY <1>3, <3>2
    <2>3. Promise!Upstreams = Keys /\ Promise!Never = Never /\ Promise!NotBegun = NotBegun
          /\ Promise!Waiting = Waiting
      BY DEF Promise!Upstreams, Promise!Primary, Promise!Fallback, Keys, Primary, Fallback,
             Promise!Never, Never, Promise!NotBegun, NotBegun, Promise!Waiting, Waiting, Special
    <2>4. failed = [k \in Keys |-> Never] /\ asked = [r \in Requests |-> NotBegun]
          /\ answer = [r \in Requests |-> Waiting]
      BY DEF MarketInit
    <2> QED
      BY <2>1, <2>2, <2>3, <2>4 DEF Promise!PromiseInit
  <1> QED
    BY <1>4, <1>5, <1>6, <1>7 DEF PromiseInv

LEMMA PromiseGoesOn ==
    ASSUME IInv, PromiseInv, [MarketNext]_marketVars
    PROVE  PromiseInv' /\ Promised
  <1>1. IInv'
    BY StepKeeps
  <1>2. CASE Tick
    BY <1>2, TickGood
  <1>3. ASSUME NEW i \in Instances, Execute(i) \/ FailCommand(i)
        PROVE  PromiseInv' /\ Promised
    BY <1>1, <1>3, ExecuteGood, FailCommandGood
  <1>4. ASSUME NEW r \in Requests, Ask(r) \/ RequestStep(r)
        PROVE  PromiseInv' /\ Promised
    <2>1. StepOK(r) /\ Sends(r) /\ Grows /\ UNCHANGED redisVars
      <3>1. CASE FetchSucceeds(r) \/ FetchFails(r)
        BY <3>1, FetchSucceedsGood, FetchFailsGood DEF FetchSucceeds, FetchFails
      <3>2. CASE \/ AfterGet(r) \/ AfterDelete(r) \/ AfterGetDown(r) \/ AfterSet(r)
                 \/ AfterSetDown(r) \/ Settle(r) \/ Wake(r) \/ Ask(r)
        <4>1. UNCHANGED <<clock, fetched, failed, redisVars>>
          BY <3>2 DEF AfterGet, AfterDelete, AfterGetDown, AfterSet, AfterSetDown, Settle, Wake,
                      Ask, historyVars
        <4>2. StepOK(r) /\ Sends(r)
          BY <3>2, AfterGetGood, AfterDeleteGood, AfterGetDownGood, AfterSetGood,
             AfterSetDownGood, SettleGood, WakeGood, AskGood
        <4> QED
          BY <4>1, <4>2, StillGrows
      <3> QED
        BY <1>4, <3>1, <3>2 DEF RequestStep
    <2> QED
      BY <1>1, <2>1, StepStays DEF StepOK, IInv
  <1>5. CASE UNCHANGED marketVars
    <2>1. UNCHANGED <<clock, entry, marker, pipe, inFlight, stage, key, seen, joined, outcome,
                      asked, looked, answer, home, faults, fetched, failed>>
      BY <1>5 DEF marketVars, redisVars, requestVars, historyVars
    <2>2. RedisOK' /\ PipesGood'
      BY <2>1 DEF PromiseInv, RedisOK, EntryOK, MarkerOK, PipesGood, ReplyOK, Sourced, Kept,
                  Explained
    <2>3. ASSUME NEW r \in Requests
          PROVE  RequestOK(r)'
      <3>1. RequestOK(r)
        BY DEF PromiseInv
      <3> QED
        BY <2>1, <3>1 DEF RequestOK, AgeOK, Active, SeenOK, OutcomeOK, AwaitOK, Good, Refreshed,
                          Sourced, Kept, Explained
    <2>4. Promised
      BY <2>1 DEF Promised, Promise!promiseVars
    <2> QED
      BY <2>2, <2>3, <2>4 DEF PromiseInv
  <1> QED
    BY <1>2, <1>3, <1>4, <1>5 DEF MarketNext

\* The cache keeps the promise of the market endpoints for every setting of
\* the lives, number of instances and interleaving: each answer was fetched
\* from the upstream it names, is fresh or at most the stale life old while
\* that upstream has just failed, the fallback speaks only while the primary
\* one fails, and a request is refused only while all it could use fail.
THEOREM PromiseKept == MarketSpec => KeepsPromise
  <1>1. MarketInit => PromiseInv /\ Promise!PromiseInit
    BY PromiseBegins
  <1>2. IInv /\ PromiseInv /\ [MarketNext]_marketVars =>
            PromiseInv' /\ [Promise!PromiseNext]_Promise!promiseVars
    BY PromiseGoesOn DEF Promised
  <1> QED
    BY <1>1, <1>2, InvHolds, PTL DEF MarketSpec, KeepsPromise, Promise!PromiseSpec
=============================================================================
