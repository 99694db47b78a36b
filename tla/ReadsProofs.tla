----------------------------- MODULE ReadsProofs -----------------------------
(***************************************************************************)
(* Proofs about the reads of the API: XpubScan, ListPaging, TimeSlices and *)
(* their composition ApiReads, for every number of requests, servers,      *)
(* addresses, rows, blocks and instants, every batch size, gap limit, page *)
(* limit, unit of time and threshold.                                      *)
(*                                                                         *)
(* That a reply is the wallet rests on the state of the walk (WalkInv):    *)
(* what was used when the scan began is known up to where it has looked,   *)
(* and no gap ends before where it stands. A request that joins a scan     *)
(* shares the time it is measured against (RunningInv).                    *)
(*                                                                         *)
(* A cursor walk is exact because the cursor is the last row loaded and    *)
(* every row of the first page's time that is not loaded is in the rest    *)
(* below it (CursorInv): a merge of each address's first rows holds the    *)
(* wallet's first rows (MergedIsTop). An offset list loses a row only to a *)
(* tie because a row of which fewer rows come first than the pages are     *)
(* long is loaded, or has a tie (OffsetInv), and a block only puts rows    *)
(* before those that were there.                                           *)
(*                                                                         *)
(* A window is exact because its live slices and its rollups share no      *)
(* instant and leave none out (WindowDivides), and a block in order is in  *)
(* the heights of a slice only when its time is in the slice (RangeHolds): *)
(* what is counted is in no slice that is left (CountsInv).                *)
(***************************************************************************)
EXTENDS ApiReads, GovernanceProofs

(***************************************************************************)
(* The wallet.                                                             *)
(***************************************************************************)
\* The run before e is a gap when none of the gap addresses before e is known.
LEMMA RunIsGap ==
    ASSUME NEW K, K \subseteq Nat, NEW e \in Nat, NEW gap \in Nat \ {0}
    PROVE  RunAt(K, e) >= gap <=> e >= gap /\ K \cap (e - gap .. e - 1) = {}
  <1> DEFINE S == {-1} \cup {i \in K : i < e}
             M == Max(S)
  <1>1. S \subseteq -1 .. e /\ S # {} /\ -1 \in S
    <2>1. ASSUME NEW i \in K, i < e PROVE i \in -1 .. e
      BY <2>1
    <2>2. -1 \in -1 .. e
      OBVIOUS
    <2> QED
      BY <2>1, <2>2
  <1>2. M \in S /\ \A y \in S : y <= M
    <2> HIDE DEF S
    <2> QED
      BY <1>1, GreatestElement
  <1>3. RunAt(K, e) = e - 1 - M
    BY DEF RunAt
  <1>4. M \in Int /\ M >= -1
    BY <1>1, <1>2
  <1>5. ASSUME e - 1 - M >= gap PROVE e >= gap /\ K \cap (e - gap .. e - 1) = {}
    <2>1. e >= gap /\ M <= e - 1 - gap
      BY <1>4, <1>5
    <2>2. ASSUME NEW k \in K \cap (e - gap .. e - 1) PROVE FALSE
      <3>1. k \in S /\ k >= e - gap /\ k \in Int
        BY <2>2
      <3>2. k <= M
        BY <1>2, <3>1
      <3> QED
        BY <1>4, <2>1, <3>1, <3>2
    <2> QED
      BY <2>1, <2>2
  <1>6. ASSUME e >= gap, K \cap (e - gap .. e - 1) = {} PROVE e - 1 - M >= gap
    <2>1. CASE M = -1
      BY <1>6, <2>1
    <2>2. CASE M \in K /\ M < e
      <3>1. M \notin e - gap .. e - 1
        BY <1>6, <2>2
      <3> QED
        BY <1>4, <2>2, <3>1
    <2> QED
      BY <1>2, <2>1, <2>2
  <1> QED
    BY <1>3, <1>5, <1>6

-----------------------------------------------------------------------------
(* The end of a wallet.                                                    *)

Ends(U, gap) == {e \in gap .. MaxAddresses : U \cap (e - gap .. e - 1) = {}} \cup {MaxAddresses}

(* The end of a wallet is the least of the candidates.                     *)
LEMMA EndIsLeast ==
    ASSUME NEW U, NEW gap \in Gaps
    PROVE  WalletEnd(U, gap) \in Ends(U, gap) /\ \A e \in Ends(U, gap) : WalletEnd(U, gap) <= e
  <1>1. Ends(U, gap) \subseteq Nat /\ Ends(U, gap) # {}
    BY XpubAssumption DEF Ends, Gaps
  <1>2. WalletEnd(U, gap) = Min(Ends(U, gap))
    BY DEF WalletEnd, Ends
  <1> QED
    BY <1>1, <1>2, LeastElement

\* A wallet in which more is used does not end earlier.
LEMMA LongerWallet ==
    ASSUME NEW U, NEW V, U \subseteq V, NEW gap \in Gaps
    PROVE  WalletEnd(U, gap) <= WalletEnd(V, gap)
  <1>1. Ends(V, gap) \subseteq Ends(U, gap)
    BY DEF Ends
  <1> QED
    BY <1>1, EndIsLeast

-----------------------------------------------------------------------------
(* The walk of one scan.                                                   *)

Scans == [derived : 0 .. MaxAddresses, known : SUBSET Indices, checkedTo : 0 .. MaxAddresses,
          scannedTo : 0 .. MaxAddresses, cached : Branches]

\* s walks a wallet of which U was used when it began, and stands in order.
Walk(s, U, gap) ==
    /\ s.scannedTo <= s.checkedTo /\ s.checkedTo <= s.derived
    /\ \A i \in U : i < s.checkedTo => i \in s.known
    /\ \A e \in gap .. s.scannedTo - 1 : s.known \cap (e - gap .. e - 1) # {}

KnownOf(s) == s.known \subseteq {i \in used : i < s.derived}

(* To derive more addresses loses nothing of the walk.                     *)
LEMMA ExtendedWalks ==
    ASSUME NEW s \in Scans, NEW gap \in Gaps, NEW U
    PROVE  /\ Extended(s, gap) \in Scans
           /\ KnownOf(s) => KnownOf(Extended(s, gap))
           /\ Walk(s, U, gap) => Walk(Extended(s, gap), U, gap)
  <1> DEFINE x == Extended(s, gap)
  <1>1. MaxAddresses \in Nat /\ Batch \in Nat /\ gap \in Nat
    BY XpubAssumption DEF Gaps
  <1>2. s.derived \in 0 .. MaxAddresses
    BY DEF Scans
  <1>3. CASE s.scannedTo < s.derived
    BY <1>3 DEF Extended
  <1>4. CASE ~(s.scannedTo < s.derived)
    <2> DEFINE more == Min({IF s.derived < Batch THEN gap ELSE Batch, MaxAddresses - s.derived})
    <2>1. more \in Nat /\ more <= MaxAddresses - s.derived
      <3>1. (IF s.derived < Batch THEN gap ELSE Batch) \in Nat /\ MaxAddresses - s.derived \in Nat
        BY <1>1, <1>2
      <3> QED
        BY <3>1, LeastOfTwo
    <2>2. x = [s EXCEPT !.derived = @ + more]
      BY <1>4 DEF Extended
    <2> HIDE DEF more
    <2>3. x \in Scans
      BY <1>1, <1>2, <2>1, <2>2 DEF Scans
    <2>4. x.derived >= s.derived /\ x.known = s.known /\ x.checkedTo = s.checkedTo
          /\ x.scannedTo = s.scannedTo /\ x.derived \in Nat
      BY <1>1, <1>2, <2>1, <2>2 DEF Scans
    <2> HIDE DEF x
    <2>5. KnownOf(s) => KnownOf(x)
      BY <1>1, <1>2, <2>4 DEF KnownOf, Scans, Indices
    <2>6. Walk(s, U, gap) => Walk(x, U, gap)
      BY <1>1, <1>2, <2>4 DEF Walk, Scans
    <2> QED
      BY <2>3, <2>5, <2>6 DEF x
  <1> QED
    BY <1>3, <1>4

(* A lookup confirms what is used among the derived addresses.             *)
LEMMA ConfirmedWalks ==
    ASSUME NEW s \in Scans, NEW gap \in Gaps, NEW U, U \subseteq used, used \subseteq Indices,
           KnownOf(s), Walk(s, U, gap)
    PROVE  Confirmed(s) \in Scans /\ KnownOf(Confirmed(s)) /\ Walk(Confirmed(s), U, gap)
  <1> DEFINE to == Min({s.checkedTo + Batch, s.derived})
             slice == {i \in Indices : s.checkedTo <= i /\ i < to} \ s.known
             t == Confirmed(s)
  <1>1. MaxAddresses \in Nat /\ Batch \in Nat /\ gap \in Nat
    BY XpubAssumption DEF Gaps
  <1>2. /\ s.derived \in 0 .. MaxAddresses /\ s.checkedTo \in 0 .. MaxAddresses
        /\ s.scannedTo \in 0 .. MaxAddresses /\ s.known \subseteq Indices /\ s.cached \in Branches
        /\ s.scannedTo <= s.checkedTo /\ s.checkedTo <= s.derived
    BY DEF Scans, Walk
  <1>3. to \in Nat /\ s.checkedTo <= to /\ to <= s.derived
    <2>1. s.checkedTo + Batch \in Nat /\ s.derived \in Nat
      BY <1>1, <1>2
    <2>2. to \in Nat /\ to <= s.derived /\ (to = s.checkedTo + Batch \/ to = s.derived)
      BY <2>1, LeastOfTwo
    <2> HIDE DEF to
    <2> QED
      BY <1>1, <1>2, <2>2
  <1>4. t = [s EXCEPT !.known = @ \cup (slice \cap used), !.checkedTo = to]
    BY DEF Confirmed
  <1> HIDE DEF to
  <1>5. t \in Scans
    <2>1. to \in 0 .. MaxAddresses /\ s.known \cup (slice \cap used) \subseteq Indices
      BY <1>1, <1>2, <1>3
    <2> QED
      BY <1>4, <2>1 DEF Scans
  <1>6. t.known = s.known \cup (slice \cap used) /\ t.checkedTo = to /\ t.derived = s.derived
        /\ t.scannedTo = s.scannedTo
    BY <1>4 DEF Scans
  <1> HIDE DEF t
  <1>7. KnownOf(t)
    BY <1>1, <1>2, <1>3, <1>6 DEF KnownOf, Indices
  <1>8. ASSUME NEW i \in U, i < to PROVE i \in t.known
    <2>1. i \in used /\ i \in Indices /\ i \in Int
      BY <1>1 DEF Indices
    <2>2. CASE i < s.checkedTo
      BY <1>6, <2>2 DEF Walk
    <2>3. CASE s.checkedTo <= i
      BY <1>6, <1>8, <2>1, <2>3
    <2> QED
      BY <1>2, <2>1, <2>2, <2>3
  <1>9. \A e \in gap .. t.scannedTo - 1 : t.known \cap (e - gap .. e - 1) # {}
    BY <1>6 DEF Walk
  <1>10. Walk(t, U, gap)
    BY <1>1, <1>2, <1>3, <1>6, <1>8, <1>9 DEF Walk
  <1> QED
    BY <1>5, <1>7, <1>10 DEF t

(* The walk passes over no gap.                                            *)
LEMMA WalkedWalks ==
    ASSUME NEW s \in Scans, NEW gap \in Gaps, NEW U, KnownOf(s), Walk(s, U, gap)
    PROVE  Walked(s, gap) \in Scans /\ KnownOf(Walked(s, gap)) /\ Walk(Walked(s, gap), U, gap)
  <1> DEFINE E == {e \in s.scannedTo .. s.checkedTo : RunAt(s.known, e) >= gap} \cup {s.checkedTo}
             t == Walked(s, gap)
  <1>1. MaxAddresses \in Nat /\ gap \in Nat \ {0}
    BY XpubAssumption DEF Gaps
  <1>2. /\ s.derived \in 0 .. MaxAddresses /\ s.checkedTo \in 0 .. MaxAddresses
        /\ s.scannedTo \in 0 .. MaxAddresses /\ s.known \subseteq Indices
        /\ s.scannedTo <= s.checkedTo /\ s.checkedTo <= s.derived
    BY DEF Scans, Walk
  <1>3. Min(E) \in E /\ \A e \in E : Min(E) <= e
    <2>1. E \subseteq Nat /\ E # {}
      BY <1>1, <1>2
    <2> QED
      BY <2>1, LeastElement
  <1>4. Min(E) \in s.scannedTo .. s.checkedTo
    BY <1>1, <1>2, <1>3
  <1>5. t = [s EXCEPT !.scannedTo = Min(E)]
    BY DEF Walked
  <1>6. t \in Scans
    <2>1. Min(E) \in 0 .. MaxAddresses
      BY <1>1, <1>2, <1>4
    <2> HIDE DEF E
    <2> QED
      BY <1>5, <2>1 DEF Scans
  <1>7. t.known = s.known /\ t.checkedTo = s.checkedTo /\ t.derived = s.derived
        /\ t.scannedTo = Min(E)
    <2> HIDE DEF E
    <2> QED
      BY <1>5 DEF Scans
  <1> HIDE DEF t
  <1>8. ASSUME NEW e \in gap .. t.scannedTo - 1
        PROVE  t.known \cap (e - gap .. e - 1) # {}
    <2>1. e \in Nat /\ e >= gap /\ e < Min(E) /\ Min(E) \in Int
      BY <1>1, <1>2, <1>4, <1>7, <1>8
    <2>2. CASE e < s.scannedTo
      BY <1>1, <1>2, <1>7, <2>1, <2>2 DEF Walk
    <2>3. CASE s.scannedTo <= e
      <3>1. e \in s.scannedTo .. s.checkedTo /\ e \notin E
        BY <1>1, <1>2, <1>3, <1>4, <2>1, <2>3
      <3>2. ~(RunAt(s.known, e) >= gap)
        BY <3>1
      <3>3. s.known \subseteq Nat
        BY <1>1, <1>2 DEF Indices
      <3> QED
        BY <1>1, <1>7, <2>1, <3>2, <3>3, RunIsGap
    <2> QED
      BY <1>2, <2>1, <2>2, <2>3
  <1>9. Walk(t, U, gap)
    <2> HIDE DEF E
    <2> QED
      BY <1>1, <1>2, <1>4, <1>7, <1>8 DEF Walk
  <1>10. KnownOf(t)
    BY <1>7 DEF KnownOf
  <1> QED
    BY <1>6, <1>9, <1>10 DEF t

-----------------------------------------------------------------------------
(* What a scan returns.                                                    *)

\* Answer a is right for a wallet of which U was used when the scan began and
\* V is used now.
Right(a, U, V, gap) ==
    LET seen == 0 .. a.count - 1
    IN  /\ a.count >= WalletEnd(U, gap)
        /\ a.count <= WalletEnd(V, gap)
        /\ U \cap seen \subseteq a.ids
        /\ a.ids \subseteq V \cap seen
        /\ a.firstUnused = Min((seen \ a.ids) \cup {MaxAddresses})
           \/ (seen = a.ids /\ a.firstUnused = NoIndex)

Replies == [count : -2 .. MaxAddresses, ids : SUBSET Indices, firstUnused : Indices \cup {NoIndex}]

(* An answer that was right stays right while more addresses are used.     *)
LEMMA RightLater ==
    ASSUME NEW a \in Replies, NEW U, NEW V, NEW W, V \subseteq W, W \subseteq Indices,
           NEW gap \in Gaps, Right(a, U, V, gap)
    PROVE  Right(a, U, W, gap)
  <1>1. WalletEnd(V, gap) <= WalletEnd(W, gap)
    BY LongerWallet
  <1>2. a.count \in Int /\ WalletEnd(V, gap) \in Int /\ WalletEnd(W, gap) \in Int
    BY XpubAssumption, EndIsLeast DEF Replies, Ends, Gaps
  <1>3. a.count <= WalletEnd(W, gap)
    BY <1>1, <1>2 DEF Right
  <1> QED
    BY <1>3 DEF Right

(* The first unused index of a wallet is the least one not used.           *)
LEMMA FirstUnusedIsLeast ==
    ASSUME NEW S, S \subseteq Indices, S # {}
    PROVE  Min(S) \in S /\ Min(S) = Min(S \cup {MaxAddresses})
  <1> DEFINE m == Min(S)
             n == Min(S \cup {MaxAddresses})
  <1>1. MaxAddresses \in Nat /\ \A y \in S : y \in Nat /\ y < MaxAddresses
    BY XpubAssumption DEF Indices
  <1>2. m \in S /\ \A y \in S : m <= y
    BY <1>1, LeastElement
  <1>3. n \in S \cup {MaxAddresses} /\ \A y \in S \cup {MaxAddresses} : n <= y
    <2>1. S \cup {MaxAddresses} \subseteq Nat /\ S \cup {MaxAddresses} # {}
      BY <1>1
    <2> QED
      BY <2>1, LeastElement
  <1> HIDE DEF m, n
  <1>4. n <= m /\ m < MaxAddresses
    BY <1>1, <1>2, <1>3
  <1>5. n \in S /\ m <= n
    BY <1>1, <1>2, <1>3, <1>4
  <1>6. m = n
    BY <1>1, <1>2, <1>4, <1>5
  <1> QED
    BY <1>2, <1>6 DEF m, n

(* Where a walk ends, the wallet ends.                                     *)
LEMMA ScannedIsRight ==
    ASSUME NEW s \in Scans, NEW gap \in Gaps, NEW U, U \subseteq used, used \subseteq Indices,
           KnownOf(s), Walk(s, U, gap), Ended(s, gap)
    PROVE  Scanned(s) \in Replies /\ Right(Scanned(s), U, used, gap)
  <1> DEFINE seen == 0 .. s.scannedTo - 1
             a == Scanned(s)
  <1>1. MaxAddresses \in Nat /\ gap \in Nat \ {0}
    BY XpubAssumption DEF Gaps
  <1>2. /\ s.derived \in 0 .. MaxAddresses /\ s.checkedTo \in 0 .. MaxAddresses
        /\ s.scannedTo \in 0 .. MaxAddresses /\ s.known \subseteq Indices
        /\ s.scannedTo <= s.checkedTo /\ s.checkedTo <= s.derived
    BY DEF Scans, Walk
  <1>3. s.known \subseteq used /\ s.known \subseteq Nat
    BY <1>1, <1>2 DEF KnownOf, Indices
  <1>4. a.count = s.scannedTo /\ a.ids = seen \cap s.known
        /\ a.firstUnused = (IF seen \subseteq s.known THEN NoIndex ELSE Min(seen \ s.known))
    BY DEF Scanned
  <1>5. seen \subseteq Indices
    BY <1>1, <1>2 DEF Indices
  <1>6. seen \ a.ids = seen \ s.known
    BY <1>4
  <1>7. ASSUME ~(seen \subseteq s.known)
        PROVE  Min(seen \ s.known) \in Indices
               /\ Min(seen \ s.known) = Min((seen \ a.ids) \cup {MaxAddresses})
    BY <1>5, <1>6, <1>7, FirstUnusedIsLeast
  <1>8. a \in Replies
    <2>1. a.count \in -2 .. MaxAddresses
      BY <1>1, <1>2, <1>4
    <2>2. a.firstUnused \in Indices \cup {NoIndex} /\ a.ids \subseteq Indices
      BY <1>4, <1>5, <1>7
    <2> QED
      BY <2>1, <2>2 DEF Scanned, Replies
  <1>9. a.firstUnused = Min((seen \ a.ids) \cup {MaxAddresses})
        \/ (seen = a.ids /\ a.firstUnused = NoIndex)
    BY <1>4, <1>7
  <1>10. U \cap seen \subseteq a.ids
    <2> SUFFICES ASSUME NEW i \in U, i \in seen PROVE i \in s.known
      BY <1>4
    <2>1. i < s.checkedTo
      BY <1>2
    <2> QED
      BY <2>1 DEF Walk
  <1>11. a.ids \subseteq used \cap seen
    BY <1>3, <1>4
  <1>12. a.count >= WalletEnd(U, gap)
    <2>1. CASE RunAt(s.known, s.scannedTo) >= gap
      <3>1. s.scannedTo >= gap /\ s.known \cap (s.scannedTo - gap .. s.scannedTo - 1) = {}
        <4>1. s.scannedTo \in Nat
          BY <1>1, <1>2
        <4> QED
          BY <1>1, <1>3, <2>1, <4>1, RunIsGap
      <3>2. U \cap (s.scannedTo - gap .. s.scannedTo - 1) = {}
        <4> SUFFICES ASSUME NEW i \in U, i \in s.scannedTo - gap .. s.scannedTo - 1 PROVE FALSE
          OBVIOUS
        <4>1. i < s.checkedTo
          BY <1>1, <1>2
        <4>2. i \in s.known
          BY <4>1 DEF Walk
        <4> QED
          BY <3>1, <4>2
      <3>3. s.scannedTo \in Ends(U, gap)
        BY <1>1, <1>2, <3>1, <3>2 DEF Ends
      <3> QED
        BY <1>4, <3>3, EndIsLeast
    <2>2. CASE s.scannedTo >= MaxAddresses
      <3>1. s.scannedTo = MaxAddresses /\ MaxAddresses \in Ends(U, gap)
        BY <1>1, <1>2, <2>2 DEF Ends
      <3> QED
        BY <1>4, <3>1, EndIsLeast
    <2> QED
      BY <2>1, <2>2 DEF Ended
  <1>13. a.count <= WalletEnd(used, gap)
    <2> DEFINE w == WalletEnd(used, gap)
    <2>1. w \in Ends(used, gap)
      BY EndIsLeast
    <2> HIDE DEF w
    <2>2. CASE w = MaxAddresses
      BY <1>2, <1>4, <2>2 DEF w
    <2>3. CASE w \in gap .. MaxAddresses /\ used \cap (w - gap .. w - 1) = {}
      <3>1. ~(w \in gap .. s.scannedTo - 1)
        BY <1>3, <2>3 DEF Walk
      <3>2. w >= s.scannedTo
        BY <1>1, <1>2, <2>3, <3>1
      <3> QED
        BY <1>4, <3>2 DEF w
    <2> QED
      BY <2>1, <2>2, <2>3 DEF Ends
  <1>14. Right(a, U, used, gap)
    BY <1>4, <1>9, <1>10, <1>11, <1>12, <1>13 DEF Right
  <1> QED
    BY <1>8, <1>14

-----------------------------------------------------------------------------
(* The inductive invariant.                                                *)

Scanning == {"reading", "looking", "storing"}

\* The scan in flight that a request of c would share.
Mine(c) == running[plan.server[c]][plan.gap[c]]

\* The map holds the scans that run; whoever joined one awaits it and is
\* measured against the same table.
RunningInv ==
    /\ \A c \in Callers : phase[c] \in Scanning => Mine(c) = c
    /\ \A c \in Callers : phase[c] = "joined" =>
           Mine(c) \in Callers /\ usedAt[c] = usedAt[Mine(c)]
    /\ \A p \in Servers, g \in Gaps : running[p][g] \in Callers =>
           /\ phase[running[p][g]] \in Scanning
           /\ plan.server[running[p][g]] = p
           /\ plan.gap[running[p][g]] = g

WalkInv ==
    \A c \in Callers :
        /\ phase[c] \in {"looking", "storing"} => Walk(scan[c], usedAt[c], plan.gap[c])
        /\ phase[c] = "storing" => Ended(scan[c], plan.gap[c])

HistoryInv ==
    \A c \in Callers : usedAt[c] \subseteq used /\ (phase[c] # "done" => reply[c].count < 0)

RightReplies ==
    \A c \in Callers : reply[c].count >= 0 => Right(reply[c], usedAt[c], used, plan.gap[c])

ScanInv == XpubTypeOK /\ RunningInv /\ WalkInv /\ HistoryInv /\ KnownIsUsed /\ RightReplies

LEMMA RepliesAgree == RightReplies <=> ReplyIsTheWallet
  BY DEF RightReplies, ReplyIsTheWallet, Right

LEMMA PlanTyped ==
    ASSUME plan \in Plans
    PROVE  /\ \A c \in Callers : plan.gap[c] \in Gaps /\ plan.server[c] \in Servers
           /\ plan.arrivals \in Nat
  <1>1. plan \in [gap : [Callers -> Gaps], server : [Callers -> Servers], arrivals : Nat]
    BY XpubAssumption
  <1> QED
    BY <1>1

LEMMA ScansTyped ==
    ASSUME XpubTypeOK
    PROVE  scan \in [Callers -> Scans] /\ reply \in [Callers -> Replies] /\ used \subseteq Indices
  BY DEF XpubTypeOK, Scans, Replies

LEMMA EmptyScan ==
    ScanOf(NoBranch) \in Scans /\ ScanOf(NoBranch).known = {}
  BY XpubAssumption DEF ScanOf, NoBranch, Scans, Branches

LEMMA ScanInitHolds == XpubInit => ScanInv
  <1> SUFFICES ASSUME XpubInit PROVE ScanInv
    OBVIOUS
  <1>1. plan \in Plans /\ \A c \in Callers : plan.gap[c] \in Gaps /\ plan.server[c] \in Servers
    BY PlanTyped DEF XpubInit
  <1>2. XpubTypeOK
    <2>1. scan \in [Callers -> Scans]
      BY EmptyScan DEF XpubInit
    <2>2. reply \in [Callers -> Replies]
      BY XpubAssumption DEF XpubInit, NoReply, Replies
    <2>3. branch \in Branches
      BY XpubAssumption DEF XpubInit, NoBranch, Branches
    <2>4. arrivals \in Nat
      BY <1>1, PlanTyped DEF XpubInit
    <2>5. usedAt \in [Callers -> SUBSET Indices]
      BY DEF XpubInit
    <2> QED
      BY <2>1, <2>2, <2>3, <2>4, <2>5 DEF XpubInit, XpubTypeOK, Scans, Replies
  <1>3. RunningInv
    BY <1>1, XpubAssumption DEF XpubInit, RunningInv, Scanning, NoCaller
  <1>4. WalkInv
    BY DEF XpubInit, WalkInv
  <1>5. HistoryInv
    BY DEF XpubInit, HistoryInv, NoReply
  <1>6. KnownIsUsed
    BY EmptyScan DEF XpubInit, KnownIsUsed, NoBranch
  <1>7. RightReplies
    BY DEF XpubInit, RightReplies, NoReply
  <1> QED
    BY <1>2, <1>3, <1>4, <1>5, <1>6, <1>7 DEF ScanInv

-----------------------------------------------------------------------------
(* The steps.                                                              *)

LEMMA AddressSeenKeeps == ScanInv /\ AddressSeen => ScanInv'
  <1> SUFFICES ASSUME ScanInv, AddressSeen PROVE ScanInv'
    OBVIOUS
  <1>1. PICK i \in Indices \ used : used' = used \cup {i}
    BY DEF AddressSeen
  <1>2. /\ UNCHANGED <<branch, running, phase, scan, reply, plan, usedAt>>
        /\ arrivals' = arrivals - 1 /\ arrivals > 0
    BY DEF AddressSeen
  <1>3. used \subseteq used' /\ used' \subseteq Indices
    BY <1>1, ScansTyped DEF ScanInv
  <1>4. XpubTypeOK'
    BY <1>2, <1>3 DEF ScanInv, XpubTypeOK
  <1>5. RunningInv'
    BY <1>2 DEF ScanInv, RunningInv, Mine
  <1>6. WalkInv'
    BY <1>2 DEF ScanInv, WalkInv
  <1>7. HistoryInv'
    BY <1>2, <1>3 DEF ScanInv, HistoryInv
  <1>8. KnownIsUsed'
    BY <1>2, <1>3 DEF ScanInv, KnownIsUsed
  <1>9. RightReplies'
    <2> SUFFICES ASSUME NEW c \in Callers, reply[c].count >= 0
                 PROVE  Right(reply[c], usedAt[c], used', plan.gap[c])
      BY <1>2 DEF RightReplies
    <2>1. Right(reply[c], usedAt[c], used, plan.gap[c])
      BY DEF ScanInv, RightReplies
    <2>2. reply[c] \in Replies /\ plan.gap[c] \in Gaps
      BY ScansTyped, PlanTyped DEF ScanInv, XpubTypeOK
    <2> QED
      BY <1>3, <2>1, <2>2, RightLater
  <1> QED
    BY <1>4, <1>5, <1>6, <1>7, <1>8, <1>9 DEF ScanInv

LEMMA BranchExpiresKeeps == ScanInv /\ BranchExpires => ScanInv'
  <1> SUFFICES ASSUME ScanInv, BranchExpires PROVE ScanInv'
    OBVIOUS
  <1>1. /\ UNCHANGED <<used, running, phase, scan, reply, arrivals, plan, usedAt>>
        /\ branch' = NoBranch
    BY DEF BranchExpires
  <1>2. NoBranch \in Branches /\ NoBranch.ids = {}
    BY XpubAssumption DEF NoBranch, Branches
  <1>3. XpubTypeOK'
    BY <1>1, <1>2 DEF ScanInv, XpubTypeOK
  <1>4. RunningInv' /\ WalkInv' /\ HistoryInv' /\ RightReplies'
    BY <1>1 DEF ScanInv, RunningInv, Mine, WalkInv, HistoryInv, RightReplies
  <1>5. KnownIsUsed'
    BY <1>1, <1>2 DEF ScanInv, KnownIsUsed
  <1> QED
    BY <1>3, <1>4, <1>5 DEF ScanInv

LEMMA StartScanKeeps ==
    ASSUME NEW c \in Callers, ScanInv, StartScan(c)
    PROVE  ScanInv'
  <1> DEFINE p == plan.server[c]
             g == plan.gap[c]
  <1>1. /\ UNCHANGED <<used, branch, scan, reply, arrivals, plan>>
        /\ phase[c] = "idle" /\ running[p][g] = NoCaller
        /\ running' = [running EXCEPT ![p][g] = c]
        /\ phase' = [phase EXCEPT ![c] = "reading"]
        /\ usedAt' = [usedAt EXCEPT ![c] = used]
    BY DEF StartScan
  <1>2. \A d \in Callers : plan.gap[d] \in Gaps /\ plan.server[d] \in Servers
    BY PlanTyped DEF ScanInv, XpubTypeOK
  <1>3. XpubTypeOK'
    BY <1>1, <1>2 DEF ScanInv, XpubTypeOK
  <1>4. NoCaller \notin Callers /\ p \in Servers /\ g \in Gaps
    BY <1>2, XpubAssumption DEF NoCaller
  <1> HIDE DEF p, g
  <1>5. /\ running \in [Servers -> [Gaps -> Callers \cup {NoCaller}]]
        /\ phase \in [Callers -> {"idle", "reading", "looking", "storing", "joined", "done"}]
        /\ usedAt \in [Callers -> SUBSET Indices]
    BY DEF ScanInv, XpubTypeOK
  <1>6. \A q \in Servers, h \in Gaps :
            running'[q][h] = IF q = p /\ h = g THEN c ELSE running[q][h]
    BY <1>1, <1>4, <1>5
  <1>7. \A d \in Callers : /\ phase'[d] = IF d = c THEN "reading" ELSE phase[d]
                           /\ usedAt'[d] = IF d = c THEN used ELSE usedAt[d]
    BY <1>1, <1>5
  <1>8. RunningInv'
    <2>1. ASSUME NEW d \in Callers, phase'[d] \in Scanning PROVE Mine(d)' = d
      <3>1. CASE d = c
        BY <1>1, <1>2, <1>6, <3>1 DEF Mine, p, g
      <3>2. CASE d # c
        <4>1. Mine(d) = d
          BY <1>7, <2>1, <3>2 DEF ScanInv, RunningInv
        <4>2. ~(plan.server[d] = p /\ plan.gap[d] = g)
          BY <1>1, <1>4, <4>1 DEF Mine
        <4> QED
          BY <1>1, <1>2, <1>6, <4>1, <4>2 DEF Mine
      <3> QED
        BY <3>1, <3>2
    <2>2. ASSUME NEW d \in Callers, phase'[d] = "joined"
          PROVE  Mine(d)' \in Callers /\ usedAt'[d] = usedAt'[Mine(d)']
      <3>1. d # c /\ Mine(d) \in Callers /\ usedAt[d] = usedAt[Mine(d)]
        BY <1>7, <2>2 DEF ScanInv, RunningInv
      <3>2. ~(plan.server[d] = p /\ plan.gap[d] = g)
        BY <1>1, <1>4, <3>1 DEF Mine
      <3>3. Mine(d)' = Mine(d)
        BY <1>1, <1>2, <1>6, <3>2 DEF Mine
      <3>4. phase[Mine(d)] \in Scanning
        BY <1>2, <3>1 DEF ScanInv, RunningInv, Mine
      <3>5. Mine(d) # c
        BY <1>1, <3>4 DEF Scanning
      <3> QED
        BY <1>7, <3>1, <3>3, <3>5
    <2>3. ASSUME NEW q \in Servers, NEW h \in Gaps, running'[q][h] \in Callers
          PROVE  /\ phase'[running'[q][h]] \in Scanning
                 /\ plan'.server[running'[q][h]] = q
                 /\ plan'.gap[running'[q][h]] = h
      <3>1. CASE q = p /\ h = g
        BY <1>1, <1>6, <1>7, <3>1 DEF p, g, Scanning
      <3>2. CASE ~(q = p /\ h = g)
        <4>1. /\ running'[q][h] = running[q][h]
              /\ phase[running[q][h]] \in Scanning
              /\ plan.server[running[q][h]] = q
              /\ plan.gap[running[q][h]] = h
          BY <1>6, <2>3, <3>2 DEF ScanInv, RunningInv
        <4> QED
          BY <1>1, <1>7, <2>3, <4>1 DEF Scanning
      <3> QED
        BY <3>1, <3>2
    <2> QED
      BY <2>1, <2>2, <2>3 DEF RunningInv
  <1>9. WalkInv'
    BY <1>1, <1>7 DEF ScanInv, WalkInv
  <1>10. HistoryInv'
    BY <1>1, <1>7 DEF ScanInv, HistoryInv
  <1>11. KnownIsUsed'
    BY <1>1 DEF ScanInv, KnownIsUsed
  <1>12. RightReplies'
    <2>1. reply[c].count < 0 /\ reply[c].count \in Int
      BY <1>1, ScansTyped DEF ScanInv, HistoryInv, Replies
    <2>2. \A d \in Callers : reply[d].count >= 0 => usedAt'[d] = usedAt[d]
      BY <1>7, <2>1
    <2> QED
      BY <1>1, <2>2 DEF ScanInv, RightReplies
  <1> QED
    BY <1>3, <1>8, <1>9, <1>10, <1>11, <1>12 DEF ScanInv

LEMMA JoinScanKeeps ==
    ASSUME NEW c \in Callers, ScanInv, JoinScan(c)
    PROVE  ScanInv'
  <1>1. /\ UNCHANGED <<used, branch, running, scan, reply, arrivals, plan>>
        /\ phase[c] = "idle" /\ Mine(c) # NoCaller
        /\ phase' = [phase EXCEPT ![c] = "joined"]
        /\ usedAt' = [usedAt EXCEPT ![c] = usedAt[Mine(c)]]
    BY DEF JoinScan, Mine
  <1>2. /\ running \in [Servers -> [Gaps -> Callers \cup {NoCaller}]]
        /\ phase \in [Callers -> {"idle", "reading", "looking", "storing", "joined", "done"}]
        /\ usedAt \in [Callers -> SUBSET Indices]
        /\ \A d \in Callers : plan.gap[d] \in Gaps /\ plan.server[d] \in Servers
    BY PlanTyped DEF ScanInv, XpubTypeOK
  <1>3. Mine(c) \in Callers /\ phase[Mine(c)] \in Scanning
    <2>1. Mine(c) \in Callers
      BY <1>1, <1>2 DEF Mine
    <2> QED
      BY <1>2, <2>1 DEF ScanInv, RunningInv, Mine
  <1>4. Mine(c) # c
    BY <1>1, <1>3 DEF Scanning
  <1>5. XpubTypeOK'
    BY <1>1, <1>2, <1>3 DEF ScanInv, XpubTypeOK
  <1>6. \A d \in Callers : /\ phase'[d] = IF d = c THEN "joined" ELSE phase[d]
                           /\ usedAt'[d] = IF d = c THEN usedAt[Mine(c)] ELSE usedAt[d]
    BY <1>1, <1>2
  <1>7. \A d \in Callers : Mine(d)' = Mine(d)
    BY <1>1 DEF Mine
  <1>8. RunningInv'
    <2>1. \A d \in Callers : phase'[d] \in Scanning => Mine(d)' = d
      BY <1>6, <1>7 DEF ScanInv, RunningInv, Scanning
    <2>2. ASSUME NEW d \in Callers, phase'[d] = "joined"
          PROVE  Mine(d)' \in Callers /\ usedAt'[d] = usedAt'[Mine(d)']
      <3>1. CASE d = c
        BY <1>3, <1>4, <1>6, <1>7, <3>1
      <3>2. CASE d # c
        <4>1. Mine(d) \in Callers /\ usedAt[d] = usedAt[Mine(d)]
          BY <1>6, <2>2, <3>2 DEF ScanInv, RunningInv
        <4>2. phase[Mine(d)] \in Scanning
          BY <1>2, <4>1 DEF ScanInv, RunningInv, Mine
        <4>3. Mine(d) # c
          BY <1>1, <4>2 DEF Scanning
        <4> QED
          BY <1>6, <1>7, <3>2, <4>1, <4>3
      <3> QED
        BY <3>1, <3>2
    <2>3. ASSUME NEW q \in Servers, NEW h \in Gaps, running[q][h] \in Callers
          PROVE  /\ phase'[running[q][h]] \in Scanning
                 /\ plan.server[running[q][h]] = q
                 /\ plan.gap[running[q][h]] = h
      <3>1. /\ phase[running[q][h]] \in Scanning
            /\ plan.server[running[q][h]] = q
            /\ plan.gap[running[q][h]] = h
        BY <2>3 DEF ScanInv, RunningInv
      <3>2. running[q][h] # c
        BY <1>1, <3>1 DEF Scanning
      <3> QED
        BY <1>6, <2>3, <3>1, <3>2
    <2> QED
      BY <1>1, <2>1, <2>2, <2>3 DEF RunningInv
  <1>9. WalkInv'
    BY <1>1, <1>6 DEF ScanInv, WalkInv
  <1>10. HistoryInv'
    BY <1>1, <1>3, <1>6 DEF ScanInv, HistoryInv
  <1>11. KnownIsUsed'
    BY <1>1 DEF ScanInv, KnownIsUsed
  <1>12. RightReplies'
    <2>1. reply[c].count < 0 /\ reply[c].count \in Int
      BY <1>1, ScansTyped DEF ScanInv, HistoryInv, Replies
    <2>2. \A d \in Callers : reply[d].count >= 0 => usedAt'[d] = usedAt[d]
      BY <1>6, <2>1
    <2> QED
      BY <1>1, <2>2 DEF ScanInv, RightReplies
  <1> QED
    BY <1>5, <1>8, <1>9, <1>10, <1>11, <1>12 DEF ScanInv

\* A step of the walk of c that changes nothing but its scan and its phase.
LEMMA WalkKeeps ==
    ASSUME NEW c \in Callers, ScanInv, phase[c] \in Scanning,
           UNCHANGED <<used, branch, running, reply, arrivals, plan, usedAt>>,
           NEW s \in Scans, scan' = [scan EXCEPT ![c] = s],
           NEW w \in {"looking", "storing"}, phase' = [phase EXCEPT ![c] = w],
           KnownOf(s), Walk(s, usedAt[c], plan.gap[c]),
           w = "storing" => Ended(s, plan.gap[c])
    PROVE  ScanInv'
  <1>1. /\ phase \in [Callers -> {"idle", "reading", "looking", "storing", "joined", "done"}]
        /\ scan \in [Callers -> Scans]
    BY ScansTyped DEF ScanInv, XpubTypeOK
  <1>2. \A d \in Callers : /\ phase'[d] = IF d = c THEN w ELSE phase[d]
                           /\ scan'[d] = IF d = c THEN s ELSE scan[d]
    BY <1>1
  <1>3. XpubTypeOK'
    <2>1. scan' \in [Callers -> Scans]
      BY <1>1
    <2>2. phase' \in [Callers -> {"idle", "reading", "looking", "storing", "joined", "done"}]
      BY <1>1
    <2> QED
      BY <2>1, <2>2 DEF ScanInv, XpubTypeOK, Scans
  <1>4. \A d \in Callers : /\ phase'[d] \in Scanning <=> phase[d] \in Scanning
                           /\ phase'[d] = "joined" <=> phase[d] = "joined"
                           /\ phase'[d] = "done" <=> phase[d] = "done"
    BY <1>2 DEF Scanning
  <1>5. RunningInv'
    BY <1>4 DEF ScanInv, RunningInv, Mine
  <1>6. WalkInv'
    BY <1>2 DEF ScanInv, WalkInv
  <1>7. HistoryInv'
    BY <1>4 DEF ScanInv, HistoryInv
  <1>8. KnownIsUsed'
    BY <1>2 DEF ScanInv, KnownIsUsed, KnownOf
  <1>9. RightReplies'
    BY DEF ScanInv, RightReplies
  <1> QED
    BY <1>3, <1>5, <1>6, <1>7, <1>8, <1>9 DEF ScanInv

LEMMA ReadBranchKeeps ==
    ASSUME NEW c \in Callers, ScanInv, ReadBranch(c)
    PROVE  ScanInv'
  <1> DEFINE b == ScanOf(branch)
             s == Extended(b, plan.gap[c])
  <1>1. /\ UNCHANGED <<used, branch, running, reply, arrivals, plan, usedAt>>
        /\ phase[c] = "reading"
        /\ scan' = [scan EXCEPT ![c] = s]
        /\ phase' = [phase EXCEPT ![c] = "looking"]
    BY DEF ReadBranch
  <1>2. branch \in Branches /\ plan.gap[c] \in Gaps /\ usedAt[c] \subseteq Indices
    BY PlanTyped DEF ScanInv, XpubTypeOK
  <1>3. b \in Scans /\ b.known = branch.ids /\ b.derived = branch.derived
        /\ b.checkedTo = 0 /\ b.scannedTo = 0
    BY <1>2, XpubAssumption DEF ScanOf, Scans, Branches
  <1>4. KnownOf(b)
    BY <1>3 DEF ScanInv, KnownIsUsed, KnownOf
  <1>5. b.derived >= 0
    BY <1>2, <1>3, XpubAssumption DEF Branches
  <1> HIDE DEF b
  <1>6. Walk(b, usedAt[c], plan.gap[c])
    <2>1. \A i \in usedAt[c] : ~(i < 0)
      BY <1>2, XpubAssumption DEF Indices
    <2>2. plan.gap[c] .. 0 - 1 = {}
      BY <1>2, XpubAssumption DEF Gaps
    <2> QED
      BY <1>3, <1>5, <2>1, <2>2 DEF Walk
  <1>7. s \in Scans /\ KnownOf(s) /\ Walk(s, usedAt[c], plan.gap[c])
    BY <1>2, <1>3, <1>4, <1>6, ExtendedWalks
  <1> HIDE DEF s
  <1> QED
    BY <1>1, <1>7, WalkKeeps DEF Scanning

LEMMA LookUpKeeps ==
    ASSUME NEW c \in Callers, ScanInv, LookUp(c)
    PROVE  ScanInv'
  <1> DEFINE U == usedAt[c]
             gap == plan.gap[c]
             t == Confirmed(scan[c])
             s == Walked(t, gap)
  <1>1. /\ UNCHANGED <<used, branch, running, reply, arrivals, plan, usedAt>>
        /\ phase[c] = "looking"
        /\ \/ Ended(s, gap) /\ scan' = [scan EXCEPT ![c] = s]
              /\ phase' = [phase EXCEPT ![c] = "storing"]
           \/ scan' = [scan EXCEPT ![c] = Extended(s, gap)] /\ UNCHANGED phase
    BY DEF LookUp
  <1>2. gap \in Gaps /\ U \subseteq used /\ used \subseteq Indices /\ scan[c] \in Scans
    BY PlanTyped, ScansTyped DEF ScanInv, XpubTypeOK, HistoryInv
  <1>3. KnownOf(scan[c]) /\ Walk(scan[c], U, gap)
    BY <1>1 DEF ScanInv, KnownIsUsed, KnownOf, WalkInv
  <1>4. t \in Scans /\ KnownOf(t) /\ Walk(t, U, gap)
    BY <1>2, <1>3, ConfirmedWalks
  <1> HIDE DEF t
  <1>5. s \in Scans /\ KnownOf(s) /\ Walk(s, U, gap)
    BY <1>2, <1>4, WalkedWalks
  <1> HIDE DEF s
  <1>6. CASE Ended(s, gap) /\ scan' = [scan EXCEPT ![c] = s]
             /\ phase' = [phase EXCEPT ![c] = "storing"]
    BY <1>1, <1>5, <1>6, WalkKeeps DEF Scanning
  <1>7. CASE scan' = [scan EXCEPT ![c] = Extended(s, gap)] /\ UNCHANGED phase
    <2>1. Extended(s, gap) \in Scans /\ KnownOf(Extended(s, gap)) /\ Walk(Extended(s, gap), U, gap)
      BY <1>2, <1>5, ExtendedWalks
    <2>2. phase' = [phase EXCEPT ![c] = "looking"]
      BY <1>1, <1>7 DEF ScanInv, XpubTypeOK
    <2> QED
      BY <1>1, <1>7, <2>1, <2>2, WalkKeeps DEF Scanning
  <1> QED
    BY <1>1, <1>6, <1>7

\* A scan that settles with a right answer, or with none.
LEMMA SettleKeeps ==
    ASSUME NEW c \in Callers, ScanInv, phase[c] \in Scanning,
           NEW a \in Replies, SettleScan(c, a),
           a.count >= 0 => Right(a, usedAt[c], used, plan.gap[c]),
           UNCHANGED <<used, arrivals, plan, usedAt>>,
           branch' \in Branches, branch'.ids \subseteq {i \in used : i < branch'.derived}
    PROVE  ScanInv'
  <1> DEFINE p == plan.server[c]
             g == plan.gap[c]
             gets(d) == d = c \/ (phase[d] = "joined" /\ plan.gap[d] = g /\ plan.server[d] = p)
  <1>1. /\ running' = [running EXCEPT ![p][g] = NoCaller]
        /\ phase' = [d \in Callers |-> IF gets(d) THEN "done" ELSE phase[d]]
        /\ reply' = [d \in Callers |-> IF gets(d) THEN a ELSE reply[d]]
        /\ scan' = [scan EXCEPT ![c] = ScanOf(NoBranch)]
    BY DEF SettleScan
  <1>2. /\ running \in [Servers -> [Gaps -> Callers \cup {NoCaller}]]
        /\ phase \in [Callers -> {"idle", "reading", "looking", "storing", "joined", "done"}]
        /\ scan \in [Callers -> Scans] /\ reply \in [Callers -> Replies]
        /\ \A d \in Callers : plan.gap[d] \in Gaps /\ plan.server[d] \in Servers
    BY PlanTyped, ScansTyped DEF ScanInv, XpubTypeOK
  <1>3. /\ \A d \in Callers : plan'.gap[d] = plan.gap[d] /\ plan'.server[d] = plan.server[d]
        /\ NoCaller \notin Callers /\ Mine(c) = c /\ p \in Servers /\ g \in Gaps
    BY <1>2, XpubAssumption DEF NoCaller, ScanInv, RunningInv
  <1>4. \A d \in Callers : gets(d) => usedAt[d] = usedAt[c] /\ plan.gap[d] = g
    BY <1>3 DEF ScanInv, RunningInv, Mine
  <1>5. \A d \in Callers : /\ phase'[d] = IF gets(d) THEN "done" ELSE phase[d]
                           /\ reply'[d] = IF gets(d) THEN a ELSE reply[d]
                           /\ scan'[d] = IF d = c THEN ScanOf(NoBranch) ELSE scan[d]
    BY <1>1, <1>2
  <1>6. \A q \in Servers, h \in Gaps :
            running'[q][h] = IF q = p /\ h = g THEN NoCaller ELSE running[q][h]
    BY <1>1, <1>2, <1>3
  <1>7. XpubTypeOK'
    <2>1. running' \in [Servers -> [Gaps -> Callers \cup {NoCaller}]]
      BY <1>1, <1>2, <1>3
    <2>2. phase' \in [Callers -> {"idle", "reading", "looking", "storing", "joined", "done"}]
      BY <1>1, <1>2
    <2>3. reply' \in [Callers -> Replies]
      BY <1>1, <1>2
    <2>4. scan' \in [Callers -> Scans]
      BY <1>1, <1>2, EmptyScan
    <2> QED
      BY <2>1, <2>2, <2>3, <2>4 DEF ScanInv, XpubTypeOK, Scans, Replies
  <1>8. RunningInv'
    <2>1. ASSUME NEW d \in Callers, ~gets(d), Mine(d) \in Callers
          PROVE  phase[d] \in Scanning \cup {"joined"} => Mine(d)' = Mine(d)
      <3>1. SUFFICES ASSUME phase[d] \in Scanning \cup {"joined"},
                            plan.server[d] = p, plan.gap[d] = g
                     PROVE  FALSE
        BY <1>2, <1>3, <1>6 DEF Mine
      <3>2. Mine(d) = c /\ d # c
        BY <1>3, <2>1, <3>1 DEF Mine
      <3>3. phase[d] \notin Scanning
        BY <3>2 DEF ScanInv, RunningInv
      <3> QED
        BY <2>1, <3>1, <3>3
    <2>2. ASSUME NEW d \in Callers, phase'[d] \in Scanning PROVE Mine(d)' = d
      <3>1. ~gets(d) /\ phase[d] \in Scanning
        BY <1>5, <2>2 DEF Scanning
      <3>2. Mine(d) = d
        BY <3>1 DEF ScanInv, RunningInv
      <3> QED
        BY <2>1, <3>1, <3>2
    <2>3. ASSUME NEW d \in Callers, phase'[d] = "joined"
          PROVE  Mine(d)' \in Callers /\ usedAt'[d] = usedAt'[Mine(d)']
      <3>1. ~gets(d) /\ phase[d] = "joined"
        BY <1>5, <2>3
      <3>2. Mine(d) \in Callers /\ usedAt[d] = usedAt[Mine(d)]
        BY <3>1 DEF ScanInv, RunningInv
      <3> QED
        BY <2>1, <3>1, <3>2
    <2>4. ASSUME NEW q \in Servers, NEW h \in Gaps, running'[q][h] \in Callers
          PROVE  /\ phase'[running'[q][h]] \in Scanning
                 /\ plan'.server[running'[q][h]] = q
                 /\ plan'.gap[running'[q][h]] = h
      <3>1. ~(q = p /\ h = g) /\ running'[q][h] = running[q][h]
        BY <1>3, <1>6, <2>4
      <3>2. /\ phase[running[q][h]] \in Scanning
            /\ plan.server[running[q][h]] = q
            /\ plan.gap[running[q][h]] = h
        BY <2>4, <3>1 DEF ScanInv, RunningInv
      <3>3. ~gets(running[q][h])
        BY <3>1, <3>2 DEF Scanning
      <3> QED
        BY <1>3, <1>5, <2>4, <3>1, <3>2, <3>3
    <2> QED
      BY <2>2, <2>3, <2>4 DEF RunningInv
  <1>9. WalkInv'
    <2> SUFFICES ASSUME NEW d \in Callers, phase'[d] \in {"looking", "storing"}
                 PROVE  /\ Walk(scan[d], usedAt[d], plan.gap[d])
                        /\ phase'[d] = "storing" => Ended(scan[d], plan.gap[d])
                        /\ scan'[d] = scan[d]
      BY <1>3 DEF WalkInv
    <2>1. ~gets(d) /\ phase[d] = phase'[d]
      BY <1>5
    <2> QED
      BY <1>5, <2>1 DEF ScanInv, WalkInv
  <1>10. HistoryInv'
    BY <1>5 DEF ScanInv, HistoryInv
  <1>11. KnownIsUsed'
    BY <1>5, EmptyScan DEF ScanInv, KnownIsUsed
  <1>12. RightReplies'
    <2> SUFFICES ASSUME NEW d \in Callers, reply'[d].count >= 0
                 PROVE  Right(reply'[d], usedAt[d], used, plan.gap[d])
      BY <1>3 DEF RightReplies
    <2>1. CASE gets(d)
      BY <1>4, <1>5, <2>1
    <2>2. CASE ~gets(d)
      BY <1>5, <2>2 DEF ScanInv, RightReplies
    <2> QED
      BY <2>1, <2>2
  <1> QED
    BY <1>7, <1>8, <1>9, <1>10, <1>11, <1>12 DEF ScanInv

LEMMA StoreBranchKeeps ==
    ASSUME NEW c \in Callers, ScanInv, StoreBranch(c)
    PROVE  ScanInv'
  <1> DEFINE s == scan[c]
             a == Scanned(s)
  <1>1. /\ phase[c] = "storing" /\ SettleScan(c, a)
        /\ UNCHANGED <<used, arrivals, plan, usedAt>>
        /\ branch' = [derived |-> s.derived, ids |-> s.known] \/ branch' = branch
    BY DEF StoreBranch
  <1>2. plan.gap[c] \in Gaps /\ usedAt[c] \subseteq used /\ used \subseteq Indices /\ s \in Scans
    BY PlanTyped, ScansTyped DEF ScanInv, XpubTypeOK, HistoryInv
  <1>3. KnownOf(s) /\ Walk(s, usedAt[c], plan.gap[c]) /\ Ended(s, plan.gap[c])
    BY <1>1 DEF ScanInv, KnownIsUsed, KnownOf, WalkInv
  <1> HIDE DEF s
  <1>4. a \in Replies /\ Right(a, usedAt[c], used, plan.gap[c])
    BY <1>2, <1>3, ScannedIsRight
  <1>5. branch' \in Branches /\ branch'.ids \subseteq {i \in used : i < branch'.derived}
    <2>1. CASE branch' = [derived |-> s.derived, ids |-> s.known]
      BY <1>2, <1>3, <2>1 DEF Scans, Branches, KnownOf
    <2>2. CASE branch' = branch
      BY <2>2 DEF ScanInv, XpubTypeOK, KnownIsUsed
    <2> QED
      BY <1>1, <2>1, <2>2
  <1> HIDE DEF a
  <1> QED
    BY <1>1, <1>4, <1>5, SettleKeeps DEF Scanning

LEMMA ScanFailsKeeps ==
    ASSUME NEW c \in Callers, ScanInv, ScanFails(c)
    PROVE  ScanInv'
  <1>1. /\ phase[c] \in Scanning /\ SettleScan(c, Rejected)
        /\ UNCHANGED <<used, branch, arrivals, plan, usedAt>>
    BY DEF ScanFails, Scanning
  <1>2. Rejected \in Replies /\ ~(Rejected.count >= 0)
    BY XpubAssumption DEF Rejected, Replies
  <1>3. branch' \in Branches /\ branch'.ids \subseteq {i \in used : i < branch'.derived}
    BY <1>1 DEF ScanInv, XpubTypeOK, KnownIsUsed
  <1> QED
    BY <1>1, <1>2, <1>3, SettleKeeps

(* Every step of a scan keeps the invariant.                               *)
LEMMA ScanStepKeeps == ScanInv /\ [XpubNext]_xpubVars => ScanInv'
  <1> SUFFICES ASSUME ScanInv, [XpubNext]_xpubVars PROVE ScanInv'
    OBVIOUS
  <1>1. CASE UNCHANGED xpubVars
    BY <1>1 DEF xpubVars, ScanInv, XpubTypeOK, RunningInv, Mine, WalkInv, HistoryInv, KnownIsUsed,
                RightReplies
  <1>2. CASE AddressSeen
    BY <1>2, AddressSeenKeeps
  <1>3. CASE BranchExpires
    BY <1>3, BranchExpiresKeeps
  <1>4. ASSUME NEW c \in Callers, StartScan(c) \/ JoinScan(c) \/ ScanStep(c) \/ ScanFails(c)
        PROVE  ScanInv'
    BY <1>4, StartScanKeeps, JoinScanKeeps, ReadBranchKeeps, LookUpKeeps, StoreBranchKeeps,
       ScanFailsKeeps DEF ScanStep
  <1> QED
    BY <1>1, <1>2, <1>3, <1>4 DEF XpubNext

-----------------------------------------------------------------------------
(* The theorems.                                                           *)

LEMMA ScanInductive == XpubSpec => []ScanInv
  BY ScanInitHolds, ScanStepKeeps, PTL DEF XpubSpec

(***************************************************************************)
(* The paged lists.                                                        *)
(***************************************************************************)
-----------------------------------------------------------------------------
(* The order of the cursor list.                                           *)

RowsTyped ==
  rows \in Seq([height : 0 .. MaxTip, coinbase : BOOLEAN, owners : OwnerSets])

(* The rows of a typed state.                                              *)
LEMMA RowsAre ==
  ASSUME RowsTyped
  PROVE  /\ Ids = 1 .. Len(rows) /\ Len(rows) \in Nat
         /\ IsFiniteSet(Ids)
         /\ \A x \in Ids : /\ x \in Int
                           /\ rows[x].height \in Nat
                           /\ rows[x].coinbase \in BOOLEAN
                           /\ rows[x].owners \in OwnerSets
                           /\ rows[x] = [height |-> rows[x].height, coinbase |-> rows[x].coinbase,
                                         owners |-> rows[x].owners]
  <1>1. Ids = 1 .. Len(rows) /\ Len(rows) \in Nat
    BY DEF RowsTyped, Ids
  <1>2. IsFiniteSet(Ids)
    <2>1. IsFiniteSet(1 .. Len(rows))
      BY <1>1, FS_Interval
    <2> QED
      BY <1>1, <2>1
  <1>3. ASSUME NEW x \in Ids
        PROVE  /\ x \in Int
               /\ rows[x].height \in Nat
               /\ rows[x].coinbase \in BOOLEAN
               /\ rows[x].owners \in OwnerSets
               /\ rows[x] = [height |-> rows[x].height, coinbase |-> rows[x].coinbase,
                             owners |-> rows[x].owners]
    <2>1. x \in 1 .. Len(rows)
      BY <1>1, Zenon
    <2>2. rows[x] \in [height : 0 .. MaxTip, coinbase : BOOLEAN, owners : OwnerSets]
      BY <2>1, ElementOfSeq, Zenon DEF RowsTyped
    <2>3. x \in Int
      BY <2>1
    <2> QED
      BY <2>2, <2>3, ListAssumption
  <1> QED
    BY <1>1, <1>2, <1>3

LEMMA HeightsNow == RowsTyped => \A x \in Ids : rows[x].height \in Nat /\ x \in Int
  BY RowsAre

LEMMA HeightsNext == RowsTyped' => \A x \in Ids' : rows'[x].height \in Nat /\ x \in Int
  <1>1. (RowsTyped => \A x \in Ids : rows[x].height \in Nat /\ x \in Int)'
    BY HeightsNow, PTL
  <1> QED
    BY <1>1

(* Before is a strict total order of the rows. *)
LEMMA BeforeIsOrder ==
  ASSUME RowsTyped
  PROVE  /\ \A x \in Ids : ~Before(x, x)
         /\ \A x, y, z \in Ids : Before(x, y) /\ Before(y, z) => Before(x, z)
         /\ \A x, y \in Ids : x = y \/ Before(x, y) \/ Before(y, x)
         /\ \A x, y \in Ids : Before(x, y) => ~Before(y, x) /\ x # y
  <1>1. \A x \in Ids : x \in Int /\ rows[x].height \in Nat
    BY RowsAre, Zenon
  <1> QED
    BY <1>1 DEF Before

(* Of some rows, one comes first, and Last finds the one that comes last.  *)
LEMMA LeastRow ==
  ASSUME RowsTyped, NEW W \in SUBSET Ids, W # {}
  PROVE  \E x \in W : \A y \in W : x = y \/ Before(x, y)
  <1> DEFINE R == {p \in W \X W : Before(p[1], p[2])}
  <1>1. \A a, b \in W : <<a, b>> \in R <=> Before(a, b)
    OBVIOUS
  <1>2. IsFiniteSet(W)
    BY RowsAre, FS_Subset
  <1>3. \A a, b, c \in W : <<a, b>> \in R /\ <<b, c>> \in R => <<a, c>> \in R
    <2> HIDE DEF R
    <2> QED
      BY <1>1, BeforeIsOrder
  <1>4. \A a \in W : <<a, a>> \notin R
    <2> HIDE DEF R
    <2> QED
      BY <1>1, BeforeIsOrder
  <1>5. \E x \in W : \A y \in W : <<y, x>> \notin R
    <2> HIDE DEF R
    <2> QED
      BY <1>2, <1>3, <1>4, MinimalExists
  <1> HIDE DEF R
  <1> QED
    BY <1>1, <1>5, BeforeIsOrder

LEMMA GreatestRow ==
  ASSUME RowsTyped, NEW W \in SUBSET Ids, W # {}
  PROVE  Last(W) \in W /\ \A y \in W : Last(W) = y \/ Before(y, Last(W))
  <1> DEFINE R == {p \in W \X W : Before(p[2], p[1])}
  <1>1. \A a, b \in W : <<a, b>> \in R <=> Before(b, a)
    OBVIOUS
  <1>2. IsFiniteSet(W)
    BY RowsAre, FS_Subset
  <1>3. \A a, b, c \in W : <<a, b>> \in R /\ <<b, c>> \in R => <<a, c>> \in R
    <2> HIDE DEF R
    <2> QED
      BY <1>1, BeforeIsOrder
  <1>4. \A a \in W : <<a, a>> \notin R
    <2> HIDE DEF R
    <2> QED
      BY <1>1, BeforeIsOrder
  <1>5. \E x \in W : \A y \in W : <<y, x>> \notin R
    <2> HIDE DEF R
    <2> QED
      BY <1>2, <1>3, <1>4, MinimalExists
  <1>6. \E x \in W : \A y \in W : x = y \/ Before(y, x)
    <2> HIDE DEF R
    <2> QED
      BY <1>1, <1>5, BeforeIsOrder
  <1> QED
    BY <1>6 DEF Last

-----------------------------------------------------------------------------
(* LIMIT n.                                                                *)

(* Of two finite sets of rows, the smaller has no more members. *)
LEMMA FewerRows ==
  ASSUME RowsTyped, NEW V \in SUBSET Ids, NEW U \in SUBSET V
  PROVE  /\ IsFiniteSet(U) /\ IsFiniteSet(V)
         /\ Cardinality(U) \in Nat /\ Cardinality(V) \in Nat
         /\ Cardinality(U) <= Cardinality(V)
         /\ Cardinality(U) = Cardinality(V) => U = V
         /\ U = {} <=> Cardinality(U) = 0
  <1>1. IsFiniteSet(V)
    BY RowsAre, FS_Subset
  <1>2. IsFiniteSet(U)
    BY <1>1, FS_Subset
  <1> QED
    BY <1>1, <1>2, FS_Subset, FS_CardinalityType, FS_EmptySet

(* A row that LIMIT n leaves out comes after n others. *)
LEMMA TopIsFirst ==
  ASSUME RowsTyped, NEW S \in SUBSET Ids, NEW n \in Nat, NEW x \in S \ Top(S, n)
  PROVE  /\ \A y \in Top(S, n) : Before(y, x)
         /\ Cardinality(Top(S, n)) >= n
  <1> DEFINE B(z) == {y \in S : Before(y, z)}
  <1>1. ASSUME NEW y \in Top(S, n), ~Before(y, x)
        PROVE  FALSE
    <2>1. B(x) \subseteq B(y)
      <3>1. x = y \/ Before(x, y)
        BY <1>1, BeforeIsOrder DEF Top
      <3> QED
        BY <3>1, BeforeIsOrder DEF Top
    <2>2. Cardinality(B(x)) <= Cardinality(B(y)) /\ Cardinality(B(x)) \in Nat /\ Cardinality(B(y)) \in Nat
      BY <2>1, FewerRows
    <2>3. Cardinality(B(y)) < n /\ ~(Cardinality(B(x)) < n)
      BY <1>1 DEF Top
    <2> QED
      BY <2>2, <2>3
  <1>2. Cardinality(Top(S, n)) >= n
    <2>1. S \ Top(S, n) \in SUBSET Ids /\ S \ Top(S, n) # {}
      OBVIOUS
    <2>2. PICK z \in S \ Top(S, n) : \A y \in S \ Top(S, n) : z = y \/ Before(z, y)
      BY <2>1, LeastRow
    <2>3. B(z) \subseteq Top(S, n)
      BY <2>2, BeforeIsOrder
    <2>4. Top(S, n) \in SUBSET Ids
      BY DEF Top
    <2>5. Cardinality(B(z)) <= Cardinality(Top(S, n)) /\ Cardinality(B(z)) \in Nat
          /\ Cardinality(Top(S, n)) \in Nat
      BY <2>3, <2>4, FewerRows
    <2>6. ~(Cardinality(B(z)) < n)
      BY <2>2 DEF Top
    <2> QED
      BY <2>5, <2>6
  <1> QED
    BY <1>1, <1>2

(* LIMIT m of rows among which are the n >= m first ones. *)
LEMMA TopOfSome ==
  ASSUME RowsTyped, NEW S \in SUBSET Ids, NEW n \in Nat, NEW m \in Nat, m <= n,
         NEW T \in SUBSET S, Top(S, n) \subseteq T
  PROVE  Top(T, m) = Top(S, m)
  <1> DEFINE A(z) == {y \in S : Before(y, z)}
             B(z) == {y \in T : Before(y, z)}
  <1>0. \A z \in S : /\ B(z) \subseteq A(z)
                     /\ Cardinality(B(z)) <= Cardinality(A(z))
                     /\ Cardinality(B(z)) \in Nat /\ Cardinality(A(z)) \in Nat
    BY FewerRows
  <1>1. ASSUME NEW x \in Top(S, m) PROVE x \in Top(T, m)
    <2>1. x \in S /\ Cardinality(A(x)) < m
      BY DEF Top
    <2>2. Cardinality(A(x)) < n /\ Cardinality(B(x)) < m
      BY <1>0, <2>1
    <2>3. x \in T
      BY <2>1, <2>2 DEF Top
    <2> QED
      BY <2>2, <2>3 DEF Top
  <1>2. ASSUME NEW x \in Top(T, m), x \notin Top(S, m) PROVE FALSE
    <2>1. x \in S \ Top(S, m) /\ Cardinality(B(x)) < m
      BY <1>2 DEF Top
    <2>2. (\A y \in Top(S, m) : Before(y, x)) /\ Cardinality(Top(S, m)) >= m
      BY <2>1, TopIsFirst
    <2>3. Top(S, m) \subseteq B(x)
      BY <1>1, <2>2 DEF Top
    <2>4. B(x) \in SUBSET Ids
      OBVIOUS
    <2>5. Cardinality(Top(S, m)) <= Cardinality(B(x)) /\ Cardinality(Top(S, m)) \in Nat
          /\ Cardinality(B(x)) \in Nat
      BY <2>3, <2>4, FewerRows
    <2> QED
      BY <2>1, <2>2, <2>5
  <1> QED
    BY <1>1, <1>2

(* LIMIT n takes all of n rows or fewer, and only then. *)
LEMMA TopOfFew ==
  ASSUME RowsTyped, NEW S \in SUBSET Ids, NEW n \in Nat
  PROVE  /\ Cardinality(S) <= n => Top(S, n) = S
         /\ Cardinality(S) > n => Cardinality(Top(S, n)) >= n
         /\ Cardinality(Top(S, n)) < n => Top(S, n) = S
  <1>1. Top(S, n) \subseteq S
    BY DEF Top
  <1>2. /\ Cardinality(Top(S, n)) \in Nat /\ Cardinality(S) \in Nat
        /\ Cardinality(Top(S, n)) <= Cardinality(S)
        /\ Cardinality(Top(S, n)) = Cardinality(S) => Top(S, n) = S
    BY <1>1, FewerRows
  <1>3. ASSUME Top(S, n) # S PROVE Cardinality(Top(S, n)) >= n
    <2>1. PICK x \in S \ Top(S, n) : TRUE
      BY <1>1, <1>3
    <2> QED
      BY <2>1, TopIsFirst
  <1>4. Cardinality(S) > n => Cardinality(Top(S, n)) >= n
    BY <1>2, <1>3
  <1> QED
    BY <1>2, <1>3, <1>4

-----------------------------------------------------------------------------
(* A page of the cursor list.                                              *)

(* The wallet's history below a cursor. *)
Rest(c) == UNION {BelowCursor(a, c) : a \in Owned}

(* The rest below a cursor: the mined rows of the wallet that come after   *)
(* it.                                                                     *)
LEMMA RestIs ==
  ASSUME RowsTyped, NEW c
  PROVE  /\ Rest(c) \subseteq Mined /\ Mined \subseteq Ids
         /\ \A x \in Mined : x \in Rest(c) <=>
                 (\E a \in Owned : a \in rows[x].owners) /\ (c = NoRow \/ Before(c, x))
  <1>1. \A x : x \in Rest(c) <=> \E a \in Owned : x \in BelowCursor(a, c)
    BY DEF Rest
  <1>2. \A x, a : x \in BelowCursor(a, c) <=>
           x \in Mined /\ a \in rows[x].owners /\ (c = NoRow \/ Before(c, x))
    BY DEF BelowCursor
  <1>3. Mined \subseteq Ids
    BY DEF Mined
  <1> QED
    BY <1>1, <1>2, <1>3

(* The first rows of each address hold the first rows of the wallet. *)
LEMMA MergedIsTop ==
  ASSUME RowsTyped, limit \in Nat \ {0}, NEW c
  PROVE  Merged(c) = Top(Rest(c), limit + 1)
  <1> DEFINE K(a) == BelowCursor(a, c)
             T == UNION {Top(K(a), limit + 1) : a \in Owned}
  <1>1. Rest(c) \in SUBSET Ids
    BY RestIs
  <1>2. T \subseteq Rest(c)
    BY DEF Top, Rest
  <1>3. ASSUME NEW x \in Top(Rest(c), limit + 1) PROVE x \in T
    <2>1. x \in Rest(c) /\ Cardinality({y \in Rest(c) : Before(y, x)}) < limit + 1
      BY <1>3 DEF Top
    <2>2. PICK a \in Owned : x \in K(a)
      BY <2>1 DEF Rest
    <2>3. {y \in K(a) : Before(y, x)} \subseteq {y \in Rest(c) : Before(y, x)}
      BY DEF Rest
    <2>4. {y \in Rest(c) : Before(y, x)} \in SUBSET Ids
      BY <1>1
    <2>5. Cardinality({y \in K(a) : Before(y, x)}) < limit + 1
      BY <2>1, <2>3, <2>4, FewerRows
    <2>6. x \in Top(K(a), limit + 1)
      BY <2>2, <2>5 DEF Top
    <2> QED
      BY <2>6
  <1>4. Top(T, limit + 1) = Top(Rest(c), limit + 1)
    <2> HIDE DEF T
    <2>1. limit + 1 \in Nat
      OBVIOUS
    <2>2. Top(Rest(c), limit + 1) \subseteq T
      BY <1>3
    <2> QED
      BY <1>1, <1>2, <2>1, <2>2, TopOfSome
  <1> QED
    BY <1>4 DEF Merged

(* A page is the first rows below the cursor; with no more, it is all of   *)
(* them; else they are the page and what is below its last row.            *)
LEMMA PageFacts ==
  ASSUME RowsTyped, limit \in Nat \ {0}, NEW c \in Mined \cup {NoRow},
         NEW P, P = Top(Merged(c), limit)
  PROVE  /\ P \subseteq Rest(c)
         /\ Cardinality(Merged(c)) <= limit => P = Rest(c)
         /\ Cardinality(Merged(c)) > limit =>
              /\ Last(P) \in P
              /\ \A x \in P : x = Last(P) \/ Before(x, Last(P))
              /\ Rest(c) = P \cup Rest(Last(P))
         /\ Cardinality(Merged(c)) \in Nat
  <1> DEFINE U == Rest(c)
  <1> HIDE DEF U
  <1>0. limit \in Nat /\ limit + 1 \in Nat /\ limit <= limit + 1 /\ limit >= 1
    OBVIOUS
  <1>1. U \in SUBSET Ids /\ U \subseteq Mined
    BY RestIs DEF U
  <1>2. Merged(c) = Top(U, limit + 1)
    BY MergedIsTop DEF U
  <1>3. Merged(c) \subseteq U
    BY <1>2 DEF Top
  <1>4. P = Top(U, limit)
    BY <1>0, <1>1, <1>2, <1>3, TopOfSome
  <1>5. P \subseteq U
    BY <1>4 DEF Top
  <1>6. Cardinality(Merged(c)) \in Nat
    BY <1>1, <1>3, FewerRows
  <1>7. ASSUME Cardinality(Merged(c)) <= limit PROVE P = U
    <2>1. Cardinality(Merged(c)) < limit + 1
      BY <1>0, <1>6, <1>7
    <2>2. Merged(c) = U
      BY <1>0, <1>1, <1>2, <2>1, TopOfFew
    <2> QED
      BY <1>0, <1>1, <1>4, <1>7, <2>2, TopOfFew
  <1>8. ASSUME Cardinality(Merged(c)) > limit
        PROVE  /\ Last(P) \in P
               /\ \A x \in P : x = Last(P) \/ Before(x, Last(P))
               /\ U = P \cup Rest(Last(P))
    <2>1. P # {} /\ P \in SUBSET Ids
      <3>1. Cardinality(U) > limit
        <4>1. Cardinality(U) \in Nat /\ Cardinality(Merged(c)) <= Cardinality(U)
          BY <1>1, <1>3, FewerRows
        <4> QED
          BY <1>0, <1>6, <1>8, <4>1
      <3>2. Cardinality(P) >= limit
        BY <1>0, <1>1, <1>4, <3>1, TopOfFew
      <3>3. P \in SUBSET Ids
        BY <1>1, <1>5
      <3>4. P = {} => Cardinality(P) = 0
        BY <3>3, FewerRows
      <3> QED
        BY <1>0, <3>2, <3>3, <3>4
    <2>2. Last(P) \in P /\ \A x \in P : x = Last(P) \/ Before(x, Last(P))
      BY <2>1, GreatestRow
    <2>3. ASSUME NEW x \in U, x \notin P PROVE x \in Rest(Last(P))
      <3>1. Before(Last(P), x)
        BY <1>0, <1>1, <1>4, <2>2, <2>3, TopIsFirst
      <3> QED
        BY <1>1, <2>3, <3>1, RestIs DEF U
    <2>4. ASSUME NEW x \in Rest(Last(P)) PROVE x \in U
      <3>1. x \in Mined /\ Last(P) \in U /\ Last(P) \in Ids
        BY <1>1, <1>5, <2>2, RestIs
      <3>2. Before(Last(P), x) \/ Last(P) = NoRow
        BY <2>4, <3>1, RestIs
      <3>3. Last(P) # NoRow
        <4>1. Ids = 1 .. Len(rows)
          BY RowsAre
        <4>2. NoRow \notin Ids
          BY <4>1 DEF NoRow
        <4> QED
          BY <3>1, <4>2
      <3>4. c = NoRow \/ Before(c, Last(P))
        BY <1>1, <3>1, RestIs DEF U
      <3>5. c = NoRow \/ c \in Ids
        BY RestIs
      <3>6. c = NoRow \/ Before(c, x)
        <4>1. x \in Ids
          BY <3>1, RestIs
        <4> QED
          BY <3>1, <3>2, <3>3, <3>4, <3>5, <4>1, BeforeIsOrder
      <3>7. \E a \in Owned : a \in rows[x].owners
        BY <2>4, <3>1, RestIs
      <3> QED
        BY <3>1, <3>6, <3>7, RestIs DEF U
    <2> QED
      BY <1>5, <2>2, <2>3, <2>4
  <1> QED
    BY <1>5, <1>6, <1>7, <1>8 DEF U

-----------------------------------------------------------------------------
(* The indexer adds rows and heights and changes no confirmed row.         *)

(* No row is above the tip. *)
HeightInv == tip \in 0 .. MaxTip /\ \A x \in Ids : rows[x].height <= tip

Indexing == AddPending \/ AddBlock

(* The indexer adds rows above the others and changes no mined one.        *)
LEMMA IndexingGrows ==
  ASSUME RowsTyped, HeightInv, Indexing
  PROVE  /\ RowsTyped' /\ HeightInv'
         /\ Ids \subseteq Ids'
         /\ \A x \in Mined : x \in Mined' /\ rows'[x] = rows[x]
         /\ \A y \in Mined' : y \in Mined \/ \A x \in Ids : rows'[y].height > rows[x].height
         /\ UNCHANGED <<list, limit, page, after, total, ended, listed>>
  <1> DEFINE Row == [height : 0 .. MaxTip, coinbase : BOOLEAN, owners : OwnerSets]
  <1>1. /\ Ids = 1 .. Len(rows) /\ Len(rows) \in Nat
        /\ \A x \in Ids : rows[x].height \in Nat /\ rows[x].height <= tip
        /\ \A x \in Ids : x \in Int /\ rows[x] = [height |-> rows[x].height, coinbase |-> rows[x].coinbase,
                                       owners |-> rows[x].owners]
        /\ tip \in Nat /\ tip <= MaxTip
    <2>1. tip \in Nat /\ tip <= MaxTip
      BY ListAssumption DEF HeightInv
    <2>2. \A x \in Ids : rows[x].height <= tip
      BY DEF HeightInv
    <2>3. Ids = 1 .. Len(rows) /\ Len(rows) \in Nat
      BY RowsAre
    <2>4. \A x \in Ids : /\ rows[x].height \in Nat /\ x \in Int
                         /\ rows[x] = [height |-> rows[x].height, coinbase |-> rows[x].coinbase,
                                       owners |-> rows[x].owners]
      BY RowsAre, Zenon
    <2> QED
      BY <2>1, <2>2, <2>3, <2>4, Zenon
  <1>2. CASE AddPending
    <2>1. PICK A \in OwnerSets : rows' = Append(rows, [height |-> NoHeight, coinbase |-> FALSE, owners |-> A])
      BY <1>2 DEF AddPending
    <2>2. [height |-> NoHeight, coinbase |-> FALSE, owners |-> A] \in Row
      BY ListAssumption DEF NoHeight
    <2>3. RowsTyped'
      <3> HIDE DEF Row
      <3>1. rows \in Seq(Row)
        BY DEF RowsTyped, Row
      <3> QED
        BY <2>1, <2>2, <3>1, AppendProperties DEF RowsTyped, Row
    <2>4. /\ Len(rows') = Len(rows) + 1
          /\ Ids' = 1 .. Len(rows) + 1
          /\ \A x \in Ids : rows'[x] = rows[x]
          /\ rows'[Len(rows) + 1] = [height |-> 0, coinbase |-> FALSE, owners |-> A]
      <3> HIDE DEF Row
      <3>1. rows \in Seq(Row)
        BY DEF RowsTyped, Row
      <3>2. /\ Len(rows') = Len(rows) + 1 /\ DOMAIN rows' = 1 .. Len(rows) + 1
            /\ \A x \in 1 .. Len(rows) : rows'[x] = rows[x]
            /\ rows'[Len(rows) + 1] = [height |-> 0, coinbase |-> FALSE, owners |-> A]
        BY <2>1, <2>2, <3>1, AppendProperties DEF NoHeight
      <3> QED
        BY <1>1, <3>2 DEF Ids
    <2>5. UNCHANGED <<tip, list, limit, page, after, total, ended, listed>>
      BY <1>2 DEF AddPending
    <2>6. Ids \subseteq Ids' /\ \A x \in Ids' : x \in Ids \/ rows'[x].height = 0
      BY <1>1, <2>4
    <2>7. HeightInv'
      BY <1>1, <2>4, <2>5, <2>6, ListAssumption DEF HeightInv
    <2>8. Mined' = Mined
      BY <2>4, <2>6 DEF Mined, NoHeight
    <2> QED
      BY <2>3, <2>4, <2>5, <2>6, <2>7, <2>8 DEF Mined
  <1>3. CASE AddBlock
    <2>1. PICK P \in SUBSET Pending, A \in OwnerSets :
            rows' = Append([x \in Ids |-> IF x \in P THEN [rows[x] EXCEPT !.height = tip'] ELSE rows[x]],
                           [height |-> tip', coinbase |-> TRUE, owners |-> A])
      BY <1>3 DEF AddBlock
    <2>2. tip < MaxTip /\ tip' = tip + 1
          /\ UNCHANGED <<list, limit, page, after, total, ended, listed>>
      BY <1>3 DEF AddBlock
    <2> DEFINE g == [x \in Ids |-> IF x \in P THEN [rows[x] EXCEPT !.height = tip'] ELSE rows[x]]
               r == [height |-> tip', coinbase |-> TRUE, owners |-> A]
    <2>3. \A x \in Ids : rows[x] \in Row
      <3> HIDE DEF Row
      <3>1. rows \in Seq(Row)
        BY DEF RowsTyped, Row
      <3> QED
        BY <1>1, <3>1, ElementOfSeq
    <2>4. tip' \in 0 .. MaxTip /\ tip' > tip
      BY <1>1, <2>2, ListAssumption
    <2>5. \A x \in Ids : g[x] \in Row
      BY <2>3, <2>4
    <2>6. g \in Seq(Row) /\ Len(g) = Len(rows)
      <3> HIDE DEF Row
      <3>1. g \in [1 .. Len(rows) -> Row]
        BY <1>1, <2>5
      <3> HIDE DEF g
      <3> QED
        BY <1>1, <3>1, IsASeq, LenProperties
    <2>7. r \in Row
      BY <2>4
    <2>8. RowsTyped'
      <3> HIDE DEF Row, g, r
      <3>1. rows' = Append(g, r)
        BY <2>1 DEF g, r
      <3> QED
        BY <2>6, <2>7, <3>1, AppendProperties DEF RowsTyped, Row
    <2>9. /\ Ids' = 1 .. Len(rows) + 1
          /\ \A x \in Ids : rows'[x] = IF x \in P THEN [rows[x] EXCEPT !.height = tip'] ELSE rows[x]
          /\ rows'[Len(rows) + 1] = [height |-> tip', coinbase |-> TRUE, owners |-> A]
      <3>0. \A x \in Ids : g[x] = IF x \in P THEN [rows[x] EXCEPT !.height = tip'] ELSE rows[x]
        OBVIOUS
      <3>1. rows' = Append(g, r) /\ r = [height |-> tip', coinbase |-> TRUE, owners |-> A]
        BY <2>1
      <3> HIDE DEF Row, g, r
      <3>2. /\ Len(rows') = Len(rows) + 1 /\ DOMAIN rows' = 1 .. Len(rows) + 1
            /\ \A x \in 1 .. Len(rows) : rows'[x] = g[x]
            /\ rows'[Len(rows) + 1] = r
        BY <2>6, <2>7, <3>1, AppendProperties
      <3> QED
        BY <1>1, <3>0, <3>1, <3>2 DEF Ids
    <2>10. \A x \in Ids : rows'[x].height = IF x \in P THEN tip' ELSE rows[x].height
      BY <1>1, <2>9
    <2>11. Ids \subseteq Ids' /\ \A x \in Ids' : x \in Ids \/ rows'[x].height = tip'
      BY <1>1, <2>9
    <2>12. HeightInv'
      BY <1>1, <2>2, <2>4, <2>10, <2>11 DEF HeightInv
    <2>13. \A x \in Mined : x \in Mined' /\ rows'[x] = rows[x]
      <3>1. \A x \in Mined : x \in Ids /\ x \notin P /\ rows[x].height # NoHeight
        BY DEF Mined, Pending
      <3>2. \A x \in Mined : rows'[x] = rows[x]
        BY <2>9, <3>1
      <3> QED
        BY <2>11, <3>1, <3>2 DEF Mined
    <2>14. \A y \in Mined' : y \in Mined \/ \A x \in Ids : rows'[y].height > rows[x].height
      <3> SUFFICES ASSUME NEW y \in Ids', rows'[y].height # NoHeight, y \notin Mined
                   PROVE  \A x \in Ids : rows'[y].height > rows[x].height
        BY DEF Mined
      <3>1. rows'[y].height = tip'
        BY <2>10, <2>11 DEF Mined
      <3> QED
        BY <1>1, <2>4, <3>1
    <2> QED
      BY <2>2, <2>8, <2>11, <2>12, <2>13, <2>14
  <1> QED
    BY <1>2, <1>3 DEF Indexing

(* What is known of confirmed rows stays, and newly confirmed ones come    *)
(* before them.                                                            *)
LEMMA IndexingKeepsOrder ==
  ASSUME RowsTyped, HeightInv, Indexing
  PROVE  /\ \A x, y \in Mined : (Before(x, y)' <=> Before(x, y)) /\ (Above(x, y)' <=> Above(x, y))
         /\ \A x \in Mined, y \in Mined' \ Mined :
              Before(y, x)' /\ ~Before(x, y)' /\ Above(y, x)' /\ ~Above(x, y)'
         /\ \A c \in Mined : Rest(c)' = Rest(c)
         /\ Loaded' = Loaded
         /\ Paged(list) \subseteq Paged(list)'
         /\ \A y \in Paged(list)' : y \in Mined => y \in Paged(list)
  <1>0. /\ RowsTyped' /\ HeightInv'
        /\ Ids \subseteq Ids'
        /\ \A x \in Mined : x \in Mined' /\ rows'[x] = rows[x]
        /\ \A y \in Mined' : y \in Mined \/ \A x \in Ids : rows'[y].height > rows[x].height
        /\ UNCHANGED <<list, limit, page, after, total, ended, listed>>
    BY IndexingGrows
  <1>1. \A x \in Ids : rows[x].height \in Nat /\ x \in Int
    BY RowsAre
  <1>2. \A x \in Ids' : rows'[x].height \in Nat /\ x \in Int
    BY <1>0, HeightsNext
  <1>3. Mined \subseteq Ids /\ Mined' \subseteq Ids'
    BY DEF Mined
  <1>4. \A x, y \in Mined : (Before(x, y)' <=> Before(x, y)) /\ (Above(x, y)' <=> Above(x, y))
    BY <1>0 DEF Before, Above
  <1>5. \A x \in Mined, y \in Mined' \ Mined :
              Before(y, x)' /\ ~Before(x, y)' /\ Above(y, x)' /\ ~Above(x, y)'
    BY <1>0, <1>1, <1>2, <1>3 DEF Before, Above
  <1>6. \A c \in Mined : Rest(c)' = Rest(c)
    <2> SUFFICES ASSUME NEW c \in Mined, NEW a \in Owned
                 PROVE  BelowCursor(a, c)' = BelowCursor(a, c)
      BY DEF Rest
    <2>1. c # NoRow
      BY <1>3, RowsAre DEF NoRow
    <2>2. ASSUME NEW x \in BelowCursor(a, c) PROVE x \in BelowCursor(a, c)'
      BY <1>0, <1>4, <2>1, <2>2 DEF BelowCursor
    <2>3. ASSUME NEW x \in BelowCursor(a, c)' PROVE x \in BelowCursor(a, c)
      <3>1. x \in Mined' /\ a \in rows'[x].owners /\ Before(c, x)'
        BY <2>1, <2>3 DEF BelowCursor
      <3>2. x \in Mined
        BY <1>5, <3>1
      <3> QED
        BY <1>0, <1>4, <3>1, <3>2 DEF BelowCursor
    <2> QED
      BY <2>2, <2>3
  <1>7. Loaded' = Loaded
    BY <1>0 DEF Loaded
  <1>8. \A x \in Mined : x \in Paged(list)' <=> x \in Paged(list)
    BY <1>0, <1>3 DEF Paged, Matching, Touching
  <1>9. Paged(list) \subseteq Mined
    BY DEF Paged
  <1> QED
    BY <1>4, <1>5, <1>6, <1>7, <1>8, <1>9

-----------------------------------------------------------------------------
(* The pages of a client.                                                  *)

PagesTyped == page \in Seq([confirmed : SUBSET Ids, pending : SUBSET Ids])

(* One page more. *)
LEMMA PageAdded ==
  ASSUME PagesTyped, NEW P \in SUBSET Ids, NEW Q \in SUBSET Ids,
         page' = Append(page, [confirmed |-> P, pending |-> Q])
  PROVE  /\ page' \in Seq([confirmed : SUBSET Ids, pending : SUBSET Ids])
         /\ Len(page) \in Nat /\ Len(page') = Len(page) + 1 /\ page' # <<>>
         /\ DOMAIN page = 1 .. Len(page) /\ DOMAIN page' = 1 .. Len(page) + 1
         /\ \A n \in DOMAIN page : page'[n] = page[n]
         /\ page'[Len(page) + 1] = [confirmed |-> P, pending |-> Q]
         /\ Loaded' = Loaded \cup P
         /\ \A n \in DOMAIN page' : n \in DOMAIN page \/ n = Len(page) + 1
  <1> DEFINE Rec == [confirmed : SUBSET Ids, pending : SUBSET Ids]
             r == [confirmed |-> P, pending |-> Q]
  <1>1. r \in Rec
    OBVIOUS
  <1>2. page \in Seq(Rec) /\ page' = Append(page, r)
    BY DEF PagesTyped
  <1>3. /\ page' \in Seq(Rec)
        /\ Len(page) \in Nat /\ Len(page') = Len(page) + 1
        /\ DOMAIN page = 1 .. Len(page) /\ DOMAIN page' = 1 .. Len(page) + 1
        /\ \A n \in 1 .. Len(page) : page'[n] = page[n]
        /\ page'[Len(page) + 1] = r
    <2> HIDE DEF Rec, r
    <2> QED
      BY <1>1, <1>2, AppendProperties, LenProperties
  <1>4. page' # <<>>
    BY <1>3
  <1>5. \A n \in DOMAIN page' : n \in DOMAIN page \/ n = Len(page) + 1
    BY <1>3
  <1>6. page'[Len(page) + 1].confirmed = P
    BY <1>3
  <1>7. Loaded' = Loaded \cup P
    <2>1. DOMAIN page \subseteq DOMAIN page' /\ Len(page) + 1 \in DOMAIN page'
      BY <1>3
    <2>2. ASSUME NEW x \in Loaded' PROVE x \in Loaded \cup P
      <3>1. PICK n \in DOMAIN page' : x \in page'[n].confirmed
        BY <2>2 DEF Loaded
      <3> QED
        BY <1>3, <1>5, <1>6, <3>1 DEF Loaded
    <2>3. ASSUME NEW x \in Loaded \cup P PROVE x \in Loaded'
      BY <1>3, <1>6, <2>1, <2>3 DEF Loaded
    <2> QED
      BY <2>2, <2>3
  <1> QED
    BY <1>3, <1>4, <1>5, <1>7

(* While there is a next page, the rows there were at first are the loaded *)
(* ones and those below the cursor, which is the last row of the last      *)
(* page; no row is on two pages.                                           *)
CursorIsLast ==
  page # <<>> =>
    IF ended THEN Loaded = listed
    ELSE /\ after \in Loaded
         /\ listed = Loaded \cup Rest(after)
         /\ \A x \in Loaded : x = after \/ Before(x, after)

PagesApart ==
  /\ \A m, n \in DOMAIN page : m # n => page[m].confirmed \cap page[n].confirmed = {}
  /\ \A n \in DOMAIN page : page[n].pending \cap listed = {}

CursorInv == list = "wallet" => Loaded \subseteq listed /\ CursorIsLast /\ PagesApart

ListedInv == listed \subseteq Mined /\ (page = <<>> => listed = {})

(* One page more of the cursor list, the first one or a next one.          *)
LEMMA CursorPageKeeps ==
  ASSUME RowsTyped, PagesTyped, limit \in Nat \ {0}, NEW c \in Mined \cup {NoRow},
         CursorPage(c), UNCHANGED <<rows, tip, list, limit>>,
         PagesApart, listed' = Loaded \cup Rest(c), listed' \subseteq Mined,
         \A x \in Loaded, y \in Rest(c) : Before(x, y),
         \A n \in DOMAIN page : page[n].pending \cap listed' = {}
  PROVE  /\ CursorInv' /\ PagesTyped' /\ ListedInv'
         /\ after' \in Ids' \cup {NoRow} /\ total' = total /\ ended' \in BOOLEAN
  <1> DEFINE P == Top(Merged(c), limit)
             Q == IF c = NoRow THEN Pending \cap Touching(Owned) ELSE {}
             more == Cardinality(Merged(c)) > limit
  <1>1. /\ page' = Append(page, [confirmed |-> P, pending |-> Q])
        /\ after' = IF more THEN Last(P) ELSE NoRow
        /\ ended' = ~more
        /\ total' = total
    BY DEF CursorPage
  <1>2. /\ P \subseteq Rest(c)
        /\ ~more => P = Rest(c)
        /\ more => /\ Last(P) \in P
                   /\ \A x \in P : x = Last(P) \/ Before(x, Last(P))
                   /\ Rest(c) = P \cup Rest(Last(P))
    BY PageFacts
  <1>3. Mined \subseteq Ids /\ Rest(c) \subseteq Mined /\ Pending \cap Mined = {} /\ Pending \subseteq Ids
    BY RestIs DEF Pending, Mined
  <1>4. P \in SUBSET Ids /\ Q \in SUBSET Pending /\ Q \in SUBSET Ids
    BY <1>2, <1>3
  <1>41. Rest(c)' = Rest(c) /\ Mined' = Mined /\ Ids' = Ids
         /\ \A x, y : Before(x, y)' <=> Before(x, y)
         /\ Rest(Last(P))' = Rest(Last(P))
    BY DEF Rest, BelowCursor, Before, Mined, Ids, Last, Top, Merged
  <1> HIDE DEF P, Q, more
  <1>5. /\ page' \in Seq([confirmed : SUBSET Ids, pending : SUBSET Ids])
        /\ page' # <<>>
        /\ \A n \in DOMAIN page : page'[n] = page[n]
        /\ page'[Len(page) + 1] = [confirmed |-> P, pending |-> Q]
        /\ Loaded' = Loaded \cup P
        /\ \A n \in DOMAIN page' : n \in DOMAIN page \/ n = Len(page) + 1
    BY <1>1, <1>4, PageAdded
  <1>6. Loaded' \subseteq listed'
    BY <1>2, <1>5
  <1>7. CursorIsLast'
    <2>1. CASE more
      <3>1. ended' = FALSE /\ after' = Last(P)
        BY <1>1, <2>1
      <3>2. Rest(after)' = Rest(Last(P))
        BY <3>1, <1>41 DEF Rest, BelowCursor, Before, Mined, Ids
      <3>3. after' \in Loaded'
        BY <1>2, <1>5, <2>1, <3>1
      <3>4. listed' = Loaded' \cup Rest(after)'
        BY <1>2, <1>5, <2>1, <3>2
      <3>5. \A x \in Loaded' : x = after' \/ Before(x, after')
        BY <1>2, <1>5, <2>1, <3>1
      <3>6. \A x \in Loaded' : x = after' \/ Before(x, after)'
        BY <3>5 DEF Before
      <3> QED
        BY <3>1, <3>3, <3>4, <3>6 DEF CursorIsLast
    <2>2. CASE ~more
      <3>1. ended' /\ Loaded' = listed'
        BY <1>1, <1>2, <1>5, <2>2
      <3> QED
        BY <3>1 DEF CursorIsLast
    <2> QED
      BY <2>1, <2>2
  <1>8. PagesApart'
    <2>1. Loaded \cap P = {}
      <3> SUFFICES ASSUME NEW x \in Loaded, x \in P PROVE FALSE
        OBVIOUS
      <3>1. Before(x, x) /\ x \in Ids
        BY <1>2, <1>3
      <3> QED
        BY <3>1, BeforeIsOrder
    <2>2. \A n \in DOMAIN page : page[n].confirmed \subseteq Loaded
      BY DEF Loaded
    <2>3. page'[Len(page) + 1].confirmed = P /\ page'[Len(page) + 1].pending = Q
      BY <1>5
    <2>4. Q \cap listed' = {}
      BY <1>3, <1>4
    <2>5. \A m, n \in DOMAIN page' : m # n => page'[m].confirmed \cap page'[n].confirmed = {}
      <3> SUFFICES ASSUME NEW m \in DOMAIN page', NEW n \in DOMAIN page', m # n
                   PROVE  page'[m].confirmed \cap page'[n].confirmed = {}
        OBVIOUS
      <3>1. CASE m \in DOMAIN page /\ n \in DOMAIN page
        BY <1>5, <3>1 DEF PagesApart
      <3>2. CASE m \in DOMAIN page /\ n = Len(page) + 1
        BY <1>5, <2>1, <2>2, <2>3, <3>2
      <3>3. CASE n \in DOMAIN page /\ m = Len(page) + 1
        BY <1>5, <2>1, <2>2, <2>3, <3>3
      <3> QED
        BY <1>5, <3>1, <3>2, <3>3
    <2>6. \A n \in DOMAIN page' : page'[n].pending \cap listed' = {}
      BY <1>5, <2>3, <2>4
    <2> QED
      BY <2>5, <2>6 DEF PagesApart
  <1>9. after' \in Ids' \cup {NoRow} /\ ended' \in BOOLEAN
    <2>1. more => Last(P) \in Ids
      BY <1>2, <1>4
    <2> QED
      BY <1>1, <1>41, <2>1 DEF more
  <1>10. PagesTyped'
    BY <1>5, <1>41 DEF PagesTyped
  <1>11. ListedInv'
    BY <1>5, <1>41 DEF ListedInv
  <1> QED
    BY <1>1, <1>6, <1>7, <1>8, <1>9, <1>10, <1>11 DEF CursorInv

-----------------------------------------------------------------------------
(* A page of an offset list.                                               *)

(* The rows of S that come before x in any case. *)
Rank(S, x) == Cardinality({y \in S : Above(y, x)})

LEMMA MaxMin ==
  ASSUME NEW a \in Int, NEW b \in Int
  PROVE  /\ Max({a, b}) = IF a >= b THEN a ELSE b
         /\ Min({a, b}) = IF a <= b THEN a ELSE b
  BY DEF Max, Min

(* Above is a strict order of the rows. *)
LEMMA AboveIsOrder ==
  ASSUME RowsTyped
  PROVE  /\ \A x \in Ids : ~Above(x, x)
         /\ \A x, y, z \in Ids : Above(x, y) /\ Above(y, z) => Above(x, z)
  <1>1. \A x \in Ids : x \in Int /\ rows[x].height \in Nat /\ rows[x].coinbase \in BOOLEAN
    BY RowsAre, Zenon
  <1> QED
    BY <1>1 DEF Above

(* Of some rows, no other comes before one of them, nor after one of them. *)
LEMMA FirstRow ==
  ASSUME RowsTyped, NEW W \in SUBSET Ids, W # {}
  PROVE  \E x \in W : \A y \in W : ~Above(y, x)
  <1> DEFINE R == {p \in W \X W : Above(p[1], p[2])}
  <1>1. \A a, b \in W : <<a, b>> \in R <=> Above(a, b)
    OBVIOUS
  <1>2. IsFiniteSet(W)
    BY RowsAre, FS_Subset
  <1> HIDE DEF R
  <1>3. \A a, b, c \in W : <<a, b>> \in R /\ <<b, c>> \in R => <<a, c>> \in R
    BY <1>1, AboveIsOrder
  <1>4. \A a \in W : <<a, a>> \notin R
    BY <1>1, AboveIsOrder
  <1>5. \E x \in W : \A y \in W : <<y, x>> \notin R
    BY <1>2, <1>3, <1>4, MinimalExists
  <1> QED
    BY <1>1, <1>5

LEMMA LastRow ==
  ASSUME RowsTyped, NEW W \in SUBSET Ids, W # {}
  PROVE  \E x \in W : \A y \in W : ~Above(x, y)
  <1> DEFINE R == {p \in W \X W : Above(p[2], p[1])}
  <1>1. \A a, b \in W : <<a, b>> \in R <=> Above(b, a)
    OBVIOUS
  <1>2. IsFiniteSet(W)
    BY RowsAre, FS_Subset
  <1> HIDE DEF R
  <1>3. \A a, b, c \in W : <<a, b>> \in R /\ <<b, c>> \in R => <<a, c>> \in R
    BY <1>1, AboveIsOrder
  <1>4. \A a \in W : <<a, a>> \notin R
    BY <1>1, AboveIsOrder
  <1>5. \E x \in W : \A y \in W : <<y, x>> \notin R
    BY <1>2, <1>3, <1>4, MinimalExists
  <1> QED
    BY <1>1, <1>5

(* What a page must and cannot take. *)
LEMMA FitsFacts ==
  ASSUME RowsTyped, NEW S \in SUBSET Ids, NEW from \in Nat, limit \in Nat \ {0},
         NEW P \in PossiblePages(S, from), NEW x \in S
  PROVE  /\ P \subseteq S
         /\ Rank(S, x) \in Nat /\ Cardinality(Tied(S, x)) \in Nat
         /\ Tied(S, x) = {x} /\ from <= Rank(S, x) /\ Rank(S, x) < from + limit => x \in P
         /\ x \in P => Rank(S, x) < from + limit
         /\ Rank(S, x) <= from /\ from < Rank(S, x) + Cardinality(Tied(S, x)) => P # {}
  <1> DEFINE first == Rank(S, x)
             tied == Cardinality(Tied(S, x))
             beyond == first + tied
             fits == Max({0, Min({beyond, from + limit}) - Max({first, from})})
  <1>1. P \subseteq S /\ Cardinality(P \cap Tied(S, x)) = fits
    BY Zenon DEF PossiblePages, Rank
  <1>2. {y \in S : Above(y, x)} \in SUBSET Ids /\ Tied(S, x) \in SUBSET Ids
    BY DEF Tied
  <1>3. first \in Nat /\ tied \in Nat
    BY <1>2, FewerRows DEF Rank
  <1> HIDE DEF first, tied
  <1>4. beyond \in Int /\ from + limit \in Int /\ first \in Int /\ from \in Int
    BY <1>3
  <1>5. /\ Min({beyond, from + limit}) = IF beyond <= from + limit THEN beyond ELSE from + limit
        /\ Max({first, from}) = IF first >= from THEN first ELSE from
    BY <1>4, MaxMin
  <1>6. fits = LET d == (IF beyond <= from + limit THEN beyond ELSE from + limit)
                        - (IF first >= from THEN first ELSE from)
               IN  IF 0 >= d THEN 0 ELSE d
    <2> DEFINE d == (IF beyond <= from + limit THEN beyond ELSE from + limit)
                    - (IF first >= from THEN first ELSE from)
    <2>1. d \in Int
      BY <1>3
    <2>2. fits = Max({0, d})
      BY <1>5
    <2> HIDE DEF d, fits
    <2>3. fits = IF 0 >= d THEN 0 ELSE d
      BY <2>1, <2>2, MaxMin
    <2> QED
      BY <2>3 DEF d
  <1> HIDE DEF fits
  <1>7. P \cap Tied(S, x) \in SUBSET Ids
    BY <1>1
  <1>8. ASSUME Tied(S, x) = {x}, from <= first, first < from + limit
        PROVE  x \in P
    <2>1. tied = 1
      BY <1>8, FS_Singleton DEF tied
    <2>2. fits = 1
      BY <1>3, <1>6, <1>8, <2>1
    <2>3. P \cap Tied(S, x) # {}
      BY <1>1, <1>7, <2>2, FewerRows
    <2> QED
      BY <1>8, <2>3
  <1>9. ASSUME x \in P, ~(first < from + limit)
        PROVE  FALSE
    <2>1. fits = 0
      BY <1>3, <1>6, <1>9
    <2>2. x \in Tied(S, x)
      BY AboveIsOrder DEF Tied
    <2>3. P \cap Tied(S, x) = {}
      BY <1>1, <1>7, <2>1, FewerRows
    <2> QED
      BY <1>9, <2>2, <2>3
  <1>10. ASSUME first <= from, from < first + tied, P = {}
         PROVE  FALSE
    <2>1. fits >= 1
      BY <1>3, <1>6, <1>10
    <2>2. P \cap Tied(S, x) # {}
      BY <1>1, <1>7, <2>1, FewerRows
    <2> QED
      BY <1>10, <2>2
  <1> QED
    BY <1>1, <1>3, <1>8, <1>9, <1>10 DEF first, tied

(* A page that starts before the last row is not empty. *)
LEMMA NoHoleBelow ==
  ASSUME RowsTyped, NEW S \in SUBSET Ids, NEW from \in Nat, limit \in Nat \ {0},
         NEW P \in PossiblePages(S, from), NEW x \in S, Rank(S, x) > from
  PROVE  P # {}
  <1> DEFINE V == {y \in S : Rank(S, y) > from}
  <1>1. V \in SUBSET Ids /\ V # {}
    OBVIOUS
  <1>2. PICK z \in V : \A w \in V : ~Above(w, z)
    BY <1>1, FirstRow
  <1>3. z \in S /\ Rank(S, z) > from
    BY <1>2
  <1> DEFINE A == {w \in S : Above(w, z)}
  <1>4. A \in SUBSET Ids /\ Cardinality(A) > from
    BY <1>3 DEF Rank
  <1>5. A # {}
    BY <1>4, FewerRows
  <1>6. PICK y \in A : \A w \in A : ~Above(y, w)
    BY <1>4, <1>5, LastRow
  <1>7. y \in S /\ y \notin V
    BY <1>2, <1>6
  <1> DEFINE F == {w \in S : Above(w, y)}
  <1>8. A \subseteq F \cup Tied(S, y)
    BY <1>6 DEF Tied
  <1>9. F \in SUBSET Ids /\ Tied(S, y) \in SUBSET Ids
    BY DEF Tied
  <1>10. IsFiniteSet(F) /\ IsFiniteSet(Tied(S, y)) /\ IsFiniteSet(F \cup Tied(S, y))
    <2>1. F \cup Tied(S, y) \in SUBSET Ids
      BY <1>9
    <2> QED
      BY <1>9, <2>1, FewerRows
  <1>11. F \cap Tied(S, y) = {}
    BY DEF Tied
  <1>12. Cardinality(F \cup Tied(S, y)) = Cardinality(F) + Cardinality(Tied(S, y))
    <2> HIDE DEF F
    <2>1. Cardinality(F \cap Tied(S, y)) = 0
      BY <1>11, FS_EmptySet
    <2>2. Cardinality(F \cup Tied(S, y)) =
            Cardinality(F) + Cardinality(Tied(S, y)) - Cardinality(F \cap Tied(S, y))
      BY <1>10, FS_Union
    <2>3. Cardinality(F) \in Nat /\ Cardinality(Tied(S, y)) \in Nat
      BY <1>10, FS_CardinalityType
    <2> QED
      BY <2>1, <2>2, <2>3
  <1>13. Cardinality(A) <= Cardinality(F \cup Tied(S, y)) /\ Cardinality(A) \in Nat
         /\ Cardinality(F \cup Tied(S, y)) \in Nat
    BY <1>8, <1>9, FewerRows
  <1>14. Rank(S, y) = Cardinality(F)
    BY DEF Rank
  <1>15. Rank(S, y) \in Nat /\ Cardinality(Tied(S, y)) \in Nat
    BY <1>7, FitsFacts
  <1>16. ~(Rank(S, y) > from)
    BY <1>7
  <1> HIDE DEF A, F, V
  <1>17. Rank(S, y) <= from /\ from < Rank(S, y) + Cardinality(Tied(S, y))
    BY <1>4, <1>12, <1>13, <1>14, <1>15, <1>16
  <1> QED
    BY <1>7, <1>17, FitsFacts

(* Rows that were confirmed since come before those of L. *)
FreshTo(L) == \A x \in L, y \in Paged(list) \ L : Above(y, x) /\ ~Above(x, y)

(* The pages hold what came within their number of rows: a row sinks as    *)
(* blocks arrive and never rises.                                          *)
RankLoaded(L) ==
  \A x \in L : Tied(L, x) = {x} /\ Rank(Paged(list), x) < Len(page) * limit => x \in Loaded

TiesOnly(L) == \A x \in L, y \in Loaded : Above(x, y) => x \in Loaded \/ Tied(L, x) # {x}

OffsetInv ==
  list # "wallet" =>
    /\ listed \subseteq Paged(list) /\ Loaded \subseteq Mined
    /\ FreshTo(listed) /\ RankLoaded(listed) /\ TiesOnly(listed)
    /\ EndIsTheEnd

(* One page more of an offset list, the first one or a next one: L is what *)
(* there was when the list was opened.                                     *)
LEMMA OffsetPageKeeps ==
  ASSUME RowsTyped, PagesTyped, limit \in Nat \ {0},
         NEW L \in SUBSET Paged(list), FreshTo(L), RankLoaded(L), TiesOnly(L),
         Loaded \subseteq Mined,
         OffsetPage(Len(page) + 1), ended' = ~HasNextPage(Len(page) + 1, total'),
         listed' = L, UNCHANGED <<rows, tip, list, limit>>
  PROVE  /\ OffsetInv' /\ PagesTyped' /\ ListedInv'
         /\ after' = after /\ total' \in Int /\ ended' \in BOOLEAN
  <1> DEFINE S == Paged(list)
             m == Len(page)
             from == FromRank(m + 1)
             Q == IF m + 1 = 1 /\ list = "address" THEN Pending \cap Matching(list) ELSE {}
  <1>1. PICK P \in PossiblePages(S, from) :
          /\ page' = Append(page, [confirmed |-> P, pending |-> Q])
          /\ \E t \in Totals : total' = IF P \cup Q = {} THEN -1 ELSE t
    BY DEF OffsetPage
  <1>2. /\ S \in SUBSET Ids /\ S \subseteq Mined /\ Q \in SUBSET Ids
        /\ \A x \in S : x \in Ids
    BY DEF Paged, Mined, Pending
  <1>3. m \in Nat
    BY LenProperties DEF PagesTyped
  <1>4. from = m * limit /\ from \in Nat /\ (m + 1) * limit = from + limit
    <2> HIDE DEF m
    <2>1. (m + 1) - 1 = m
      BY <1>3
    <2>2. (m + 1) * limit = m * limit + limit /\ m * limit \in Nat
      BY <1>3
    <2> QED
      BY <2>1, <2>2 DEF FromRank
  <1>5. P \subseteq S
    BY DEF PossiblePages
  <1>6. /\ S' = S
        /\ \A x, y : Above(x, y)' <=> Above(x, y)
        /\ \A x : Rank(S, x)' = Rank(S, x) /\ Tied(L, x)' = Tied(L, x)
        /\ Ids' = Ids /\ Mined' = Mined /\ limit' = limit
    BY DEF Above, Rank, Tied, Paged, Matching, Touching, Mined, Ids
  <1> HIDE DEF S, from, Q
  <1>7. /\ page' \in Seq([confirmed : SUBSET Ids, pending : SUBSET Ids])
        /\ Len(page') = m + 1 /\ page' # <<>>
        /\ Loaded' = Loaded \cup P
    BY <1>1, <1>2, <1>5, PageAdded
  <1>8. \A x \in S : Rank(S, x) \in Nat /\ (x \in P => Rank(S, x) < from + limit)
    BY <1>1, <1>2, <1>4, FitsFacts
  <1>9. ASSUME NEW x \in L, Tied(L, x) = {x}, Rank(S, x) < from + limit
        PROVE  x \in Loaded'
    <2>1. x \in S
      BY DEF S
    <2>2. Tied(S, x) = {x}
      <3>1. x \in Tied(S, x)
        BY <1>2, <2>1, AboveIsOrder DEF Tied
      <3>2. ASSUME NEW y \in Tied(S, x) PROVE y = x
        <4>1. CASE y \in L
          BY <1>9, <4>1 DEF Tied
        <4>2. CASE y \notin L
          BY <4>2 DEF FreshTo, Tied, S
        <4> QED
          BY <4>1, <4>2
      <3> QED
        BY <3>1, <3>2
    <2>3. CASE Rank(S, x) < from
      <3>1. x \in Loaded
        BY <1>4, <1>9, <2>3 DEF RankLoaded, S
      <3> QED
        BY <1>7, <3>1
    <2>4. CASE ~(Rank(S, x) < from)
      <3>1. from <= Rank(S, x)
        BY <1>4, <1>8, <2>1, <2>4
      <3>2. x \in P
        BY <1>1, <1>2, <1>4, <1>9, <2>1, <2>2, <3>1, FitsFacts
      <3> QED
        BY <1>7, <3>2
    <2> QED
      BY <2>3, <2>4
  <1>10. RankLoaded(listed)'
    <2> SUFFICES ASSUME NEW x \in listed', Tied(listed, x)' = {x},
                        Rank(Paged(list), x)' < Len(page') * limit'
                 PROVE  x \in Loaded'
      BY DEF RankLoaded
    <2>1. Tied(L, x) = {x} /\ x \in L
      BY <1>6 DEF Tied
    <2>2. Rank(S, x) < from + limit
      BY <1>4, <1>6, <1>7 DEF S, Rank
    <2> QED
      BY <1>9, <2>1, <2>2
  <1>11. TiesOnly(listed)'
    <2> SUFFICES ASSUME NEW x \in listed', NEW y \in Loaded', Above(x, y)', x \notin Loaded',
                        Tied(listed, x)' = {x}
                 PROVE  FALSE
      BY DEF TiesOnly
    <2>1. Tied(L, x) = {x} /\ x \in L /\ x \in S /\ Above(x, y)
      BY <1>6 DEF Tied, S
    <2>2. y \notin Loaded
      BY <1>7, <2>1 DEF TiesOnly
    <2>3. y \in P /\ y \in S
      BY <1>5, <1>7, <2>2
    <2>4. {z \in S : Above(z, x)} \subseteq {z \in S : Above(z, y)}
      BY <1>2, <2>1, <2>3, AboveIsOrder
    <2>5. Rank(S, x) <= Rank(S, y)
      <3>1. {z \in S : Above(z, y)} \in SUBSET Ids
        BY <1>2
      <3> QED
        BY <2>4, <3>1, FewerRows DEF Rank
    <2>6. Rank(S, x) < from + limit
      BY <1>4, <1>8, <2>1, <2>3, <2>5
    <2> QED
      BY <1>9, <2>1, <2>6
  <1>12. FreshTo(listed)' /\ listed' \subseteq Paged(list)' /\ Loaded' \subseteq Mined'
    BY <1>2, <1>5, <1>6, <1>7 DEF FreshTo, S
  <1>13. total' \in Int
    <2>1. Cardinality(S) \in Nat
      BY <1>2, FewerRows
    <2>2. Totals \subseteq Int
      BY <2>1, ListAssumption DEF Totals, S
    <2> QED
      BY <1>1, <2>2
  <1>14. EndIsTheEnd'
    <2> SUFFICES ASSUME list' \in {"address", "masternode"}, ended', NEW x \in listed',
                        Tied(listed, x)' = {x}
                 PROVE  x \in Loaded'
      BY DEF EndIsTheEnd, HasTies
    <2>1. Tied(L, x) = {x} /\ x \in L /\ x \in S
      BY <1>6 DEF Tied, S
    <2>2. ~(from + limit < total')
      BY <1>4 DEF HasNextPage
    <2>3. Rank(S, x) < from + limit
      <3>1. CASE P = {}
        <4>1. ~(Rank(S, x) > from)
          BY <1>1, <1>2, <1>4, <2>1, <3>1, NoHoleBelow
        <4> QED
          BY <1>4, <1>8, <2>1, <4>1
      <3>2. CASE P # {}
        <4>1. total' = Cardinality(S)
          BY <1>1, <3>2 DEF Totals, S
        <4>2. {z \in S : Above(z, x)} \subseteq S /\ {z \in S : Above(z, x)} # S
          BY <1>2, <2>1, AboveIsOrder
        <4>3. Rank(S, x) <= Cardinality(S) /\ Rank(S, x) # Cardinality(S)
              /\ Cardinality(S) \in Nat
          BY <1>2, <4>2, FewerRows DEF Rank
        <4> QED
          BY <1>4, <1>8, <1>13, <2>1, <2>2, <4>1, <4>3
      <3> QED
        BY <3>1, <3>2
    <2> QED
      BY <1>9, <2>1, <2>3
  <1>15. PagesTyped'
    BY <1>6, <1>7 DEF PagesTyped
  <1>16. ListedInv'
    BY <1>2, <1>6, <1>7 DEF ListedInv, S
  <1> QED
    BY <1>10, <1>11, <1>12, <1>13, <1>14, <1>15, <1>16 DEF OffsetInv, OffsetPage, HasNextPage

-----------------------------------------------------------------------------
(* The invariant.                                                          *)

ListInv == ListTypeOK /\ HeightInv /\ ListedInv /\ CursorInv /\ OffsetInv

LEMMA TypesAre ==
  ListTypeOK <=> /\ RowsTyped /\ PagesTyped
                 /\ tip \in 0 .. MaxTip /\ list \in Lists /\ limit \in Limits
                 /\ after \in Ids \cup {NoRow} /\ total \in Int
                 /\ ended \in BOOLEAN /\ listed \in SUBSET Ids
  BY DEF ListTypeOK, RowsTyped, PagesTyped

LEMMA FiniteNow == RowsTyped => IsFiniteSet(Ids)
  BY RowsAre

LEMMA FiniteNext == RowsTyped' => IsFiniteSet(Ids')
  <1>1. (RowsTyped => IsFiniteSet(Ids))'
    BY FiniteNow, PTL
  <1> QED
    BY <1>1

LEMMA ListInitHolds == ListInit => ListInv
  <1> SUFFICES ASSUME ListInit PROVE ListInv
    OBVIOUS
  <1>1. rows = <<>> /\ Ids = {} /\ page = <<>> /\ DOMAIN page = {} /\ listed = {} /\ Loaded = {}
    BY DEF ListInit, Ids, Loaded
  <1>2. rows \in Seq([height : 0 .. MaxTip, coinbase : BOOLEAN, owners : OwnerSets])
    BY <1>1
  <1>3. page \in Seq([confirmed : SUBSET Ids, pending : SUBSET Ids])
    BY <1>1
  <1>4. 0 \in 0 .. MaxTip
    BY ListAssumption
  <1>5. ListTypeOK /\ HeightInv
    <2>1. RowsTyped /\ PagesTyped
      BY <1>2, <1>3 DEF RowsTyped, PagesTyped
    <2>2. HeightInv
      BY <1>1, <1>4 DEF HeightInv, ListInit
    <2>3. /\ tip \in 0 .. MaxTip /\ list \in Lists /\ limit \in Limits
          /\ after \in Ids \cup {NoRow} /\ total \in Int
          /\ ended \in BOOLEAN /\ listed \in SUBSET Ids
      <3>1. /\ tip = 0 /\ list \in Lists /\ limit \in Limits /\ after = NoRow
            /\ total = -1 /\ ended = FALSE /\ listed = {}
        BY DEF ListInit
      <3>2. total \in Int
        BY <3>1
      <3> QED
        BY <1>4, <3>1, <3>2
    <2> QED
      BY <2>1, <2>2, <2>3, TypesAre
  <1>6. ListedInv /\ CursorInv
    BY <1>1 DEF ListedInv, CursorInv, CursorIsLast, PagesApart
  <1>7. OffsetInv
    BY <1>1 DEF OffsetInv, FreshTo, RankLoaded, TiesOnly, EndIsTheEnd
  <1> QED
    BY <1>5, <1>6, <1>7 DEF ListInv

(* New rows come before the first page, and below no cursor.               *)
LEMMA IndexingKeeps == ListInv /\ Indexing => ListInv'
  <1> SUFFICES ASSUME ListInv, Indexing PROVE ListInv'
    OBVIOUS
  <1>1. RowsTyped /\ PagesTyped /\ HeightInv /\ listed \subseteq Mined
    BY TypesAre DEF ListInv, ListedInv
  <1>2. /\ RowsTyped' /\ HeightInv'
        /\ Ids \subseteq Ids'
        /\ \A x \in Mined : x \in Mined' /\ rows'[x] = rows[x]
        /\ UNCHANGED <<list, limit, page, after, total, ended, listed>>
    BY <1>1, IndexingGrows
  <1>3. /\ \A x, y \in Mined : (Before(x, y)' <=> Before(x, y)) /\ (Above(x, y)' <=> Above(x, y))
        /\ \A x \in Mined, y \in Mined' \ Mined :
              Before(y, x)' /\ ~Before(x, y)' /\ Above(y, x)' /\ ~Above(x, y)'
        /\ \A c \in Mined : Rest(c)' = Rest(c)
        /\ Loaded' = Loaded
        /\ Paged(list) \subseteq Paged(list)'
        /\ \A y \in Paged(list)' : y \in Mined => y \in Paged(list)
    BY <1>1, IndexingKeepsOrder
  <1>4. ListTypeOK'
    <2>1. PagesTyped'
      <3> DEFINE A == [confirmed : SUBSET Ids, pending : SUBSET Ids]
                 B == [confirmed : SUBSET Ids', pending : SUBSET Ids']
      <3>1. A \subseteq B
        BY <1>2
      <3>2. page \in Seq(A) /\ page' = page
        BY <1>1, <1>2 DEF PagesTyped
      <3> HIDE DEF A, B
      <3>3. page' \in Seq(B)
        BY <3>1, <3>2
      <3> QED
        BY <3>3 DEF PagesTyped, B
    <2>2. tip' \in 0 .. MaxTip
      BY <1>2 DEF HeightInv
    <2>3. /\ list' \in Lists /\ limit' \in Limits
          /\ after' \in Ids' \cup {NoRow} /\ total' \in Int
          /\ ended' \in BOOLEAN /\ listed' \in SUBSET Ids'
      BY <1>2, TypesAre DEF ListInv
    <2> QED
      BY <1>2, <2>1, <2>2, <2>3 DEF ListTypeOK, RowsTyped, PagesTyped
  <1>5. ListedInv'
    BY <1>1, <1>2 DEF ListInv, ListedInv
  <1>6. CursorInv'
    <2> SUFFICES ASSUME list = "wallet" PROVE Loaded' \subseteq listed' /\ CursorIsLast' /\ PagesApart'
      BY <1>2 DEF CursorInv
    <2>1. Loaded \subseteq listed /\ CursorIsLast /\ PagesApart
      BY DEF ListInv, CursorInv
    <2>2. PagesApart'
      BY <1>2, <2>1 DEF PagesApart
    <2>3. CursorIsLast'
      <3>1. CASE page = <<>> \/ ended
        BY <1>2, <1>3, <2>1, <3>1 DEF CursorIsLast
      <3>2. CASE page # <<>> /\ ~ended
        <4>1. /\ after \in Loaded /\ after \in Mined /\ Loaded \subseteq Mined
              /\ listed = Loaded \cup Rest(after)
              /\ \A x \in Loaded : x = after \/ Before(x, after)
          BY <1>1, <2>1, <3>2 DEF CursorIsLast
        <4>2. Rest(after)' = Rest(after)
          <5>1. \A c \in Mined : c = after => Rest(c)' = Rest(after)'
            BY <1>2 DEF Rest, BelowCursor, Before
          <5> QED
            BY <1>3, <4>1, <5>1
        <4>3. \A x \in Mined : Before(x, after)' <=> Before(x, after)
          BY <1>2, <4>1 DEF Before
        <4> QED
          BY <1>2, <1>3, <3>2, <4>1, <4>2, <4>3 DEF CursorIsLast
      <3> QED
        BY <3>1, <3>2
    <2> QED
      BY <1>2, <1>3, <2>1, <2>2, <2>3
  <1>7. OffsetInv'
    <2> SUFFICES ASSUME list # "wallet"
                 PROVE  /\ listed' \subseteq Paged(list)' /\ Loaded' \subseteq Mined'
                        /\ FreshTo(listed)' /\ RankLoaded(listed)' /\ TiesOnly(listed)'
                        /\ EndIsTheEnd'
      BY <1>2 DEF OffsetInv
    <2>1. /\ listed \subseteq Paged(list) /\ Loaded \subseteq Mined
          /\ FreshTo(listed) /\ RankLoaded(listed) /\ TiesOnly(listed)
          /\ EndIsTheEnd
      BY DEF ListInv, OffsetInv
    <2>2. FreshTo(listed)'
      <3> SUFFICES ASSUME NEW x \in listed, NEW y \in Paged(list)', y \notin listed
                   PROVE  Above(y, x)' /\ ~Above(x, y)'
        BY <1>2 DEF FreshTo
      <3>1. CASE y \in Mined
        <4>1. Above(y, x) /\ ~Above(x, y)
          BY <1>3, <2>1, <3>1 DEF FreshTo
        <4> QED
          BY <1>1, <1>3, <3>1, <4>1
      <3>2. CASE y \notin Mined
        <4>1. y \in Mined' \ Mined
          BY <3>2 DEF Paged
        <4> QED
          BY <1>1, <1>3, <4>1
      <3> QED
        BY <3>1, <3>2
    <2>3. ASSUME NEW x \in listed
          PROVE  Tied(listed, x)' = Tied(listed, x)
      <3>1. \A y \in listed : (Above(y, x)' <=> Above(y, x)) /\ (Above(x, y)' <=> Above(x, y))
        BY <1>1, <1>3
      <3> QED
        BY <1>2, <3>1 DEF Tied
    <2>4. ASSUME NEW x \in listed
          PROVE  /\ Rank(Paged(list), x) \in Nat /\ Rank(Paged(list), x)' \in Nat
                 /\ Rank(Paged(list), x) <= Rank(Paged(list), x)'
      <3> DEFINE A == {y \in Paged(list) : Above(y, x)}
                 B == {y \in Paged(list)' : Above(y, x)'}
      <3>1. A \subseteq B
        <4>1. Paged(list) \subseteq Mined /\ x \in Mined
          BY <1>1 DEF Paged
        <4> QED
          BY <1>3, <4>1
      <3>2. IsFiniteSet(Ids') /\ B \subseteq Ids'
        BY <1>2, FiniteNext DEF Paged, Mined
      <3>3. IsFiniteSet(B)
        BY <3>2, FS_Subset
      <3>4. IsFiniteSet(A) /\ Cardinality(A) <= Cardinality(B)
        BY <3>1, <3>3, FS_Subset
      <3>5. Cardinality(A) \in Nat /\ Cardinality(B) \in Nat
        BY <3>3, <3>4, FS_CardinalityType
      <3>6. Rank(Paged(list), x) = Cardinality(A) /\ Rank(Paged(list), x)' = Cardinality(B)
        BY DEF Rank
      <3> QED
        BY <3>4, <3>5, <3>6
    <2>5. RankLoaded(listed)'
      <3> SUFFICES ASSUME NEW x \in listed, Tied(listed, x)' = {x},
                          Rank(Paged(list), x)' < Len(page) * limit
                   PROVE  x \in Loaded
        BY <1>2, <1>3 DEF RankLoaded
      <3>1. Len(page) * limit \in Int
        <4>1. Len(page) \in Nat /\ limit \in Nat
          BY <1>1, LenProperties, ListAssumption DEF PagesTyped, ListInv, ListTypeOK
        <4> QED
          BY <4>1
      <3>2. Rank(Paged(list), x) < Len(page) * limit
        BY <2>4, <3>1
      <3> QED
        BY <2>1, <2>3, <3>2 DEF RankLoaded
    <2>6. TiesOnly(listed)'
      <3> SUFFICES ASSUME NEW x \in listed, NEW y \in Loaded, Above(x, y)', x \notin Loaded
                   PROVE  Tied(listed, x)' # {x}
        BY <1>2, <1>3 DEF TiesOnly
      <3>1. y \in Mined
        BY <2>1
      <3> QED
        BY <1>1, <1>3, <2>1, <2>3, <3>1 DEF TiesOnly
    <2>7. EndIsTheEnd'
      BY <1>2, <1>3, <2>1, <2>3 DEF EndIsTheEnd, HasTies
    <2> QED
      BY <1>2, <1>3, <2>1, <2>2, <2>5, <2>6, <2>7
  <1> QED
    BY <1>2, <1>4, <1>5, <1>6, <1>7 DEF ListInv

LEMMA FirstCursorPageKeeps == ListInv /\ FirstCursorPage => ListInv'
  <1> SUFFICES ASSUME ListInv, FirstCursorPage PROVE ListInv'
    OBVIOUS
  <1>1. /\ RowsTyped /\ PagesTyped /\ HeightInv /\ ListedInv /\ limit \in Nat \ {0}
        /\ tip \in 0 .. MaxTip /\ list \in Lists /\ limit \in Limits /\ total \in Int
    BY TypesAre, ListAssumption DEF ListInv
  <1>2. list = "wallet" /\ page = <<>> /\ ~ended /\ UNCHANGED <<rows, tip, list, limit>>
    BY DEF FirstCursorPage
  <1>3. DOMAIN page = {} /\ Loaded = {} /\ listed = {}
    BY <1>1, <1>2 DEF Loaded, ListedInv
  <1>4. RowsTyped' /\ HeightInv' /\ Mined' = Mined /\ Ids' = Ids
    BY <1>1, <1>2 DEF RowsTyped, HeightInv, Mined, Ids
  <1>5. PICK c \in Ids \cup {NoRow} :
          \/ c \in Pending /\ ended' = TRUE /\ UNCHANGED <<page, after, total, listed>>
          \/ c \notin Pending /\ CursorPage(c) /\ listed' = Rest(c)
    BY DEF FirstCursorPage, Rest
  <1>6. CASE c \in Pending /\ ended' = TRUE /\ UNCHANGED <<page, after, total, listed>>
    <2>1. ListTypeOK'
      BY <1>2, <1>4, <1>6 DEF ListInv, ListTypeOK, RowsTyped
    <2>2. ListedInv'
      BY <1>1, <1>4, <1>6 DEF ListedInv
    <2>3. Loaded' = Loaded
      BY <1>6 DEF Loaded
    <2>4. CursorInv'
      BY <1>2, <1>3, <1>6, <2>3 DEF CursorInv, CursorIsLast, PagesApart
    <2>5. OffsetInv'
      BY <1>2 DEF OffsetInv
    <2> QED
      BY <1>4, <2>1, <2>2, <2>4, <2>5 DEF ListInv
  <1>7. CASE c \notin Pending /\ CursorPage(c) /\ listed' = Rest(c)
    <2>1. c \in Mined \cup {NoRow}
      BY <1>7 DEF Pending
    <2>2. /\ CursorInv' /\ PagesTyped' /\ ListedInv'
          /\ after' \in Ids' \cup {NoRow} /\ total' = total /\ ended' \in BOOLEAN
      <3>1. listed' = Loaded \cup Rest(c) /\ listed' \subseteq Mined
        BY <1>1, <1>3, <1>7, RestIs
      <3>2. PagesApart /\ (\A x \in Loaded, y \in Rest(c) : Before(x, y))
            /\ \A n \in DOMAIN page : page[n].pending \cap listed' = {}
        BY <1>3 DEF PagesApart
      <3> QED
        BY <1>1, <1>2, <1>7, <2>1, <3>1, <3>2, CursorPageKeeps
    <2>3. OffsetInv'
      BY <1>2 DEF OffsetInv
    <2>4. ListTypeOK'
      <3>1. listed' \in SUBSET Ids'
        BY <2>2 DEF ListedInv, Mined
      <3> QED
        BY <1>1, <1>2, <1>4, <2>2, <3>1 DEF ListTypeOK, RowsTyped, PagesTyped
    <2> QED
      BY <1>4, <2>2, <2>3, <2>4 DEF ListInv
  <1> QED
    BY <1>5, <1>6, <1>7

LEMMA NextCursorPageKeeps == ListInv /\ NextCursorPage => ListInv'
  <1> SUFFICES ASSUME ListInv, NextCursorPage PROVE ListInv'
    OBVIOUS
  <1>1. /\ RowsTyped /\ PagesTyped /\ HeightInv /\ ListedInv /\ limit \in Nat \ {0}
        /\ tip \in 0 .. MaxTip /\ list \in Lists /\ limit \in Limits /\ total \in Int
    BY TypesAre, ListAssumption DEF ListInv
  <1>2. /\ list = "wallet" /\ page # <<>> /\ ~ended /\ CursorPage(after)
        /\ UNCHANGED <<rows, tip, list, limit, listed>>
    BY DEF NextCursorPage
  <1>3. RowsTyped' /\ HeightInv' /\ Mined' = Mined /\ Ids' = Ids
    BY <1>1, <1>2 DEF RowsTyped, HeightInv, Mined, Ids
  <1>4. Loaded \subseteq listed /\ CursorIsLast /\ PagesApart
    BY <1>2 DEF ListInv, CursorInv
  <1>5. /\ after \in Loaded /\ after \in Mined /\ listed = Loaded \cup Rest(after)
        /\ \A x \in Loaded : x = after \/ Before(x, after)
    BY <1>1, <1>2, <1>4 DEF CursorIsLast, ListedInv
  <1>6. \A x \in Loaded, y \in Rest(after) : Before(x, y)
    <2> SUFFICES ASSUME NEW x \in Loaded, NEW y \in Rest(after) PROVE Before(x, y)
      OBVIOUS
    <2>1. y \in Mined /\ Mined \subseteq Ids
      BY <1>1, RestIs
    <2>2. x \in Ids /\ y \in Ids /\ after \in Ids
      BY <1>1, <1>4, <1>5, <2>1 DEF ListedInv
    <2>3. after # NoRow
      BY <1>1, <2>2, RowsAre DEF NoRow
    <2>4. Before(after, y)
      BY <1>1, <2>1, <2>3, RestIs
    <2> QED
      BY <1>1, <1>5, <2>2, <2>4, BeforeIsOrder
  <1>7. /\ CursorInv' /\ PagesTyped' /\ ListedInv'
        /\ after' \in Ids' \cup {NoRow} /\ total' = total /\ ended' \in BOOLEAN
    <2>1. listed' = Loaded \cup Rest(after) /\ listed' \subseteq Mined
      BY <1>1, <1>2, <1>5 DEF ListedInv
    <2>2. \A n \in DOMAIN page : page[n].pending \cap listed' = {}
      BY <1>2, <1>4 DEF PagesApart
    <2>3. after \in Mined \cup {NoRow}
      BY <1>5
    <2> QED
      BY <1>1, <1>2, <1>4, <1>6, <2>1, <2>2, <2>3, CursorPageKeeps
  <1>8. OffsetInv'
    BY <1>2 DEF OffsetInv
  <1>9. ListTypeOK'
    <2>1. listed' \in SUBSET Ids'
      BY <1>7 DEF ListedInv, Mined
    <2> QED
      BY <1>1, <1>2, <1>3, <1>7, <2>1 DEF ListTypeOK, RowsTyped, PagesTyped
  <1> QED
    BY <1>3, <1>7, <1>8, <1>9 DEF ListInv

LEMMA FirstOffsetPageKeeps == ListInv /\ FirstOffsetPage => ListInv'
  <1> SUFFICES ASSUME ListInv, FirstOffsetPage PROVE ListInv'
    OBVIOUS
  <1>1. /\ RowsTyped /\ PagesTyped /\ HeightInv /\ ListedInv /\ limit \in Nat \ {0}
        /\ tip \in 0 .. MaxTip /\ list \in Lists /\ limit \in Limits
        /\ after \in Ids \cup {NoRow}
    BY TypesAre, ListAssumption DEF ListInv
  <1>2. /\ list # "wallet" /\ page = <<>> /\ OffsetPage(1) /\ ended' = ~HasNextPage(1, total')
        /\ listed' = Paged(list) /\ UNCHANGED <<rows, tip, list, limit>>
    BY DEF FirstOffsetPage
  <1>3. DOMAIN page = {} /\ Len(page) = 0 /\ Loaded = {}
    BY <1>1, <1>2 DEF Loaded
  <1>4. RowsTyped' /\ HeightInv' /\ Ids' = Ids
    BY <1>1, <1>2 DEF RowsTyped, HeightInv, Ids
  <1>5. FreshTo(Paged(list)) /\ TiesOnly(Paged(list))
    BY <1>3 DEF FreshTo, TiesOnly
  <1>6. RankLoaded(Paged(list))
    <2> SUFFICES ASSUME NEW x \in Paged(list) PROVE ~(Rank(Paged(list), x) < Len(page) * limit)
      BY DEF RankLoaded
    <2>1. Rank(Paged(list), x) \in Nat
      <3>1. {y \in Paged(list) : Above(y, x)} \in SUBSET Ids
        BY DEF Paged, Mined
      <3> QED
        BY <1>1, <3>1, FewerRows DEF Rank
    <2> QED
      BY <1>1, <1>3, <2>1
  <1>7. Len(page) + 1 = 1
    BY <1>3
  <1>8. /\ OffsetInv' /\ PagesTyped' /\ ListedInv'
        /\ after' = after /\ total' \in Int /\ ended' \in BOOLEAN
    BY <1>1, <1>2, <1>3, <1>5, <1>6, <1>7, OffsetPageKeeps
  <1>9. CursorInv'
    BY <1>2 DEF CursorInv
  <1>10. ListTypeOK'
    <2>1. listed' \in SUBSET Ids'
      BY <1>8 DEF ListedInv, Mined
    <2> QED
      BY <1>1, <1>2, <1>4, <1>8, <2>1 DEF ListTypeOK, RowsTyped, PagesTyped
  <1> QED
    BY <1>4, <1>8, <1>9, <1>10 DEF ListInv

LEMMA NextOffsetPageKeeps == ListInv /\ NextOffsetPage => ListInv'
  <1> SUFFICES ASSUME ListInv, NextOffsetPage PROVE ListInv'
    OBVIOUS
  <1>1. /\ RowsTyped /\ PagesTyped /\ HeightInv /\ ListedInv /\ limit \in Nat \ {0}
        /\ tip \in 0 .. MaxTip /\ list \in Lists /\ limit \in Limits
        /\ after \in Ids \cup {NoRow}
    BY TypesAre, ListAssumption DEF ListInv
  <1>2. /\ list # "wallet" /\ OffsetPage(Len(page) + 1)
        /\ ended' = ~HasNextPage(Len(page) + 1, total')
        /\ UNCHANGED <<rows, tip, list, limit, listed>>
    BY DEF NextOffsetPage
  <1>3. RowsTyped' /\ HeightInv' /\ Ids' = Ids
    BY <1>1, <1>2 DEF RowsTyped, HeightInv, Ids
  <1>4. /\ listed \in SUBSET Paged(list) /\ Loaded \subseteq Mined
        /\ FreshTo(listed) /\ RankLoaded(listed) /\ TiesOnly(listed)
    BY <1>2 DEF ListInv, OffsetInv
  <1>5. /\ OffsetInv' /\ PagesTyped' /\ ListedInv'
        /\ after' = after /\ total' \in Int /\ ended' \in BOOLEAN
    BY <1>1, <1>2, <1>4, OffsetPageKeeps
  <1>6. CursorInv'
    BY <1>2 DEF CursorInv
  <1>7. ListTypeOK'
    <2>1. listed' \in SUBSET Ids'
      BY <1>5 DEF ListedInv, Mined
    <2> QED
      BY <1>1, <1>2, <1>3, <1>5, <2>1 DEF ListTypeOK, RowsTyped, PagesTyped
  <1> QED
    BY <1>3, <1>5, <1>6, <1>7 DEF ListInv

LEMMA ListStutters == ListInv /\ UNCHANGED listVars => ListInv'
  <1> SUFFICES ASSUME ListInv, UNCHANGED listVars PROVE ListInv'
    OBVIOUS
  <1>1. UNCHANGED <<rows, tip, list, limit, page, after, total, ended, listed>>
    BY DEF listVars
  <1>2. /\ Ids' = Ids /\ Mined' = Mined /\ Loaded' = Loaded /\ Paged(list)' = Paged(list)
        /\ Rest(after)' = Rest(after)
        /\ \A x, y : (Before(x, y)' <=> Before(x, y)) /\ (Above(x, y)' <=> Above(x, y))
    BY <1>1 DEF Ids, Mined, Loaded, Paged, Matching, Touching, Rest, BelowCursor, Before, Above
  <1>3. \A x : Tied(listed, x)' = Tied(listed, x) /\ Rank(Paged(list), x)' = Rank(Paged(list), x)
    BY <1>1 DEF Tied, Rank, Above, Paged, Matching, Touching, Mined, Ids
  <1>4. ListTypeOK' /\ HeightInv' /\ ListedInv'
    BY <1>1, <1>2 DEF ListInv, ListTypeOK, HeightInv, ListedInv
  <1>5. CursorInv'
    <2>1. \A x : Before(x, after)' <=> Before(x, after)
      BY <1>1 DEF Before
    <2> QED
      BY <1>1, <1>2, <2>1 DEF ListInv, CursorInv, CursorIsLast, PagesApart
  <1>6. OffsetInv'
    <2>1. EndIsTheEnd' <=> EndIsTheEnd
      BY <1>1, <1>2, <1>3 DEF EndIsTheEnd, HasTies
    <2>2. FreshTo(listed)' <=> FreshTo(listed)
      BY <1>1, <1>2 DEF FreshTo
    <2>3. RankLoaded(listed)' <=> RankLoaded(listed)
      BY <1>1, <1>2, <1>3 DEF RankLoaded
    <2>4. TiesOnly(listed)' <=> TiesOnly(listed)
      BY <1>1, <1>2, <1>3 DEF TiesOnly
    <2> QED
      BY <1>1, <1>2, <2>1, <2>2, <2>3, <2>4 DEF ListInv, OffsetInv
  <1> QED
    BY <1>4, <1>5, <1>6 DEF ListInv

(* Every step of a list keeps the invariant.                               *)
LEMMA ListStepKeeps == ListInv /\ [ListNext]_listVars => ListInv'
  BY IndexingKeeps, FirstCursorPageKeeps, NextCursorPageKeeps, FirstOffsetPageKeeps,
     NextOffsetPageKeeps, ListStutters DEF ListNext, Indexing

(* A cursor walk is in order because the page ends where the cursor is and *)
(* everything else comes later.                                            *)
LEMMA CursorInvShows == ListInv => CursorWalkIsExact
  <1> SUFFICES ASSUME ListInv, list = "wallet"
               PROVE  /\ \A m, n \in DOMAIN page : m # n =>
                            page[m].confirmed \cap (page[n].confirmed \cup page[n].pending) = {}
                      /\ Loaded \subseteq listed
                      /\ \A x \in listed, y \in Loaded : Before(x, y) => x \in Loaded
                      /\ ended /\ page # <<>> => Loaded = listed
    BY DEF CursorWalkIsExact
  <1>1. RowsTyped /\ ListedInv /\ Loaded \subseteq listed /\ CursorIsLast /\ PagesApart
    BY TypesAre DEF ListInv, CursorInv
  <1>2. \A m \in DOMAIN page : page[m].confirmed \subseteq listed
    BY <1>1 DEF Loaded
  <1>3. \A m, n \in DOMAIN page : m # n =>
          page[m].confirmed \cap (page[n].confirmed \cup page[n].pending) = {}
    BY <1>1, <1>2 DEF PagesApart
  <1>4. ended /\ page # <<>> => Loaded = listed
    BY <1>1 DEF CursorIsLast
  <1>5. ASSUME NEW x \in listed, NEW y \in Loaded, Before(x, y), x \notin Loaded
        PROVE  FALSE
    <2>1. page # <<>>
      BY <1>1, <1>5 DEF ListedInv
    <2>2. /\ after \in Loaded /\ x \in Rest(after)
          /\ y = after \/ Before(y, after)
      BY <1>1, <1>5, <2>1 DEF CursorIsLast
    <2>3. x \in Mined /\ x \in Ids /\ y \in Ids /\ after \in Ids
      BY <1>1, <2>2 DEF ListedInv, Mined
    <2>4. after # NoRow
      BY <1>1, <2>3, RowsAre DEF NoRow
    <2>5. Before(after, x)
      BY <1>1, <2>2, <2>3, <2>4, RestIs
    <2> QED
      BY <1>1, <1>5, <2>2, <2>3, <2>5, BeforeIsOrder
  <1> QED
    BY <1>1, <1>3, <1>4, <1>5

(* What the invariant says of the lists.                                   *)
LEMMA ListInvShows == ListInv => ListTypeOK /\ CursorWalkIsExact /\ OnlyTiesAreSkipped /\ EndIsTheEnd
  <1>1. ListInv => OnlyTiesAreSkipped
    BY DEF ListInv, OffsetInv, TiesOnly, OnlyTiesAreSkipped, HasTies
  <1>2. ListInv => EndIsTheEnd
    BY DEF ListInv, OffsetInv, EndIsTheEnd
  <1> QED
    BY <1>1, <1>2, CursorInvShows DEF ListInv

LEMMA ListInductive == ListSpec => []ListInv
  BY ListInitHolds, ListStepKeeps, PTL DEF ListSpec

(***************************************************************************)
(* The windows of time.                                                    *)
(***************************************************************************)
-----------------------------------------------------------------------------
(* How a window is divided.                                                *)

(* The start of an instant's unit, and of the first unit from it on.       *)
LEMMA FloorFacts ==
  ASSUME NEW t \in Int
  PROVE  /\ Floor(t) \in Int /\ Floor(t) <= t /\ t < Floor(t) + Unit
         /\ Ceil(t) \in Int /\ t <= Ceil(t) /\ Ceil(t) < t + Unit
         /\ Unit \in Nat \ {0}
  <1>1. Unit \in Nat \ {0}
    BY SliceAssumption
  <1>2. \A u \in Int : Floor(u) \in Int /\ Floor(u) <= u /\ u < Floor(u) + Unit
    <2> SUFFICES ASSUME NEW u \in Int PROVE Floor(u) \in Int /\ Floor(u) <= u /\ u < Floor(u) + Unit
      OBVIOUS
    <2>1. u \div Unit \in Int /\ (u \div Unit) * Unit <= u /\ u < (u \div Unit) * Unit + Unit
      BY <1>1, DivFacts
    <2>2. (u \div Unit) * Unit \in Int
      BY <1>1, <2>1
    <2> QED
      BY <2>1, <2>2 DEF Floor
  <1>3. t + Unit - 1 \in Int
    BY <1>1
  <1>4. /\ Ceil(t) \in Int /\ Ceil(t) <= t + Unit - 1 /\ t + Unit - 1 < Ceil(t) + Unit
    BY <1>2, <1>3 DEF Ceil
  <1> QED
    BY <1>1, <1>2, <1>4

(* No start of a unit lies between an instant and the start of its unit.   *)
LEMMA FloorIsLast ==
  ASSUME NEW t \in Int, NEW u \in Int, Ceil(u) <= t
  PROVE  Ceil(u) <= Floor(t)
  <1> DEFINE k == (u + Unit - 1) \div Unit
             q == t \div Unit
  <1>1. Unit \in Nat \ {0} /\ u + Unit - 1 \in Int
    BY SliceAssumption
  <1>2. k \in Int /\ q \in Int /\ t < q * Unit + Unit
    BY <1>1, DivFacts
  <1>3. Ceil(u) = k * Unit /\ Floor(t) = q * Unit
    BY DEF Ceil, Floor
  <1> HIDE DEF k, q
  <1>4. k * Unit \in Int /\ q * Unit \in Int
    BY <1>1, <1>2
  <1>5. ASSUME k > q PROVE FALSE
    <2>1. q * Unit + Unit <= k * Unit
      BY <1>1, <1>2, <1>5, MulMonotone
    <2> QED
      BY <1>1, <1>2, <1>3, <1>4, <2>1
  <1>6. CASE k = q
    BY <1>3, <1>4, <1>6
  <1>7. CASE k < q
    <2>1. k * Unit + Unit <= q * Unit
      BY <1>1, <1>2, <1>7, MulMonotone
    <2> QED
      BY <1>1, <1>3, <1>4, <2>1
  <1> QED
    BY <1>2, <1>5, <1>6, <1>7

(* Weeks lie among the days. *)
LEMMA WeeksAmongDays ==
  ASSUME NEW q, q.from \in Nat, q.to \in Nat
  PROVE  /\ DayLo(q) \in Int /\ WeekLo(q) \in Int /\ WeekHi(q) \in Int
         /\ DayLo(q) <= WeekLo(q) /\ WeekHi(q) <= Floor(q.to)
  <1>1. Unit \in Nat \ {0} /\ Week \in Nat \ {0} /\ Monday \in Nat
    BY SliceAssumption
  <1>2. DayLo(q) \in Int /\ Floor(q.to) \in Int
    BY FloorFacts DEF DayLo
  <1>3. ASSUME NEW t \in Int PROVE DayOfWeek(t) \in Nat
    <2>1. t \div Unit \in Int
      BY <1>1, DivFacts
    <2>2. t \div Unit + Week - Monday \in Int
      BY <1>1, <2>1
    <2> QED
      BY <1>1, <2>2, ModIsNumber DEF DayOfWeek
  <1>4. (Week - DayOfWeek(DayLo(q))) % Week \in Nat
    <2>1. Week - DayOfWeek(DayLo(q)) \in Int
      BY <1>1, <1>2, <1>3
    <2> QED
      BY <1>1, <2>1, ModIsNumber
  <1>5. \A n \in Nat : n * Unit \in Nat
    BY <1>1
  <1>6. ((Week - DayOfWeek(DayLo(q))) % Week) * Unit \in Nat
    BY <1>4, <1>5
  <1>7. DayOfWeek(Floor(q.to)) * Unit \in Nat
    BY <1>2, <1>3, <1>5
  <1>8. WeekLo(q) \in Int /\ DayLo(q) <= WeekLo(q)
    BY <1>2, <1>6 DEF WeekLo
  <1>9. WeekHi(q) \in Int /\ WeekHi(q) <= Floor(q.to)
    BY <1>2, <1>7 DEF WeekHi
  <1> QED
    BY <1>2, <1>8, <1>9

In(s, t) == s.from <= t /\ t <= s.to

(* The instants that an answer takes from rollup rows. *)
Rolled(q, t) ==
  IF q.kind = "stats" THEN UsesHours(q) /\ Ceil(q.from) <= t /\ t < Floor(q.to)
  ELSE InDays(q, t) \/ InWeeks(q, t)

LiveSlices(q) == IF q.kind = "stats" THEN StatsSlices(q) ELSE ActivitySlices(q)

SliceRecords == [from : Instants, to : Instants]

(* The live slices follow one another inside the window, and they and the  *)
(* rollups share no instant and leave none out.                            *)
Divides(q, S) ==
  /\ \A n \in DOMAIN S : q.from <= S[n].from /\ S[n].to <= q.to
  /\ \A m, n \in DOMAIN S : m < n => S[m].to < S[n].from
  /\ \A t \in Instants, n \in DOMAIN S : Rolled(q, t) => ~In(S[n], t)

(* An edge before lo or none, and an edge from hi on or none. *)
LEMMA Edges ==
  ASSUME NEW q, NEW lo, NEW hi,
         NEW S, S = OneIf(q.from < lo, q.from, lo - 1) \o OneIf(hi < q.to, hi, q.to)
  PROVE  /\ q.from < lo /\ hi < q.to => S = <<[from |-> q.from, to |-> lo - 1]>> \o <<[from |-> hi, to |-> q.to]>>
         /\ q.from < lo /\ ~(hi < q.to) => S = <<[from |-> q.from, to |-> lo - 1]>>
         /\ ~(q.from < lo) /\ hi < q.to => S = <<[from |-> hi, to |-> q.to]>>
         /\ ~(q.from < lo) /\ ~(hi < q.to) => S = <<>>
  <1> DEFINE x == [from |-> q.from, to |-> lo - 1]
             y == [from |-> hi, to |-> q.to]
             c == q.from < lo
             d == hi < q.to
  <1>1. /\ OneIf(q.from < lo, q.from, lo - 1) = IF c THEN <<x>> ELSE <<>>
        /\ OneIf(hi < q.to, hi, q.to) = IF d THEN <<y>> ELSE <<>>
    BY Zenon DEF OneIf
  <1>2. <<x>> \in Seq({x}) /\ <<y>> \in Seq({y})
    <2> HIDE DEF x, y
    <2> QED
      OBVIOUS
  <1>3. <<x>> \o <<>> = <<x>> /\ <<>> \o <<y>> = <<y>> /\ <<>> \o <<>> = <<>>
    <2> HIDE DEF x, y
    <2> QED
      OBVIOUS
  <1>4. S = (IF c THEN <<x>> ELSE <<>>) \o (IF d THEN <<y>> ELSE <<>>)
    BY <1>1, Zenon
  <1>5. CASE c /\ d
    BY <1>4, <1>5, Zenon
  <1>6. CASE c /\ ~d
    BY <1>3, <1>4, <1>6, Zenon
  <1>7. CASE ~c /\ d
    BY <1>3, <1>4, <1>7, Zenon
  <1>8. CASE ~c /\ ~d
    BY <1>3, <1>4, <1>8, Zenon
  <1> QED
    BY <1>5, <1>6, <1>7, <1>8, Zenon

(* The slices of a window whose rollups take the instants from lo up to    *)
(* hi: one before and one after them.                                      *)
LEMMA EdgesDivide ==
  ASSUME NEW q, q.from \in Instants, q.to \in Instants,
         NEW lo \in Int, NEW hi \in Int, q.from <= lo, lo <= hi, hi <= q.to,
         \A t \in Instants : Rolled(q, t) <=> lo <= t /\ t < hi,
         NEW S,
         /\ q.from < lo /\ hi < q.to => S = <<[from |-> q.from, to |-> lo - 1]>> \o <<[from |-> hi, to |-> q.to]>>
         /\ q.from < lo /\ ~(hi < q.to) => S = <<[from |-> q.from, to |-> lo - 1]>>
         /\ ~(q.from < lo) /\ hi < q.to => S = <<[from |-> hi, to |-> q.to]>>
         /\ ~(q.from < lo) /\ ~(hi < q.to) => S = <<>>
  PROVE  /\ S \in Seq(SliceRecords) /\ Divides(q, S)
         /\ \A t \in Instants : q.from <= t /\ t < q.to => Rolled(q, t) \/ \E n \in DOMAIN S : In(S[n], t)
         /\ \A t \in Instants : Rolled(q, t) => q.from <= t /\ t <= q.to
  <1> DEFINE x == [from |-> q.from, to |-> lo - 1]
             y == [from |-> hi, to |-> q.to]
             c == q.from < lo
             d == hi < q.to
  <1>1. q.from \in Nat /\ q.to \in Nat /\ MaxInstant \in Nat /\ q.to <= MaxInstant
    BY SliceAssumption DEF Instants
  <1>2. /\ c /\ d => S = <<x>> \o <<y>>
        /\ c /\ ~d => S = <<x>>
        /\ ~c /\ d => S = <<y>>
        /\ ~c /\ ~d => S = <<>>
    BY Zenon
  <1>3. x.from = q.from /\ x.to = lo - 1 /\ y.from = hi /\ y.to = q.to
    OBVIOUS
  <1>4. (c => x \in SliceRecords) /\ (d => y \in SliceRecords)
    <2>1. c => lo - 1 \in Instants
      BY <1>1 DEF Instants
    <2>2. hi \in Instants
      BY <1>1 DEF Instants
    <2> QED
      BY <2>1, <2>2 DEF SliceRecords
  <1> HIDE DEF x, y
  <1>5. /\ S \in Seq(SliceRecords)
        /\ \A n \in DOMAIN S : S[n] = x \/ S[n] = y
        /\ \A m, n \in DOMAIN S : m < n => S[m] = x /\ S[n] = y
    <2> HIDE DEF c, d
    <2>1. \/ S = <<x>> \o <<y>> /\ x \in SliceRecords /\ y \in SliceRecords
          \/ S = <<x>> /\ x \in SliceRecords
          \/ S = <<y>> /\ y \in SliceRecords
          \/ S = <<>>
      BY <1>2, <1>4, Zenon
    <2> QED
      BY <2>1, UpToTwo
  <1>6. /\ c => \E n \in DOMAIN S : S[n] = x
        /\ d => \E n \in DOMAIN S : S[n] = y
    <2> HIDE DEF c, d
    <2>1. 1 \in 1 .. 1 /\ 1 \in 1 .. 2 /\ 2 \in 1 .. 2
      OBVIOUS
    <2>2. CASE c /\ d
      <3>1. S = <<x>> \o <<y>>
        BY <1>2, <2>2, Zenon
      <3>2. DOMAIN S = 1 .. 2 /\ S[1] = x /\ S[2] = y
        BY <3>1, TwoOf
      <3> QED
        BY <2>1, <3>2, Zenon
    <2>3. ASSUME NEW z, S = <<z>> PROVE \E n \in DOMAIN S : S[n] = z
      <3>1. DOMAIN S = 1 .. 1 /\ S[1] = z
        BY <2>3, OneOf
      <3> QED
        BY <2>1, <3>1, Zenon
    <2> QED
      BY <1>2, <2>2, <2>3
  <1>7. \A t \in Instants : t \in Int
    BY DEF Instants
  <1>8. Divides(q, S)
    <2>1. \A n \in DOMAIN S : q.from <= S[n].from /\ S[n].to <= q.to
      <3> SUFFICES ASSUME NEW n \in DOMAIN S PROVE q.from <= S[n].from /\ S[n].to <= q.to
        OBVIOUS
      <3>1. CASE S[n] = x
        BY <1>1, <1>3, <3>1
      <3>2. CASE S[n] = y
        BY <1>1, <1>3, <3>2
      <3> QED
        BY <1>5, <3>1, <3>2
    <2>2. \A m, n \in DOMAIN S : m < n => S[m].to < S[n].from
      <3> SUFFICES ASSUME NEW m \in DOMAIN S, NEW n \in DOMAIN S, m < n
                   PROVE  S[m].to < S[n].from
        OBVIOUS
      <3>1. S[m] = x /\ S[n] = y
        BY <1>5
      <3> QED
        BY <1>3, <3>1
    <2>3. \A t \in Instants, n \in DOMAIN S : Rolled(q, t) => ~In(S[n], t)
      <3> SUFFICES ASSUME NEW t \in Instants, NEW n \in DOMAIN S, lo <= t, t < hi
                   PROVE  ~In(S[n], t)
        OBVIOUS
      <3>1. CASE S[n] = x
        BY <1>3, <1>7, <3>1 DEF In
      <3>2. CASE S[n] = y
        BY <1>3, <1>7, <3>2 DEF In
      <3> QED
        BY <1>5, <3>1, <3>2
    <2> QED
      BY <2>1, <2>2, <2>3 DEF Divides
  <1>9. ASSUME NEW t \in Instants, q.from <= t, t < q.to
        PROVE  Rolled(q, t) \/ \E n \in DOMAIN S : In(S[n], t)
    <2>1. CASE t < lo
      <3>1. c
        BY <1>1, <1>7, <1>9, <2>1
      <3>2. In(x, t)
        BY <1>3, <1>7, <1>9, <2>1 DEF In
      <3> QED
        BY <1>6, <3>1, <3>2
    <2>2. CASE hi <= t
      <3>1. d
        BY <1>1, <1>7, <1>9, <2>2
      <3>2. In(y, t)
        BY <1>1, <1>3, <1>7, <1>9, <2>2 DEF In
      <3> QED
        BY <1>6, <3>1, <3>2
    <2>3. CASE lo <= t /\ t < hi
      BY <2>3
    <2> QED
      BY <1>7, <2>1, <2>2, <2>3
  <1>10. \A t \in Instants : Rolled(q, t) => q.from <= t /\ t <= q.to
    BY <1>1, <1>7
  <1> QED
    BY <1>5, <1>8, <1>9, <1>10

(* A window without rollups is one slice. *)
LEMMA WholeDivides ==
  ASSUME NEW q, q.from \in Instants, q.to \in Instants, \A t \in Instants : ~Rolled(q, t),
         NEW S, S = <<[from |-> q.from, to |-> q.to]>>
  PROVE  /\ S \in Seq(SliceRecords) /\ Divides(q, S)
         /\ \A t \in Instants : q.from <= t /\ t < q.to => \E n \in DOMAIN S : In(S[n], t)
  <1> DEFINE x == [from |-> q.from, to |-> q.to]
  <1>1. S = <<x>>
    OBVIOUS
  <1>2. x \in SliceRecords /\ x.from = q.from /\ x.to = q.to
    BY DEF SliceRecords
  <1> HIDE DEF x
  <1>3. DOMAIN S = 1 .. 1 /\ S[1] = x /\ S \in Seq(SliceRecords)
    BY <1>1, <1>2, OneOf
  <1>4. q.from \in Int /\ q.to \in Int /\ \A t \in Instants : t \in Int
    BY DEF Instants
  <1>5. Divides(q, S)
    <2>1. \A m, n \in DOMAIN S : ~(m < n)
      <3> SUFFICES ASSUME NEW m \in DOMAIN S, NEW n \in DOMAIN S PROVE ~(m < n)
        OBVIOUS
      <3>1. m = 1 /\ n = 1
        BY <1>3
      <3> QED
        BY <3>1
    <2>2. \A n \in DOMAIN S : q.from <= S[n].from /\ S[n].to <= q.to
      BY <1>2, <1>3, <1>4
    <2> QED
      BY <2>1, <2>2 DEF Divides
  <1>6. ASSUME NEW t \in Instants, q.from <= t, t < q.to
        PROVE  In(x, t)
    BY <1>2, <1>4, <1>6 DEF In
  <1>7. 1 \in DOMAIN S
    BY <1>3
  <1> QED
    BY <1>3, <1>5, <1>6, <1>7

(* The slices and the rollups of every window share no instant and leave   *)
(* none out.                                                               *)
LEMMA WindowDivides ==
  ASSUME NEW q \in [kind : {"stats", "activity"}, from : Instants, to : Instants], q.from <= q.to,
         NEW S, S = LiveSlices(q)
  PROVE  /\ S \in Seq(SliceRecords) /\ Divides(q, S)
         /\ \A t \in Instants : q.from <= t /\ t < q.to => Rolled(q, t) \/ \E n \in DOMAIN S : In(S[n], t)
         /\ \A t \in Instants : Rolled(q, t) => q.from <= t /\ t <= q.to
  <1>1. /\ q.from \in Instants /\ q.to \in Instants /\ q.from \in Nat /\ q.to \in Nat
        /\ q.kind \in {"stats", "activity"}
    BY DEF Instants
  <1>2. /\ Floor(q.to) \in Int /\ Floor(q.to) <= q.to /\ q.to < Floor(q.to) + Unit
        /\ Ceil(q.from) \in Int /\ q.from <= Ceil(q.from) /\ Ceil(q.from) < q.from + Unit
        /\ Unit \in Nat \ {0}
    BY <1>1, FloorFacts
  <1>3. CASE q.kind = "stats"
    <2>1. S = StatsSlices(q)
      BY <1>3 DEF LiveSlices
    <2>2. CASE UsesHours(q)
      <3>1. \A t \in Instants : Rolled(q, t) <=> Ceil(q.from) <= t /\ t < Floor(q.to)
        BY <1>3, <2>2 DEF Rolled
      <3>2. S = OneIf(q.from < Ceil(q.from), q.from, Ceil(q.from) - 1) \o OneIf(Floor(q.to) < q.to, Floor(q.to), q.to)
        BY <2>1, <2>2 DEF StatsSlices
      <3>3. Ceil(q.from) <= Floor(q.to)
        BY <1>2, <2>2 DEF UsesHours
      <3>5. /\ q.from < Ceil(q.from) /\ Floor(q.to) < q.to =>
                 S = <<[from |-> q.from, to |-> Ceil(q.from) - 1]>> \o <<[from |-> Floor(q.to), to |-> q.to]>>
            /\ q.from < Ceil(q.from) /\ ~(Floor(q.to) < q.to) => S = <<[from |-> q.from, to |-> Ceil(q.from) - 1]>>
            /\ ~(q.from < Ceil(q.from)) /\ Floor(q.to) < q.to => S = <<[from |-> Floor(q.to), to |-> q.to]>>
            /\ ~(q.from < Ceil(q.from)) /\ ~(Floor(q.to) < q.to) => S = <<>>
        BY <3>2, Edges
      <3> QED
        BY <1>1, <1>2, <3>1, <3>3, <3>5, EdgesDivide
    <2>3. CASE ~UsesHours(q)
      <3>1. \A t \in Instants : ~Rolled(q, t)
        BY <1>3, <2>3 DEF Rolled
      <3>2. S = <<[from |-> q.from, to |-> q.to]>>
        BY <2>1, <2>3, Zenon DEF StatsSlices, OneIf
      <3> QED
        BY <1>1, <3>1, <3>2, WholeDivides
    <2> QED
      BY <2>2, <2>3
  <1>4. CASE q.kind = "activity"
    <2>1. S = ActivitySlices(q) /\ \A t : Rolled(q, t) <=> InDays(q, t) \/ InWeeks(q, t)
      BY <1>4 DEF LiveSlices, Rolled
    <2>2. CASE ~IsShort(q)
      <3>1. q.to - q.from > Unit
        BY <1>1, <1>2, <2>2, SliceAssumption DEF IsShort
      <3>2. DayLo(q) = Ceil(q.from) /\ DayLo(q) <= Floor(q.to)
        <4>1. Ceil(q.from) <= q.to
          BY <1>1, <1>2, <3>1
        <4> QED
          BY <1>1, <4>1, FloorIsLast DEF DayLo
      <3>3. \A t \in Instants : Rolled(q, t) <=> DayLo(q) <= t /\ t < Floor(q.to)
        <4> SUFFICES ASSUME NEW t \in Instants
                     PROVE  InDays(q, t) \/ InWeeks(q, t) <=> DayLo(q) <= t /\ t < Floor(q.to)
          BY <2>1
        <4>1. /\ t \in Int /\ DayLo(q) \in Int /\ WeekLo(q) \in Int /\ WeekHi(q) \in Int
              /\ DayLo(q) <= WeekLo(q) /\ WeekHi(q) <= Floor(q.to)
          BY <1>1, WeeksAmongDays DEF Instants
        <4> QED
          BY <1>2, <2>2, <4>1 DEF InDays, InWeeks
      <3>4. S = OneIf(q.from < DayLo(q), q.from, DayLo(q) - 1) \o OneIf(Floor(q.to) < q.to, Floor(q.to), q.to)
        <4>1. /\ q.from # DayLo(q) <=> q.from < DayLo(q)
              /\ q.to > Floor(q.to) <=> Floor(q.to) < q.to
          BY <1>1, <1>2, <3>2
        <4> QED
          BY <2>1, <2>2, <4>1 DEF ActivitySlices, OneIf
      <3>5. /\ q.from < DayLo(q) /\ Floor(q.to) < q.to =>
                 S = <<[from |-> q.from, to |-> DayLo(q) - 1]>> \o <<[from |-> Floor(q.to), to |-> q.to]>>
            /\ q.from < DayLo(q) /\ ~(Floor(q.to) < q.to) => S = <<[from |-> q.from, to |-> DayLo(q) - 1]>>
            /\ ~(q.from < DayLo(q)) /\ Floor(q.to) < q.to => S = <<[from |-> Floor(q.to), to |-> q.to]>>
            /\ ~(q.from < DayLo(q)) /\ ~(Floor(q.to) < q.to) => S = <<>>
        BY <3>4, Edges
      <3> QED
        BY <1>1, <1>2, <3>2, <3>3, <3>5, EdgesDivide
    <2>3. CASE IsShort(q)
      <3>1. \A t \in Instants : ~Rolled(q, t)
        BY <2>1, <2>3 DEF InDays, InWeeks, UsesWeeks
      <3>2. S = <<[from |-> q.from, to |-> q.to]>>
        BY <2>1, <2>3, Zenon DEF ActivitySlices, OneIf
      <3> QED
        BY <1>1, <3>1, <3>2, WholeDivides
    <2> QED
      BY <2>2, <2>3
  <1> QED
    BY <1>1, <1>3, <1>4

-----------------------------------------------------------------------------
(* What every step keeps.                                                  *)

Remaining(t) == \E n \in DOMAIN slices : In(slices[n], t)

Resolved(h) == \E n \in DOMAIN ranges : h \in ranges[n]

(* The heights that the next statement counts. *)
Awaiting(h) == step = "slice" /\ h \in ranges[Len(ranges)]

StepsInv ==
  /\ step = "idle" => query = NoQuery /\ slices = <<>> /\ ranges = <<>> /\ tally = [h \in Heights |-> 0]
  /\ step # "idle" => query.kind \in {"stats", "activity"} /\ query.from <= query.to
  /\ step = "hours" => query.kind = "stats" /\ UsesHours(query) /\ tally = [h \in Heights |-> 0]
  /\ step = "slice" => query.kind = "stats" /\ ranges # <<>>
  /\ Divides(query, slices)

TablesInv ==
  /\ present <= Len(stamp)
  /\ \A n \in DOMAIN ranges : ranges[n] \subseteq Filed
  /\ \A h \in Heights \ Filed : tally[h] = 0

(* A block in order is counted once when it is inside the window and its   *)
(* source has been read, and not before.                                   *)
StatsOnce(h) ==
  ~OutOfOrder(h) /\ (tally[h] # 0 \/ Awaiting(h)) =>
    /\ query.from <= stamp[h] /\ stamp[h] <= query.to
    /\ ~Remaining(stamp[h])
    /\ tally[h] = IF Awaiting(h) THEN 0 ELSE 1

StatsSeen(h) ==
  h <= present /\ query.from <= stamp[h] /\ stamp[h] < query.to =>
    \/ tally[h] # 0 \/ Awaiting(h) \/ Remaining(stamp[h])
    \/ step = "hours" /\ Rolled(query, stamp[h])

ActivityOnce(h) ==
  ~OutOfOrder(h) /\ Resolved(h) =>
    /\ query.from <= stamp[h] /\ stamp[h] <= query.to
    /\ ~Remaining(stamp[h]) /\ ~Rolled(query, stamp[h])
    /\ \A m, n \in DOMAIN ranges : h \in ranges[m] /\ h \in ranges[n] => m = n

ActivitySeen(h) ==
  h <= present /\ query.from <= stamp[h] /\ stamp[h] < query.to =>
    Resolved(h) \/ Remaining(stamp[h]) \/ Rolled(query, stamp[h])

CountsInv ==
  step # "done" =>
    \A h \in Filed :
      /\ query.kind = "stats" => StatsOnce(h) /\ StatsSeen(h)
      /\ query.kind = "activity" => ActivityOnce(h) /\ ActivitySeen(h)

SliceInv == SliceTypeOK /\ StepsInv /\ TablesInv /\ CountsInv /\ WindowIsExact

(* The blocks and the window of a typed state.                             *)
LEMMA Stamps ==
  ASSUME SliceTypeOK
  PROVE  /\ Len(stamp) \in Nat /\ Filed = 1 .. Len(stamp) /\ Filed \subseteq Heights
         /\ \A h \in Filed : h \in Nat /\ stamp[h] \in Instants /\ stamp[h] \in Nat
         /\ query.from \in Instants /\ query.to \in Instants
         /\ query.from \in Nat /\ query.to \in Nat
         /\ Instants \subseteq Nat /\ MaxBlocks \in Nat
  <1>1. MaxBlocks \in Nat /\ MaxInstant \in Nat
    BY SliceAssumption
  <1>2. stamp \in Seq(Instants) /\ Len(stamp) <= MaxBlocks
    BY DEF SliceTypeOK
  <1>3. Len(stamp) \in Nat /\ DOMAIN stamp = 1 .. Len(stamp)
        /\ \A h \in 1 .. Len(stamp) : stamp[h] \in Instants
    BY <1>2, LenProperties, ElementOfSeq
  <1>4. Instants \subseteq Nat
    BY DEF Instants
  <1>5. query.from \in Instants /\ query.to \in Instants
    BY DEF SliceTypeOK
  <1>6. Filed = 1 .. Len(stamp)
    BY <1>3 DEF Filed
  <1>7. \A h \in 1 .. Len(stamp) : h \in Nat /\ h \in 1 .. MaxBlocks
    BY <1>1, <1>2, <1>3
  <1> QED
    BY <1>1, <1>3, <1>4, <1>5, <1>6, <1>7 DEF Heights

(* The heights of a slice hold every block of it, and of the blocks in     *)
(* order no other.                                                         *)
LEMMA RangeHolds ==
  ASSUME SliceTypeOK, NEW s \in SliceRecords, NEW h \in Filed
  PROVE  /\ In(s, stamp[h]) => h \in RangeOf(s)
         /\ h \in RangeOf(s) /\ ~OutOfOrder(h) => In(s, stamp[h])
  <1>1. /\ \A g \in Filed : g \in Nat /\ stamp[g] \in Nat
        /\ s.from \in Nat /\ s.to \in Nat
    BY Stamps DEF SliceRecords
  <1>2. ASSUME In(s, stamp[h]) PROVE h \in RangeOf(s)
    <2>1. h \in Within(s)
      BY <1>2 DEF In, Within
    <2> QED
      BY <1>1, <2>1 DEF RangeOf
  <1>3. ASSUME h \in RangeOf(s), ~OutOfOrder(h) PROVE In(s, stamp[h])
    <2>1. PICK a, b \in Within(s) : a <= h /\ h <= b
      BY <1>3 DEF RangeOf
    <2>2. a \in Filed /\ b \in Filed /\ s.from <= stamp[a] /\ stamp[b] <= s.to
      BY <2>1 DEF Within
    <2>3. stamp[a] <= stamp[h]
      BY <1>1, <1>3, <2>1, <2>2 DEF OutOfOrder
    <2>4. stamp[h] <= stamp[b]
      BY <1>1, <1>3, <2>1, <2>2 DEF OutOfOrder
    <2> QED
      BY <1>1, <2>2, <2>3, <2>4 DEF In
  <1> QED
    BY <1>2, <1>3

(* Once its first slice is taken off, what remains still divides.          *)
LEMMA SliceTaken ==
  ASSUME NEW q, NEW S \in Seq(SliceRecords), S # <<>>, Divides(q, S)
  PROVE  /\ Tail(S) \in Seq(SliceRecords) /\ Divides(q, Tail(S))
         /\ Head(S) \in SliceRecords /\ q.from <= Head(S).from /\ Head(S).to <= q.to
         /\ \A t : (\E n \in DOMAIN S : In(S[n], t)) <=>
                     In(Head(S), t) \/ \E n \in DOMAIN Tail(S) : In(Tail(S)[n], t)
         /\ \A t \in Instants : In(Head(S), t) =>
              ~Rolled(q, t) /\ ~\E n \in DOMAIN Tail(S) : In(Tail(S)[n], t)
  <1>1. /\ Len(S) \in Nat \ {0} /\ DOMAIN S = 1 .. Len(S) /\ Head(S) = S[1]
        /\ Tail(S) \in Seq(SliceRecords) /\ Len(Tail(S)) = Len(S) - 1
        /\ \A n \in 1 .. Len(S) - 1 : Tail(S)[n] = S[n + 1]
    <2>1. Len(S) \in Nat /\ Len(S) # 0 /\ DOMAIN S = 1 .. Len(S)
      BY LenProperties, EmptySeq
    <2> QED
      BY <2>1, HeadTailProperties
  <1>2. DOMAIN Tail(S) = 1 .. Len(S) - 1
    BY <1>1, LenProperties
  <1>3. 1 \in DOMAIN S /\ \A n \in DOMAIN Tail(S) : n + 1 \in DOMAIN S /\ 1 < n + 1
    BY <1>1, <1>2
  <1>4. \A n \in DOMAIN S : n = 1 \/ (n - 1 \in DOMAIN Tail(S) /\ Tail(S)[n - 1] = S[n])
    BY <1>1, <1>2
  <1>5. \A n \in DOMAIN Tail(S) : Tail(S)[n] = S[n + 1]
    BY <1>1, <1>2
  <1>6. Divides(q, Tail(S))
    <2>1. \A m, n \in DOMAIN Tail(S) : m < n => m + 1 < n + 1
      BY <1>2, <1>1
    <2> QED
      BY <1>3, <1>5, <2>1 DEF Divides
  <1>7. Head(S) \in SliceRecords /\ q.from <= Head(S).from /\ Head(S).to <= q.to
    BY <1>1, <1>3, ElementOfSeq DEF Divides
  <1>8. \A t : (\E n \in DOMAIN S : In(S[n], t)) <=>
                 In(Head(S), t) \/ \E n \in DOMAIN Tail(S) : In(Tail(S)[n], t)
    BY <1>1, <1>3, <1>4, <1>5
  <1>9. ASSUME NEW t \in Instants, In(Head(S), t)
        PROVE  ~Rolled(q, t) /\ ~\E n \in DOMAIN Tail(S) : In(Tail(S)[n], t)
    <2>1. ~Rolled(q, t)
      BY <1>1, <1>3, <1>9 DEF Divides
    <2>2. ASSUME NEW n \in DOMAIN Tail(S), In(Tail(S)[n], t) PROVE FALSE
      <3>1. S[1].to < S[n + 1].from
        BY <1>3 DEF Divides
      <3>2. S[1] \in SliceRecords /\ S[n + 1] \in SliceRecords
        BY <1>1, <1>3, ElementOfSeq
      <3>3. S[1].to \in Nat /\ S[n + 1].from \in Nat /\ t \in Nat
        BY <3>2 DEF SliceRecords, Instants
      <3> QED
        BY <1>1, <1>5, <1>9, <2>2, <3>1, <3>3 DEF In
    <2> QED
      BY <2>1, <2>2
  <1> QED
    BY <1>1, <1>6, <1>7, <1>8, <1>9

-----------------------------------------------------------------------------
(* The steps, one by one.                                                  *)

(* The new block has the greatest height, is in no range and is not        *)
(* counted; a block in order now was in order before.                      *)
LEMMA FilingKeeps ==
  ASSUME SliceInv, FileBlock
  PROVE  SliceInv'
  <1> USE DEF SliceInv
  <1>1. PICK t \in Instants : stamp' = Append(stamp, t)
    BY DEF FileBlock
  <1>2. /\ Len(stamp) < MaxBlocks /\ step # "done"
        /\ UNCHANGED <<query, step, slices, ranges, tally, cut, present>>
    BY DEF FileBlock
  <1>3. /\ Len(stamp) \in Nat /\ Filed = 1 .. Len(stamp) /\ Filed \subseteq Heights /\ MaxBlocks \in Nat
        /\ \A h \in Filed : h \in Nat
    BY Stamps
  <1>4. /\ stamp' \in Seq(Instants) /\ Len(stamp') = Len(stamp) + 1
        /\ \A h \in 1 .. Len(stamp) : stamp'[h] = stamp[h]
    <2>1. stamp \in Seq(Instants)
      BY DEF SliceTypeOK
    <2> QED
      BY <1>1, <2>1, AppendProperties
  <1>5. Filed' = 1 .. Len(stamp) + 1
    BY <1>4, LenProperties DEF Filed
  <1>6. SliceTypeOK'
    BY <1>2, <1>3, <1>4 DEF SliceTypeOK
  <1>7. StepsInv'
    BY <1>2 DEF StepsInv
  <1>8. Filed \subseteq Filed'
    BY <1>3, <1>5
  <1>9. TablesInv'
    <2>1. present \in Nat
      BY DEF SliceTypeOK
    <2>2. present' <= Len(stamp')
      BY <1>2, <1>3, <1>4, <2>1 DEF TablesInv
    <2> QED
      BY <1>2, <1>8, <2>2 DEF TablesInv, Heights
  <1>10. ASSUME NEW h \in Filed PROVE ~OutOfOrder(h)' => ~OutOfOrder(h)
    <2>1. stamp'[h] = stamp[h] /\ \A g \in Filed : g \in Filed' /\ stamp'[g] = stamp[g]
      BY <1>3, <1>4, <1>8
    <2> QED
      BY <2>1 DEF OutOfOrder
  <1>11. CountsInv'
    <2> SUFFICES ASSUME NEW h \in Filed'
                 PROVE  /\ query.kind = "stats" => StatsOnce(h)' /\ StatsSeen(h)'
                        /\ query.kind = "activity" => ActivityOnce(h)' /\ ActivitySeen(h)'
      BY <1>2 DEF CountsInv
    <2>1. CASE h \in Filed
      <3>1. /\ query.kind = "stats" => StatsOnce(h) /\ StatsSeen(h)
            /\ query.kind = "activity" => ActivityOnce(h) /\ ActivitySeen(h)
        BY <1>2, <2>1 DEF CountsInv
      <3>2. stamp'[h] = stamp[h]
        BY <1>3, <1>4, <2>1
      <3>3. \A u : (Remaining(u)' <=> Remaining(u)) /\ (Resolved(u)' <=> Resolved(u)) /\ (Awaiting(u)' <=> Awaiting(u))
        BY <1>2 DEF Remaining, Resolved, Awaiting
      <3>4. StatsOnce(h) => StatsOnce(h)'
        BY <1>2, <1>10, <2>1, <3>2, <3>3 DEF StatsOnce
      <3>5. StatsSeen(h) => StatsSeen(h)'
        BY <1>2, <3>2, <3>3 DEF StatsSeen
      <3>6. ActivityOnce(h) => ActivityOnce(h)'
        BY <1>2, <1>10, <2>1, <3>2, <3>3 DEF ActivityOnce
      <3>7. ActivitySeen(h) => ActivitySeen(h)'
        BY <1>2, <3>2, <3>3 DEF ActivitySeen
      <3> QED
        BY <3>1, <3>4, <3>5, <3>6, <3>7
    <2>2. CASE h \notin Filed
      <3>1. h = Len(stamp) + 1 /\ h \in Heights
        BY <1>2, <1>3, <1>5, <2>2 DEF Heights
      <3>2. ~(h <= present')
        <4>1. present <= Len(stamp) /\ present \in Nat
          BY DEF TablesInv, SliceTypeOK
        <4> QED
          BY <1>2, <1>3, <3>1, <4>1
      <3>3. tally'[h] = 0
        BY <1>2, <2>2, <3>1 DEF TablesInv
      <3>4. ~Resolved(h)' /\ ~Awaiting(h)'
        <4>1. \A n \in DOMAIN ranges : h \notin ranges[n]
          BY <2>2 DEF TablesInv
        <4>2. step = "slice" => Len(ranges) \in DOMAIN ranges
          <5>1. ranges \in Seq(SUBSET Heights)
            BY DEF SliceTypeOK
          <5>2. Len(ranges) \in Nat /\ DOMAIN ranges = 1 .. Len(ranges) /\ (ranges # <<>> => Len(ranges) # 0)
            BY <5>1, LenProperties, EmptySeq
          <5> QED
            BY <5>2 DEF StepsInv
        <4> QED
          BY <1>2, <4>1, <4>2 DEF Resolved, Awaiting
      <3> QED
        BY <3>2, <3>3, <3>4 DEF StatsOnce, StatsSeen, ActivityOnce, ActivitySeen
    <2> QED
      BY <2>1, <2>2
  <1>12. WindowIsExact'
    BY <1>2 DEF WindowIsExact
  <1> QED
    BY <1>6, <1>7, <1>9, <1>11, <1>12

(* Nothing is counted yet: what is inside the window is rolled up or       *)
(* remains.                                                                *)
LEMMA AskKeeps ==
  ASSUME SliceInv, NEW kind \in {"stats", "activity"}, NEW from \in Instants, NEW to \in Instants,
         from <= to, Ask(kind, from, to)
  PROVE  SliceInv'
  <1> USE DEF SliceInv
  <1>1. /\ step = "idle" /\ query' = [kind |-> kind, from |-> from, to |-> to]
        /\ present' = Len(stamp) /\ UNCHANGED <<stamp, ranges, tally, cut>>
        /\ slices' = LiveSlices(query')
        /\ step' = IF kind = "stats" /\ UsesHours(query') THEN "hours" ELSE "heights"
    BY DEF Ask, LiveSlices
  <1>2. /\ query' \in [kind : {"stats", "activity"}, from : Instants, to : Instants]
        /\ query'.kind = kind /\ query'.from = from /\ query'.to = to
    BY <1>1
  <1>3. /\ slices' \in Seq(SliceRecords) /\ Divides(query', slices')
        /\ \A t \in Instants : query'.from <= t /\ t < query'.to =>
             Rolled(query', t) \/ \E n \in DOMAIN slices' : In(slices'[n], t)
    BY <1>1, <1>2, WindowDivides
  <1>4. /\ Len(stamp) \in Nat /\ Filed = 1 .. Len(stamp) /\ Filed \subseteq Heights
        /\ \A h \in Filed : stamp[h] \in Instants
    BY Stamps
  <1>5. ranges = <<>> /\ tally = [h \in Heights |-> 0]
    BY <1>1 DEF StepsInv
  <1>6. SliceTypeOK'
    <2>1. present' \in 0 .. MaxBlocks
      BY <1>1, <1>4, SliceAssumption DEF SliceTypeOK
    <2>2. query' \in [kind : {"none", "stats", "activity"}, from : Instants, to : Instants]
      BY <1>2
    <2>3. step' \in {"idle", "hours", "heights", "slice", "done"}
      BY <1>1
    <2> QED
      BY <1>1, <1>3, <2>1, <2>2, <2>3 DEF SliceTypeOK, SliceRecords
  <1>7. StepsInv'
    BY <1>1, <1>2, <1>3, <1>5 DEF StepsInv
  <1>8. TablesInv'
    BY <1>1, <1>4, <1>5 DEF TablesInv, Filed
  <1>9. CountsInv'
    <2> SUFFICES ASSUME NEW h \in Filed
                 PROVE  /\ kind = "stats" => StatsOnce(h)' /\ StatsSeen(h)'
                        /\ kind = "activity" => ActivityOnce(h)' /\ ActivitySeen(h)'
      BY <1>1, <1>2 DEF CountsInv, Filed
    <2>1. ~Awaiting(h)' /\ ~Resolved(h)' /\ tally'[h] = 0
      BY <1>1, <1>4, <1>5 DEF Awaiting, Resolved
    <2>2. query'.from <= stamp'[h] /\ stamp'[h] < query'.to =>
            Rolled(query', stamp'[h]) \/ Remaining(stamp[h])'
      BY <1>1, <1>3, <1>4 DEF Remaining
    <2>3. kind = "stats" /\ Rolled(query', stamp'[h]) => step' = "hours"
      BY <1>1, <1>2 DEF Rolled
    <2> QED
      BY <2>1, <2>2, <2>3 DEF StatsOnce, StatsSeen, ActivityOnce, ActivitySeen
  <1>10. WindowIsExact'
    BY <1>1 DEF WindowIsExact
  <1> QED
    BY <1>6, <1>7, <1>8, <1>9, <1>10

(* The whole hours count once what no slice holds.                         *)
LEMMA HoursKeep ==
  ASSUME SliceInv, CountHours
  PROVE  SliceInv'
  <1> USE DEF SliceInv
  <1> DEFINE H == {h \in Filed : Ceil(query.from) <= stamp[h] /\ stamp[h] < Floor(query.to)}
  <1>1. /\ step = "hours" /\ tally' = Counting(H) /\ step' = "heights"
        /\ UNCHANGED <<stamp, query, slices, ranges, cut, present>>
    BY DEF CountHours
  <1>2. query.kind = "stats" /\ UsesHours(query) /\ tally = [h \in Heights |-> 0]
    BY <1>1 DEF StepsInv
  <1>3. Filed \subseteq Heights /\ \A h \in Filed : stamp[h] \in Instants
    BY Stamps
  <1>4. \A h \in Filed : h \in H <=> Rolled(query, stamp[h])
    BY <1>2 DEF Rolled
  <1>5. H \subseteq Filed
    OBVIOUS
  <1> HIDE DEF H
  <1>6. tally' = [h \in Heights |-> IF h \in H THEN 1 ELSE 0]
    BY <1>1, <1>2 DEF Counting
  <1>7. SliceTypeOK'
    BY <1>1, <1>6 DEF SliceTypeOK
  <1>8. StepsInv'
    BY <1>1, <1>2 DEF StepsInv
  <1>9. TablesInv'
    BY <1>1, <1>5, <1>6 DEF TablesInv, Filed
  <1>10. CountsInv'
    <2> SUFFICES ASSUME NEW h \in Filed PROVE StatsOnce(h)' /\ StatsSeen(h)'
      BY <1>1, <1>2 DEF CountsInv, Filed
    <2>1. ~Awaiting(h)' /\ ~Awaiting(h) /\ tally[h] = 0
      BY <1>1, <1>2, <1>3 DEF Awaiting
    <2>2. tally'[h] = IF Rolled(query, stamp[h]) THEN 1 ELSE 0
      BY <1>3, <1>4, <1>6
    <2>3. Remaining(stamp[h])' <=> Remaining(stamp[h])
      BY <1>1 DEF Remaining
    <2>4. Rolled(query, stamp[h]) =>
            /\ query.from <= stamp[h] /\ stamp[h] <= query.to
            /\ ~Remaining(stamp[h])
      <3> SUFFICES ASSUME Rolled(query, stamp[h])
                   PROVE  /\ query.from <= stamp[h] /\ stamp[h] <= query.to
                          /\ ~Remaining(stamp[h])
        OBVIOUS
      <3>1. ~Remaining(stamp[h])
        BY <1>3 DEF Remaining, StepsInv, Divides
      <3>2. Ceil(query.from) <= stamp[h] /\ stamp[h] < Floor(query.to)
        BY <1>2 DEF Rolled
      <3>3. /\ query.from \in Nat /\ query.to \in Nat /\ stamp[h] \in Nat
        BY Stamps
      <3>4. /\ Ceil(query.from) \in Int /\ query.from <= Ceil(query.from)
            /\ Floor(query.to) \in Int /\ Floor(query.to) <= query.to
        BY <3>3, FloorFacts
      <3> QED
        BY <3>1, <3>2, <3>3, <3>4
    <2>5. StatsSeen(h)
      BY <1>1, <1>2 DEF CountsInv
    <2>6. StatsOnce(h)'
      BY <1>1, <2>1, <2>2, <2>3, <2>4 DEF StatsOnce
    <2>7. StatsSeen(h)'
      BY <1>1, <2>1, <2>2, <2>3, <2>5 DEF StatsSeen
    <2> QED
      BY <2>6, <2>7
  <1>11. WindowIsExact'
    BY <1>1 DEF WindowIsExact
  <1> QED
    BY <1>7, <1>8, <1>9, <1>10, <1>11

(* What was pending is counted.                                            *)
LEMMA CountingKeeps ==
  ASSUME SliceInv, CountSlice
  PROVE  SliceInv'
  <1> USE DEF SliceInv
  <1> DEFINE H == ranges[Len(ranges)]
  <1>1. /\ step = "slice" /\ tally' = Counting(H) /\ step' = "heights"
        /\ UNCHANGED <<stamp, query, slices, ranges, cut, present>>
    BY DEF CountSlice
  <1>2. query.kind = "stats" /\ ranges # <<>>
    BY <1>1 DEF StepsInv
  <1>3. Filed \subseteq Heights
    BY Stamps
  <1>4. H \subseteq Filed
    <2>1. ranges \in Seq(SUBSET Heights)
      BY DEF SliceTypeOK
    <2>2. Len(ranges) \in DOMAIN ranges
      BY <1>2, <2>1, LenProperties, EmptySeq
    <2> QED
      BY <2>2 DEF TablesInv
  <1>5. \A h : Awaiting(h) <=> h \in H
    BY <1>1 DEF Awaiting
  <1> HIDE DEF H
  <1>6. tally' = [h \in Heights |-> IF h \in H THEN tally[h] + 1 ELSE tally[h]]
    BY <1>1 DEF Counting
  <1>7. SliceTypeOK'
    BY <1>1, <1>6 DEF SliceTypeOK
  <1>8. StepsInv'
    BY <1>1, <1>2 DEF StepsInv
  <1>9. TablesInv'
    <2>1. \A h \in Heights \ Filed : tally'[h] = 0
      BY <1>4, <1>6 DEF TablesInv
    <2> QED
      BY <1>1, <2>1 DEF TablesInv, Filed
  <1>10. CountsInv'
    <2> SUFFICES ASSUME NEW h \in Filed PROVE StatsOnce(h)' /\ StatsSeen(h)'
      BY <1>1, <1>2 DEF CountsInv, Filed
    <2>1. ~Awaiting(h)' /\ (Remaining(stamp[h])' <=> Remaining(stamp[h])) /\ (OutOfOrder(h)' <=> OutOfOrder(h))
      BY <1>1 DEF Awaiting, Remaining, OutOfOrder, Filed
    <2>2. tally'[h] = IF Awaiting(h) THEN tally[h] + 1 ELSE tally[h]
      BY <1>3, <1>5, <1>6
    <2>3. StatsOnce(h) /\ StatsSeen(h) /\ tally[h] \in Nat
      BY <1>1, <1>2, <1>3 DEF CountsInv, SliceTypeOK
    <2>4. StatsOnce(h)'
      BY <1>1, <2>1, <2>2, <2>3 DEF StatsOnce
    <2>5. StatsSeen(h)'
      BY <1>1, <2>1, <2>2, <2>3 DEF StatsSeen
    <2> QED
      BY <2>4, <2>5
  <1>11. WindowIsExact'
    BY <1>1 DEF WindowIsExact
  <1> QED
    BY <1>7, <1>8, <1>9, <1>10, <1>11

(* What a slice holds becomes pending, or resolved, and remains no longer. *)
LEMMA ResolvingKeeps ==
  ASSUME SliceInv, ResolveSlice
  PROVE  SliceInv'
  <1> USE DEF SliceInv
  <1> DEFINE s == Head(slices)
             H == RangeOf(s)
  <1>1. /\ step = "heights" /\ slices # <<>> /\ slices' = Tail(slices)
        /\ ranges' = IF H = {} THEN ranges ELSE Append(ranges, H)
        /\ step' = IF H # {} /\ query.kind = "stats" THEN "slice" ELSE "heights"
        /\ UNCHANGED <<stamp, query, tally, cut, present>>
    BY DEF ResolveSlice
  <1>2. slices \in Seq(SliceRecords) /\ Divides(query, slices)
    BY DEF SliceTypeOK, StepsInv, SliceRecords
  <1>3. /\ slices' \in Seq(SliceRecords) /\ Divides(query, slices')
        /\ s \in SliceRecords /\ query.from <= s.from /\ s.to <= query.to
        /\ \A t : Remaining(t) <=> In(s, t) \/ Remaining(t)'
        /\ \A t \in Instants : In(s, t) => ~Rolled(query, t) /\ ~Remaining(t)'
    <2>1. \A t : Remaining(t)' <=> \E n \in DOMAIN Tail(slices) : In(Tail(slices)[n], t)
      BY <1>1 DEF Remaining
    <2> QED
      BY <1>1, <1>2, <2>1, SliceTaken DEF Remaining
  <1>4. /\ Filed \subseteq Heights /\ query.from \in Nat /\ query.to \in Nat
        /\ \A h \in Filed : stamp[h] \in Instants /\ stamp[h] \in Nat
    BY Stamps
  <1>5. \A h \in Filed : /\ In(s, stamp[h]) => h \in H
                         /\ h \in H /\ ~OutOfOrder(h) => In(s, stamp[h])
    BY <1>3, RangeHolds
  <1>6. H \subseteq Filed
    BY DEF RangeOf
  <1> HIDE DEF H, s
  <1>7. ranges \in Seq(SUBSET Heights) /\ H \in SUBSET Heights
    BY <1>4, <1>6 DEF SliceTypeOK
  <1>8. /\ ranges' \in Seq(SUBSET Heights)
        /\ Len(ranges) \in Nat /\ DOMAIN ranges = 1 .. Len(ranges)
        /\ \A n \in DOMAIN ranges : n \in DOMAIN ranges' /\ ranges'[n] = ranges[n]
        /\ H # {} => /\ Len(ranges') = Len(ranges) + 1 /\ ranges'[Len(ranges')] = H
                     /\ DOMAIN ranges' = 1 .. Len(ranges) + 1
        /\ H = {} => ranges' = ranges
    <2>1. Len(ranges) \in Nat /\ DOMAIN ranges = 1 .. Len(ranges)
      BY <1>7, LenProperties
    <2>2. CASE H = {}
      BY <1>1, <1>7, <2>1, <2>2
    <2>3. CASE H # {}
      <3>1. ranges' = Append(ranges, H)
        BY <1>1, <2>3
      <3>2. /\ Append(ranges, H) \in Seq(SUBSET Heights)
            /\ Len(Append(ranges, H)) = Len(ranges) + 1
            /\ \A i \in 1 .. Len(ranges) : Append(ranges, H)[i] = ranges[i]
            /\ Append(ranges, H)[Len(ranges) + 1] = H
        BY <1>7, AppendProperties
      <3>3. DOMAIN ranges' = 1 .. Len(ranges) + 1
        BY <3>1, <3>2, LenProperties
      <3>4. \A n \in 1 .. Len(ranges) : n \in 1 .. Len(ranges) + 1
        BY <2>1
      <3> QED
        BY <2>1, <2>3, <3>1, <3>2, <3>3, <3>4
    <2> QED
      BY <2>2, <2>3
  <1>9. \A n \in DOMAIN ranges' : (n \in DOMAIN ranges /\ ranges'[n] = ranges[n]) \/ ranges'[n] = H
    BY <1>8
  <1>10. SliceTypeOK'
    BY <1>1, <1>3, <1>8 DEF SliceTypeOK, SliceRecords
  <1>11. StepsInv'
    <2>1. query.kind \in {"stats", "activity"} /\ query.from <= query.to
      BY <1>1 DEF StepsInv
    <2>2. H # {} => ranges' # <<>>
      BY <1>8
    <2> QED
      BY <1>1, <1>3, <2>1, <2>2 DEF StepsInv
  <1>12. TablesInv'
    <2>1. \A n \in DOMAIN ranges' : ranges'[n] \subseteq Filed
      BY <1>6, <1>9 DEF TablesInv
    <2> QED
      BY <1>1, <2>1 DEF TablesInv, Filed
  <1>13. CountsInv'
    <2> SUFFICES ASSUME NEW h \in Filed
                 PROVE  /\ query.kind = "stats" => StatsOnce(h)' /\ StatsSeen(h)'
                        /\ query.kind = "activity" => ActivityOnce(h)' /\ ActivitySeen(h)'
      BY <1>1 DEF CountsInv, Filed
    <2>1. /\ query.kind = "stats" => StatsOnce(h) /\ StatsSeen(h)
          /\ query.kind = "activity" => ActivityOnce(h) /\ ActivitySeen(h)
      BY <1>1 DEF CountsInv
    <2>2. OutOfOrder(h)' <=> OutOfOrder(h)
      BY <1>1 DEF OutOfOrder, Filed
    <2>3. /\ Remaining(stamp[h]) <=> In(s, stamp[h]) \/ Remaining(stamp[h])'
          /\ In(s, stamp[h]) => ~Rolled(query, stamp[h]) /\ ~Remaining(stamp[h])'
      BY <1>1, <1>3, <1>4
    <2>4. Resolved(h)' <=> Resolved(h) \/ h \in H
      <3>1. CASE H = {}
        BY <1>8, <3>1 DEF Resolved
      <3>2. CASE H # {}
        BY <1>8, <1>9, <3>2 DEF Resolved
      <3> QED
        BY <3>1, <3>2
    <2>5. In(s, stamp[h]) => query.from <= stamp[h] /\ stamp[h] <= query.to
      BY <1>3, <1>4 DEF In, SliceRecords, Instants
    <2>6. h \in H /\ ~OutOfOrder(h) => In(s, stamp[h])
      BY <1>5
    <2>7. In(s, stamp[h]) => h \in H
      BY <1>5
    <2>8. ASSUME query.kind = "stats" PROVE StatsOnce(h)' /\ StatsSeen(h)'
      <3>1. ~Awaiting(h)
        BY <1>1 DEF Awaiting
      <3>2. Awaiting(h)' <=> h \in H
        <4>1. CASE H = {}
          BY <1>1, <4>1 DEF Awaiting
        <4>2. CASE H # {}
          BY <1>1, <1>8, <2>8, <4>2 DEF Awaiting
        <4> QED
          BY <4>1, <4>2
      <3>3. StatsOnce(h)'
        BY <1>1, <2>1, <2>2, <2>3, <2>5, <2>6, <2>8, <3>1, <3>2 DEF StatsOnce
      <3>4. StatsSeen(h)'
        BY <1>1, <2>1, <2>3, <2>7, <2>8, <3>1, <3>2 DEF StatsSeen
      <3> QED
        BY <3>3, <3>4
    <2>9. ASSUME query.kind = "activity" PROVE ActivityOnce(h)' /\ ActivitySeen(h)'
      <3>1. ASSUME ~OutOfOrder(h), NEW m \in DOMAIN ranges', NEW n \in DOMAIN ranges',
                   h \in ranges'[m], h \in ranges'[n]
            PROVE  m = n
        <4>1. CASE h \in H
          <5>1. ~Resolved(h)
            BY <2>1, <2>3, <2>6, <2>9, <3>1, <4>1 DEF ActivityOnce
          <5>2. m \notin DOMAIN ranges /\ n \notin DOMAIN ranges
            BY <1>8, <3>1, <5>1 DEF Resolved
          <5> QED
            BY <1>8, <5>2, <4>1
        <4>2. CASE h \notin H
          <5>1. m \in DOMAIN ranges /\ n \in DOMAIN ranges /\ h \in ranges[m] /\ h \in ranges[n]
            BY <1>9, <3>1, <4>2
          <5> QED
            BY <2>1, <2>9, <3>1, <5>1 DEF ActivityOnce, Resolved
        <4> QED
          BY <4>1, <4>2
      <3>2. ActivityOnce(h)'
        <4> SUFFICES ASSUME ~OutOfOrder(h), Resolved(h)'
                     PROVE  /\ query.from <= stamp[h] /\ stamp[h] <= query.to
                            /\ ~Remaining(stamp[h])' /\ ~Rolled(query, stamp[h])
                            /\ \A m, n \in DOMAIN ranges' : h \in ranges'[m] /\ h \in ranges'[n] => m = n
          BY <1>1, <2>2 DEF ActivityOnce
        <4>1. CASE h \in H
          BY <2>3, <2>5, <2>6, <3>1, <4>1
        <4>2. CASE Resolved(h)
          BY <2>1, <2>3, <2>9, <3>1, <4>2 DEF ActivityOnce
        <4> QED
          BY <2>4, <4>1, <4>2
      <3>3. ActivitySeen(h)'
        BY <1>1, <2>1, <2>3, <2>4, <2>7, <2>9 DEF ActivitySeen
      <3> QED
        BY <3>2, <3>3
    <2> QED
      BY <2>8, <2>9
  <1>14. WindowIsExact'
    BY <1>1 DEF WindowIsExact
  <1> QED
    BY <1>10, <1>11, <1>12, <1>13, <1>14

(* No instant is taken from the days and from the weeks. *)
LEMMA DaysOrWeeks ==
  ASSUME NEW q, q.from \in Nat, q.to \in Nat, NEW t \in Nat
  PROVE  ~(InDays(q, t) /\ InWeeks(q, t))
  <1>1. WeekLo(q) \in Int /\ WeekHi(q) \in Int
    BY WeeksAmongDays
  <1> QED
    BY <1>1 DEF InDays, InWeeks

(* The statement that sums the live ranges and the rollup rows.            *)
LEMMA RankingCounts ==
  ASSUME SliceInv, step = "heights", slices = <<>>, query.kind = "activity", RankAddresses
  PROVE  /\ tally' \in [Heights -> Nat] /\ cut' \in SUBSET Heights
         /\ \A h \in Heights \ Filed : tally'[h] = 0
         /\ \A h \in Filed :
              /\ h <= present /\ h \notin cut' /\ query.from <= stamp[h] /\ stamp[h] < query.to => tally'[h] >= 1
              /\ ~OutOfOrder(h) =>
                   /\ tally'[h] <= 1
                   /\ tally'[h] # 0 => query.from <= stamp[h] /\ stamp[h] <= query.to
  <1> USE DEF SliceInv
  <1> DEFINE days == {h \in Filed : InDays(query, stamp[h])}
             weeks == {h \in Filed : InWeeks(query, stamp[h])}
             live(h) == {n \in DOMAIN ranges : h \in ranges[n]}
             rolled(h) == {s \in {days, weeks} : h \in s \ cut'}
  <1>1. tally' = [h \in Heights |-> Cardinality(live(h)) + Cardinality(rolled(h))]
    BY Zenon DEF RankAddresses
  <1>2. cut' \subseteq Filed
    BY DEF RankAddresses
  <1>3. /\ Filed \subseteq Heights /\ query.from \in Nat /\ query.to \in Nat
        /\ query.from \in Instants /\ query.to \in Instants
        /\ \A h \in Filed : stamp[h] \in Instants /\ stamp[h] \in Nat
    BY Stamps
  <1>4. \A h \in Filed : ~(h \in days /\ h \in weeks)
    BY <1>3, DaysOrWeeks
  <1>5. \A h \in Filed : Rolled(query, stamp[h]) <=> h \in days \/ h \in weeks
    BY DEF Rolled
  <1>6. days \subseteq Filed /\ weeks \subseteq Filed
    OBVIOUS
  <1>7. \A h \in Filed : Rolled(query, stamp[h]) => query.from <= stamp[h] /\ stamp[h] <= query.to
    <2>1. query \in [kind : {"stats", "activity"}, from : Instants, to : Instants] /\ query.from <= query.to
      BY DEF SliceTypeOK, StepsInv
    <2> QED
      BY <1>3, <2>1, WindowDivides
  <1> HIDE DEF days, weeks
  <1>8. \A h : IsFiniteSet(live(h)) /\ (live(h) # {} <=> Resolved(h))
    <2>1. ranges \in Seq(SUBSET Heights)
      BY DEF SliceTypeOK
    <2>2. Len(ranges) \in Nat /\ DOMAIN ranges = 1 .. Len(ranges)
      BY <2>1, LenProperties
    <2>3. IsFiniteSet(DOMAIN ranges)
      BY <2>2, FS_Interval
    <2>4. \A h : live(h) \subseteq DOMAIN ranges /\ (live(h) # {} <=> Resolved(h))
      BY DEF Resolved
    <2> QED
      BY <2>3, <2>4, FS_Subset
  <1>9. \A h : IsFiniteSet(rolled(h))
    <2>1. IsFiniteSet({days, weeks})
      <3>1. IsFiniteSet({days}) /\ {days, weeks} = {days} \cup {weeks} /\ IsFiniteSet({weeks})
        BY FS_Singleton
      <3> QED
        BY <3>1, FS_Union
    <2>2. \A h : rolled(h) \subseteq {days, weeks}
      OBVIOUS
    <2> QED
      BY <2>1, <2>2, FS_Subset
  <1>10. \A h \in Filed : /\ \A a, b \in rolled(h) : a = b
                          /\ rolled(h) # {} => Rolled(query, stamp[h])
                          /\ Rolled(query, stamp[h]) /\ h \notin cut' => rolled(h) # {}
    BY <1>4, <1>5
  <1>14. \A h \in Heights \ Filed : live(h) = {} /\ rolled(h) = {}
    BY <1>6 DEF TablesInv
  <1> HIDE DEF live, rolled
  <1>11. \A h : Cardinality(live(h)) \in Nat /\ Cardinality(rolled(h)) \in Nat
    BY <1>8, <1>9, Few
  <1>12. tally' \in [Heights -> Nat] /\ cut' \in SUBSET Heights
    BY <1>1, <1>2, <1>3, <1>11
  <1>15. ASSUME NEW h \in Heights \ Filed PROVE tally'[h] = 0
    <2>1. Cardinality(live(h)) = 0 /\ Cardinality(rolled(h)) = 0
      BY <1>8, <1>9, <1>14, Few
    <2> QED
      BY <1>1, <2>1
  <1>13. ASSUME NEW h \in Filed
         PROVE  /\ h <= present /\ h \notin cut' /\ query.from <= stamp[h] /\ stamp[h] < query.to => tally'[h] >= 1
                /\ ~OutOfOrder(h) =>
                     /\ tally'[h] <= 1
                     /\ tally'[h] # 0 => query.from <= stamp[h] /\ stamp[h] <= query.to
    <2> DEFINE a == Cardinality(live(h))
               b == Cardinality(rolled(h))
    <2>1. tally'[h] = a + b
      BY <1>1, <1>3
    <2>2. /\ a \in Nat /\ (live(h) = {} => a = 0) /\ (live(h) # {} => a >= 1)
          /\ (\A x, y \in live(h) : x = y) => a <= 1
      BY <1>8, Few
    <2>3. /\ b \in Nat /\ (rolled(h) = {} => b = 0) /\ (rolled(h) # {} => b >= 1)
          /\ b <= 1
      BY <1>9, <1>10, Few
    <2> HIDE DEF a, b
    <2>4. ActivityOnce(h) /\ ActivitySeen(h)
      BY DEF CountsInv
    <2>5. ~Remaining(stamp[h])
      BY DEF Remaining
    <2>6. ASSUME h <= present, query.from <= stamp[h], stamp[h] < query.to, h \notin cut'
          PROVE  tally'[h] >= 1
      <3>1. live(h) # {} \/ rolled(h) # {}
        BY <1>8, <1>10, <2>4, <2>5, <2>6 DEF ActivitySeen
      <3> QED
        BY <2>1, <2>2, <2>3, <3>1
    <2>7. ASSUME ~OutOfOrder(h)
          PROVE  /\ tally'[h] <= 1
                 /\ tally'[h] # 0 => query.from <= stamp[h] /\ stamp[h] <= query.to
      <3>1. CASE Resolved(h)
        <4>1. rolled(h) = {} /\ query.from <= stamp[h] /\ stamp[h] <= query.to
          BY <1>10, <2>4, <2>7, <3>1 DEF ActivityOnce
        <4>2. \A x, y \in live(h) : x = y
          BY <2>4, <2>7, <3>1 DEF ActivityOnce, live
        <4> QED
          BY <2>1, <2>2, <2>3, <4>1, <4>2
      <3>2. CASE ~Resolved(h)
        <4>1. a = 0
          BY <1>8, <2>2, <3>2
        <4>2. b # 0 => query.from <= stamp[h] /\ stamp[h] <= query.to
          BY <1>7, <1>10, <2>3
        <4> QED
          BY <2>1, <2>3, <4>1, <4>2
      <3> QED
        BY <3>1, <3>2
    <2> QED
      BY <2>6, <2>7, Zenon
  <1> QED
    BY <1>12, <1>13, <1>15

(* With no slice left, what is inside the window is counted.               *)
LEMMA AnswerKeeps ==
  ASSUME SliceInv, Answer
  PROVE  SliceInv'
  <1> USE DEF SliceInv
  <1>1. /\ step = "heights" /\ slices = <<>> /\ step' = "done"
        /\ \/ query.kind = "activity" /\ RankAddresses
           \/ query.kind = "stats" /\ UNCHANGED <<tally, cut>>
        /\ UNCHANGED <<stamp, query, slices, ranges, present>>
    BY DEF Answer
  <1>2. StepsInv'
    BY <1>1 DEF StepsInv
  <1>3. CountsInv'
    BY <1>1 DEF CountsInv
  <1>4. /\ Filed \subseteq Heights /\ query.from \in Nat /\ query.to \in Nat
        /\ \A h \in Filed : stamp[h] \in Nat
    BY Stamps
  <1>5. /\ tally' \in [Heights -> Nat] /\ cut' \in SUBSET Heights
        /\ \A h \in Heights \ Filed : tally'[h] = 0
        /\ \A h \in Filed :
              /\ h <= present /\ h \notin cut' /\ query.from <= stamp[h] /\ stamp[h] < query.to => tally'[h] >= 1
              /\ ~OutOfOrder(h) =>
                   /\ tally'[h] <= 1
                   /\ tally'[h] # 0 => query.from <= stamp[h] /\ stamp[h] <= query.to
    <2>1. CASE query.kind = "activity" /\ RankAddresses
      <3> QED
        BY <1>1, <2>1, RankingCounts, Zenon
    <2>2. CASE query.kind = "stats" /\ UNCHANGED <<tally, cut>>
      <3>1. tally \in [Heights -> Nat] /\ cut \in SUBSET Heights
        BY DEF SliceTypeOK
      <3>2. ASSUME NEW h \in Filed
            PROVE  /\ h <= present /\ query.from <= stamp[h] /\ stamp[h] < query.to => tally[h] >= 1
                   /\ ~OutOfOrder(h) =>
                        /\ tally[h] <= 1
                        /\ tally[h] # 0 => query.from <= stamp[h] /\ stamp[h] <= query.to
        <4>1. StatsOnce(h) /\ StatsSeen(h)
          BY <1>1, <2>2 DEF CountsInv
        <4>2. ~Awaiting(h) /\ ~Remaining(stamp[h]) /\ tally[h] \in Nat
          BY <1>1, <1>4, <3>1 DEF Awaiting, Remaining
        <4>3. h <= present /\ query.from <= stamp[h] /\ stamp[h] < query.to => tally[h] # 0
          BY <1>1, <4>1, <4>2 DEF StatsSeen
        <4>4. ~OutOfOrder(h) /\ tally[h] # 0 => tally[h] = 1 /\ query.from <= stamp[h] /\ stamp[h] <= query.to
          BY <4>1, <4>2 DEF StatsOnce
        <4> QED
          BY <4>2, <4>3, <4>4
      <3>3. \A h \in Heights \ Filed : tally[h] = 0
        BY DEF TablesInv
      <3>4. tally' = tally /\ cut' = cut
        BY <2>2
      <3>5. \A h \in Filed :
              /\ h <= present /\ h \notin cut /\ query.from <= stamp[h] /\ stamp[h] < query.to => tally[h] >= 1
              /\ ~OutOfOrder(h) =>
                   /\ tally[h] <= 1
                   /\ tally[h] # 0 => query.from <= stamp[h] /\ stamp[h] <= query.to
        BY <3>2, Zenon
      <3> QED
        BY <3>1, <3>3, <3>4, <3>5, Zenon
    <2> QED
      BY <1>1, <2>1, <2>2, Zenon
  <1>6. SliceTypeOK'
    BY <1>1, <1>5 DEF SliceTypeOK
  <1>7. TablesInv'
    BY <1>1, <1>5 DEF TablesInv, Filed
  <1>8. WindowIsExact'
    <2> SUFFICES ASSUME NEW h \in Filed
                 PROVE  /\ query.from <= stamp[h] /\ stamp[h] < query.to /\ h <= present /\ h \notin cut'
                             => tally'[h] >= 1
                        /\ ~OutOfOrder(h) =>
                             tally'[h] <= (IF stamp[h] < query.from \/ stamp[h] > query.to THEN 0 ELSE 1)
      BY <1>1 DEF WindowIsExact, Filed, OutOfOrder
    <2>1. stamp[h] \in Nat /\ tally'[h] \in Nat
      BY <1>4, <1>5
    <2>2. stamp[h] < query.from \/ stamp[h] > query.to => ~(query.from <= stamp[h] /\ stamp[h] <= query.to)
      BY <1>4, <2>1
    <2> QED
      BY <1>5, <2>1, <2>2
  <1> QED
    BY <1>2, <1>3, <1>6, <1>7, <1>8

LEMMA SliceInitHolds == SliceInit => SliceInv
  <1> SUFFICES ASSUME SliceInit PROVE SliceInv
    OBVIOUS
  <1> USE DEF SliceInit
  <1>1. SliceTypeOK
    <2>1. MaxInstant \in Nat /\ MaxBlocks \in Nat
      BY SliceAssumption
    <2>2. 0 \in Instants /\ 0 \in 0 .. MaxBlocks
      BY <2>1 DEF Instants
    <2>3. query \in [kind : {"none", "stats", "activity"}, from : Instants, to : Instants]
      BY <2>2 DEF NoQuery
    <2> QED
      BY <2>1, <2>2, <2>3 DEF SliceTypeOK
  <1>2. StepsInv
    <2>1. Divides(query, slices)
      BY DEF Divides
    <2> QED
      BY <2>1 DEF StepsInv
  <1>3. TablesInv
    BY DEF TablesInv, Filed
  <1>4. CountsInv
    BY DEF CountsInv, Filed
  <1>5. WindowIsExact
    BY DEF WindowIsExact
  <1> QED
    BY <1>1, <1>2, <1>3, <1>4, <1>5 DEF SliceInv

LEMMA SliceStutters ==
  ASSUME SliceInv, UNCHANGED sliceVars
  PROVE  SliceInv'
  BY DEF SliceInv, sliceVars, SliceTypeOK, StepsInv, TablesInv, CountsInv, WindowIsExact, Filed, OutOfOrder,
         StatsOnce, StatsSeen, ActivityOnce, ActivitySeen, Awaiting, Resolved, Remaining, Divides

(* Every step that counts a window keeps the invariant.                    *)
LEMMA SliceStepKeeps ==
  ASSUME SliceInv, SliceNext
  PROVE  SliceInv'
  <1>1. CASE FileBlock
    BY <1>1, FilingKeeps
  <1>2. ASSUME NEW kind \in {"stats", "activity"}, NEW from \in Instants, NEW to \in Instants,
               from <= to, Ask(kind, from, to)
        PROVE  SliceInv'
    BY <1>2, AskKeeps
  <1>3. CASE CountHours
    BY <1>3, HoursKeep
  <1>4. CASE ResolveSlice
    BY <1>4, ResolvingKeeps
  <1>5. CASE CountSlice
    BY <1>5, CountingKeeps
  <1>6. CASE Answer
    BY <1>6, AnswerKeeps
  <1> QED
    BY <1>1, <1>2, <1>3, <1>4, <1>5, <1>6 DEF SliceNext

(***************************************************************************)
(* The readers together.                                                   *)
(***************************************************************************)
(* A step that counts a window, or none. *)
LEMMA SliceNextKeeps == SliceInv /\ [SliceNext]_sliceVars => SliceInv'
  BY SliceStepKeeps, SliceStutters

LEMMA SliceInductive == SliceSpec => []SliceInv
  BY SliceInitHolds, SliceNextKeeps, PTL DEF SliceSpec

ReadsInv == topic \in Topics /\ ScanInv /\ ListInv /\ SliceInv /\ VotesInv

(* A step of one reader is no step of the others. *)
LEMMA ReadsStepKeeps ==
  ASSUME ReadsInv, [ReadsNext]_readVars
  PROVE  /\ ReadsInv'
         /\ [GovernanceNext]_governanceVars
  <1>1. /\ topic' = topic
        /\ [XpubNext]_xpubVars /\ [ListNext]_listVars
        /\ [SliceNext]_sliceVars /\ [GovernanceNext]_governanceVars
    <2>1. CASE ScanWallet
      BY <2>1, Zenon DEF ScanWallet
    <2>2. CASE PageList
      BY <2>2, Zenon DEF PageList
    <2>3. CASE CountWindow
      BY <2>3, Zenon DEF CountWindow
    <2>4. CASE SyncVotes
      BY <2>4, Zenon DEF SyncVotes
    <2>5. CASE UNCHANGED readVars
      BY <2>5, Zenon DEF readVars
    <2> QED
      BY <2>1, <2>2, <2>3, <2>4, <2>5 DEF ReadsNext
  <1>2. ScanInv'
    BY <1>1, ScanStepKeeps DEF ReadsInv
  <1>3. ListInv'
    BY <1>1, ListStepKeeps DEF ReadsInv
  <1>4. SliceInv'
    BY <1>1, SliceNextKeeps DEF ReadsInv
  <1>5. VotesInv'
    BY <1>1, VotesStepKeeps DEF ReadsInv
  <1> QED
    BY <1>1, <1>2, <1>3, <1>4, <1>5 DEF ReadsInv

LEMMA ReadsInductive == ReadsSpec => []ReadsInv
  <1>1. ReadsInit => ReadsInv
    BY ScanInitHolds, ListInitHolds, SliceInitHolds, VotesInitHolds DEF ReadsInit, ReadsInv
  <1>2. ReadsInv /\ [ReadsNext]_readVars => ReadsInv'
    BY ReadsStepKeeps
  <1> QED
    BY <1>1, <1>2, PTL DEF ReadsSpec

(***************************************************************************)
(* Theorems.                                                               *)
(***************************************************************************)
(* Every reachable state of a scan is well typed: no scan derives, checks  *)
(* or returns more than MaxAddresses, and an answer's first unused index   *)
(* is derivable.                                                           *)
THEOREM ScanTyping == XpubSpec => []XpubTypeOK
  BY ScanInductive, PTL DEF ScanInv

(* What a scan or the shared Redis entry takes for used has a row in the   *)
(* table, whichever scan wrote the entry last.                             *)
THEOREM KnownAddresses == XpubSpec => []KnownIsUsed
  BY ScanInductive, PTL DEF ScanInv

(* A scan gives the wallet as the gap limit defines it: every used address *)
(* below its end, and the end no earlier than when the scan began and no   *)
(* later than now.                                                         *)
THEOREM RepliesAreWallets == XpubSpec => []ReplyIsTheWallet
  <1>1. ScanInv => ReplyIsTheWallet
    BY RepliesAgree DEF ScanInv
  <1> QED
    BY <1>1, ScanInductive, PTL

(* The pages of a wallet's history show no transaction twice, not even one *)
(* that is confirmed between two pages, and hide none: what was there at   *)
(* first and comes before a loaded one is loaded, and at the end all of it.*)
THEOREM CursorWalks == ListSpec => []CursorWalkIsExact
  BY ListInductive, ListInvShows, PTL

(* Blocks that arrive while a list is paged by offset hide no row but one  *)
(* that ties with another: the rows that push the list down make it repeat *)
(* rows, never pass over them.                                             *)
THEOREM OnlyTies == ListSpec => []OnlyTiesAreSkipped
  BY ListInductive, ListInvShows, PTL

(* When a list with a counted total has no next page, all that was there   *)
(* at first is loaded, but for ties.                                       *)
THEOREM EndsAtTheEnd == ListSpec => []EndIsTheEnd
  BY ListInductive, ListInvShows, PTL

(* The answer about a window of time counts each transaction once, for     *)
(* every division into hours, days, weeks and live slices, although blocks *)
(* are filed between its queries and may lie out of order.                 *)
THEOREM WindowsAreExact == SliceSpec => []WindowIsExact
  <1>1. SliceInv => WindowIsExact
    BY DEF SliceInv
  <1> QED
    BY <1>1, SliceInductive, PTL

(* No step of one reader disturbs another: every variable of the four keeps *)
(* its type.                                                               *)
THEOREM ReadsTyping == ReadsSpec => []ReadsTypeOK
  <1>1. ReadsInv => ReadsTypeOK
    BY ListInvShows DEF ReadsInv, ReadsTypeOK, ScanInv, SliceInv, VotesInv
  <1> QED
    BY <1>1, ReadsInductive, PTL

(* What is promised of each reader alone holds of all four together.       *)
THEOREM ReadsKeepPromises ==
  ReadsSpec => /\ [](KnownIsUsed /\ ReplyIsTheWallet)
               /\ [](CursorWalkIsExact /\ OnlyTiesAreSkipped /\ EndIsTheEnd)
               /\ [](WindowIsExact /\ SeriesCountsOnce)
               /\ NewCycleStartsEmpty
  <1>1. ReadsInv => KnownIsUsed /\ ReplyIsTheWallet
    BY RepliesAgree DEF ReadsInv, ScanInv
  <1>2. ReadsInv => CursorWalkIsExact /\ OnlyTiesAreSkipped /\ EndIsTheEnd
    BY ListInvShows DEF ReadsInv
  <1>3. ReadsInv => WindowIsExact /\ SeriesCountsOnce
    BY TypedSeriesCountsOnce DEF ReadsInv, SliceInv, VotesInv
  <1>4. ReadsInv /\ [ReadsNext]_readVars
        => [cycle' # cycle => registry' = {} /\ \A p \in Proposals : cached'[p] = {}]_governanceVars
    <2> SUFFICES ASSUME ReadsInv, [ReadsNext]_readVars
                 PROVE  [cycle' # cycle => registry' = {} /\ \A p \in Proposals : cached'[p] = {}]_governanceVars
      OBVIOUS
    <2>1. [GovernanceNext]_governanceVars
      BY ReadsStepKeeps
    <2>2. VotesInv
      BY DEF ReadsInv
    <2>3. cycle' # cycle => NothingCached'
      BY <2>1, <2>2, VotesStepKeeps
    <2> QED
      BY <2>3 DEF NothingCached
  <1> QED
    BY <1>1, <1>2, <1>3, <1>4, ReadsInductive, PTL DEF ReadsSpec, NewCycleStartsEmpty
=============================================================================
