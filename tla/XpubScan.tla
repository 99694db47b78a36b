------------------------------ MODULE XpubScan ------------------------------
(***************************************************************************)
(* XpubService.resolve: the gap-limit scan of one derivation branch of a   *)
(* wallet, over the table of addresses that the indexer fills and the      *)
(* Redis entry that all API instances share. The two branches of a wallet  *)
(* share no state, so one branch is modelled.                              *)
(*                                                                         *)
(* An address is its index on the branch. Every await is a step: reading   *)
(* the cached branch, looking up one batch of addresses, storing what the  *)
(* scan learned. Between them the code runs alone.                         *)
(***************************************************************************)
EXTENDS Integers, FiniteSets, FiniteSetsExt

CONSTANTS
    Callers,        \* requests, each made once
    Servers,        \* API processes
    Plans,          \* how requests are made: [gap : caller -> gap_limit,
                    \* server : caller -> server], and how many addresses the
                    \* indexer adds meanwhile, a bound: [arrivals : Nat]
    Batch,          \* XPUB_DERIVATION_BATCH_SIZE, no smaller than any gap_limit
    MaxAddresses    \* XPUB_MAX_ADDRESSES_PER_BRANCH

Gaps == 1 .. Batch

ASSUME XpubAssumption ==
    /\ Batch \in Nat \ {0}
    /\ MaxAddresses \in Nat \ {0}
    /\ "none" \notin Callers
    /\ Plans \subseteq [gap : [Callers -> Gaps], server : [Callers -> Servers],
                         arrivals : Nat]

VARIABLES
    used,       \* table addresses: the indices that have a row
    branch,     \* Redis: the branch's entry, [derived, ids]
    running,    \* server -> gap limit -> the caller whose scan is in flight
    phase,      \* caller -> where its code waits
    scan,       \* caller -> the variables of its scanBranch
    reply,      \* caller -> what resolve gave it
    arrivals,   \* addresses the indexer will yet add
    plan,       \* the plan the callers follow
    usedAt      \* history: caller -> the table when the scan it awaits began

xpubVars == <<used, branch, running, phase, scan, reply, arrivals, plan, usedAt>>

NoCaller == "none"
NoIndex == -1
Indices == 0 .. MaxAddresses - 1

\* No entry: nothing derived, nothing known to be used.
NoBranch == [derived |-> 0, ids |-> {}]

ScanOf(entry) ==
    [derived |-> entry.derived, known |-> entry.ids, checkedTo |-> 0, scannedTo |-> 0,
     cached |-> entry]

NoReply == [count |-> -1, ids |-> {}, firstUnused |-> NoIndex]
Rejected == [count |-> -2, ids |-> {}, firstUnused |-> NoIndex]

Branches == [derived : 0 .. MaxAddresses, ids : SUBSET Indices]

XpubTypeOK ==
    /\ used \in SUBSET Indices
    /\ branch \in Branches
    /\ running \in [Servers -> [Gaps -> Callers \cup {NoCaller}]]
    /\ phase \in [Callers -> {"idle", "reading", "looking", "storing", "joined", "done"}]
    /\ scan \in [Callers -> [derived : 0 .. MaxAddresses, known : SUBSET Indices,
                             checkedTo : 0 .. MaxAddresses, scannedTo : 0 .. MaxAddresses,
                             cached : Branches]]
    /\ reply \in [Callers -> [count : -2 .. MaxAddresses, ids : SUBSET Indices,
                              firstUnused : Indices \cup {NoIndex}]]
    /\ arrivals \in Nat
    /\ plan \in Plans
    /\ usedAt \in [Callers -> SUBSET Indices]

(***************************************************************************)
(* The walk along the branch.                                              *)
(***************************************************************************)
\* `run` when the walk stands at index e: the unused addresses just before it.
RunAt(known, e) == e - 1 - Max({-1} \cup {i \in known : i < e})

\* mutant: the run is looked at between batches only.
WalkedByBatch(s, gap) == [s EXCEPT !.scannedTo = s.checkedTo]

\* The walk goes on over checked addresses until the run is gap long.
Walked(s, gap) ==
    [s EXCEPT !.scannedTo =
        Min({e \in s.scannedTo .. s.checkedTo : RunAt(s.known, e) >= gap} \cup {s.checkedTo})]

\* mutant: no safety valve.
EndedByGap(s, gap) == RunAt(s.known, s.scannedTo) >= gap

Ended(s, gap) ==
    \/ RunAt(s.known, s.scannedTo) >= gap
    \/ s.scannedTo >= MaxAddresses

\* mutant: the last batch is derived as a whole.
ExtendedUncapped(s, gap) ==
    IF s.scannedTo < s.derived THEN s
    ELSE [s EXCEPT !.derived = @ + IF @ < Batch THEN gap ELSE Batch]

\* Derives further when the walk has reached the end of what is derived: by
\* the gap limit at first, by whole batches once the wallet has proved long.
Extended(s, gap) ==
    IF s.scannedTo < s.derived THEN s
    ELSE [s EXCEPT !.derived =
            @ + Min({IF @ < Batch THEN gap ELSE Batch, MaxAddresses - @})]

\* mutant: what was looked up counts as known.
ConfirmedWhole(s) ==
    LET to == Min({s.checkedTo + Batch, s.derived})
    IN  [s EXCEPT !.known = @ \cup s.checkedTo .. to - 1, !.checkedTo = to]

\* confirmUpTo: looks up the next batch, all but the addresses known before.
Confirmed(s) ==
    LET to == Min({s.checkedTo + Batch, s.derived})
        slice == {i \in Indices : s.checkedTo <= i /\ i < to} \ s.known
    IN  [s EXCEPT !.known = @ \cup (slice \cap used), !.checkedTo = to]

\* What the scan returns.
Scanned(s) ==
    LET seen == 0 .. s.scannedTo - 1
    IN  [count |-> s.scannedTo,
         ids |-> seen \cap s.known,
         firstUnused |-> IF seen \subseteq s.known THEN NoIndex ELSE Min(seen \ s.known)]

(***************************************************************************)
(* Steps.                                                                  *)
(***************************************************************************)
\* The indexer sees an address for the first time; rows are never deleted.
AddressSeen ==
    /\ arrivals > 0
    /\ arrivals' = arrivals - 1
    /\ \E i \in Indices \ used : used' = used \cup {i}
    /\ UNCHANGED <<branch, running, phase, scan, reply, plan, usedAt>>

\* The entry outlives XPUB_CACHE_LIFE_TIME, or is dropped as unreadable.
BranchExpires ==
    /\ branch # NoBranch
    /\ branch' = NoBranch
    /\ UNCHANGED <<used, running, phase, scan, reply, arrivals, plan, usedAt>>

\* resolve: the same key and gap limit share the scan that is in flight.
StartScan(c) ==
    LET p == plan.server[c]
        g == plan.gap[c]
    IN  /\ phase[c] = "idle"
        /\ running[p][g] = NoCaller
        /\ running' = [running EXCEPT ![p][g] = c]
        /\ phase' = [phase EXCEPT ![c] = "reading"]
        /\ usedAt' = [usedAt EXCEPT ![c] = used]
        /\ UNCHANGED <<used, branch, scan, reply, arrivals, plan>>

JoinScan(c) ==
    LET other == running[plan.server[c]][plan.gap[c]]
    IN  /\ phase[c] = "idle"
        /\ other # NoCaller
        /\ phase' = [phase EXCEPT ![c] = "joined"]
        /\ usedAt' = [usedAt EXCEPT ![c] = usedAt[other]]
        /\ UNCHANGED <<used, branch, running, scan, reply, arrivals, plan>>

\* cache.get answered: the walk begins, and needs addresses to walk over.
ReadBranch(c) ==
    /\ phase[c] = "reading"
    /\ scan' = [scan EXCEPT ![c] = Extended(ScanOf(branch), plan.gap[c])]
    /\ phase' = [phase EXCEPT ![c] = "looking"]
    /\ UNCHANGED <<used, branch, running, reply, arrivals, plan, usedAt>>

\* One lookup answered, and the walk over the batch it confirmed. (A
\* quantifier over one value makes TLC compute it once.)
LookUp(c) ==
    \E t \in {Confirmed(scan[c])} : \E s \in {Walked(t, plan.gap[c])} :
        /\ phase[c] = "looking"
        /\ \/ /\ Ended(s, plan.gap[c])
              /\ scan' = [scan EXCEPT ![c] = s]
              /\ phase' = [phase EXCEPT ![c] = "storing"]
           \/ /\ ~Ended(s, plan.gap[c])
              /\ scan' = [scan EXCEPT ![c] = Extended(s, plan.gap[c])]
              /\ UNCHANGED phase
        /\ UNCHANGED <<used, branch, running, reply, arrivals, plan, usedAt>>

\* The scan of c settles: it leaves the map, and c and all that joined it get
\* the outcome.
SettleScan(c, outcome) ==
    LET g == plan.gap[c]
        p == plan.server[c]
        gets(d) == d = c \/ (phase[d] = "joined" /\ plan.gap[d] = g /\ plan.server[d] = p)
    IN  /\ running' = [running EXCEPT ![p][g] = NoCaller]
        /\ phase' = [d \in Callers |-> IF gets(d) THEN "done" ELSE phase[d]]
        /\ reply' = [d \in Callers |-> IF gets(d) THEN outcome ELSE reply[d]]
        /\ scan' = [scan EXCEPT ![c] = ScanOf(NoBranch)]

\* A scan that learned something writes its entry over whatever is there.
StoreBranch(c) ==
    LET s == scan[c]
    IN  /\ phase[c] = "storing"
        /\ branch' = IF s.derived # s.cached.derived
                        \/ Cardinality(s.known) # Cardinality(s.cached.ids)
                     THEN [derived |-> s.derived, ids |-> s.known]
                     ELSE branch
        /\ \E outcome \in {Scanned(s)} : SettleScan(c, outcome)
        /\ UNCHANGED <<used, arrivals, plan, usedAt>>

\* Redis or the database fails the command the scan awaits.
ScanFails(c) ==
    /\ phase[c] \in {"reading", "looking", "storing"}
    /\ SettleScan(c, Rejected)
    /\ UNCHANGED <<used, branch, arrivals, plan, usedAt>>

XpubInit ==
    /\ used \in SUBSET Indices
    /\ branch = NoBranch
    /\ running = [p \in Servers |-> [g \in Gaps |-> NoCaller]]
    /\ phase = [c \in Callers |-> "idle"]
    /\ scan = [c \in Callers |-> ScanOf(NoBranch)]
    /\ reply = [c \in Callers |-> NoReply]
    /\ plan \in Plans
    /\ arrivals = plan.arrivals
    /\ usedAt = [c \in Callers |-> {}]

ScanStep(c) == ReadBranch(c) \/ LookUp(c) \/ StoreBranch(c)

XpubNext ==
    \/ AddressSeen
    \/ BranchExpires
    \/ \E c \in Callers : StartScan(c) \/ JoinScan(c) \/ ScanStep(c) \/ ScanFails(c)

\* Redis and the database answer; nothing makes users ask, the wallet grow or
\* entries expire.
XpubFairness == \A c \in Callers : WF_xpubVars(ScanStep(c))

XpubSpec == XpubInit /\ [][XpubNext]_xpubVars /\ XpubFairness

(***************************************************************************)
(* Properties.                                                             *)
(***************************************************************************)
\* Where BIP44 says a wallet with used addresses U ends: after the first gap
\* consecutive unused addresses, or at the most the code scans.
WalletEnd(U, gap) ==
    Min({e \in gap .. MaxAddresses : U \cap (e - gap .. e - 1) = {}} \cup {MaxAddresses})

\* "Caching used-ness is safe because it is monotonic": what a scan or the
\* shared entry takes for used has a row, whichever scan wrote the entry last,
\* and is among the derived addresses.
KnownIsUsed ==
    /\ branch.ids \subseteq {i \in used : i < branch.derived}
    /\ \A c \in Callers : scan[c].known \subseteq {i \in used : i < scan[c].derived}

\* A scan gives the wallet as the gap limit defines it, whatever batches it
\* looked up in, whatever entry it started from and whoever overwrote that
\* entry meanwhile: as it was when the scan began, or with some of what the
\* indexer added since. The next unused address it names was unused then.
ReplyIsTheWallet ==
    \A c \in Callers : reply[c].count >= 0 =>
        LET a == reply[c]
            seen == 0 .. a.count - 1
        IN  /\ a.count >= WalletEnd(usedAt[c], plan.gap[c])
            /\ a.count <= WalletEnd(used, plan.gap[c])
            /\ usedAt[c] \cap seen \subseteq a.ids
            /\ a.ids \subseteq used \cap seen
            /\ a.firstUnused = Min((seen \ a.ids) \cup {MaxAddresses})
               \/ (seen = a.ids /\ a.firstUnused = NoIndex)

\* Every caller is answered, though the wallet grows while it is scanned, the
\* entry expires or is overwritten, and the scan it joined fails.
EveryScanEnds ==
    \A c \in Callers : phase[c] # "idle" ~> phase[c] = "done"
=============================================================================
