------------------------------ MODULE ApiReads ------------------------------
(***************************************************************************)
(* The reads of the API that take several steps, each against what the     *)
(* indexer writes meanwhile: the scan of a wallet, the paged lists, the    *)
(* windows of time and the vote chart. They share no state, so a behaviour *)
(* is one of one of them.                                                  *)
(***************************************************************************)
EXTENDS XpubScan, ListPaging, TimeSlices, Governance

VARIABLE topic      \* what the behaviour is about

readVars == <<topic, xpubVars, listVars, sliceVars, governanceVars>>

Topics == {"wallet", "list", "window", "votes"}

\* The parts that a behaviour is not about stay in one initial state.
ReadsInit ==
    /\ topic \in Topics
    /\ XpubInit /\ ListInit /\ SliceInit /\ GovernanceInit
    /\ topic # "wallet" => used = {} /\ plan = CHOOSE p \in Plans : TRUE
    /\ topic # "list" => list = "all" /\ limit = Min(Limits)

ScanWallet ==
    /\ topic = "wallet"
    /\ XpubNext
    /\ UNCHANGED <<topic, listVars, sliceVars, governanceVars>>

PageList ==
    /\ topic = "list"
    /\ ListNext
    /\ UNCHANGED <<topic, xpubVars, sliceVars, governanceVars>>

CountWindow ==
    /\ topic = "window"
    /\ SliceNext
    /\ UNCHANGED <<topic, xpubVars, listVars, governanceVars>>

SyncVotes ==
    /\ topic = "votes"
    /\ GovernanceNext
    /\ UNCHANGED <<topic, xpubVars, listVars, sliceVars>>

ReadsNext == ScanWallet \/ PageList \/ CountWindow \/ SyncVotes

ReadsSpec == ReadsInit /\ [][ReadsNext]_readVars /\ XpubFairness

(***************************************************************************)
(* Properties.                                                             *)
(***************************************************************************)
\* Every variable of the four readers keeps its type.
ReadsTypeOK ==
    /\ topic \in Topics
    /\ XpubTypeOK
    /\ ListTypeOK
    /\ SliceTypeOK
    /\ GovernanceTypeOK
=============================================================================
