----------------------------- MODULE ListPaging -----------------------------
(***************************************************************************)
(* The paged transaction lists of the API, read page by page by a client   *)
(* while the indexer adds transactions and blocks.                         *)
(*                                                                         *)
(* Four lists are read newest first: a wallet's by cursor                  *)
(* (getXpubTransactions), all transactions by offset (getTransactions), an *)
(* address's by offset with the pending ones on top (getAddressTransactions) *)
(* and a masternode's by offset (getMasternodeTransactions). A row is its  *)
(* id, given in the order of insertion: a pending row gets a height later, *)
(* so ids and heights are in no common order.                              *)
(***************************************************************************)
EXTENDS Integers, Sequences, FiniteSets, FiniteSetsExt

CONSTANTS
    Owned,          \* addresses of the wallet, or of the masternode
    TheAddress,     \* the one whose page is open, one of Owned
    OwnerSets,      \* the addresses of Owned a transaction may touch
    Limits,         \* page sizes a client may ask for
    MaxRows,        \* bound on rows of table transactions
    MaxTip          \* bound on the chain's height

ASSUME ListAssumption ==
    /\ TheAddress \in Owned
    /\ OwnerSets \subseteq SUBSET Owned
    /\ Limits \subseteq Nat \ {0}
    /\ MaxRows \in Nat /\ MaxTip \in Nat

VARIABLES
    rows,       \* table transactions: id -> [height, coinbase, owners]
    tip,        \* the highest block
    list,       \* the list the client reads
    limit,      \* its page size
    page,       \* the pages it has, in order: [confirmed, pending] ids
    after,      \* cursor list: the row the next page starts after, or NoRow
    total,      \* offset lists: the total the last page came with
    ended,      \* there is no next page
    listed      \* history: the rows there were when the first page was read

listVars == <<rows, tip, list, limit, page, after, total, ended, listed>>

Lists == {"wallet", "all", "address", "masternode"}
NoHeight == 0       \* block_height IS NULL
NoRow == 0
Ids == DOMAIN rows

ListTypeOK ==
    /\ rows \in Seq([height : 0 .. MaxTip, coinbase : BOOLEAN, owners : OwnerSets])
    /\ tip \in 0 .. MaxTip
    /\ list \in Lists
    /\ limit \in Limits
    /\ page \in Seq([confirmed : SUBSET Ids, pending : SUBSET Ids])
    /\ after \in Ids \cup {NoRow}
    /\ total \in Int
    /\ ended \in BOOLEAN
    /\ listed \in SUBSET Ids

Mined == {x \in Ids : rows[x].height # NoHeight}
Pending == Ids \ Mined

Touching(A) == {x \in Ids : rows[x].owners \cap A # {}}

\* The rows a list is about, and the confirmed ones, which it pages.
Matching(l) ==
    CASE l = "all" -> Ids
      [] l = "address" -> Touching({TheAddress})
      [] OTHER -> Touching(Owned)

Paged(l) == Mined \cap Matching(l)

(***************************************************************************)
(* The cursor list.                                                        *)
(***************************************************************************)
\* ORDER BY block_height DESC, tx_id DESC: x comes before y.
Before(x, y) ==
    \/ rows[x].height > rows[y].height
    \/ rows[x].height = rows[y].height /\ x > y

\* LIMIT n of S in that order.
Top(S, n) == {x \in S : Cardinality({y \in S : Before(y, x)}) < n}

\* mutant: the cursor skips what is left of its row's block.
BelowCursorBlock(a, c) ==
    {x \in Mined : a \in rows[x].owners /\ (c = NoRow \/ rows[x].height < rows[c].height)}

\* The rest of an address's history below the cursor's row.
BelowCursor(a, c) ==
    {x \in Mined : a \in rows[x].owners /\ (c = NoRow \/ Before(c, x))}

\* One row more than a page, of each address and then of all of them.
Merged(c) ==
    Top(UNION {Top(BelowCursor(a, c), limit + 1) : a \in Owned}, limit + 1)

\* The last row of a page, whose hash is the next cursor.
Last(S) == CHOOSE x \in S : \A y \in S : x = y \/ Before(y, x)

CursorPage(c) ==
    LET more == Cardinality(Merged(c)) > limit
        confirmed == Top(Merged(c), limit)
    IN  /\ page' = Append(page, [confirmed |-> confirmed,
                                 pending |-> IF c = NoRow
                                             THEN Pending \cap Touching(Owned) ELSE {}])
        /\ after' = IF more THEN Last(confirmed) ELSE NoRow
        /\ ended' = ~more
        /\ UNCHANGED total

\* A client may start anywhere: no cursor, or any transaction's hash. That of
\* a pending one is refused (InvalidCursorError).
FirstCursorPage ==
    /\ list = "wallet"
    /\ page = <<>> /\ ~ended
    /\ \E c \in Ids \cup {NoRow} :
        \/ /\ c \in Pending
           /\ ended' = TRUE
           /\ UNCHANGED <<page, after, total, listed>>
        \/ /\ c \notin Pending
           /\ CursorPage(c)
           /\ listed' = UNION {BelowCursor(a, c) : a \in Owned}
    /\ UNCHANGED <<rows, tip, list, limit>>

NextCursorPage ==
    /\ list = "wallet"
    /\ page # <<>> /\ ~ended
    /\ CursorPage(after)
    /\ UNCHANGED <<rows, tip, list, limit, listed>>

(***************************************************************************)
(* The offset lists.                                                       *)
(***************************************************************************)
\* x comes before y whatever the database chooses: getTransactions orders by
\* height, coinbase and id; the other two by height alone.
Above(x, y) ==
    \/ rows[x].height > rows[y].height
    \/ /\ list = "all" /\ rows[x].height = rows[y].height
       /\ \/ rows[x].coinbase /\ ~rows[y].coinbase
          \/ rows[x].coinbase = rows[y].coinbase /\ x < y

\* The rows that the order leaves in any sequence with x, x among them.
Tied(S, x) == {y \in S : ~Above(x, y) /\ ~Above(y, x)}

\* OFFSET from LIMIT limit of S: of rows that tie, any as many as fit.
PossiblePages(S, from) ==
    LET fits(x) ==
            LET first == Cardinality({y \in S : Above(y, x)})
                beyond == first + Cardinality(Tied(S, x))
            IN  Max({0, Min({beyond, from + limit}) - Max({first, from})})
    IN  {P \in SUBSET S : \A x \in S : Cardinality(P \cap Tied(S, x)) = fits(x)}

\* mutant: pages count from 0.
FromRankOfNext(n) == n * limit

FromRank(n) == (n - 1) * limit

\* The totals a page may carry: a count, or for all transactions the
\* planner's estimate, too low or too high. An empty page says -1.
Totals ==
    IF list = "all" THEN {0, MaxRows + 1}
    ELSE {Cardinality(Paged(list))}

OffsetPage(n) ==
    LET pending == IF n = 1 /\ list = "address" THEN Pending \cap Matching(list) ELSE {}
    IN  /\ \E P \in PossiblePages(Paged(list), FromRank(n)) :
               /\ page' = Append(page, [confirmed |-> P, pending |-> pending])
               /\ \E t \in Totals : total' = IF P \cup pending = {} THEN -1 ELSE t
        /\ UNCHANGED after

\* mutant: a short last page is taken for none.
HasFullNextPage(n, t) == (n + 1) * limit <= t

\* getNextPageParam: the client asks for page n + 1 while n pages are less
\* than the total.
HasNextPage(n, t) == n * limit < t

FirstOffsetPage ==
    /\ list # "wallet"
    /\ page = <<>>
    /\ OffsetPage(1)
    /\ ended' = ~HasNextPage(1, total')
    /\ listed' = Paged(list)
    /\ UNCHANGED <<rows, tip, list, limit>>

NextOffsetPage ==
    LET n == Len(page) + 1
    IN  /\ list # "wallet"
        /\ page # <<>> /\ ~ended
        /\ OffsetPage(n)
        /\ ended' = ~HasNextPage(n, total')
        /\ UNCHANGED <<rows, tip, list, limit, listed>>

(***************************************************************************)
(* The indexer meanwhile.                                                  *)
(***************************************************************************)
AddPending ==
    /\ Len(rows) < MaxRows
    /\ \E A \in OwnerSets :
        rows' = Append(rows, [height |-> NoHeight, coinbase |-> FALSE, owners |-> A])
    /\ UNCHANGED <<tip, list, limit, page, after, total, ended, listed>>

\* A block confirms pending rows and brings its coinbase.
AddBlock ==
    /\ tip < MaxTip /\ Len(rows) < MaxRows
    /\ tip' = tip + 1
    /\ \E P \in SUBSET Pending, A \in OwnerSets :
        rows' = Append([x \in Ids |-> IF x \in P THEN [rows[x] EXCEPT !.height = tip'] ELSE rows[x]],
                       [height |-> tip', coinbase |-> TRUE, owners |-> A])
    /\ UNCHANGED <<list, limit, page, after, total, ended, listed>>

ListInit ==
    /\ rows = <<>>
    /\ tip = 0
    /\ list \in Lists
    /\ limit \in Limits
    /\ page = <<>>
    /\ after = NoRow
    /\ total = -1
    /\ ended = FALSE
    /\ listed = {}

ListNext ==
    \/ AddPending
    \/ AddBlock
    \/ FirstCursorPage
    \/ NextCursorPage
    \/ FirstOffsetPage
    \/ NextOffsetPage

ListSpec == ListInit /\ [][ListNext]_listVars

(***************************************************************************)
(* Properties.                                                             *)
(***************************************************************************)
Loaded == UNION {page[n].confirmed : n \in DOMAIN page}

\* A wallet's history read by cursor is exact while the chain grows: no
\* transaction comes twice, not even a pending one that confirms meanwhile;
\* what is loaded is the newest part of what there was at first, without a
\* hole at a page's or a block's edge; and at the end it is all of it.
CursorWalkIsExact ==
    list = "wallet" =>
        /\ \A m, n \in DOMAIN page : m # n =>
               page[m].confirmed \cap (page[n].confirmed \cup page[n].pending) = {}
        /\ Loaded \subseteq listed
        /\ \A x \in listed, y \in Loaded : Before(x, y) => x \in Loaded
        /\ ended /\ page # <<>> => Loaded = listed

\* Rows that share a block with x, in a list whose order does not tell them
\* apart.
HasTies(x) == Tied(listed, x) # {x}

\* Blocks that arrive while an offset list is read may show a row twice but
\* never hide one: a row that was there at first and comes before a loaded one
\* is loaded too. Only rows that tie with another may be missed.
OnlyTiesAreSkipped ==
    list # "wallet" =>
        \A x \in listed, y \in Loaded : Above(x, y) => x \in Loaded \/ HasTies(x)

\* When a list with a counted total has no next page, the client has seen all
\* that was there at first, but for ties.
EndIsTheEnd ==
    list \in {"address", "masternode"} /\ ended =>
        \A x \in listed : x \in Loaded \/ HasTies(x)
=============================================================================
