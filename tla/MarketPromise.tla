---------------------------- MODULE MarketPromise ----------------------------
(***************************************************************************)
(* What the market endpoints promise, without the cache that keeps it: a   *)
(* request is answered with a value an upstream really gave, which is      *)
(* fresh, or not older than the stale life while that upstream has         *)
(* recently failed; the fallback upstream speaks only while the primary    *)
(* one has recently failed; a request is refused only while both have.     *)
(*                                                                         *)
(* Lag is the time a lookup may take: ages are compared with the moment    *)
(* the request began, so an answer may be Lag older than the code measured.*)
(***************************************************************************)
EXTENDS Integers

CONSTANTS
    Requests,       \* requests, each asked once
    Ttl,            \* MARKET_CACHE_LIFE_TIME
    StaleLife,      \* MARKET_STALE_LIFE_TIME
    FailureLife,    \* MARKET_FAILURE_LIFE_TIME
    Lag,            \* bound on the duration of one lookup
    OneSource       \* requests for a figure that only the primary upstream has

VARIABLES
    now,        \* the time
    pulled,     \* values the upstreams gave: [src, at]
    outages,    \* upstream -> the time of its latest failure, or Never
    begun,      \* request -> the time it began, or NotBegun
    given       \* request -> its answer, or Waiting

promiseVars == <<now, pulled, outages, begun, given>>

Primary == "current"
Fallback == "fallback"
Upstreams == {Primary, Fallback}
NotBegun == -1
Never == -1 - FailureLife
Waiting == [src |-> "waiting", at |-> 0]
Refused == [src |-> "refused", at |-> 0]

\* src failed so recently that r could not have it tried again.
Failing(src, r) ==
    outages[src] + FailureLife + Lag > begun[r]

Fresh(v, r) == v.at + Ttl > begun[r]

Stale(v, r) == v.at + StaleLife + 2 * Lag > begun[r]

PromiseInit ==
    /\ now \in Nat
    /\ pulled \in SUBSET [src : Upstreams, at : 0 .. now]
    /\ outages = [src \in Upstreams |-> Never]
    /\ begun = [r \in Requests |-> NotBegun]
    /\ given = [r \in Requests |-> Waiting]

Elapse ==
    /\ now' = now + 1
    /\ UNCHANGED <<pulled, outages, begun, given>>

Pull(src) ==
    /\ pulled' = pulled \cup {[src |-> src, at |-> now]}
    /\ UNCHANGED <<now, outages, begun, given>>

Fail(src) ==
    /\ outages' = [outages EXCEPT ![src] = now]
    /\ UNCHANGED <<now, pulled, begun, given>>

Ask(r) ==
    /\ begun[r] = NotBegun
    /\ begun' = [begun EXCEPT ![r] = now]
    /\ UNCHANGED <<now, pulled, outages, given>>

\* The values a request may be answered with.
MayGive(r, v) ==
    /\ Fresh(v, r) \/ (Stale(v, r) /\ Failing(v.src, r))
    /\ v.src = Fallback => Failing(Primary, r)

Give(r, v) ==
    /\ begun[r] # NotBegun
    /\ given[r] = Waiting
    /\ v \in pulled
    /\ MayGive(r, v)
    /\ given' = [given EXCEPT ![r] = v]
    /\ UNCHANGED <<now, pulled, outages, begun>>

\* A request is refused while both upstreams fail, or, when only the primary
\* one has the figure asked for, while that one does.
Refuse(r) ==
    /\ begun[r] # NotBegun
    /\ given[r] = Waiting
    /\ Failing(Primary, r)
    /\ Failing(Fallback, r) \/ r \in OneSource
    /\ given' = [given EXCEPT ![r] = Refused]
    /\ UNCHANGED <<now, pulled, outages, begun>>

PromiseNext ==
    \/ Elapse
    \/ \E src \in Upstreams : Pull(src) \/ Fail(src)
    \/ \E r \in Requests : Ask(r) \/ Refuse(r) \/ \E v \in pulled : Give(r, v)

PromiseSpec == PromiseInit /\ [][PromiseNext]_promiseVars
=============================================================================
