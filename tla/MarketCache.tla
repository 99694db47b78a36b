----------------------------- MODULE MarketCache -----------------------------
(***************************************************************************)
(* MarketService.load over the Redis cache that the API instances share.   *)
(*                                                                         *)
(* A request looks up the primary key and, when that throws, the fallback  *)
(* key. Every await of a lookup is a step of its own: a command is queued  *)
(* on the instance's one Redis connection, executed by Redis, and its      *)
(* reply is handled by the continuation. Commands of one connection are    *)
(* executed and answered in order; those of two instances interleave       *)
(* freely. The steps between two awaits are atomic, as the event loop runs *)
(* them.                                                                   *)
(*                                                                         *)
(* A value is the upstream it came from and the time it was fetched; the   *)
(* clock ticks in units of the failure marker's life. A lookup, with its   *)
(* upstream timeout of 4 s against a marker of 60 s, lasts at most one     *)
(* tick.                                                                   *)
(***************************************************************************)
EXTENDS Integers, Sequences

CONSTANTS
    Instances,      \* API processes
    Requests,       \* requests, each asked once
    Scenarios,      \* where requests go, how often Redis fails, what it holds
                    \* at first under the primary key, and the time then: [home :
                    \* request -> instance, faults, start : Nat, cached : value]
    OneSource,      \* requests for market cap, volume: only the primary has it
    Ttl,            \* MARKET_CACHE_LIFE_TIME
    StaleLife,      \* MARKET_STALE_LIFE_TIME
    FailureLife,    \* MARKET_FAILURE_LIFE_TIME
    MaxClock        \* bound on the clock

ASSUME MarketAssumption ==
    /\ \A s \in Scenarios :
        /\ s.home \in [Requests -> Instances]
        /\ s.faults \in Nat
        /\ s.start \in 0 .. MaxClock
    /\ Instances # {} /\ "nobody" \notin Requests
    /\ OneSource \subseteq Requests
    /\ Ttl \in Nat /\ StaleLife \in Nat /\ FailureLife \in Nat
    /\ MaxClock \in Nat

\* A value is fresh for longer than a lookup takes (an hour against a tick of
\* a minute), and a failure marker lasts a tick.
ASSUME LivesAssumption == Ttl >= 2 /\ FailureLife >= 1

VARIABLES
    clock,      \* Date.now()
    entry,      \* Redis: key -> cached entry
    marker,     \* Redis: key -> the failure marker `${key}:down`
    pipe,       \* instance -> its Redis commands, oldest first
    inFlight,   \* instance -> key -> the request whose refresh is in flight
    stage,      \* request -> where its code waits
    key,        \* request -> the key it looks up
    seen,       \* request -> `cached`, what its lookup read from Redis
    joined,     \* request -> the request whose refresh it awaits
    outcome,    \* request -> key -> how the refresh it started settled
    asked,      \* request -> the time it began
    looked,     \* request -> the time its current lookup began
    answer,     \* request -> what it was answered
    home,       \* request -> the instance the load balancer gives it to
    faults,     \* commands Redis will yet fail
    fetched,    \* history: the values upstreams gave
    failed      \* history: key -> the time of its latest failure, or Never

redisVars == <<entry, marker>>
requestVars == <<stage, key, seen, joined, outcome, asked, looked, answer>>
historyVars == <<home, faults, fetched, failed>>
marketVars == <<clock, redisVars, pipe, inFlight, requestVars, historyVars>>

Primary == "current"
Fallback == "fallback"
Keys == {Primary, Fallback}

\* What is not a value has a value's shape and a source of its own.
Special(name) == [src |-> name, at |-> 0]
Absent == Special("absent")         \* Redis has no such key
Garbage == Special("garbage")       \* what it has does not parse
Queued == Special("queued")         \* the command is not executed yet
Stored == Special("stored")         \* done; for the marker: there is one
Failure == Special("failure")       \* the command's promise rejects
Unsettled == Special("unsettled")
Thrown == Special("thrown")
Waiting == Special("waiting")
Refused == Special("refused")       \* MarketDataUnavailableError
Nobody == "nobody"
NotBegun == -1
Never == -1 - FailureLife

Times == 0 .. MaxClock
Values == [src : Keys, at : Times]

\* A value found at the start has just been stored by a lookup of its time.
ASSUME CacheAssumption ==
    \A s \in Scenarios :
        /\ s.cached \in Values \cup {Absent, Garbage}
        /\ s.cached \in Values =>
               s.cached.src = Primary /\ s.start \in s.cached.at .. s.cached.at + 1

Expiries == 0 .. MaxClock + StaleLife + FailureLife
Ops == {"get", "delete", "getDown", "set", "setDown"}
Stages == {"idle", "reading", "dropping", "probing", "awaiting", "fetching",
           "saving", "marking", "settling", "done"}
\* The stages of a request that has a refresh in flight.
Refreshing == {"fetching", "saving", "marking", "settling"}

MarketTypeOK ==
    /\ clock \in Times
    /\ entry \in [Keys -> [value : Values \cup {Absent, Garbage}, until : Expiries]]
    /\ marker \in [Keys -> [until : Expiries, by : Instances]]
    /\ pipe \in [Instances -> Seq([by : Requests, op : Ops,
                    reply : Values \cup {Queued, Absent, Garbage, Failure, Stored}])]
    /\ inFlight \in [Instances -> [Keys -> Requests \cup {Nobody}]]
    /\ stage \in [Requests -> Stages]
    /\ key \in [Requests -> Keys]
    /\ seen \in [Requests -> Values \cup {Absent}]
    /\ joined \in [Requests -> Requests \cup {Nobody}]
    /\ outcome \in [Requests -> [Keys -> Values \cup {Thrown, Unsettled}]]
    /\ asked \in [Requests -> Times \cup {NotBegun}]
    /\ looked \in [Requests -> Times]
    /\ answer \in [Requests -> Values \cup {Waiting, Refused}]
    /\ home \in [Requests -> Instances]
    /\ faults \in Nat
    /\ fetched \in SUBSET Values
    /\ failed \in [Keys -> Times \cup {Never}]

\* The refresh that r awaits has settled.
Settled(r) ==
    /\ stage[r] = "awaiting"
    /\ ~(stage[joined[r]] \in Refreshing /\ key[joined[r]] = key[r])

\* Instance i has resolved promises whose continuations run before it turns
\* to anything that arrives from outside. Replies that arrived together with
\* the one being handled are the exception: their continuations may run first.
Draining(i) ==
    \E r \in Requests : home[r] = i /\ (stage[r] = "settling" \/ Settled(r))

(***************************************************************************)
(* Redis.                                                                  *)
(***************************************************************************)
Alive(e) == clock < e.until

\* What GET answers: an expired key is absent.
Read(k) == IF Alive(entry[k]) THEN entry[k].value ELSE Absent

Command(r, op) == [by |-> r, op |-> op, reply |-> Queued]

\* The continuation of r, at the head of its connection, issues op next.
PopAndSend(r, op) ==
    pipe' = [pipe EXCEPT ![home[r]] = Append(Tail(@), Command(r, op))]

Pop(r) == pipe' = [pipe EXCEPT ![home[r]] = Tail(@)]

Send(r, op) == pipe' = [pipe EXCEPT ![home[r]] = Append(@, Command(r, op))]

\* The oldest command of instance i that Redis has not executed yet.
NextCommand(i, n) ==
    /\ n \in DOMAIN pipe[i]
    /\ pipe[i][n].reply = Queued
    /\ \A m \in 1 .. n - 1 : pipe[i][m].reply # Queued

\* The value a request writes under its key: what its own fetch just gave.
Refreshed(r) == outcome[r][key[r]]

Execute(i) ==
    /\ ~Draining(i)
    /\ \E n \in DOMAIN pipe[i] :
           LET c == pipe[i][n]
               k == key[c.by]
           IN  /\ NextCommand(i, n)
               /\ \/ /\ c.op = "get"
                     /\ pipe' = [pipe EXCEPT ![i][n].reply = Read(k)]
                     /\ UNCHANGED redisVars
                  \/ /\ c.op = "getDown"
                     /\ pipe' = [pipe EXCEPT ![i][n].reply =
                           IF Alive(marker[k]) THEN Stored ELSE Absent]
                     /\ UNCHANGED redisVars
                  \/ /\ c.op = "delete"
                     /\ pipe' = [pipe EXCEPT ![i][n].reply = Stored]
                     /\ entry' = [entry EXCEPT ![k] = [value |-> Absent, until |-> 0]]
                     /\ UNCHANGED marker
                  \/ /\ c.op = "set"
                     /\ pipe' = [pipe EXCEPT ![i][n].reply = Stored]
                     /\ entry' = [entry EXCEPT ![k] = [value |-> Refreshed(c.by),
                                                       until |-> clock + StaleLife]]
                     /\ UNCHANGED marker
                  \/ /\ c.op = "setDown"
                     /\ pipe' = [pipe EXCEPT ![i][n].reply = Stored]
                     /\ marker' = [marker EXCEPT ![k] = [until |-> clock + FailureLife, by |-> i]]
                     /\ UNCHANGED entry
               /\ UNCHANGED <<clock, inFlight, requestVars, historyVars>>

\* Redis fails a command: its promise rejects.
FailCommand(i) ==
    /\ ~Draining(i)
    /\ \E n \in DOMAIN pipe[i] :
           /\ NextCommand(i, n)
           /\ faults > 0
           /\ faults' = faults - 1
           /\ pipe' = [pipe EXCEPT ![i][n].reply = Failure]
           /\ failed' = [failed EXCEPT ![key[pipe[i][n].by]] = clock]
           /\ UNCHANGED <<clock, redisVars, inFlight, requestVars, home, fetched>>

(***************************************************************************)
(* How a lookup ends.                                                      *)
(***************************************************************************)
\* The variables of r's lookup go out of scope.
Leave(r) ==
    /\ seen' = [seen EXCEPT ![r] = Absent]
    /\ joined' = [joined EXCEPT ![r] = Nobody]

\* The lookup returns v. A price-only value refuses a request for the rest.
Return(r, v) ==
    /\ stage' = [stage EXCEPT ![r] = "done"]
    /\ answer' = [answer EXCEPT ![r] =
            IF v.src = Fallback /\ r \in OneSource THEN Refused ELSE v]
    /\ Leave(r)
    /\ looked' = [looked EXCEPT ![r] = 0]
    /\ UNCHANGED <<key, outcome, asked>>

\* mutant: the caller asks for the primary key again.
ThrowPrimaryAgain(r) ==
    /\ key[r] = Primary
    /\ stage' = [stage EXCEPT ![r] = "reading"]
    /\ looked' = [looked EXCEPT ![r] = clock]
    /\ Leave(r)
    /\ UNCHANGED <<key, outcome, asked, answer>>

\* The lookup throws: the caller turns to the fallback key, or gives up.
ThrowPrimary(r) ==
    /\ key[r] = Primary
    /\ key' = [key EXCEPT ![r] = Fallback]
    /\ stage' = [stage EXCEPT ![r] = "reading"]
    /\ looked' = [looked EXCEPT ![r] = clock]
    /\ Leave(r)
    /\ UNCHANGED <<outcome, asked, answer>>

ThrowFallback(r) ==
    /\ key[r] = Fallback
    /\ stage' = [stage EXCEPT ![r] = "done"]
    /\ answer' = [answer EXCEPT ![r] = Refused]
    /\ looked' = [looked EXCEPT ![r] = 0]
    /\ Leave(r)
    /\ UNCHANGED <<key, outcome, asked>>

\* A throw in the continuation of a Redis reply.
ThrowOnReply(r) ==
    \/ ThrowPrimary(r) /\ PopAndSend(r, "get")
    \/ ThrowFallback(r) /\ Pop(r)

\* A throw in a continuation that no reply of the connection starts.
ThrowOnSettled(r) ==
    \/ ThrowPrimary(r) /\ Send(r, "get")
    \/ ThrowFallback(r) /\ UNCHANGED pipe

(***************************************************************************)
(* The continuations of load, one per await.                               *)
(***************************************************************************)
Ask(r) ==
    /\ stage[r] = "idle"
    /\ ~Draining(home[r])
    /\ stage' = [stage EXCEPT ![r] = "reading"]
    /\ asked' = [asked EXCEPT ![r] = clock]
    /\ looked' = [looked EXCEPT ![r] = clock]
    /\ Send(r, "get")
    /\ UNCHANGED <<clock, redisVars, inFlight, key, seen, joined, outcome, answer, historyVars>>

\* r is next to have a reply handled, and the reply is that of op.
Replied(r, op) ==
    LET p == pipe[home[r]]
    IN  /\ p # <<>>
        /\ Head(p).by = r
        /\ Head(p).op = op
        /\ Head(p).reply # Queued

Reply(r) == Head(pipe[home[r]]).reply

\* mutant: an entry is returned whatever its age.
AfterGetOfAnyAge(r) ==
    LET v == Reply(r)
    IN  /\ Replied(r, "get")
        /\ \/ v \in Values /\ Return(r, v) /\ Pop(r)
           \/ /\ v \in {Absent, Garbage}
              /\ seen' = [seen EXCEPT ![r] = Absent]
              /\ stage' = [stage EXCEPT ![r] = "probing"]
              /\ PopAndSend(r, "getDown")
              /\ UNCHANGED <<key, joined, outcome, asked, looked, answer>>
           \/ v = Failure /\ ThrowOnReply(r)
        /\ UNCHANGED <<clock, redisVars, inFlight, historyVars>>

\* get answered: a fresh entry is returned, garbage is deleted first, and
\* anything else is kept while the failure marker is looked up.
AfterGet(r) ==
    LET v == Reply(r)
    IN  /\ Replied(r, "get")
        /\ \/ /\ v \in Values
              /\ clock - v.at < Ttl
              /\ Return(r, v)
              /\ Pop(r)
           \/ /\ v = Garbage
              /\ stage' = [stage EXCEPT ![r] = "dropping"]
              /\ PopAndSend(r, "delete")
              /\ UNCHANGED <<key, seen, joined, outcome, asked, looked, answer>>
           \/ /\ v = Absent \/ (v \in Values /\ clock - v.at >= Ttl)
              /\ seen' = [seen EXCEPT ![r] = v]
              /\ stage' = [stage EXCEPT ![r] = "probing"]
              /\ PopAndSend(r, "getDown")
              /\ UNCHANGED <<key, joined, outcome, asked, looked, answer>>
           \/ v = Failure /\ ThrowOnReply(r)
        /\ UNCHANGED <<clock, redisVars, inFlight, historyVars>>

AfterDelete(r) ==
    /\ Replied(r, "delete")
    /\ \/ /\ Reply(r) # Failure
          /\ seen' = [seen EXCEPT ![r] = Absent]
          /\ stage' = [stage EXCEPT ![r] = "probing"]
          /\ PopAndSend(r, "getDown")
          /\ UNCHANGED <<key, joined, outcome, asked, looked, answer>>
       \/ Reply(r) = Failure /\ ThrowOnReply(r)
    /\ UNCHANGED <<clock, redisVars, inFlight, historyVars>>

\* mutant: every request starts its own refresh.
StartRefreshAnyway(r) ==
    /\ inFlight' = [inFlight EXCEPT ![home[r]][key[r]] = r]
    /\ stage' = [stage EXCEPT ![r] = "fetching"]
    /\ UNCHANGED joined

\* No refresh of this key is in flight on this instance: start one.
StartRefresh(r) ==
    /\ inFlight[home[r]][key[r]] = Nobody
    /\ inFlight' = [inFlight EXCEPT ![home[r]][key[r]] = r]
    /\ stage' = [stage EXCEPT ![r] = "fetching"]
    /\ UNCHANGED joined

\* One is: await it.
JoinRefresh(r) ==
    /\ inFlight[home[r]][key[r]] # Nobody
    /\ joined' = [joined EXCEPT ![r] = inFlight[home[r]][key[r]]]
    /\ stage' = [stage EXCEPT ![r] = "awaiting"]
    /\ UNCHANGED inFlight

\* mutant: the marker only refuses; a stale value is refreshed all the same.
AfterGetDownRetries(r) ==
    /\ Replied(r, "getDown")
    /\ \/ /\ Reply(r) = Absent \/ (Reply(r) = Stored /\ seen[r] # Absent)
          /\ StartRefresh(r) \/ JoinRefresh(r)
          /\ Pop(r)
          /\ UNCHANGED <<key, seen, outcome, asked, looked, answer>>
       \/ /\ Reply(r) = Failure \/ (Reply(r) = Stored /\ seen[r] = Absent)
          /\ ThrowOnReply(r)
          /\ UNCHANGED inFlight
    /\ UNCHANGED <<clock, redisVars, historyVars>>

AfterGetDown(r) ==
    /\ Replied(r, "getDown")
    /\ \/ /\ Reply(r) = Stored
          /\ \/ seen[r] # Absent /\ Return(r, seen[r]) /\ Pop(r)
             \/ seen[r] = Absent /\ ThrowOnReply(r)
          /\ UNCHANGED inFlight
       \/ /\ Reply(r) = Absent
          /\ StartRefresh(r) \/ JoinRefresh(r)
          /\ Pop(r)
          /\ UNCHANGED <<key, seen, outcome, asked, looked, answer>>
       \/ Reply(r) = Failure /\ ThrowOnReply(r) /\ UNCHANGED inFlight
    /\ UNCHANGED <<clock, redisVars, historyVars>>

\* The upstream answers in time: the value is stored with the present time.
FetchSucceeds(r) ==
    LET v == [src |-> key[r], at |-> clock]
    IN  /\ stage[r] = "fetching"
        /\ ~Draining(home[r])
        /\ stage' = [stage EXCEPT ![r] = "saving"]
        /\ outcome' = [outcome EXCEPT ![r][key[r]] = v]
        /\ fetched' = fetched \cup {v}
        /\ Send(r, "set")
        /\ UNCHANGED <<clock, redisVars, inFlight, key, seen, joined, asked, looked,
                       answer, home, faults, failed>>

\* It times out, answers with an error, or without the figure.
FetchFails(r) ==
    /\ stage[r] = "fetching"
    /\ ~Draining(home[r])
    /\ stage' = [stage EXCEPT ![r] = "marking"]
    /\ failed' = [failed EXCEPT ![key[r]] = clock]
    /\ Send(r, "setDown")
    /\ UNCHANGED <<clock, redisVars, inFlight, key, seen, joined, outcome, asked, looked,
                   answer, home, faults, fetched>>

\* set answered. When it failed, the refresh counts as failed as a whole.
AfterSet(r) ==
    /\ Replied(r, "set")
    /\ \/ Reply(r) = Stored /\ stage' = [stage EXCEPT ![r] = "settling"] /\ Pop(r)
       \/ Reply(r) = Failure /\ stage' = [stage EXCEPT ![r] = "marking"]
                             /\ PopAndSend(r, "setDown")
    /\ UNCHANGED <<clock, redisVars, inFlight, key, seen, joined, outcome, asked, looked,
                   answer, historyVars>>

\* mutant: the refresh answers with what was cached, even with nothing.
AfterSetDownAnswers(r) ==
    /\ Replied(r, "setDown")
    /\ outcome' = [outcome EXCEPT ![r][key[r]] = IF Reply(r) = Stored THEN seen[r] ELSE Thrown]
    /\ stage' = [stage EXCEPT ![r] = "settling"]
    /\ Pop(r)
    /\ UNCHANGED <<clock, redisVars, inFlight, key, seen, joined, asked, looked, answer,
                   historyVars>>

\* The marker is written: the refresh answers with what was cached, if
\* anything; when writing it failed the refresh rejects.
AfterSetDown(r) ==
    /\ Replied(r, "setDown")
    /\ outcome' = [outcome EXCEPT ![r][key[r]] =
            IF Reply(r) = Stored /\ seen[r] # Absent THEN seen[r] ELSE Thrown]
    /\ stage' = [stage EXCEPT ![r] = "settling"]
    /\ Pop(r)
    /\ UNCHANGED <<clock, redisVars, inFlight, key, seen, joined, asked, looked, answer,
                   historyVars>>

\* finally: the refresh leaves inFlight and its own request goes on.
Settle(r) ==
    /\ stage[r] = "settling"
    /\ inFlight' = [inFlight EXCEPT ![home[r]][key[r]] = Nobody]
    /\ \/ outcome[r][key[r]] # Thrown /\ Return(r, outcome[r][key[r]]) /\ UNCHANGED pipe
       \/ outcome[r][key[r]] = Thrown /\ ThrowOnSettled(r)
    /\ UNCHANGED <<clock, redisVars, historyVars>>

\* A request that awaited another's refresh goes on with its outcome.
Wake(r) ==
    LET o == outcome[joined[r]][key[r]]
    IN  /\ Settled(r)
        /\ \/ o # Thrown /\ Return(r, o) /\ UNCHANGED pipe
           \/ o = Thrown /\ ThrowOnSettled(r)
        /\ UNCHANGED <<clock, redisVars, inFlight, historyVars>>

\* Time passes, but no lookup lasts more than one tick.
Tick ==
    /\ clock < MaxClock
    /\ \A i \in Instances : ~Draining(i)
    /\ \A r \in Requests : stage[r] \in {"idle", "done"} \/ looked[r] = clock
    /\ clock' = clock + 1
    /\ UNCHANGED <<redisVars, pipe, inFlight, requestVars, historyVars>>

\* A scenario's start: an earlier run may have left Redis a value fetched at
\* time 0, or garbage of another version.
Begin(s) ==
    /\ home = s.home
    /\ faults = s.faults
    /\ clock = s.start
    /\ fetched = {s.cached} \cap Values
    /\ entry = [k \in Keys |-> IF k = Primary
                              THEN [value |-> s.cached, until |-> s.start + StaleLife]
                              ELSE [value |-> Absent, until |-> 0]]

MarketInit ==
    /\ \E s \in Scenarios : Begin(s)
    /\ marker = [k \in Keys |-> [until |-> 0, by |-> CHOOSE i \in Instances : TRUE]]
    /\ pipe = [i \in Instances |-> <<>>]
    /\ inFlight = [i \in Instances |-> [k \in Keys |-> Nobody]]
    /\ stage = [r \in Requests |-> "idle"]
    /\ key = [r \in Requests |-> Primary]
    /\ seen = [r \in Requests |-> Absent]
    /\ joined = [r \in Requests |-> Nobody]
    /\ outcome = [r \in Requests |-> [k \in Keys |-> Unsettled]]
    /\ asked = [r \in Requests |-> NotBegun]
    /\ looked = [r \in Requests |-> 0]
    /\ answer = [r \in Requests |-> Waiting]
    /\ failed = [k \in Keys |-> Never]

RequestStep(r) ==
    \/ AfterGet(r)
    \/ AfterDelete(r)
    \/ AfterGetDown(r)
    \/ FetchSucceeds(r)
    \/ FetchFails(r)
    \/ AfterSet(r)
    \/ AfterSetDown(r)
    \/ Settle(r)
    \/ Wake(r)

MarketNext ==
    \/ Tick
    \/ \E i \in Instances : Execute(i) \/ FailCommand(i)
    \/ \E r \in Requests : Ask(r) \/ RequestStep(r)

\* Redis answers, and the event loop runs every continuation; nothing makes
\* users ask.
MarketFairness ==
    /\ \A i \in Instances : WF_marketVars(Execute(i))
    /\ \A r \in Requests : WF_marketVars(RequestStep(r))

MarketSpec == MarketInit /\ [][MarketNext]_marketVars /\ MarketFairness

(***************************************************************************)
(* Properties.                                                             *)
(***************************************************************************)
\* An instance has at most one refresh of a key in flight, however its
\* requests interleave at their awaits: whoever finds none starts it and
\* everyone else joins (the inFlight map of MarketService).
OneRefreshPerInstance ==
    \A r, s \in Requests :
        /\ stage[r] \in Refreshing /\ stage[s] \in Refreshing
        /\ home[r] = home[s] /\ key[r] = key[s]
        => r = s

\* "A lasting outage costs one attempt per marker": while the marker that an
\* instance wrote after its own failed attempt is alive, that instance starts
\* no other attempt at the key. It rests on the order of one connection: a
\* request that saw no marker is answered before the refresh settles, and
\* joins it.
OneAttemptPerMarker ==
    [][\A r \in Requests :
            stage[r] # "fetching" /\ stage'[r] = "fetching" =>
                LET m == marker[key[r]] IN ~(m.by = home[r] /\ Alive(m))]_marketVars

\* The cache keeps the promise of the market endpoints: what is answered was
\* fetched, is fresh or the upstream is failing, never outlives the stale
\* life, and the fallback never hides a primary value that could be had.
Promise == INSTANCE MarketPromise WITH
    now <- clock, pulled <- fetched, outages <- failed, begun <- asked,
    given <- answer, Lag <- 1

KeepsPromise == Promise!PromiseSpec

\* Every request is answered or refused, whatever Redis and the upstreams do,
\* as long as both reply: no request waits for a refresh that nobody settles.
EveryRequestEnds ==
    \A r \in Requests : stage[r] # "idle" ~> stage[r] = "done"
=============================================================================
