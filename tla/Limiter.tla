------------------------------ MODULE Limiter -------------------------------
(***************************************************************************)
(* RateLimiterMiddleware (pkg/middleware/rate_limit.go): the visitors map, *)
(* the limiters of golang.org/x/time/rate that it points to, the goroutine *)
(* that forgets addresses not seen for a while, and the requests.          *)
(*                                                                         *)
(* A request takes its limiter from the map under the mutex and asks it    *)
(* after the mutex is released; the map may have changed by then.          *)
(*                                                                         *)
(* Time is counted in ticks.  A token costs the ticks in which one comes   *)
(* back, so that a limiter gains one unit per tick.  It computes what it   *)
(* gained only when it is asked.                                           *)
(***************************************************************************)
EXTENDS Integers

CONSTANTS
  IPs, Requests,
  IPOf,      \* the address that each request comes from
  Limiters,  \* the limiters that memory has room for
  Cost,      \* ticks in which a token comes back: 1 / RequestsPerSecond
  Burst,     \* tokens in a full limiter
  TTL,       \* ticks after which an address is forgotten
  MaxHold    \* bound: ticks that a request may lie between map and limiter

Full == Burst * Cost

\* The router has a burst of two seconds and the default TTL of three minutes.
ASSUME LimiterAssumption ==
  /\ IPOf \in [Requests -> IPs]
  /\ Cost \in Nat \ {0} /\ Burst \in Nat \ {0}
  /\ TTL \in Nat /\ MaxHold \in Nat
  /\ Full \in Nat \ {0}
  /\ MaxHold + Full <= TTL + 1

VARIABLES
  visitors,  \* each address's limiter: {} or a singleton
  seen,      \* ticks since its lastSeen, up to TTL + 1
  tokens,    \* units each limiter had when it last gave a token
  last,      \* ticks since then, up to Full
  pc,        \* where each request is
  held,      \* the limiter it got from the map: {} or a singleton
  wait,      \* ticks since it got it, while it holds it
  verdict    \* what the limiter said of it

mapVars == <<visitors, seen>>
limiterVars == <<tokens, last>>
requestVars == <<pc, held, wait>>
vars == <<mapVars, limiterVars, requestVars, verdict>>

Init ==
  /\ visitors = [ip \in IPs |-> {}]
  /\ seen = [ip \in IPs |-> 0]
  /\ tokens = [l \in Limiters |-> Full]
  /\ last = [l \in Limiters |-> 0]
  /\ pc = [r \in Requests |-> "start"]
  /\ held = [r \in Requests |-> {}]
  /\ wait = [r \in Requests |-> 0]
  /\ verdict = [r \in Requests |-> "none"]

-----------------------------------------------------------------------------
Unused(l) ==
  /\ \A ip \in IPs : l \notin visitors[ip]
  /\ \A r \in Requests : l \notin held[r]

SeesOnCreation(ip) ==
  seen' = [seen EXCEPT ![ip] = IF visitors[ip] = {} THEN 0 ELSE @]

\* v.lastSeen = time.Now()
Sees(ip) == seen' = [seen EXCEPT ![ip] = 0]

\* getVisitor, under the mutex.
GetVisitor(r) ==
  LET ip == IPOf[r] IN
    /\ pc[r] = "start"
    /\ pc' = [pc EXCEPT ![r] = "allow"]
    /\ Sees(ip)
    /\ \/ /\ visitors[ip] # {}
          /\ held' = [held EXCEPT ![r] = visitors[ip]]
          /\ UNCHANGED <<visitors, limiterVars>>
       \/ /\ visitors[ip] = {}
          /\ \E l \in Limiters :
               /\ Unused(l)
               /\ visitors' = [visitors EXCEPT ![ip] = {l}]
               /\ held' = [held EXCEPT ![r] = {l}]
               /\ tokens' = [tokens EXCEPT ![l] = Full]
               /\ last' = [last EXCEPT ![l] = 0]
    /\ UNCHANGED <<wait, verdict>>

UncappedLevel(l) == tokens[l] + last[l]

\* What a limiter has by now: never more than its burst.
Level(l) == IF tokens[l] + last[l] < Full THEN tokens[l] + last[l] ELSE Full

\* limiter.Allow(): a token, or nothing.
Allow(r) ==
  /\ pc[r] = "allow"
  /\ pc' = [pc EXCEPT ![r] = "chain"]
  /\ held' = [held EXCEPT ![r] = {}]
  /\ wait' = [wait EXCEPT ![r] = 0]
  /\ \E l \in held[r] :
       \/ /\ Level(l) >= Cost
          /\ tokens' = [tokens EXCEPT ![l] = Level(l) - Cost]
          /\ last' = [last EXCEPT ![l] = 0]
          /\ verdict' = [verdict EXCEPT ![r] = "admitted"]
       \/ /\ Level(l) < Cost
          /\ verdict' = [verdict EXCEPT ![r] = "refused"]
          /\ UNCHANGED limiterVars
  /\ UNCHANGED mapVars

\* The rest of the chain.  A refused request was answered 429, but as the
\* middleware does not abort the chain, the handlers run for it too.
Handle(r) ==
  /\ pc[r] = "chain"
  /\ pc' = [pc EXCEPT ![r] = "start"]
  /\ verdict' = [verdict EXCEPT ![r] = "none"]
  /\ UNCHANGED <<mapVars, limiterVars, held, wait>>

-----------------------------------------------------------------------------
NeverIdle(ip) == FALSE
IdleAtOnce(ip) == seen[ip] > 0

\* time.Since(v.lastSeen) > ttl
Idle(ip) == seen[ip] > TTL

\* One round of cleanupVisitors, under the mutex.
Cleanup ==
  /\ visitors' = [ip \in IPs |-> IF Idle(ip) THEN {} ELSE visitors[ip]]
  /\ UNCHANGED <<seen, limiterVars, requestVars, verdict>>

UpTo(bound, n) == IF n < bound THEN n + 1 ELSE n

Tick ==
  /\ \A r \in Requests : pc[r] = "allow" => wait[r] < MaxHold
  /\ seen' = [ip \in IPs |-> UpTo(TTL + 1, seen[ip])]
  /\ last' = [l \in Limiters |-> UpTo(Full, last[l])]
  /\ wait' = [r \in Requests |-> IF pc[r] = "allow" THEN wait[r] + 1 ELSE wait[r]]
  /\ UNCHANGED <<visitors, tokens, pc, held, verdict>>

-----------------------------------------------------------------------------
Next ==
  \/ \E r \in Requests : GetVisitor(r) \/ Allow(r) \/ Handle(r)
  \/ Cleanup \/ Tick

Spec == Init /\ [][Next]_vars

\* Requests that arrived are scheduled, the cleanup's goroutine wakes up again
\* and again, and time passes.  Clients owe nothing.
FairSpec ==
  /\ Spec
  /\ WF_vars(Tick) /\ WF_vars(Cleanup)
  /\ \A r \in Requests : WF_vars(Allow(r)) /\ WF_vars(Handle(r))

-----------------------------------------------------------------------------
MaybeLimiter == {{}} \cup {{l} : l \in Limiters}

TypeOK ==
  /\ visitors \in [IPs -> MaybeLimiter]
  /\ seen \in [IPs -> 0..TTL + 1]
  /\ tokens \in [Limiters -> 0..Full]
  /\ last \in [Limiters -> 0..Full]
  /\ pc \in [Requests -> {"start", "allow", "chain"}]
  /\ held \in [Requests -> MaybeLimiter]
  /\ wait \in [Requests -> 0..MaxHold]
  /\ verdict \in [Requests -> {"none", "admitted", "refused"}]

\* The limiter that a request is about to ask, taken from the map before the
\* mutex was released (rate_limit.go:35), is still the one in the map: no
\* address draws from two limiters at once.
HeldIsInMap ==
  \A r \in Requests : pc[r] = "allow" => held[r] = visitors[IPOf[r]]

\* What an address has left: a forgotten one has a full bucket, as it would
\* have if it had been remembered.
Credit ==
  [ip \in IPs |-> IF visitors[ip] = {} THEN Full
                  ELSE Level(CHOOSE l \in Limiters : l \in visitors[ip])]

\* Each address has one bucket for good: that limiters compute lazily, that
\* the cleanup forgets them (rate_limit.go:46) and that others are made in
\* their place, no client can tell.
Bucket == INSTANCE TokenBucket WITH credit <- Credit, verdict <- verdict
IsTokenBucket == Bucket!Spec

\* An address that sends no more requests is forgotten.
IdleIsForgotten ==
  \A ip \in IPs :
    <>[](\A r \in Requests : IPOf[r] = ip => pc[r] = "start")
      => <>[](visitors[ip] = {})
=============================================================================
