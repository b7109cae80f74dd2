--------------------------- MODULE LimiterProofs ----------------------------
(***************************************************************************)
(* Proofs about Limiter: for any addresses, requests, rates and bursts,    *)
(* the middleware is one token bucket per address (TokenBucket), provided  *)
(* that no request lies between the map and its limiter for longer than    *)
(* MaxHold, which with the time a limiter needs to fill is within the TTL. *)
(***************************************************************************)
EXTENDS Limiter, TLAPS

\* A request on its way to a limiter holds the one in the map, and its address
\* was seen when it took it or later.
HoldsVisitor(r) ==
  pc[r] = "allow" =>
    /\ held[r] # {}
    /\ held[r] = visitors[IPOf[r]]
    /\ seen[IPOf[r]] <= wait[r]

\* A verdict lasts while the rest of the chain runs.
VerdictInTime(r) == pc[r] # "chain" => verdict[r] = "none"

\* No two addresses share a limiter.
OwnLimiter ==
  \A a, b \in IPs : a # b => visitors[a] \cap visitors[b] = {}

\* A limiter gave its last token at most MaxHold before its address was last
\* seen, or so long ago that it is full.
GivesWhenSeen(ip) ==
  \A l \in visitors[ip] : last[l] = Full \/ seen[ip] <= last[l] + MaxHold

BucketInv ==
  /\ TypeOK
  /\ \A r \in Requests : HoldsVisitor(r) /\ VerdictInTime(r)
  /\ OwnLimiter
  /\ \A ip \in IPs : GivesWhenSeen(ip)

-----------------------------------------------------------------------------
\* An address that a request is on its way for is not forgotten.
LEMMA NotIdle ==
  ASSUME BucketInv, NEW r \in Requests, pc[r] = "allow"
  PROVE  ~Idle(IPOf[r])
<1>1. seen[IPOf[r]] <= wait[r] /\ wait[r] \in 0..MaxHold
  BY DEF BucketInv, TypeOK, HoldsVisitor
<1>2. IPOf[r] \in IPs /\ seen[IPOf[r]] \in 0..TTL + 1
  BY LimiterAssumption DEF BucketInv, TypeOK
<1> QED
  BY <1>1, <1>2, LimiterAssumption DEF Idle

LEMMA TypeInit == Init => TypeOK
  BY LimiterAssumption DEF Init, TypeOK, MaybeLimiter

LEMMA TypeStep == TypeOK /\ [Next]_vars => TypeOK'
<1> SUFFICES ASSUME TypeOK, [Next]_vars PROVE TypeOK'
  OBVIOUS
<1> USE LimiterAssumption
<1>1. ASSUME NEW r \in Requests, GetVisitor(r) PROVE TypeOK'
  <2>1. IPOf[r] \in IPs
    OBVIOUS
  <2>2. CASE visitors[IPOf[r]] # {}
    BY <1>1, <2>1, <2>2 DEF GetVisitor, Sees, TypeOK, limiterVars
  <2>3. CASE visitors[IPOf[r]] = {}
    <3>1. PICK l \in Limiters :
            /\ visitors' = [visitors EXCEPT ![IPOf[r]] = {l}]
            /\ held' = [held EXCEPT ![r] = {l}]
            /\ tokens' = [tokens EXCEPT ![l] = Full]
            /\ last' = [last EXCEPT ![l] = 0]
      BY <1>1, <2>3 DEF GetVisitor
    <3>2. {l} \in MaybeLimiter
      BY DEF MaybeLimiter
    <3>3. Full \in 0..Full /\ 0 \in 0..Full /\ 0 \in 0..TTL + 1
      OBVIOUS
    <3> QED
      BY <1>1, <2>1, <3>1, <3>2, <3>3 DEF GetVisitor, Sees, TypeOK
  <2> QED
    BY <2>2, <2>3
<1>2. ASSUME NEW r \in Requests, Allow(r) PROVE TypeOK'
  <2>1. PICK l \in held[r] :
          \/ /\ Level(l) >= Cost
             /\ tokens' = [tokens EXCEPT ![l] = Level(l) - Cost]
             /\ last' = [last EXCEPT ![l] = 0]
             /\ verdict' = [verdict EXCEPT ![r] = "admitted"]
          \/ /\ verdict' = [verdict EXCEPT ![r] = "refused"]
             /\ UNCHANGED limiterVars
    BY <1>2 DEF Allow
  <2>2. l \in Limiters
    BY <2>1 DEF TypeOK, MaybeLimiter
  <2>3. Level(l) \in 0..Full
    BY <2>2 DEF Level, TypeOK
  <2>4. tokens' \in [Limiters -> 0..Full] /\ last' \in [Limiters -> 0..Full]
    BY <2>1, <2>2, <2>3 DEF TypeOK, limiterVars
  <2>5. verdict' \in [Requests -> {"none", "admitted", "refused"}]
    BY <2>1 DEF TypeOK
  <2>6. held' \in [Requests -> MaybeLimiter] /\ wait' \in [Requests -> 0..MaxHold]
    BY <1>2 DEF Allow, TypeOK, MaybeLimiter
  <2> QED
    BY <1>2, <2>4, <2>5, <2>6 DEF Allow, TypeOK, mapVars
<1>3. ASSUME NEW r \in Requests, Handle(r) PROVE TypeOK'
  BY <1>3 DEF Handle, TypeOK, mapVars, limiterVars
<1>4. ASSUME Cleanup PROVE TypeOK'
  BY <1>4 DEF Cleanup, TypeOK, MaybeLimiter, limiterVars, requestVars
<1>5. ASSUME Tick PROVE TypeOK'
  <2>1. seen' \in [IPs -> 0..TTL + 1]
    BY <1>5 DEF Tick, UpTo, TypeOK
  <2>2. last' \in [Limiters -> 0..Full]
    BY <1>5 DEF Tick, UpTo, TypeOK
  <2>3. wait' \in [Requests -> 0..MaxHold]
    BY <1>5 DEF Tick, TypeOK
  <2> QED
    BY <1>5, <2>1, <2>2, <2>3 DEF Tick, TypeOK
<1>6. CASE UNCHANGED vars
  BY <1>6 DEF TypeOK, vars, mapVars, limiterVars, requestVars
<1> QED
  BY <1>1, <1>2, <1>3, <1>4, <1>5, <1>6 DEF Next

\* Types, and with them the bounds of what a limiter can have (TypeOK), for
\* any addresses, requests, rates and bursts.
THEOREM TypeCorrect == Spec => []TypeOK
  BY TypeInit, TypeStep, PTL DEF Spec

-----------------------------------------------------------------------------
LEMMA BucketInvInit == Init => BucketInv
<1> SUFFICES ASSUME Init PROVE BucketInv
  OBVIOUS
<1>1. TypeOK
  BY TypeInit
<1> QED
  BY <1>1, LimiterAssumption
     DEF Init, BucketInv, HoldsVisitor, VerdictInTime, OwnLimiter, GivesWhenSeen

\* GetVisitor finds the address in the map.
LEMMA FoundKeepsInv ==
  ASSUME BucketInv, TypeOK', NEW r \in Requests, GetVisitor(r),
         visitors[IPOf[r]] # {}
  PROVE  BucketInv'
<1> USE LimiterAssumption
<1> DEFINE ip == IPOf[r]
<1>1. ip \in IPs
  OBVIOUS
<1>2. /\ pc' = [pc EXCEPT ![r] = "allow"]
      /\ seen' = [seen EXCEPT ![ip] = 0]
      /\ held' = [held EXCEPT ![r] = visitors[ip]]
      /\ UNCHANGED <<visitors, tokens, last, wait, verdict>>
      /\ pc[r] = "start"
  BY DEF GetVisitor, Sees, limiterVars
<1>3. ASSUME NEW q \in Requests PROVE HoldsVisitor(q)' /\ VerdictInTime(q)'
  <2>1. IPOf[q] \in IPs /\ wait[q] \in 0..MaxHold /\ HoldsVisitor(q) /\ VerdictInTime(q)
    BY <1>3 DEF BucketInv, TypeOK
  <2>2. seen' [IPOf[q]] \in {0, seen[IPOf[q]]}
    BY <1>1, <1>2, <2>1 DEF BucketInv, TypeOK
  <2>3. pc'[q] = (IF q = r THEN "allow" ELSE pc[q])
    BY <1>2, <1>3 DEF BucketInv, TypeOK
  <2>4. held'[q] = (IF q = r THEN visitors[ip] ELSE held[q])
    BY <1>2, <1>3 DEF BucketInv, TypeOK
  <2>5. VerdictInTime(q)'
    BY <1>2, <2>1, <2>3 DEF VerdictInTime
  <2>6. CASE q = r
    <3>1. seen'[IPOf[q]] = 0
      BY <1>1, <1>2, <2>6 DEF BucketInv, TypeOK
    <3> QED
      BY <1>2, <2>1, <2>4, <2>5, <2>6, <3>1 DEF HoldsVisitor
  <2>7. CASE q # r
    BY <1>2, <2>1, <2>2, <2>3, <2>4, <2>5, <2>7 DEF HoldsVisitor
  <2> QED
    BY <2>6, <2>7
<1>4. OwnLimiter'
  BY <1>2 DEF BucketInv, OwnLimiter
<1>5. ASSUME NEW a \in IPs PROVE GivesWhenSeen(a)'
  <2>1. seen'[a] = (IF a = ip THEN 0 ELSE seen[a])
    BY <1>1, <1>2, <1>5 DEF BucketInv, TypeOK
  <2>2. \A l \in visitors[a] : last[l] \in 0..Full
    BY <1>5 DEF BucketInv, TypeOK, MaybeLimiter
  <2> QED
    BY <1>2, <1>5, <2>1, <2>2 DEF BucketInv, GivesWhenSeen
<1> QED
  BY <1>3, <1>4, <1>5 DEF BucketInv

\* GetVisitor makes a limiter, one that is in no other hands.
LEMMA MadeKeepsInv ==
  ASSUME BucketInv, TypeOK', NEW r \in Requests, GetVisitor(r),
         visitors[IPOf[r]] = {}
  PROVE  BucketInv'
<1> USE LimiterAssumption
<1> DEFINE ip == IPOf[r]
<1>1. ip \in IPs
  OBVIOUS
<1>2. PICK l \in Limiters :
        /\ Unused(l)
        /\ visitors' = [visitors EXCEPT ![ip] = {l}]
        /\ held' = [held EXCEPT ![r] = {l}]
        /\ last' = [last EXCEPT ![l] = 0]
  BY DEF GetVisitor
<1>3. /\ pc' = [pc EXCEPT ![r] = "allow"]
      /\ seen' = [seen EXCEPT ![ip] = 0]
      /\ UNCHANGED <<wait, verdict>>
      /\ pc[r] = "start"
  BY DEF GetVisitor, Sees
<1>4. \A a \in IPs : visitors'[a] = IF a = ip THEN {l} ELSE visitors[a]
  BY <1>1, <1>2 DEF BucketInv, TypeOK
<1>5. \A a \in IPs : seen'[a] = IF a = ip THEN 0 ELSE seen[a]
  BY <1>1, <1>3 DEF BucketInv, TypeOK
<1>6. ASSUME NEW q \in Requests PROVE HoldsVisitor(q)' /\ VerdictInTime(q)'
  <2>1. IPOf[q] \in IPs /\ wait[q] \in 0..MaxHold /\ HoldsVisitor(q) /\ VerdictInTime(q)
    BY <1>6 DEF BucketInv, TypeOK
  <2>2. pc'[q] = (IF q = r THEN "allow" ELSE pc[q])
    BY <1>3, <1>6 DEF BucketInv, TypeOK
  <2>3. held'[q] = (IF q = r THEN {l} ELSE held[q])
    BY <1>2, <1>6 DEF BucketInv, TypeOK
  <2>4. VerdictInTime(q)'
    BY <1>3, <2>1, <2>2 DEF VerdictInTime
  <2>5. CASE q = r
    BY <1>1, <1>3, <1>4, <1>5, <2>1, <2>3, <2>4, <2>5 DEF HoldsVisitor
  <2>6. CASE q # r
    <3>1. pc[q] = "allow" => IPOf[q] # ip
      BY <2>1 DEF HoldsVisitor
    <3> QED
      BY <1>3, <1>4, <1>5, <2>1, <2>2, <2>3, <2>4, <2>6, <3>1 DEF HoldsVisitor
  <2> QED
    BY <2>5, <2>6
<1>7. OwnLimiter'
  BY <1>2, <1>4 DEF BucketInv, OwnLimiter, Unused
<1>8. ASSUME NEW a \in IPs PROVE GivesWhenSeen(a)'
  <2>1. CASE a = ip
    <3>1. visitors'[a] = {l} /\ seen'[a] = 0 /\ last'[l] = 0
      BY <1>2, <1>4, <1>5, <2>1 DEF BucketInv, TypeOK
    <3> QED
      BY <3>1 DEF GivesWhenSeen
  <2>2. CASE a # ip
    <3>1. visitors'[a] = visitors[a] /\ seen'[a] = seen[a] /\ l \notin visitors[a]
      BY <1>2, <1>4, <1>5, <1>8, <2>2 DEF Unused
    <3>2. \A k \in visitors[a] : last'[k] = last[k]
      BY <1>2, <1>8, <3>1 DEF BucketInv, TypeOK, MaybeLimiter
    <3> QED
      BY <1>8, <3>1, <3>2 DEF BucketInv, GivesWhenSeen
  <2> QED
    BY <2>1, <2>2
<1> QED
  BY <1>6, <1>7, <1>8 DEF BucketInv

\* What Allow does to the limiter that the request holds, which is the one of
\* its address.
LEMMA AllowsOwn ==
  ASSUME BucketInv, NEW r \in Requests, Allow(r)
  PROVE  /\ verdict[r] = "none"
         /\ seen[IPOf[r]] <= MaxHold
         /\ \E l \in Limiters :
              /\ visitors[IPOf[r]] = {l}
              /\ \/ /\ Level(l) >= Cost
                    /\ tokens' = [tokens EXCEPT ![l] = Level(l) - Cost]
                    /\ last' = [last EXCEPT ![l] = 0]
                    /\ verdict' = [verdict EXCEPT ![r] = "admitted"]
                 \/ /\ Level(l) < Cost
                    /\ verdict' = [verdict EXCEPT ![r] = "refused"]
                    /\ UNCHANGED limiterVars
<1>1. pc[r] = "allow" /\ HoldsVisitor(r) /\ VerdictInTime(r)
  BY DEF Allow, BucketInv
<1>2. wait[r] \in 0..MaxHold /\ IPOf[r] \in IPs /\ seen[IPOf[r]] \in 0..TTL + 1
  BY LimiterAssumption DEF BucketInv, TypeOK
<1>3. PICK l \in held[r] :
        \/ /\ Level(l) >= Cost
           /\ tokens' = [tokens EXCEPT ![l] = Level(l) - Cost]
           /\ last' = [last EXCEPT ![l] = 0]
           /\ verdict' = [verdict EXCEPT ![r] = "admitted"]
        \/ /\ Level(l) < Cost
           /\ verdict' = [verdict EXCEPT ![r] = "refused"]
           /\ UNCHANGED limiterVars
  BY DEF Allow
<1>4. l \in Limiters /\ visitors[IPOf[r]] = {l}
  BY <1>1, <1>3 DEF HoldsVisitor, BucketInv, TypeOK, MaybeLimiter
<1> QED
  BY <1>1, <1>2, <1>3, <1>4, LimiterAssumption DEF HoldsVisitor, VerdictInTime

LEMMA AllowKeepsInv ==
  ASSUME BucketInv, TypeOK', NEW r \in Requests, Allow(r)
  PROVE  BucketInv'
<1> USE LimiterAssumption
<1>1. PICK l \in Limiters :
        /\ visitors[IPOf[r]] = {l}
        /\ last' \in {last, [last EXCEPT ![l] = 0]}
        /\ \E v \in {"admitted", "refused"} : verdict' = [verdict EXCEPT ![r] = v]
  BY AllowsOwn DEF limiterVars
<1>2. /\ pc[r] = "allow" /\ pc' = [pc EXCEPT ![r] = "chain"]
      /\ held' = [held EXCEPT ![r] = {}]
      /\ wait' = [wait EXCEPT ![r] = 0]
      /\ visitors' = visitors /\ seen' = seen
  BY DEF Allow, mapVars
<1>3. ASSUME NEW q \in Requests PROVE HoldsVisitor(q)' /\ VerdictInTime(q)'
  <2>1. HoldsVisitor(q) /\ VerdictInTime(q)
    BY <1>3 DEF BucketInv
  <2>2. CASE q = r
    BY <1>2, <2>2 DEF HoldsVisitor, VerdictInTime, BucketInv, TypeOK
  <2>3. CASE q # r
    BY <1>1, <1>2, <1>3, <2>1, <2>3 DEF HoldsVisitor, VerdictInTime, BucketInv, TypeOK
  <2> QED
    BY <2>2, <2>3
<1>4. OwnLimiter'
  BY <1>2 DEF BucketInv, OwnLimiter
<1>5. ASSUME NEW a \in IPs PROVE GivesWhenSeen(a)'
  <2>1. CASE a = IPOf[r]
    <3>1. seen[a] <= MaxHold
      BY <2>1, AllowsOwn
    <3>2. last'[l] \in 0..Full /\ seen[a] \in 0..TTL + 1
      BY <1>5 DEF TypeOK, BucketInv
    <3>3. seen'[a] <= last'[l] + MaxHold
      BY <1>2, <3>1, <3>2
    <3> QED
      BY <1>1, <1>2, <2>1, <3>3 DEF GivesWhenSeen
  <2>2. CASE a # IPOf[r]
    <3>1. l \notin visitors[a]
      BY <1>1, <1>5, <2>2 DEF BucketInv, OwnLimiter
    <3>2. \A k \in visitors[a] : last'[k] = last[k]
      BY <1>1, <1>5, <3>1 DEF BucketInv, TypeOK, MaybeLimiter
    <3> QED
      BY <1>2, <1>5, <3>2 DEF BucketInv, GivesWhenSeen
  <2> QED
    BY <2>1, <2>2
<1> QED
  BY <1>3, <1>4, <1>5 DEF BucketInv

LEMMA CleanupKeepsInv ==
  ASSUME BucketInv, TypeOK', Cleanup
  PROVE  BucketInv'
<1> USE LimiterAssumption
<1>1. /\ visitors' = [ip \in IPs |-> IF Idle(ip) THEN {} ELSE visitors[ip]]
      /\ UNCHANGED <<seen, tokens, last, pc, held, wait, verdict>>
  BY DEF Cleanup, limiterVars, requestVars
<1>2. ASSUME NEW q \in Requests PROVE HoldsVisitor(q)' /\ VerdictInTime(q)'
  <2>1. pc[q] = "allow" => visitors'[IPOf[q]] = visitors[IPOf[q]]
    BY <1>1, <1>2, NotIdle
  <2> QED
    BY <1>1, <1>2, <2>1 DEF BucketInv, HoldsVisitor, VerdictInTime
<1>3. OwnLimiter'
  BY <1>1 DEF BucketInv, OwnLimiter
<1>4. ASSUME NEW a \in IPs PROVE GivesWhenSeen(a)'
  <2>1. visitors'[a] \subseteq visitors[a]
    BY <1>1, <1>4
  <2> QED
    BY <1>1, <1>4, <2>1 DEF BucketInv, GivesWhenSeen
<1> QED
  BY <1>2, <1>3, <1>4 DEF BucketInv

LEMMA TickKeepsInv ==
  ASSUME BucketInv, TypeOK', Tick
  PROVE  BucketInv'
<1> USE LimiterAssumption
<1>1. UNCHANGED <<visitors, tokens, pc, held, verdict>>
  BY DEF Tick
<1>2. ASSUME NEW q \in Requests PROVE HoldsVisitor(q)' /\ VerdictInTime(q)'
  <2>1. HoldsVisitor(q) /\ VerdictInTime(q) /\ IPOf[q] \in IPs
    BY <1>2 DEF BucketInv
  <2>2. CASE pc[q] = "allow"
    <3>1. seen[IPOf[q]] \in 0..TTL + 1 /\ wait[q] \in 0..MaxHold
      BY <1>2, <2>1 DEF BucketInv, TypeOK
    <3>2. wait'[q] = wait[q] + 1
      BY <1>2, <2>2 DEF Tick
    <3>3. seen'[IPOf[q]] <= seen[IPOf[q]] + 1
      BY <2>1, <3>1 DEF Tick, UpTo
    <3>4. seen'[IPOf[q]] \in Int
      BY <2>1 DEF TypeOK
    <3>5. seen'[IPOf[q]] <= wait'[q]
      BY <2>1, <2>2, <3>1, <3>2, <3>3, <3>4 DEF HoldsVisitor
    <3> QED
      BY <1>1, <2>1, <2>2, <3>5 DEF HoldsVisitor, VerdictInTime
  <2>3. CASE pc[q] # "allow"
    BY <1>1, <2>1, <2>3 DEF HoldsVisitor, VerdictInTime
  <2> QED
    BY <2>2, <2>3
<1>3. OwnLimiter'
  BY <1>1 DEF BucketInv, OwnLimiter
<1>4. ASSUME NEW a \in IPs, NEW l \in visitors[a]
      PROVE  last'[l] = Full \/ seen'[a] <= last'[l] + MaxHold
  <2>1. l \in Limiters
    BY <1>4 DEF BucketInv, TypeOK, MaybeLimiter
  <2>2. last[l] \in 0..Full /\ seen[a] \in 0..TTL + 1
    BY <1>4, <2>1 DEF BucketInv, TypeOK
  <2>3. last[l] = Full \/ seen[a] <= last[l] + MaxHold
    BY <1>4 DEF BucketInv, GivesWhenSeen
  <2>4. last'[l] = (IF last[l] < Full THEN last[l] + 1 ELSE last[l])
    BY <2>1 DEF Tick, UpTo
  <2>5. seen'[a] = (IF seen[a] < TTL + 1 THEN seen[a] + 1 ELSE seen[a])
    BY <1>4 DEF Tick, UpTo
  <2> QED
    BY <2>2, <2>3, <2>4, <2>5
<1> QED
  BY <1>1, <1>2, <1>3, <1>4 DEF BucketInv, GivesWhenSeen

LEMMA BucketInvStep == BucketInv /\ [Next]_vars => BucketInv'
<1> SUFFICES ASSUME BucketInv, [Next]_vars PROVE BucketInv'
  OBVIOUS
<1>1. TypeOK'
  BY TypeStep DEF BucketInv
<1>2. ASSUME NEW r \in Requests, GetVisitor(r) PROVE BucketInv'
  BY <1>1, <1>2, FoundKeepsInv, MadeKeepsInv
<1>3. ASSUME NEW r \in Requests, Allow(r) PROVE BucketInv'
  BY <1>1, <1>3, AllowKeepsInv
<1>4. ASSUME NEW r \in Requests, Handle(r) PROVE BucketInv'
  BY <1>1, <1>4 DEF Handle, BucketInv, TypeOK, HoldsVisitor, VerdictInTime,
     OwnLimiter, GivesWhenSeen, mapVars, limiterVars
<1>5. ASSUME Cleanup PROVE BucketInv'
  BY <1>1, <1>5, CleanupKeepsInv
<1>6. ASSUME Tick PROVE BucketInv'
  BY <1>1, <1>6, TickKeepsInv
<1>7. CASE UNCHANGED vars
  BY <1>1, <1>7 DEF BucketInv, HoldsVisitor, VerdictInTime, OwnLimiter,
     GivesWhenSeen, vars, mapVars, limiterVars, requestVars
<1> QED
  BY <1>2, <1>3, <1>4, <1>5, <1>6, <1>7 DEF Next

\* The inductive invariant: what requests hold is in the map, addresses share
\* no limiter, and a limiter whose address is about to be forgotten is full.
THEOREM BucketInvCorrect == Spec => []BucketInv
  BY BucketInvInit, BucketInvStep, PTL DEF Spec

\* The limiter that a request asks after the mutex was released is the one in
\* the map (HeldIsInMap).
THEOREM HeldStaysInMap == Spec => []HeldIsInMap
<1>1. BucketInv => HeldIsInMap
  BY DEF BucketInv, HoldsVisitor, HeldIsInMap
<1> QED
  BY <1>1, BucketInvCorrect, PTL

-----------------------------------------------------------------------------
(***************************************************************************)
(* The refinement: Credit is what each address has left.                   *)
(***************************************************************************)
LEMMA CreditOfVisitor ==
  ASSUME NEW ip \in IPs, NEW l \in Limiters, visitors[ip] = {l}
  PROVE  Credit[ip] = Level(l)
<1>1. (CHOOSE k \in Limiters : k \in visitors[ip]) = l
  OBVIOUS
<1> QED
  BY <1>1 DEF Credit

LEMMA CreditOfStranger ==
  ASSUME NEW ip \in IPs, visitors[ip] = {}
  PROVE  Credit[ip] = Full
  BY DEF Credit

\* Each address is unknown or has a limiter.
LEMMA KnownOrNot ==
  ASSUME TypeOK, NEW ip \in IPs
  PROVE  visitors[ip] = {} \/ \E l \in Limiters : visitors[ip] = {l}
  BY DEF TypeOK, MaybeLimiter

LEMMA LevelType ==
  ASSUME TypeOK, NEW l \in Limiters
  PROVE  Level(l) \in 0..Full
  BY LimiterAssumption DEF TypeOK, Level

\* An address whose limiter is left alone keeps its credit.
LEMMA SameCredit ==
  ASSUME TypeOK, NEW ip \in IPs, visitors'[ip] = visitors[ip],
         \A l \in visitors[ip] : tokens'[l] = tokens[l] /\ last'[l] = last[l]
  PROVE  Credit'[ip] = Credit[ip]
<1>1. CASE visitors[ip] = {}
  BY <1>1 DEF Credit
<1>2. CASE visitors[ip] # {}
  <2>1. PICK l \in Limiters : visitors[ip] = {l}
    BY <1>2, KnownOrNot
  <2>2. Credit[ip] = Level(l)
    BY <2>1, CreditOfVisitor
  <2>3. (CHOOSE k \in Limiters : k \in visitors'[ip]) = l
    BY <2>1
  <2>4. Credit'[ip] = Level(l)'
    BY <2>1, <2>3 DEF Credit
  <2> QED
    BY <2>1, <2>2, <2>4 DEF Level
<1> QED
  BY <1>1, <1>2

\* GetVisitor is not seen: a new limiter is as full as a forgotten address.
LEMMA GetVisitorStutters ==
  ASSUME BucketInv, NEW r \in Requests, GetVisitor(r)
  PROVE  Credit' = Credit /\ verdict' = verdict
<1> USE LimiterAssumption
<1> DEFINE ip == IPOf[r]
<1>1. TypeOK /\ ip \in IPs /\ verdict' = verdict
  BY DEF BucketInv, GetVisitor
<1>2. ASSUME NEW a \in IPs PROVE Credit'[a] = Credit[a]
  <2>1. CASE visitors[ip] # {}
    <3>1. visitors' = visitors /\ tokens' = tokens /\ last' = last
      BY <2>1 DEF GetVisitor, limiterVars
    <3> QED
      BY <1>1, <1>2, <3>1, SameCredit
  <2>2. CASE visitors[ip] = {}
    <3>1. PICK l \in Limiters :
            /\ Unused(l)
            /\ visitors' = [visitors EXCEPT ![ip] = {l}]
            /\ tokens' = [tokens EXCEPT ![l] = Full]
            /\ last' = [last EXCEPT ![l] = 0]
      BY <2>2 DEF GetVisitor
    <3>2. CASE a = ip
      <4>1. visitors'[a] = {l} /\ tokens'[l] = Full /\ last'[l] = 0
        BY <1>1, <3>1, <3>2 DEF TypeOK
      <4>2. (CHOOSE k \in Limiters : k \in visitors'[a]) = l
        BY <4>1
      <4>3. Credit'[a] = Level(l)'
        BY <1>2, <4>1, <4>2 DEF Credit
      <4>4. Level(l)' = Full
        BY <4>1 DEF Level
      <4>5. Credit[a] = Full
        BY <2>2, <3>2, CreditOfStranger
      <4> QED
        BY <4>3, <4>4, <4>5
    <3>3. CASE a # ip
      <4>1. visitors'[a] = visitors[a] /\ l \notin visitors[a]
        BY <1>1, <1>2, <3>1, <3>3 DEF TypeOK, Unused
      <4>2. \A k \in visitors[a] : tokens'[k] = tokens[k] /\ last'[k] = last[k]
        BY <1>1, <1>2, <3>1, <4>1 DEF TypeOK, MaybeLimiter
      <4> QED
        BY <1>1, <1>2, <4>1, <4>2, SameCredit
    <3> QED
      BY <3>2, <3>3
  <2> QED
    BY <2>1, <2>2
<1> QED
  BY <1>1, <1>2 DEF Credit

\* Allow admits or refuses by the credit of the request's address.
LEMMA AllowDecides ==
  ASSUME BucketInv, TypeOK', NEW r \in Requests, Allow(r)
  PROVE  Bucket!Admit(r) \/ Bucket!Refuse(r)
<1> USE LimiterAssumption
<1> DEFINE ip == IPOf[r]
<1>1. TypeOK /\ ip \in IPs /\ visitors' = visitors /\ verdict[r] = "none"
  BY AllowsOwn DEF BucketInv, Allow, mapVars
<1>2. PICK l \in Limiters :
        /\ visitors[ip] = {l}
        /\ \/ /\ Level(l) >= Cost
              /\ tokens' = [tokens EXCEPT ![l] = Level(l) - Cost]
              /\ last' = [last EXCEPT ![l] = 0]
              /\ verdict' = [verdict EXCEPT ![r] = "admitted"]
           \/ /\ Level(l) < Cost
              /\ verdict' = [verdict EXCEPT ![r] = "refused"]
              /\ UNCHANGED limiterVars
  BY AllowsOwn
<1>3. Credit[ip] = Level(l)
  BY <1>1, <1>2, CreditOfVisitor
<1>4. CASE Level(l) >= Cost
  <2>1. /\ tokens' = [tokens EXCEPT ![l] = Level(l) - Cost]
        /\ last' = [last EXCEPT ![l] = 0]
        /\ verdict' = [verdict EXCEPT ![r] = "admitted"]
    BY <1>2, <1>4, <1>1, LevelType
  <2>2. tokens'[l] = Level(l) - Cost /\ last'[l] = 0
    BY <1>1, <1>2, <2>1 DEF TypeOK
  <2>3. Level(l)' = Level(l) - Cost
    <3>1. Level(l) - Cost < Full
      BY <1>1, <1>2, <1>4, LevelType
    <3> QED
      BY <1>1, <1>2, <2>2, <3>1, LevelType DEF Level
  <2>4. Credit'[ip] = Credit[ip] - Cost
    <3>1. (CHOOSE k \in Limiters : k \in visitors'[ip]) = l
      BY <1>1, <1>2
    <3>2. Credit'[ip] = Level(l)'
      BY <1>1, <1>2, <3>1 DEF Credit
    <3> QED
      BY <1>3, <2>3, <3>2
  <2>5. ASSUME NEW a \in IPs, a # ip PROVE Credit'[a] = Credit[a]
    <3>1. l \notin visitors[a]
      BY <1>1, <1>2, <2>5 DEF BucketInv, OwnLimiter
    <3>2. \A k \in visitors[a] : tokens'[k] = tokens[k] /\ last'[k] = last[k]
      BY <1>1, <2>1, <2>5, <3>1 DEF TypeOK, MaybeLimiter
    <3> QED
      BY <1>1, <2>5, <3>2, SameCredit
  <2>6. Credit' = [Credit EXCEPT ![ip] = @ - Cost]
    BY <1>1, <2>4, <2>5 DEF Credit
  <2> QED
    BY <1>1, <1>3, <1>4, <2>1, <2>6 DEF Bucket!Admit
<1>5. CASE Level(l) < Cost
  <2>1. UNCHANGED limiterVars /\ verdict' = [verdict EXCEPT ![r] = "refused"]
    BY <1>2, <1>5, <1>1, LevelType
  <2>2. \A a \in IPs : Credit'[a] = Credit[a]
    BY <1>1, <2>1, SameCredit DEF limiterVars
  <2>3. Credit' = Credit
    BY <2>2 DEF Credit
  <2> QED
    BY <1>1, <1>3, <1>5, <2>1, <2>3 DEF Bucket!Refuse
<1> QED
  BY <1>1, <1>2, <1>4, <1>5, LevelType

\* The cleanup is not seen: it forgets full limiters only.
LEMMA CleanupStutters ==
  ASSUME BucketInv, Cleanup
  PROVE  Credit' = Credit /\ verdict' = verdict
<1> USE LimiterAssumption
<1>1. /\ visitors' = [ip \in IPs |-> IF Idle(ip) THEN {} ELSE visitors[ip]]
      /\ tokens' = tokens /\ last' = last /\ verdict' = verdict
      /\ TypeOK
  BY DEF Cleanup, limiterVars, BucketInv
<1>2. ASSUME NEW a \in IPs PROVE Credit'[a] = Credit[a]
  <2>1. CASE ~Idle(a) \/ visitors[a] = {}
    <3>1. visitors'[a] = visitors[a]
      BY <1>1, <1>2, <2>1
    <3> QED
      BY <1>1, <1>2, <3>1, SameCredit
  <2>2. CASE Idle(a) /\ visitors[a] # {}
    <3>1. PICK l \in Limiters : visitors[a] = {l}
      BY <1>1, <1>2, <2>2, KnownOrNot
    <3>2. last[l] = Full \/ seen[a] <= last[l] + MaxHold
      BY <1>2, <3>1 DEF BucketInv, GivesWhenSeen
    <3>3. last[l] \in 0..Full /\ tokens[l] \in 0..Full /\ seen[a] \in 0..TTL + 1
      BY <1>1, <1>2 DEF TypeOK
    <3>4. last[l] = Full
      BY <2>2, <3>2, <3>3 DEF Idle
    <3>5. Level(l) = Full
      BY <3>3, <3>4 DEF Level
    <3>6. Credit[a] = Full
      BY <1>2, <3>1, <3>5, CreditOfVisitor
    <3>7. visitors'[a] = {}
      BY <1>1, <1>2, <2>2
    <3> QED
      BY <1>2, <3>6, <3>7 DEF Credit
  <2> QED
    BY <2>1, <2>2
<1> QED
  BY <1>1, <1>2 DEF Credit

\* A tick refills, whether anybody computes it or not.
LEMMA TickRefills ==
  ASSUME BucketInv, Tick
  PROVE  Bucket!Refill
<1> USE LimiterAssumption
<1>1. TypeOK /\ visitors' = visitors /\ tokens' = tokens /\ verdict' = verdict
  BY DEF Tick, BucketInv
<1>2. ASSUME NEW a \in IPs
      PROVE  Credit'[a] = IF Credit[a] < Full THEN Credit[a] + 1 ELSE Credit[a]
  <2>1. CASE visitors[a] = {}
    <3>1. Credit[a] = Full
      BY <1>2, <2>1, CreditOfStranger
    <3>2. Credit'[a] = Full
      BY <1>1, <1>2, <2>1 DEF Credit
    <3> QED
      BY <3>1, <3>2
  <2>2. CASE visitors[a] # {}
    <3>1. PICK l \in Limiters : visitors[a] = {l}
      BY <1>1, <1>2, <2>2, KnownOrNot
    <3>2. Credit[a] = Level(l)
      BY <1>2, <3>1, CreditOfVisitor
    <3>3. (CHOOSE k \in Limiters : k \in visitors'[a]) = l
      BY <1>1, <3>1
    <3>4. Credit'[a] = Level(l)'
      BY <1>1, <1>2, <3>1, <3>3 DEF Credit
    <3>5. last[l] \in 0..Full /\ tokens[l] \in 0..Full
      BY <1>1 DEF TypeOK
    <3>6. last'[l] = (IF last[l] < Full THEN last[l] + 1 ELSE last[l])
      BY DEF Tick, UpTo
    <3>7. Level(l)' = IF Level(l) < Full THEN Level(l) + 1 ELSE Level(l)
      BY <1>1, <3>5, <3>6 DEF Level
    <3> QED
      BY <3>2, <3>4, <3>7
  <2> QED
    BY <2>1, <2>2
<1>3. Credit' = [ip \in IPs |-> IF Credit[ip] < Full THEN Credit[ip] + 1
                                                    ELSE Credit[ip]]
  <2>1. Credit' = [ip \in IPs |-> Credit'[ip]]
    BY DEF Credit
  <2> QED
    BY <1>2, <2>1
<1> QED
  BY <1>1, <1>3 DEF Bucket!Refill

LEMMA StepsAreBuckets ==
  BucketInv /\ [Next]_vars => [Bucket!Next]_<<Credit, verdict>>
<1> SUFFICES ASSUME BucketInv, [Next]_vars
             PROVE  Bucket!Next \/ UNCHANGED <<Credit, verdict>>
  OBVIOUS
<1>1. ASSUME NEW r \in Requests, GetVisitor(r) PROVE UNCHANGED <<Credit, verdict>>
  BY <1>1, GetVisitorStutters
<1>2. ASSUME NEW r \in Requests, Allow(r) PROVE Bucket!Next
  <2>1. TypeOK'
    BY TypeStep DEF BucketInv
  <2> QED
    BY <1>2, <2>1, AllowDecides DEF Bucket!Next
<1>3. ASSUME NEW r \in Requests, Handle(r) PROVE Bucket!Next
  <2>1. visitors' = visitors /\ tokens' = tokens /\ last' = last
    BY <1>3 DEF Handle, mapVars, limiterVars
  <2>2. \A a \in IPs : Credit'[a] = Credit[a]
    BY <2>1, SameCredit DEF BucketInv
  <2>3. Credit' = Credit
    BY <2>2 DEF Credit
  <2> QED
    BY <1>3, <2>3 DEF Handle, Bucket!Next, Bucket!Over
<1>4. ASSUME Cleanup PROVE UNCHANGED <<Credit, verdict>>
  BY <1>4, CleanupStutters
<1>5. ASSUME Tick PROVE Bucket!Next
  BY <1>5, TickRefills DEF Bucket!Next
<1>6. CASE UNCHANGED vars
  <2>1. visitors' = visitors /\ tokens' = tokens /\ last' = last /\ verdict' = verdict
    BY <1>6 DEF vars, mapVars, limiterVars
  <2>2. \A a \in IPs : Credit'[a] = Credit[a]
    BY <2>1, SameCredit DEF BucketInv
  <2> QED
    BY <2>1, <2>2 DEF Credit
<1> QED
  BY <1>1, <1>2, <1>3, <1>4, <1>5, <1>6 DEF Next

\* Limiters that are computed lazily, asked outside the mutex, forgotten and
\* made anew are one token bucket per address for good (IsTokenBucket).
THEOREM LimitsLikeBuckets == Spec => IsTokenBucket
<1>1. Init => Bucket!Init
  BY DEF Init, Credit, Bucket!Init
<1> QED
  BY <1>1, BucketInvCorrect, StepsAreBuckets, PTL
     DEF Spec, IsTokenBucket, Bucket!Spec
=============================================================================
