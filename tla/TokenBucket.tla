---------------------------- MODULE TokenBucket -----------------------------
(***************************************************************************)
(* What RateLimiterMiddleware promises each address: one bucket for good,  *)
(* full at first, that gains one unit per tick up to Full.  A request is   *)
(* admitted, for Cost units, exactly if they are there.                    *)
(***************************************************************************)
EXTENDS Integers

CONSTANTS
  IPs, Requests,
  IPOf,  \* the address that each request comes from
  Cost,  \* ticks in which a token comes back
  Full   \* units in a full bucket

VARIABLES
  credit,  \* each address's units
  verdict  \* on each request: "none" until there is one

Init ==
  /\ credit = [ip \in IPs |-> Full]
  /\ verdict = [r \in Requests |-> "none"]

Refill ==
  /\ credit' = [ip \in IPs |-> IF credit[ip] < Full THEN credit[ip] + 1
                                                   ELSE credit[ip]]
  /\ UNCHANGED verdict

Admit(r) ==
  /\ verdict[r] = "none"
  /\ credit[IPOf[r]] >= Cost
  /\ credit' = [credit EXCEPT ![IPOf[r]] = @ - Cost]
  /\ verdict' = [verdict EXCEPT ![r] = "admitted"]

Refuse(r) ==
  /\ verdict[r] = "none"
  /\ credit[IPOf[r]] < Cost
  /\ verdict' = [verdict EXCEPT ![r] = "refused"]
  /\ UNCHANGED credit

\* The request is over; its client may send another.
Over(r) ==
  /\ verdict' = [verdict EXCEPT ![r] = "none"]
  /\ UNCHANGED credit

Next == Refill \/ \E r \in Requests : Admit(r) \/ Refuse(r) \/ Over(r)

Spec == Init /\ [][Next]_<<credit, verdict>>
=============================================================================
