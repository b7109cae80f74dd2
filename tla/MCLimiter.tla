----------------------------- MODULE MCLimiter ------------------------------
EXTENDS Limiter, FiniteSets, TLC

\* Two requests meet at one address; every other one comes from another.
MCIPOf ==
  LET busy == CHOOSE ip \in IPs : TRUE
      pair == CHOOSE S \in SUBSET Requests : Cardinality(S) = 2
  IN  [r \in Requests |-> IF r \in pair \/ IPs = {busy} THEN busy
                          ELSE CHOOSE ip \in IPs \ {busy} : TRUE]
=============================================================================
