----------------------------- MODULE TokenBucket -----------------------------
(***************************************************************************)
(* What a rate limiter promises: one bucket for each address, full at      *)
(* first, filled at a fixed rate for ever, and a request passes exactly    *)
(* when its address's bucket can pay for it.  Credit is counted in units   *)
(* of which a request costs Cost and a tick brings Rate.                   *)
(***************************************************************************)
EXTENDS Integers

CONSTANTS IPs, Rate, Cost, Full

VARIABLES
  credit,  \* what each bucket holds
  passed,  \* how many requests of each address have passed
  answer   \* what the last request of each address was told

vars == <<credit, passed, answer>>

Least(a, b) == IF a <= b THEN a ELSE b

Init ==
  /\ credit = [ip \in IPs |-> Full]
  /\ passed = [ip \in IPs |-> 0]
  /\ answer = [ip \in IPs |-> "none"]

Elapse ==
  /\ credit' = [ip \in IPs |-> Least(Full, credit[ip] + Rate)]
  /\ UNCHANGED <<passed, answer>>

Pass(ip) ==
  /\ credit[ip] >= Cost
  /\ credit' = [credit EXCEPT ![ip] = @ - Cost]
  /\ passed' = [passed EXCEPT ![ip] = @ + 1]
  /\ answer' = [answer EXCEPT ![ip] = "next"]

Refuse(ip) ==
  /\ credit[ip] < Cost
  /\ answer' = [answer EXCEPT ![ip] = "429"]
  /\ UNCHANGED <<credit, passed>>

Next == Elapse \/ \E ip \in IPs : Pass(ip) \/ Refuse(ip)

Spec == Init /\ [][Next]_vars
=============================================================================
