-------------------------- MODULE RateLimiter_proofs --------------------------
(***************************************************************************)
(* Proofs about RateLimiter, for every rate, burst, ttl and delay that     *)
(* satisfy RefillsInTime.  The inductive invariant IInv has two halves:    *)
(* HoldsCurrent and ChargedInTime make a collection throw away only        *)
(* buckets that are full and that nobody holds, and PaidFor is the         *)
(* conservation law behind RateBound.  Multiplication occurs only in       *)
(* Refill and Price, whose properties are the first lemmas.                *)
(***************************************************************************)
EXTENDS RateLimiter, TLAPS

-----------------------------------------------------------------------------
(* Refill and Price are additive and grow.                                 *)

LEMMA RefillNat == \A t \in Nat : Refill(t) \in Nat
BY Quantities DEF Refill

LEMMA RefillZero == Refill(0) = 0
BY Quantities DEF Refill

LEMMA RefillNext == \A t \in Nat : Refill(t + 1) = Refill(t) + Rate
BY Quantities DEF Refill

LEMMA RefillGrows == \A s, t \in Nat : s <= t => Refill(s) <= Refill(t)
<1> SUFFICES ASSUME NEW s \in Nat, NEW t \in Nat, s <= t
             PROVE  Refill(s) <= Refill(t)
  OBVIOUS
<1>1. PICK d \in Nat : t = s + d
  <2>1. t - s \in Nat /\ t = s + (t - s)
    OBVIOUS
  <2> QED BY <2>1
<1>2. Rate * (s + d) = Rate * s + Rate * d /\ Rate * d \in Nat /\ Rate * s \in Nat
  BY Quantities
<1> QED BY <1>1, <1>2 DEF Refill

LEMMA PriceNext == \A n \in Nat : Price(n + 1) = Price(n) + Cost
BY Quantities DEF Price

LEMMA PriceNat == Price(0) = 0 /\ \A n \in Nat : Price(n) \in Nat
BY Quantities DEF Price

LEMMA CreditRange ==
  ASSUME TypeOK, ChargedInTime, NEW b \in Buckets
  PROVE  /\ Credit(b) \in 0 .. Full
         /\ now - heap[b].last \in Nat
         /\ Refill(now - heap[b].last) \in Nat
         /\ heap[b].tokens \in 0 .. Full
<1>1. now - heap[b].last \in Nat /\ heap[b].tokens \in 0 .. Full
  BY DEF TypeOK, Bucket, ChargedInTime
<1>2. Refill(now - heap[b].last) \in Nat
  BY <1>1, RefillNat
<1> QED BY <1>1, <1>2, Quantities DEF Credit

LEMMA KnownBucket ==
  ASSUME TypeOK, NEW ip \in Known
  PROVE  limiters[ip].bucket \in Buckets /\ ip \in IPs
BY DEF TypeOK, Known, Entry

LEMMA CreditOfRange ==
  ASSUME TypeOK, ChargedInTime, NEW ip \in IPs
  PROVE  CreditOf(ip) \in 0 .. Full
BY CreditRange, KnownBucket, Quantities DEF CreditOf

(* What a collection may forget is full, and in nobody's hands.            *)
LEMMA StaleIsFull ==
  ASSUME TypeOK, HoldsCurrent, ChargedInTime, NEW ip \in Known, Stale(ip)
  PROVE  /\ CreditOf(ip) = Full
         /\ \A r \in Busy : req[r].ip # ip
<1> DEFINE b == limiters[ip].bucket
<1>0. b \in Buckets /\ limiters[ip].lastSeen \in Nat /\ now \in Nat
      /\ limiters[ip].lastSeen < now - TTL
      /\ heap[b].last \in Nat
      /\ heap[b].last <= limiters[ip].lastSeen + MaxDelay
  BY KnownBucket DEF TypeOK, Entry, Bucket, Stale, ChargedInTime
<1>1. TTL - MaxDelay \in Nat /\ now - heap[b].last \in Nat
      /\ TTL - MaxDelay <= now - heap[b].last
  BY <1>0, Quantities, RefillsInTime
<1>2. Refill(now - heap[b].last) >= Full
  BY <1>1, RefillGrows, RefillNat, RefillsInTime, Quantities
<1>3. Credit(b) = Full
  BY <1>2, CreditRange, <1>0, Quantities DEF Credit
<1>4. \A r \in Busy : req[r].ip # ip
  BY <1>0, Quantities, RefillsInTime DEF HoldsCurrent, Busy, TypeOK, Slot
<1> QED BY <1>3, <1>4 DEF CreditOf

-----------------------------------------------------------------------------
(* What each step does to the credit of an address.                        *)

(* A tick brings every address Rate, up to Full.                           *)
LEMMA TickCredit ==
  ASSUME IInv, Tick
  PROVE  \A ip \in IPs : CreditOf(ip)' = IF CreditOf(ip) + Rate <= Full
                                         THEN CreditOf(ip) + Rate ELSE Full
<1> USE Quantities DEF IInv, Tick
<1>1. \A b \in Buckets : Credit(b)' = IF Credit(b) + Rate <= Full
                                      THEN Credit(b) + Rate ELSE Full
  <2> SUFFICES ASSUME NEW b \in Buckets
               PROVE  Credit(b)' = IF Credit(b) + Rate <= Full
                                   THEN Credit(b) + Rate ELSE Full
    OBVIOUS
  <2>1. now + 1 - heap[b].last = (now - heap[b].last) + 1
    BY DEF TypeOK, Bucket
  <2>2. Refill(now' - heap'[b].last) = Refill(now - heap[b].last) + Rate
    <3>1. now - heap[b].last \in Nat
      BY CreditRange
    <3>2. Refill((now - heap[b].last) + 1) = Refill(now - heap[b].last) + Rate
      BY <3>1, RefillNext
    <3>3. now' = now + 1 /\ heap' = heap
      OBVIOUS
    <3>4. now \in Nat /\ heap[b].last \in Nat
      BY DEF TypeOK, Bucket
    <3> QED BY ONLY <3>2, <3>3, <3>4
  <2> QED BY <2>2, CreditRange DEF Credit
<1> QED BY <1>1, KnownBucket DEF CreditOf, Known

LEMMA GetKnownCredit ==
  ASSUME IInv, NEW r \in Requests, NEW ip \in IPs, GetKnown(r, ip)
  PROVE  \A i \in IPs : CreditOf(i)' = CreditOf(i)
<1> USE DEF IInv, GetKnown
<1>1. /\ Known' = Known
      /\ \A i \in IPs : limiters'[i].bucket = limiters[i].bucket
  BY DEF Known, TypeOK, Entry
<1> QED BY <1>1 DEF CreditOf, Credit, Known

LEMMA GetUnknownCredit ==
  ASSUME IInv, NEW r \in Requests, NEW ip \in IPs, NEW b \in Buckets,
         GetUnknown(r, ip, b)
  PROVE  \A i \in IPs : CreditOf(i)' = CreditOf(i)
<1> USE AbsentValues, Quantities DEF IInv, GetUnknown
<1>1. /\ Known' = Known \cup {ip}
      /\ \A i \in IPs \ {ip} : limiters'[i] = limiters[i]
      /\ limiters'[ip] = [bucket |-> b, lastSeen |-> now]
      /\ \A i \in Known : limiters[i].bucket # b
  BY DEF Known, TypeOK, Free
<1>2. Credit(b)' = Full
  <2>1. heap'[b] = [tokens |-> Full, last |-> now] /\ now' = now
    BY DEF TypeOK
  <2>2. now - now = 0
    BY DEF TypeOK
  <2> QED BY <2>1, <2>2, RefillZero DEF Credit
<1>3. \A c \in Buckets \ {b} : Credit(c)' = Credit(c)
  BY DEF Credit, TypeOK
<1> QED BY <1>1, <1>2, <1>3, KnownBucket DEF CreditOf

LEMMA AllowYesCredit ==
  ASSUME IInv, NEW r \in Requests, NEW ip \in IPs, ip = req[r].ip, AllowYes(r)
  PROVE  \A i \in IPs :
           CreditOf(i)' = IF i = ip THEN CreditOf(i) - Cost ELSE CreditOf(i)
<1> USE AbsentValues, Quantities DEF IInv
<1>b. PICK b \in Buckets : b = req[r].bucket
  BY DEF AllowYes, Busy, TypeOK, Slot
<1>0. /\ b # NoBucket /\ ip \in Known
      /\ limiters[ip].bucket = b
      /\ Credit(b) \in 0 .. Full /\ Credit(b) >= Cost
      /\ heap' = [heap EXCEPT ![b] = [tokens |-> Credit(b) - Cost, last |-> now]]
      /\ passed' = [passed EXCEPT ![ip] = @ + 1]
      /\ answer' = [answer EXCEPT ![ip] = "next"]
      /\ req' = [req EXCEPT ![r] = Idle]
      /\ UNCHANGED <<now, limiters, due>>
  BY <1>b, CreditRange DEF AllowYes, Busy, HoldsCurrent
<1>1. Credit(b)' = Credit(b) - Cost
  <2>1. heap'[b] = [tokens |-> Credit(b) - Cost, last |-> now] /\ now' = now
    BY <1>0 DEF TypeOK
  <2>2. now - now = 0
    BY DEF TypeOK
  <2>3. heap'[b].tokens + Refill(now' - heap'[b].last) = Credit(b) - Cost
    BY ONLY <1>0, <2>1, <2>2, RefillZero, Quantities
  <2> QED BY ONLY <1>0, <2>3, Quantities DEF Credit
<1>2. \A c \in Buckets \ {b} : Credit(c)' = Credit(c)
  BY <1>0 DEF Credit, TypeOK
<1>3. \A i \in Known \ {ip} : limiters[i].bucket \in Buckets \ {b}
  BY <1>0, KnownBucket DEF OwnBucket
<1>4. Known' = Known /\ limiters' = limiters
  BY <1>0 DEF Known
<1> QED BY ONLY <1>0, <1>1, <1>2, <1>3, <1>4 DEF CreditOf

LEMMA CollectCredit ==
  ASSUME IInv, Collect
  PROVE  \A i \in IPs : CreditOf(i)' = CreditOf(i)
<1> USE AbsentValues DEF IInv, Collect
<1>1. /\ Known' \subseteq Known
      /\ \A i \in Known' : limiters'[i] = limiters[i]
      /\ \A i \in Known \ Known' : Stale(i)
  BY DEF Known, Unknown
<1> QED BY <1>1, StaleIsFull DEF CreditOf, Credit

-----------------------------------------------------------------------------
(* IInv is inductive.                                                      *)

LEMMA InitOK == Init => IInv
<1> SUFFICES ASSUME Init PROVE IInv
  OBVIOUS
<1> USE AbsentValues, Quantities DEF Init, Idle, Unknown, Known, Busy
<1>1. TypeOK
  BY DEF TypeOK, Entry, Bucket, Slot
<1>2. OwnBucket /\ HoldsCurrent /\ ChargedInTime
  BY DEF OwnBucket, HoldsCurrent, ChargedInTime
<1>3. PaidFor
  <2>1. \A ip \in IPs : CreditOf(ip) = Full /\ passed[ip] = 0
    BY DEF CreditOf
  <2>2. now = 0
    OBVIOUS
  <2>3. ASSUME NEW ip \in IPs
        PROVE  Price(passed[ip]) + CreditOf(ip) <= Full + Refill(now)
    <3>1. Price(passed[ip]) = 0 /\ Refill(now) = 0 /\ CreditOf(ip) = Full
      BY <2>1, <2>2, PriceNat, RefillZero
    <3> QED BY <3>1
  <2> QED BY <2>3 DEF PaidFor
<1> QED BY <1>1, <1>2, <1>3 DEF IInv

LEMMA GetKnownKeeps ==
  ASSUME IInv, NEW r \in Requests, NEW ip \in IPs, GetKnown(r, ip)
  PROVE  IInv'
<1> USE AbsentValues, Quantities DEF IInv, GetKnown
<1>0. limiters[ip].bucket \in Buckets /\ limiters[ip].bucket # NoBucket
  BY KnownBucket
<1>1. TypeOK'
  BY <1>0 DEF TypeOK, Entry, Slot
<1>2. /\ Known' = Known
      /\ \A i \in IPs : limiters'[i].bucket = limiters[i].bucket
  BY DEF Known, TypeOK, Entry
<1>3. OwnBucket'
  BY <1>2 DEF OwnBucket, Known
<1>4. HoldsCurrent'
  <2>1. \A i \in IPs : limiters[i].lastSeen <= limiters'[i].lastSeen
                         \/ i \notin Known
    BY DEF TypeOK, Entry, ChargedInTime
  <2>2. SUFFICES ASSUME NEW q \in Requests
                 PROVE  IF q \in Busy'
                        THEN /\ req'[q].ip \in Known'
                             /\ limiters'[req'[q].ip].bucket = req'[q].bucket
                             /\ req'[q].since <= limiters'[req'[q].ip].lastSeen
                             /\ now' <= req'[q].since + MaxDelay
                        ELSE req'[q] = Idle
    BY DEF HoldsCurrent
  <2>3. CASE q = r
    BY <1>0, <1>2, <2>3 DEF TypeOK, Busy
  <2>4. CASE q # r
    BY <1>2, <2>1, <2>4 DEF TypeOK, Busy, HoldsCurrent, Slot, Entry, Known
  <2> QED BY <2>3, <2>4
<1>5. ChargedInTime'
  BY <1>2 DEF ChargedInTime, TypeOK, Known, Entry, Bucket
<1>6. PaidFor'
  BY GetKnownCredit DEF PaidFor
<1> QED BY <1>1, <1>3, <1>4, <1>5, <1>6

LEMMA TickKeeps == ASSUME IInv, Tick PROVE IInv'
<1> USE Quantities DEF IInv, Tick
<1>1. TypeOK'
  BY DEF TypeOK
<1>2. OwnBucket'
  BY DEF OwnBucket, Known
<1>3. HoldsCurrent'
  BY DEF HoldsCurrent, Busy, Known, TypeOK, Slot
<1>4. ChargedInTime'
  BY DEF ChargedInTime, TypeOK, Known, Entry, Bucket
<1>7. PaidFor'
  <2>1. Refill(now') = Refill(now) + Rate /\ Refill(now) \in Nat
    BY RefillNext, RefillNat DEF TypeOK
  <2>2. \A ip \in IPs : Price(passed[ip]) \in Nat /\ CreditOf(ip) \in 0 .. Full
    BY PriceNat, CreditOfRange DEF TypeOK
  <2> QED BY TickCredit, <2>1, <2>2 DEF PaidFor
<1> QED BY <1>1, <1>2, <1>3, <1>4, <1>7

LEMMA GetUnknownKeeps ==
  ASSUME IInv, NEW r \in Requests, NEW ip \in IPs, NEW b \in Buckets,
         GetUnknown(r, ip, b)
  PROVE  IInv'
<1> USE AbsentValues, Quantities DEF IInv, GetUnknown
<1>1. TypeOK'
  BY DEF TypeOK, Entry, Bucket, Slot
<1>2. /\ Known' = Known \cup {ip}
      /\ \A i \in IPs \ {ip} : limiters'[i] = limiters[i]
      /\ limiters'[ip] = [bucket |-> b, lastSeen |-> now]
      /\ \A i \in Known : limiters[i].bucket # b
  BY DEF Known, TypeOK, Free
<1>3. OwnBucket'
  BY <1>2 DEF OwnBucket, Known
<1>4. HoldsCurrent'
  BY <1>2 DEF HoldsCurrent, TypeOK, Busy, Slot
<1>5. ChargedInTime'
  BY <1>2 DEF ChargedInTime, TypeOK, Entry, Bucket, Known
<1>6. PaidFor'
  BY GetUnknownCredit DEF PaidFor
<1> QED BY <1>1, <1>3, <1>4, <1>5, <1>6

LEMMA AllowYesKeeps ==
  ASSUME IInv, NEW r \in Requests, AllowYes(r)
  PROVE  IInv'
<1> USE AbsentValues, Quantities DEF IInv
<1>b. PICK b \in Buckets : b = req[r].bucket
  BY DEF AllowYes, Busy, TypeOK, Slot
<1>i. PICK ip \in IPs : ip = req[r].ip
  BY DEF AllowYes, Busy, HoldsCurrent, Known
<1>0. /\ b # NoBucket /\ ip \in Known
      /\ limiters[ip].bucket = b
      /\ Credit(b) \in 0 .. Full /\ Credit(b) >= Cost
      /\ heap' = [heap EXCEPT ![b] = [tokens |-> Credit(b) - Cost, last |-> now]]
      /\ passed' = [passed EXCEPT ![ip] = @ + 1]
      /\ answer' = [answer EXCEPT ![ip] = "next"]
      /\ req' = [req EXCEPT ![r] = Idle]
      /\ UNCHANGED <<now, limiters, due>>
  BY <1>b, <1>i, CreditRange DEF AllowYes, Busy, HoldsCurrent
<1>1. TypeOK'
  BY <1>0 DEF TypeOK, Bucket, Slot, Idle
<1>2. OwnBucket'
  BY <1>0 DEF OwnBucket, Known
<1>3. HoldsCurrent'
  BY <1>0 DEF HoldsCurrent, Busy, Known, TypeOK, Idle
<1>4. ChargedInTime'
  <2>1. /\ req[r].since <= limiters[ip].lastSeen
        /\ now <= req[r].since + MaxDelay
    BY <1>i DEF HoldsCurrent, AllowYes
  <2>2. now \in Nat /\ req[r].since \in Nat /\ limiters[ip].lastSeen \in Nat
    BY <1>0 DEF TypeOK, Slot, Entry
  <2>3. now <= limiters[ip].lastSeen + MaxDelay
    BY ONLY <2>1, <2>2, Quantities
  <2> QED BY <1>0, <2>3 DEF ChargedInTime, Known, TypeOK, Entry, Bucket, OwnBucket
<1>5. PaidFor'
  <2>1. Price(passed[ip] + 1) = Price(passed[ip]) + Cost
    BY <1>0, PriceNext DEF TypeOK
  <2>2. \A i \in IPs : Price(passed[i]) \in Nat /\ CreditOf(i) \in 0 .. Full
    BY PriceNat, CreditOfRange DEF TypeOK
  <2>3. Refill(now) \in Nat
    BY RefillNat DEF TypeOK
  <2>4. \A i \in IPs : Price(passed'[i]) =
          IF i = ip THEN Price(passed[i]) + Cost ELSE Price(passed[i])
    BY <1>0, <2>1 DEF TypeOK
  <2>5. \A i \in IPs :
          CreditOf(i)' = IF i = ip THEN CreditOf(i) - Cost ELSE CreditOf(i)
    BY <1>i, AllowYesCredit
  <2> QED BY <1>0, <2>2, <2>3, <2>4, <2>5 DEF PaidFor
<1> QED BY <1>1, <1>2, <1>3, <1>4, <1>5

LEMMA AllowNoKeeps ==
  ASSUME IInv, NEW r \in Requests, AllowNo(r)
  PROVE  IInv'
<1> USE AbsentValues DEF IInv, AllowNo
<1>1. TypeOK'
  BY DEF TypeOK, Slot, Idle, Busy
<1>2. OwnBucket'
  BY DEF OwnBucket, Known
<1>3. HoldsCurrent'
  BY DEF HoldsCurrent, Busy, Known, TypeOK, Idle
<1>4. ChargedInTime'
  BY DEF ChargedInTime, Known
<1>5. PaidFor'
  BY DEF PaidFor, CreditOf, Credit, Known
<1> QED BY <1>1, <1>2, <1>3, <1>4, <1>5

LEMMA CollectKeeps == ASSUME IInv, Collect PROVE IInv'
<1> USE AbsentValues, Quantities DEF IInv, Collect
<1>1. TypeOK'
  BY DEF TypeOK, Entry, Unknown
<1>2. /\ Known' \subseteq Known
      /\ \A i \in Known' : limiters'[i] = limiters[i]
      /\ \A i \in Known \ Known' : Stale(i)
  BY DEF Known, Unknown
<1>3. OwnBucket'
  BY <1>2 DEF OwnBucket
<1>4. HoldsCurrent'
  <2>1. \A q \in Busy : req[q].ip \in Known'
    BY <1>2, StaleIsFull DEF HoldsCurrent, Busy
  <2> QED BY <1>2, <2>1 DEF HoldsCurrent, Busy
<1>5. ChargedInTime'
  BY <1>2 DEF ChargedInTime
<1>6. PaidFor'
  BY CollectCredit DEF PaidFor
<1> QED BY <1>1, <1>3, <1>4, <1>5, <1>6

LEMMA StepKeeps == ASSUME IInv, [Next]_vars PROVE IInv'
<1>1. CASE UNCHANGED vars
  BY <1>1 DEF vars, IInv, TypeOK, OwnBucket, HoldsCurrent, ChargedInTime, PaidFor,
     Known, Busy, CreditOf, Credit
<1> QED BY <1>1, GetKnownKeeps, GetUnknownKeeps, AllowYesKeeps, AllowNoKeeps,
           CollectKeeps, TickKeeps DEF Next

(* IInv holds throughout, whatever the interleaving of requests and        *)
(* collections.                                                            *)
THEOREM Inductive == Spec => []IInv
BY InitOK, StepKeeps, PTL DEF Spec

(* Every variable has its type.                                            *)
THEOREM TypeCorrect == Spec => []TypeOK
<1>1. IInv => TypeOK
  BY DEF IInv
<1> QED BY <1>1, Inductive, PTL

(* No address gets more through than its burst and the rate allow.         *)
THEOREM RateIsBounded == Spec => []RateBound
<1>1. ASSUME IInv, NEW ip \in IPs
      PROVE  Price(passed[ip]) <= Full + Refill(now)
  <2>1. CreditOf(ip) \in 0 .. Full
    BY <1>1, CreditOfRange DEF IInv
  <2>2. Price(passed[ip]) \in Nat /\ Refill(now) \in Nat
    BY <1>1, PriceNat, RefillNat DEF IInv, TypeOK
  <2> QED BY <1>1, <2>1, <2>2, Quantities DEF IInv, PaidFor
<1>2. IInv => RateBound
  BY <1>1 DEF RateBound
<1> QED BY <1>2, Inductive, PTL

LEMMA DueInit == Init => DueInv
BY Quantities DEF Init, DueInv, Known, Unknown

LEMMA DueStep == ASSUME TypeOK, DueInv, [Next]_vars PROVE DueInv'
<1> USE AbsentValues, Quantities DEF TypeOK, Entry, DueInv
<1>1. ASSUME NEW r \in Requests, NEW ip \in IPs, GetKnown(r, ip) PROVE DueInv'
  BY <1>1 DEF GetKnown, Known
<1>2. ASSUME NEW r \in Requests, NEW ip \in IPs, NEW b \in Buckets,
             GetUnknown(r, ip, b)
      PROVE  DueInv'
  BY <1>2 DEF GetUnknown, Known
<1>3. CASE Collect
  BY <1>3 DEF Collect, Known, Unknown, Stale
<1>4. CASE Tick
  BY <1>4 DEF Tick, Known
<1>5. CASE UNCHANGED <<now, limiters, due>>
  BY <1>5 DEF Known
<1> QED BY <1>1, <1>2, <1>3, <1>4, <1>5 DEF Next, vars, AllowYes, AllowNo

(* An address that sends nothing is forgotten.                             *)
THEOREM AddressesAreForgotten == Spec => []Forgotten
<1>1. Spec => []DueInv
  BY DueInit, DueStep, TypeCorrect, PTL DEF Spec
<1>2. TypeOK /\ DueInv => Forgotten
  <2> SUFFICES ASSUME TypeOK, DueInv, NEW ip \in Known
               PROVE  now <= limiters[ip].lastSeen + 2 * TTL + MaxDelay
    BY DEF Forgotten
  <2>1. now \in Nat /\ due \in Nat /\ limiters[ip].lastSeen \in Nat
    BY DEF TypeOK, Entry, Known
  <2>2. now <= due + MaxDelay /\ due - 2 * TTL <= limiters[ip].lastSeen
    BY DEF DueInv
  <2> QED BY <2>1, <2>2, Quantities
<1> QED BY <1>1, <1>2, TypeCorrect, PTL

-----------------------------------------------------------------------------
(***************************************************************************)
(* Refinement: every step is a step of TokenBucket, or changes nothing     *)
(* there.  The ideal credit is CreditOf.                                   *)
(***************************************************************************)

LEMMA IdealInit == Init => Ideal!Init
<1> SUFFICES ASSUME Init PROVE Ideal!Init
  OBVIOUS
<1>1. \A ip \in IPs : CreditOf(ip) = Full
  BY DEF Init, Unknown, Known, CreditOf
<1> QED BY <1>1 DEF Init, Ideal!Init

(* get and Collect change no address's credit: forgetting is invisible.    *)
LEMMA IdealSame ==
  ASSUME \A ip \in IPs : CreditOf(ip)' = CreditOf(ip),
         UNCHANGED <<passed, answer>>
  PROVE  UNCHANGED Ideal!vars
BY DEF Ideal!vars

LEMMA IdealStep == ASSUME IInv, [Next]_vars PROVE [Ideal!Next]_(Ideal!vars)
<1>1. ASSUME NEW r \in Requests, AllowYes(r) PROVE Ideal!Next
  <2>1. PICK ip \in IPs : ip = req[r].ip
    BY <1>1 DEF IInv, AllowYes, Busy, HoldsCurrent, Known
  <2>2. CreditOf(ip) >= Cost
    BY <1>1, <2>1 DEF IInv, AllowYes, HoldsCurrent, CreditOf
  <2>3. \A i \in IPs :
          CreditOf(i)' = IF i = ip THEN CreditOf(i) - Cost ELSE CreditOf(i)
    BY <1>1, <2>1, AllowYesCredit
  <2>4. Ideal!Pass(ip)
    BY <1>1, <2>1, <2>2, <2>3 DEF AllowYes, Ideal!Pass
  <2> QED BY <2>4 DEF Ideal!Next
<1>2. ASSUME NEW r \in Requests, AllowNo(r) PROVE Ideal!Next
  <2>1. PICK ip \in IPs : ip = req[r].ip
    BY <1>2 DEF IInv, AllowNo, Busy, HoldsCurrent, Known
  <2>2. CreditOf(ip) < Cost
    BY <1>2, <2>1 DEF IInv, AllowNo, HoldsCurrent, CreditOf
  <2>3. \A i \in IPs : CreditOf(i)' = CreditOf(i)
    BY <1>2 DEF AllowNo, CreditOf, Credit, Known
  <2>4. Ideal!Refuse(ip)
    BY <1>2, <2>1, <2>2, <2>3 DEF AllowNo, Ideal!Refuse
  <2> QED BY <2>4 DEF Ideal!Next
<1>3. CASE Tick
  <2>1. \A ip \in IPs : CreditOf(ip)' = Ideal!Least(Full, CreditOf(ip) + Rate)
    BY <1>3, TickCredit, CreditOfRange, Quantities DEF IInv, Ideal!Least
  <2>2. Ideal!Elapse
    BY <1>3, <2>1 DEF Tick, Ideal!Elapse
  <2> QED BY <2>2 DEF Ideal!Next
<1>4. ASSUME NEW r \in Requests, NEW ip \in IPs, GetKnown(r, ip)
      PROVE  UNCHANGED Ideal!vars
  BY <1>4, GetKnownCredit, IdealSame DEF GetKnown
<1>5. ASSUME NEW r \in Requests, NEW ip \in IPs, NEW b \in Buckets,
             GetUnknown(r, ip, b)
      PROVE  UNCHANGED Ideal!vars
  BY <1>5, GetUnknownCredit, IdealSame DEF GetUnknown
<1>6. CASE Collect
  BY <1>6, CollectCredit, IdealSame DEF Collect
<1>7. CASE UNCHANGED vars
  <2>1. \A i \in IPs : CreditOf(i)' = CreditOf(i)
    BY <1>7 DEF vars, CreditOf, Credit, Known
  <2> QED BY <1>7, <2>1, IdealSame DEF vars
<1> QED BY <1>1, <1>2, <1>3, <1>4, <1>5, <1>6, <1>7 DEF Next

(* Throwing buckets away is invisible to every client.                     *)
THEOREM Refines == Spec => ForgettingIsInvisible
BY IdealInit, IdealStep, Inductive, PTL DEF Spec, ForgettingIsInvisible, Ideal!Spec
=============================================================================
