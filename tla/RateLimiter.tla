----------------------------- MODULE RateLimiter -----------------------------
(***************************************************************************)
(* One IPRateLimiter (internal/middleware/ratelimit.go): a map from        *)
(* addresses to token buckets under a mutex, and a goroutine that forgets  *)
(* the addresses not seen for a while.                                     *)
(*                                                                         *)
(* get and the collection each hold the mutex throughout and are atomic.   *)
(* Allow is not: it calls get, drops the mutex, and takes the token from   *)
(* the bucket get returned, which by then the map may have lost.           *)
(*                                                                         *)
(* MaxDelay is the one assumption about time: no goroutine stands between  *)
(* two of its steps for longer, and the ticker is served within it.        *)
(***************************************************************************)
EXTENDS Integers

CONSTANTS
  IPs,       \* client addresses
  NoIP,      \* no address
  Requests,  \* requests in flight at once
  Buckets,   \* places in memory for rate.Limiter objects
  NoBucket,  \* a nil *rate.Limiter
  Rate,      \* r: the credit a bucket gains per tick
  Cost,      \* the credit one request costs
  Full,      \* b: the credit a bucket holds at most
  TTL,       \* ttl: how long an unseen address is remembered
  MaxDelay,  \* how long a goroutine may be suspended
  Horizon    \* bound: the ticks TLC looks at

ASSUME AbsentValues == NoIP \notin IPs /\ NoBucket \notin Buckets
ASSUME Quantities ==
  /\ Rate \in Nat /\ Cost \in Nat \ {0} /\ Full \in Nat
  /\ TTL \in Nat /\ MaxDelay \in Nat /\ Horizon \in Nat

Refill(ticks)   == Rate * ticks     \* the credit a bucket gains
Price(requests) == Cost * requests  \* the credit so many requests cost

(* An address may be forgotten once its bucket is full again.  main uses   *)
(* ttl = 600 s and five limiters that fill in at most 30 s.                *)
ASSUME RefillsInTime ==
  /\ MaxDelay <= TTL
  /\ Refill(TTL - MaxDelay) >= Full

VARIABLES
  now,       \* the clock
  limiters,  \* the map: each address's bucket and when it was last seen
  heap,      \* each bucket's credit when it was last charged
  req,       \* requests between get and Allow
  due,       \* when the ticker fires next
  passed,    \* history: how many requests of each address have passed
  answer     \* what the last request of each address was told

vars == <<now, limiters, heap, req, due, passed, answer>>

Unknown == [bucket |-> NoBucket, lastSeen |-> 0]
Idle    == [ip |-> NoIP, bucket |-> NoBucket, since |-> 0]

Entry  == [bucket : Buckets \cup {NoBucket}, lastSeen : Nat]
Bucket == [tokens : 0 .. Full, last : Nat]
Slot   == [ip : IPs \cup {NoIP}, bucket : Buckets \cup {NoBucket}, since : Nat]

Known == {ip \in IPs : limiters[ip].bucket # NoBucket}
Busy  == {r \in Requests : req[r].bucket # NoBucket}

Init ==
  /\ now = 0
  /\ limiters = [ip \in IPs |-> Unknown]
  /\ heap = [b \in Buckets |-> [tokens |-> Full, last |-> 0]]
  /\ req = [r \in Requests |-> Idle]
  /\ due = TTL
  /\ passed = [ip \in IPs |-> 0]
  /\ answer = [ip \in IPs |-> "none"]

-----------------------------------------------------------------------------
(***************************************************************************)
(* Plausible mistakes, for the mutation runs: each stands in for the       *)
(* operator its name begins with.  Next uses none.                         *)
(***************************************************************************)

(* a cutoff in the future: every address is stale at every tick *)
Stale_WrongSign(ip) == limiters[ip].lastSeen < now + TTL

(* nothing is ever stale *)
Stale_Never(ip) == FALSE

(* Allow that charges the bucket without noting when *)
AllowYes_KeepLast(r) ==
  LET grown == heap[req[r].bucket].tokens + Refill(now - heap[req[r].bucket].last)
  IN
  /\ r \in Busy
  /\ grown >= Cost
  /\ heap' = [heap EXCEPT ![req[r].bucket].tokens =
       (IF grown <= Full THEN grown ELSE Full) - Cost]
  /\ passed' = [passed EXCEPT ![req[r].ip] = @ + 1]
  /\ answer' = [answer EXCEPT ![req[r].ip] = "next"]
  /\ req' = [req EXCEPT ![r] = Idle]
  /\ UNCHANGED <<now, limiters, due>>

-----------------------------------------------------------------------------
(* rate.Limiter: credit is brought up to date when it is looked at *)
Credit(b) ==
  LET grown == heap[b].tokens + Refill(now - heap[b].last)
  IN  IF grown <= Full THEN grown ELSE Full

Free(b) ==
  /\ \A ip \in IPs : limiters[ip].bucket # b
  /\ \A r \in Requests : req[r].bucket # b

(* lastSeen.Before(now - ttl) *)
Stale(ip) == limiters[ip].lastSeen < now - TTL

(* get, for an address in the map *)
GetKnown(r, ip) ==
  /\ req[r] = Idle
  /\ ip \in Known
  /\ limiters' = [limiters EXCEPT ![ip].lastSeen = now]
  /\ req' = [req EXCEPT ![r] =
       [ip |-> ip, bucket |-> limiters[ip].bucket, since |-> now]]
  /\ UNCHANGED <<now, heap, due, passed, answer>>

(* get, for an address that is not: a new bucket, which is full *)
GetUnknown(r, ip, b) ==
  /\ req[r] = Idle
  /\ ip \notin Known
  /\ Free(b)
  /\ heap' = [heap EXCEPT ![b] = [tokens |-> Full, last |-> now]]
  /\ limiters' = [limiters EXCEPT ![ip] = [bucket |-> b, lastSeen |-> now]]
  /\ req' = [req EXCEPT ![r] = [ip |-> ip, bucket |-> b, since |-> now]]
  /\ UNCHANGED <<now, due, passed, answer>>

(* limiter.Allow takes a token: the request goes to the next handler *)
AllowYes(r) ==
  LET b == req[r].bucket IN
  /\ r \in Busy
  /\ Credit(b) >= Cost
  /\ heap' = [heap EXCEPT ![b] = [tokens |-> Credit(b) - Cost, last |-> now]]
  /\ passed' = [passed EXCEPT ![req[r].ip] = @ + 1]
  /\ answer' = [answer EXCEPT ![req[r].ip] = "next"]
  /\ req' = [req EXCEPT ![r] = Idle]
  /\ UNCHANGED <<now, limiters, due>>

(* there is none: 429, and the bucket stays as it was *)
AllowNo(r) ==
  /\ r \in Busy
  /\ Credit(req[r].bucket) < Cost
  /\ answer' = [answer EXCEPT ![req[r].ip] = "429"]
  /\ req' = [req EXCEPT ![r] = Idle]
  /\ UNCHANGED <<now, limiters, heap, due, passed>>

(* gcLoop, on a tick of its ticker *)
Collect ==
  /\ now >= due
  /\ limiters' = [ip \in IPs |->
       IF ip \in Known /\ Stale(ip) THEN Unknown ELSE limiters[ip]]
  /\ due' = due + TTL
  /\ UNCHANGED <<now, heap, req, passed, answer>>

Tick ==
  /\ now < Horizon
  /\ now < due + MaxDelay
  /\ \A r \in Busy : now < req[r].since + MaxDelay
  /\ now' = now + 1
  /\ UNCHANGED <<limiters, heap, req, due, passed, answer>>

Next ==
  \/ \E r \in Requests :
       \/ \E ip \in IPs :
            \/ GetKnown(r, ip)
            \/ \E b \in Buckets : GetUnknown(r, ip, b)
       \/ AllowYes(r)
       \/ AllowNo(r)
  \/ Collect
  \/ Tick

Spec == Init /\ [][Next]_vars

-----------------------------------------------------------------------------
(***************************************************************************)
(* Correctness.                                                            *)
(***************************************************************************)

TypeOK ==
  /\ now \in Nat
  /\ limiters \in [IPs -> Entry]
  /\ heap \in [Buckets -> Bucket]
  /\ req \in [Requests -> Slot]
  /\ due \in Nat
  /\ passed \in [IPs -> Nat]
  /\ answer \in [IPs -> {"none", "next", "429"}]

(* The credit an address has, whether or not the map still remembers it.   *)
CreditOf(ip) == IF ip \in Known THEN Credit(limiters[ip].bucket) ELSE Full

Ideal == INSTANCE TokenBucket WITH credit <- [ip \in IPs |-> CreditOf(ip)]

(* Forgetting is invisible: although buckets are thrown away, and requests *)
(* hold on to buckets they found before a collection, every answer is the  *)
(* one a bucket kept for ever would have given.                            *)
ForgettingIsInvisible == Ideal!Spec

(* No address gets more requests through than its burst and the rate       *)
(* allow, over the whole run.                                              *)
RateBound == \A ip \in IPs : Price(passed[ip]) <= Full + Refill(now)

(* The map does not grow for ever: an address that sends nothing is gone   *)
(* from it two periods later, one until it is stale and one until the next *)
(* collection, which comes a little late.                                  *)
Forgotten ==
  \A ip \in Known : now <= limiters[ip].lastSeen + 2 * TTL + MaxDelay

-----------------------------------------------------------------------------
(***************************************************************************)
(* The inductive invariant.                                                *)
(***************************************************************************)

(* each known address has a bucket of its own *)
OwnBucket ==
  \A ip1, ip2 \in Known :
    limiters[ip1].bucket = limiters[ip2].bucket => ip1 = ip2

(* a request in flight holds the bucket the map has for its address *)
HoldsCurrent ==
  \A r \in Requests :
    IF r \in Busy
    THEN /\ req[r].ip \in Known
         /\ limiters[req[r].ip].bucket = req[r].bucket
         /\ req[r].since <= limiters[req[r].ip].lastSeen
         /\ now <= req[r].since + MaxDelay
    ELSE req[r] = Idle

(* a bucket was last charged not long after its address was last seen *)
ChargedInTime ==
  /\ \A ip \in Known :
       /\ limiters[ip].lastSeen <= now
       /\ heap[limiters[ip].bucket].last <= limiters[ip].lastSeen + MaxDelay
  /\ \A b \in Buckets : heap[b].last <= now

(* what was let through, and what is left, was paid for *)
PaidFor ==
  \A ip \in IPs : Price(passed[ip]) + CreditOf(ip) <= Full + Refill(now)

IInv == TypeOK /\ OwnBucket /\ HoldsCurrent /\ ChargedInTime /\ PaidFor

(* the last collection was due one period before the next, and left only   *)
(* what it had seen within the period before that; proved beside IInv      *)
DueInv ==
  /\ due - TTL <= now
  /\ now <= due + MaxDelay
  /\ \A ip \in Known : due - 2 * TTL <= limiters[ip].lastSeen
=============================================================================
