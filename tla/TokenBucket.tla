---------------------------- MODULE TokenBucket ----------------------------
(***************************************************************************)
(* The limits on requests: token buckets in Redis.  A request is stamped   *)
(* by the clock of the instance that serves it and then asks one bucket,   *)
(* or the bucket of its address and then that of its e-mail address, with  *)
(* the same stamp.  A script of Redis answers, in one step; between the    *)
(* stamp and the script other requests, of this instance and of others,    *)
(* come and go, so that a bucket sees its stamps in any order.             *)
(*                                                                         *)
(* Tokens are measured in the time it takes to refill them: a bucket gains *)
(* one unit in one unit of time, Cost is the time of one token, 1 / rate,  *)
(* and Capacity that of a full bucket, capacity / rate.  The unit is a     *)
(* millisecond, in which stamps, Cost and Capacity are whole numbers (five *)
(* tokens or one per second).  The script computes in doubles, which are   *)
(* off by far less than a unit: this decides whether a bucket that holds   *)
(* exactly one token allows, and whether a wait is rounded up to the next  *)
(* unit.  Both are left open here.                                         *)
(***************************************************************************)
EXTENDS Integers, Sequences

CONSTANTS
  Buckets,      \* keys in Redis
  Requests,     \* callers, each of which asks again and again
  Asks,         \* the buckets each of them asks, in order
  Missing,      \* a key that is not there
  Capacity, Cost,
  Skew,         \* how far a clock is ahead of the slowest one at most
  Delay,        \* time from the stamp to the last script or the timeout
  MaxTime,      \* end of time, a bound of the model
  MaxCalls      \* requests made, a bound of the model

ASSUME BucketAssumption ==
  /\ Asks \in [Requests -> Seq(Buckets)] /\ \A q \in Requests : Asks[q] # <<>>
  /\ Capacity \in Nat /\ Cost \in 1..Capacity
  /\ Missing \notin [tokens : Int, ts : Int, dies : Int]
  /\ Skew \in Nat /\ Delay \in Nat /\ Skew + Delay <= Capacity
  /\ MaxTime \in Nat /\ MaxCalls \in Nat

VARIABLES
  time,      \* time, by the slowest clock
  bucket,    \* tokens, ts and the end of the key; or Missing
  req,       \* the request each caller has under way
  calls,     \* requests made so far
  tally,     \* what was taken from one of the buckets since some moment
  paid,      \* the buckets that gave a token to the last request of each caller
  admitted   \* callers whose last request was let in

vars == <<time, bucket, req, calls, tally, paid, admitted>>

Idle == [step |-> 0, now |-> 0, made |-> 0]

\* A tally of bucket k that is begun at time t, when the bucket is b.
NewTally(k, b, t) ==
  [of |-> k, taken |-> 0, back |-> 0, since |-> IF b = Missing THEN t - Delay ELSE b.ts]

Init ==
  /\ time = 0 /\ calls = 0
  /\ bucket = [k \in Buckets |-> Missing]
  /\ req = [q \in Requests |-> Idle]
  /\ \E k \in Buckets : tally = NewTally(k, Missing, 0)
  /\ paid = [q \in Requests |-> {}] /\ admitted = {}

----------------------------------------------------------------------------
(* The script.                                                             *)

AtMost(a, b) == IF a < b THEN a ELSE b
AtLeastZero(a) == IF a < 0 THEN 0 ELSE a

\* A mutant: a bucket may run over.
Refilled_Uncapped(b, now) ==
  IF b = Missing THEN Capacity ELSE b.tokens + AtLeastZero(now - b.ts)

\* tokens, once the time since ts is counted; a clock that is behind counts none.
Refilled(b, now) ==
  IF b = Missing THEN Capacity ELSE AtMost(Capacity, b.tokens + AtLeastZero(now - b.ts))

\* The verdicts the script can come to: with exactly one token in a bucket that
\* was there, either.
MayAllow(b, now)  == Refilled(b, now) >= Cost
MustAllow(b, now) == b = Missing \/ b.tokens + AtLeastZero(now - b.ts) > Cost
Verdict(b, now, allowed) == IF allowed THEN MayAllow(b, now) ELSE ~MustAllow(b, now)

\* A mutant: the part of a token that is there already is not counted.
RetryAfter_Whole(b, now) == {Cost}

\* retry_after_ms of a refusal: what is missing, or one unit more when it comes
\* out above the whole number; never 0.
RetryAfter(b, now) ==
  LET need == Cost - Refilled(b, now) IN {need, need + 1} \ {0}

\* A mutant: the key lives for the time of one refill.
TTL_Once == Capacity

\* PEXPIRE: twice the time of a refill.
TTL == 2 * Capacity

Taken(allowed) == IF allowed THEN Cost ELSE 0

\* A mutant: ts is moved by a refusal only, and the time since then counts again.
After_OldStamp(b, now, allowed) ==
  [tokens |-> Refilled(b, now) - Taken(allowed),
   ts     |-> IF b # Missing /\ allowed THEN b.ts ELSE now,
   dies   |-> time + TTL]

\* The bucket after a request: ts is the stamp, also one that goes back.
After(b, now, allowed) ==
  [tokens |-> Refilled(b, now) - Taken(allowed), ts |-> now, dies |-> time + TTL]

\* By how much ts goes back.
GoneBack(b, now) == IF b = Missing THEN 0 ELSE AtLeastZero(b.ts - now)

\* The bucket a request asks next.
Asked(q) == Asks[q][req[q].step]

\* The script runs for a request and allows it or not.
Script(q, allowed) ==
  LET k == Asked(q)
      b == bucket[k]
      now == req[q].now
  IN
  /\ Verdict(b, now, allowed)
  /\ bucket' = [bucket EXCEPT ![k] = After(b, now, allowed)]
  /\ paid' = IF allowed THEN [paid EXCEPT ![q] = @ \cup {k}] ELSE paid
  /\ tally' = IF tally.of # k THEN tally
              ELSE [tally EXCEPT !.taken = @ + Taken(allowed), !.back = @ + GoneBack(b, now)]

----------------------------------------------------------------------------
(* The calls.                                                              *)

\* A request comes in and is stamped.
Stamp(q) ==
  /\ req[q] = Idle /\ calls < MaxCalls
  /\ calls' = calls + 1
  /\ \E ahead \in 0..Skew :
       req' = [req EXCEPT ![q] = [step |-> 1, now |-> time + ahead, made |-> time]]
  /\ paid' = [paid EXCEPT ![q] = {}] /\ admitted' = admitted \ {q}
  /\ UNCHANGED <<time, bucket, tally>>

IsLast(q) == req[q].step = Len(Asks[q])

\* The request is let in, and its handler runs.
LetIn(q) == admitted' = admitted \cup {q}

\* The bucket allows it: the next one is asked, or the request is let in.
Allow(q) ==
  /\ req[q] # Idle
  /\ Script(q, TRUE)
  /\ IF IsLast(q)
     THEN req' = [req EXCEPT ![q] = Idle] /\ LetIn(q)
     ELSE req' = [req EXCEPT ![q].step = @ + 1] /\ UNCHANGED admitted
  /\ UNCHANGED <<time, calls>>

\* The bucket refuses it: what an earlier bucket took is not given back.
Deny(q) ==
  /\ req[q] # Idle
  /\ Script(q, FALSE)
  /\ req' = [req EXCEPT ![q] = Idle]
  /\ UNCHANGED <<time, calls, admitted>>

\* A mutant: a request whose limit is not known is let in.
Unanswered_Open(q) == LetIn(q)

\* An error is answered with an error: every caller of the limiter fails closed.
Unanswered(q) == UNCHANGED admitted

\* Redis does not answer in time; the script has run or it has not.
Fail(q) ==
  /\ req[q] # Idle
  /\ (\E allowed \in BOOLEAN : Script(q, allowed)) \/ UNCHANGED <<bucket, tally, paid>>
  /\ req' = [req EXCEPT ![q] = Idle]
  /\ Unanswered(q)
  /\ UNCHANGED <<time, calls>>

\* Time passes, and keys come to their end; a call is over within its Delay.
Tick ==
  /\ time < MaxTime
  /\ \A q \in Requests : req[q] # Idle => time < req[q].made + Delay
  /\ time' = time + 1
  /\ bucket' = [k \in Buckets |-> IF bucket[k] # Missing /\ bucket[k].dies <= time + 1
                                  THEN Missing ELSE bucket[k]]
  /\ UNCHANGED <<req, calls, tally, paid, admitted>>

\* Somebody begins to count what is taken from bucket k.
Watch(k) ==
  /\ tally' = NewTally(k, bucket[k], time)
  /\ UNCHANGED <<time, bucket, req, calls, paid, admitted>>

Next ==
  \/ \E q \in Requests : Stamp(q) \/ Allow(q) \/ Deny(q) \/ Fail(q)
  \/ \E k \in Buckets : Watch(k)
  \/ Tick

Spec == Init /\ [][Next]_vars

----------------------------------------------------------------------------
(* Properties.                                                             *)

Bucket == [tokens : 0..Capacity, ts : Nat, dies : Nat]

\* The types; a bucket never holds less than nothing or more than it can, and
\* a key that is there has time left.
TypeOK ==
  /\ time \in Nat /\ calls \in Nat
  /\ bucket \in [Buckets -> Bucket \cup {Missing}]
  /\ \A k \in Buckets : bucket[k] # Missing => time < bucket[k].dies
  /\ req \in [Requests -> [step : Nat, now : Nat, made : Nat]]
  /\ \A q \in Requests : req[q] # Idle => req[q].step \in 1..Len(Asks[q])
  /\ tally \in [of : Buckets, taken : Nat, back : Nat, since : Int]
  /\ paid \in [Requests -> SUBSET Buckets] /\ admitted \subseteq Requests

\* From whatever moment one counts, a bucket lets through no more than a full
\* bucket and what the time since then refills; and over and above that only as
\* much as the stamps it saw went back in time. Neither an idle bucket nor one
\* whose key has come to its end gives more.
WithinBudget ==
  tally.taken <= Capacity + (time + Skew - tally.since) + tally.back

\* The end of a key forgives nothing: the bucket would be full for every request
\* that is still to come, the one with the oldest stamp included.
ExpiryForgivesNothing ==
  [][\A k \in Buckets :
       bucket[k] # Missing /\ bucket'[k] = Missing
       => bucket[k].tokens + (time' - Delay - bucket[k].ts) >= Capacity]_vars

\* Whoever was let in has paid in every bucket it had to ask, whatever failed on
\* the way. (The converse is not true: an address pays for a request that the
\* e-mail address or a timeout ends.)
AdmittedHavePaid ==
  \A q \in admitted : \A i \in 1..Len(Asks[q]) : Asks[q][i] \in paid[q]

\* Whoever is refused and is alone from then on surely gets in one unit after the
\* wait it is told, and surely not earlier than one unit before its end: told and
\* true wait differ by no more than the rounding, whatever part of a token the
\* bucket held.
RetryIsClose ==
  \A q \in Requests :
    LET b == bucket[Asked(q)]
        now == req[q].now
        after == After(b, now, FALSE)
    IN req[q] # Idle /\ Verdict(b, now, FALSE) =>
         \A wait \in RetryAfter(b, now) :
           /\ MustAllow(after, now + wait + 1)
           /\ \A early \in now..(now + wait - 2) : ~MayAllow(after, early)
=============================================================================
