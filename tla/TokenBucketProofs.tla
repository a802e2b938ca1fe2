------------------------- MODULE TokenBucketProofs -------------------------
(***************************************************************************)
(* What holds of the limits, for any number of buckets, callers and        *)
(* requests, any capacity and cost, and clocks as far apart as a full      *)
(* bucket allows.                                                          *)
(***************************************************************************)
EXTENDS TokenBucket, TLAPS

----------------------------------------------------------------------------
(* The script.                                                             *)

\* A bucket that is there is a record.
LEMMA LiveIsRecord ==
  ASSUME TypeOK, NEW k \in Buckets, bucket[k] # Missing
  PROVE  /\ bucket[k] \in Bucket
         /\ bucket[k].tokens \in 0..Capacity
         /\ bucket[k].ts \in Nat /\ bucket[k].dies \in Nat
BY DEF TypeOK, Bucket

\* What a stamp finds in a bucket: never more than a full one, and never more
\* than what was there and the time since.
LEMMA RefilledBounds ==
  ASSUME TypeOK, NEW k \in Buckets, NEW now \in Nat
  PROVE  /\ Refilled(bucket[k], now) \in 0..Capacity
         /\ GoneBack(bucket[k], now) \in Nat
         /\ bucket[k] = Missing => Refilled(bucket[k], now) = Capacity
         /\ bucket[k] # Missing =>
              Refilled(bucket[k], now) + bucket[k].ts
                <= bucket[k].tokens + now + GoneBack(bucket[k], now)
<1>1. CASE bucket[k] = Missing
  BY <1>1, BucketAssumption DEF Refilled, GoneBack
<1>2. CASE bucket[k] # Missing
  <2> DEFINE b == bucket[k]
  <2>1. /\ b.tokens \in 0..Capacity /\ b.ts \in Nat /\ Capacity \in Nat
        /\ b # Missing
    BY <1>2, LiveIsRecord, BucketAssumption
  <2> HIDE DEF b
  <2>2. /\ Refilled(b, now) = AtMost(Capacity, b.tokens + AtLeastZero(now - b.ts))
        /\ GoneBack(b, now) = AtLeastZero(b.ts - now)
    BY <2>1 DEF Refilled, GoneBack
  <2>3. /\ Refilled(b, now) \in 0..Capacity /\ GoneBack(b, now) \in Nat
        /\ Refilled(b, now) + b.ts <= b.tokens + now + GoneBack(b, now)
    BY <2>1, <2>2 DEF AtMost, AtLeastZero
  <2> QED BY <2>1, <2>3 DEF b
<1> QED BY <1>1, <1>2

\* A verdict takes no more than there is.
LEMMA TakesWhatIsThere ==
  ASSUME TypeOK, NEW k \in Buckets, NEW now \in Nat, NEW allowed \in BOOLEAN,
         Verdict(bucket[k], now, allowed)
  PROVE  /\ Refilled(bucket[k], now) - Taken(allowed) \in 0..Capacity
         /\ Taken(allowed) \in Nat
<1>1. Refilled(bucket[k], now) \in 0..Capacity
  BY RefilledBounds
<1> QED
  BY <1>1, BucketAssumption DEF Taken, Verdict, MayAllow

\* The bucket after a request.
LEMMA AfterIsBucket ==
  ASSUME TypeOK, NEW k \in Buckets, NEW now \in Nat, NEW allowed \in BOOLEAN,
         Verdict(bucket[k], now, allowed)
  PROVE  LET b == After(bucket[k], now, allowed) IN
         /\ b \in Bucket /\ b # Missing
         /\ b.tokens = Refilled(bucket[k], now) - Taken(allowed)
         /\ b.ts = now /\ b.dies = time + 2 * Capacity
<1> DEFINE b == After(bucket[k], now, allowed)
<1>0. time \in Nat /\ TTL \in Nat BY BucketAssumption DEF TypeOK, TTL
<1>1. b \in Bucket
  BY <1>0, TakesWhatIsThere DEF After, Bucket
<1>2. b \in [tokens : Int, ts : Int, dies : Int]
  BY <1>1, BucketAssumption DEF Bucket
<1>3. b # Missing BY <1>2, BucketAssumption
<1> QED BY <1>1, <1>3 DEF After, TTL

----------------------------------------------------------------------------
(* The inductive invariant.                                                *)

\* A request is over within its delay, and its stamp was taken when it was made.
StampsAreFresh ==
  \A q \in Requests : req[q] # Idle =>
    /\ req[q].made <= time /\ time <= req[q].made + Delay
    /\ req[q].made <= req[q].now /\ req[q].now <= req[q].made + Skew

\* A key outlives its stamp by two refills, but for the skew.
KeysOutliveStamps ==
  \A k \in Buckets : bucket[k] # Missing =>
    /\ bucket[k].ts + 2 * Capacity <= bucket[k].dies + Skew
    /\ bucket[k].dies <= time + 2 * Capacity

\* The accounts of the tally: what is in the bucket and what was taken of it is
\* a full bucket and what time brought. Without a key, a bucket that is full
\* for the oldest stamp still to come.
AccountsBalance ==
  LET b == bucket[tally.of] IN
  IF b = Missing
  THEN tally.taken <= time - Delay - tally.since + tally.back
  ELSE b.tokens + tally.taken <= Capacity + b.ts - tally.since + tally.back

\* A request under way has paid in the buckets before the one it asks, and is
\* not let in yet.
PaidSoFar ==
  \A q \in Requests :
    /\ req[q] # Idle => q \notin admitted
    /\ req[q] # Idle => \A i \in 1..(req[q].step - 1) : Asks[q][i] \in paid[q]

BucketInv ==
  TypeOK /\ StampsAreFresh /\ KeysOutliveStamps /\ AccountsBalance

\* A request under way: its bucket and its stamp.
LEMMA UnderWay ==
  ASSUME TypeOK, NEW q \in Requests, req[q] # Idle
  PROVE  /\ Asked(q) \in Buckets /\ req[q].now \in Nat /\ req[q].made \in Nat
         /\ req[q].step \in 1..Len(Asks[q]) /\ Asks[q] \in Seq(Buckets)
<1>1. Asks[q] \in Seq(Buckets) BY BucketAssumption
<1>2. req[q].step \in 1..Len(Asks[q]) BY DEF TypeOK
<1> QED BY <1>1, <1>2 DEF TypeOK, Asked

\* What the script leaves, whatever its request does then.
LEMMA ScriptKeeps ==
  ASSUME BucketInv, NEW q \in Requests, req[q] # Idle, NEW allowed \in BOOLEAN,
         Script(q, allowed), time' = time
  PROVE  /\ bucket' \in [Buckets -> Bucket \cup {Missing}]
         /\ \A k \in Buckets : bucket'[k] # Missing => time' < bucket'[k].dies
         /\ tally' \in [of : Buckets, taken : Nat, back : Nat, since : Int]
         /\ paid' \in [Requests -> SUBSET Buckets]
         /\ KeysOutliveStamps'
         /\ AccountsBalance'
<1> DEFINE k == Asked(q)
           now == req[q].now
           b == bucket[k]
<1>0. TypeOK /\ StampsAreFresh /\ KeysOutliveStamps /\ AccountsBalance
  BY DEF BucketInv
<1>1. /\ k \in Buckets /\ now \in Nat /\ time \in Nat
      /\ now >= time - Delay /\ now <= time + Skew
  <2>1. k \in Buckets /\ now \in Nat /\ req[q].made \in Nat BY <1>0, UnderWay
  <2>2. /\ req[q].made <= time /\ time <= req[q].made + Delay
        /\ req[q].made <= now /\ now <= req[q].made + Skew
    BY <1>0 DEF StampsAreFresh
  <2>3. time \in Nat /\ Delay \in Nat /\ Skew \in Nat
    BY <1>0, BucketAssumption DEF TypeOK
  <2> HIDE DEF k, now
  <2> QED BY <2>1, <2>2, <2>3
<1>2. /\ bucket' = [bucket EXCEPT ![k] = After(b, now, allowed)]
      /\ After(b, now, allowed) \in Bucket /\ After(b, now, allowed) # Missing
      /\ After(b, now, allowed).tokens = Refilled(b, now) - Taken(allowed)
      /\ After(b, now, allowed).ts = now /\ After(b, now, allowed).dies = time + 2 * Capacity
  BY <1>0, <1>1, AfterIsBucket DEF Script
<1>3. bucket' \in [Buckets -> Bucket \cup {Missing}]
  BY <1>0, <1>2 DEF TypeOK
<1>4. bucket'[k] = After(b, now, allowed) /\ \A j \in Buckets : j # k => bucket'[j] = bucket[j]
  BY <1>0, <1>1, <1>2 DEF TypeOK
<1>5. \A j \in Buckets : bucket'[j] # Missing => time' < bucket'[j].dies
  <2> SUFFICES ASSUME NEW j \in Buckets, bucket'[j] # Missing
               PROVE  time < bucket'[j].dies
    OBVIOUS
  <2>1. CASE j = k BY <1>1, <1>2, <1>4, <2>1, BucketAssumption
  <2>2. CASE j # k BY <1>0, <1>4, <2>2 DEF TypeOK
  <2> QED BY <2>1, <2>2
<1>6. KeysOutliveStamps'
  <2> SUFFICES ASSUME NEW j \in Buckets, bucket'[j] # Missing
               PROVE  /\ bucket'[j].ts + 2 * Capacity <= bucket'[j].dies + Skew
                      /\ bucket'[j].dies <= time + 2 * Capacity
    BY DEF KeysOutliveStamps
  <2>1. CASE j = k BY <1>1, <1>2, <1>4, <2>1, BucketAssumption
  <2>2. CASE j # k BY <1>0, <1>4, <2>2 DEF KeysOutliveStamps
  <2> QED BY <2>1, <2>2
<1>7. /\ Taken(allowed) \in Nat /\ GoneBack(b, now) \in Nat
      /\ Refilled(b, now) \in 0..Capacity
      /\ b = Missing => Refilled(b, now) = Capacity
      /\ b # Missing => Refilled(b, now) + b.ts <= b.tokens + now + GoneBack(b, now)
  BY <1>0, <1>1, RefilledBounds, TakesWhatIsThere DEF Script
<1>8. tally \in [of : Buckets, taken : Nat, back : Nat, since : Int] BY <1>0 DEF TypeOK
<1>9. CASE tally.of = k
  <2>1. tally' = [tally EXCEPT !.taken = @ + Taken(allowed), !.back = @ + GoneBack(b, now)]
    BY <1>9 DEF Script
  <2>2. tally.taken + Taken(allowed) \in Nat /\ tally.back + GoneBack(b, now) \in Nat
    BY <1>7, <1>8
  <2>3. tally' \in [of : Buckets, taken : Nat, back : Nat, since : Int]
    BY <1>8, <2>1, <2>2
  <2>4. /\ tally'.of = k /\ tally'.since = tally.since
        /\ tally'.taken = tally.taken + Taken(allowed)
        /\ tally'.back = tally.back + GoneBack(b, now)
        /\ tally.taken \in Nat /\ tally.back \in Nat /\ tally.since \in Int
    BY <1>8, <1>9, <2>1
  <2>5. /\ bucket'[k].tokens = Refilled(b, now) - Taken(allowed) /\ bucket'[k].ts = now
        /\ Refilled(b, now) \in Nat
        /\ Capacity \in Nat /\ Delay \in Nat
    BY <1>2, <1>4, <1>7, BucketAssumption
  <2>6. Refilled(b, now) + tally.taken
          <= Capacity + now - tally.since + (tally.back + GoneBack(b, now))
    <3>1. CASE b = Missing
      <4>1. tally.taken <= time - Delay - tally.since + tally.back
        BY <1>0, <1>9, <3>1 DEF AccountsBalance
      <4>2. Refilled(b, now) = Capacity BY <1>7, <3>1
      <4> HIDE DEF k, now, b
      <4> QED BY <1>1, <1>7, <2>4, <2>5, <4>1, <4>2
    <3>2. CASE b # Missing
      <4>1. b.tokens + tally.taken <= Capacity + b.ts - tally.since + tally.back
        BY <1>0, <1>9, <3>2 DEF AccountsBalance
      <4>2. b.tokens \in Nat /\ b.ts \in Nat
        BY <1>0, <1>1, <3>2, LiveIsRecord, BucketAssumption
      <4>3. Refilled(b, now) + b.ts <= b.tokens + now + GoneBack(b, now) BY <1>7, <3>2
      <4> HIDE DEF k, now, b
      <4> QED BY <1>1, <1>7, <2>4, <2>5, <4>1, <4>2, <4>3
    <3> QED BY <3>1, <3>2
  <2>7. bucket'[k].tokens + tally'.taken
          <= Capacity + bucket'[k].ts - tally'.since + tally'.back
    <3> HIDE DEF k, now, b
    <3> QED BY <1>1, <1>7, <2>4, <2>5, <2>6
  <2>8. AccountsBalance' BY <1>2, <1>4, <2>4, <2>7 DEF AccountsBalance
  <2>9. paid' \in [Requests -> SUBSET Buckets]
    BY <1>0, <1>1 DEF Script, TypeOK
  <2> QED BY <1>3, <1>5, <1>6, <2>3, <2>8, <2>9
<1>10. CASE tally.of # k
  <2>1. tally' = tally BY <1>10 DEF Script
  <2>2. AccountsBalance'
    BY <1>0, <1>4, <1>8, <1>10, <2>1 DEF AccountsBalance
  <2>3. paid' \in [Requests -> SUBSET Buckets]
    BY <1>0, <1>1 DEF Script, TypeOK
  <2> QED BY <1>3, <1>5, <1>6, <1>8, <2>1, <2>2, <2>3
<1> QED BY <1>9, <1>10

----------------------------------------------------------------------------
(* The steps.                                                              *)

\* A step that leaves the buckets and the tally alone.
LEMMA UntouchedKeeps ==
  ASSUME BucketInv, UNCHANGED <<time, bucket, tally>>
  PROVE  /\ bucket' \in [Buckets -> Bucket \cup {Missing}]
         /\ \A k \in Buckets : bucket'[k] # Missing => time' < bucket'[k].dies
         /\ tally' \in [of : Buckets, taken : Nat, back : Nat, since : Int]
         /\ KeysOutliveStamps'
         /\ AccountsBalance'
BY DEF BucketInv, TypeOK, KeysOutliveStamps, AccountsBalance

\* A request moves on or ends, while its stamp stays.
LEMMA EndsKeeps ==
  ASSUME TypeOK, StampsAreFresh, NEW q \in Requests, req[q] # Idle, time' = time,
         \/ req' = [req EXCEPT ![q] = Idle]
         \/ ~IsLast(q) /\ req' = [req EXCEPT ![q].step = @ + 1]
  PROVE  /\ req' \in [Requests -> [step : Nat, now : Nat, made : Nat]]
         /\ \A p \in Requests : req'[p] # Idle => req'[p].step \in 1..Len(Asks[p])
         /\ StampsAreFresh'
<1>0. /\ req[q].step \in 1..Len(Asks[q]) /\ Len(Asks[q]) \in Nat
      /\ req \in [Requests -> [step : Nat, now : Nat, made : Nat]]
  BY UnderWay DEF TypeOK
<1>1. CASE req' = [req EXCEPT ![q] = Idle]
  <2>1. req' \in [Requests -> [step : Nat, now : Nat, made : Nat]]
    BY <1>0, <1>1 DEF Idle
  <2>2. \A p \in Requests : req'[p] # Idle => req'[p] = req[p]
    BY <1>0, <1>1
  <2> QED BY <2>1, <2>2 DEF TypeOK, StampsAreFresh
<1>2. CASE ~IsLast(q) /\ req' = [req EXCEPT ![q].step = @ + 1]
  <2>0. /\ req[q] \in [step : Nat, now : Nat, made : Nat]
        /\ req[q].step \in Nat
        /\ [req[q] EXCEPT !.step = @ + 1] \in [step : Nat, now : Nat, made : Nat]
    <3>1. req[q] \in [step : Nat, now : Nat, made : Nat] BY <1>0
    <3> QED BY <3>1
  <2>1. /\ req' \in [Requests -> [step : Nat, now : Nat, made : Nat]]
        /\ req'[q].step = req[q].step + 1
        /\ req'[q].now = req[q].now /\ req'[q].made = req[q].made
        /\ \A p \in Requests : p # q => req'[p] = req[p]
    <3>1. req' = [req EXCEPT ![q] = [req[q] EXCEPT !.step = req[q].step + 1]] BY <1>2
    <3>2. req' \in [Requests -> [step : Nat, now : Nat, made : Nat]]
      BY <1>0, <2>0, <3>1
    <3> QED BY <1>0, <2>0, <3>1, <3>2
  <2>2. req'[q].step \in 1..Len(Asks[q])
    BY <1>0, <1>2, <2>1 DEF IsLast
  <2>3. \A p \in Requests : req'[p] # Idle => req'[p].step \in 1..Len(Asks[p])
    BY <2>1, <2>2 DEF TypeOK
  <2>4. StampsAreFresh' BY <2>1 DEF StampsAreFresh
  <2> QED BY <2>1, <2>3, <2>4
<1> QED BY <1>1, <1>2

\* Every step keeps the invariant.
LEMMA BucketInvKept == BucketInv /\ [Next]_vars => BucketInv'
<1> SUFFICES ASSUME BucketInv, [Next]_vars PROVE BucketInv'
  OBVIOUS
<1>0. TypeOK /\ StampsAreFresh /\ KeysOutliveStamps /\ AccountsBalance
  BY DEF BucketInv
<1>1. CASE UNCHANGED vars
  BY <1>0, <1>1 DEF vars, BucketInv, TypeOK, StampsAreFresh, KeysOutliveStamps,
     AccountsBalance
<1>2. ASSUME NEW q \in Requests, Stamp(q) PROVE BucketInv'
  <2>1. PICK ahead \in 0..Skew :
          req' = [req EXCEPT ![q] = [step |-> 1, now |-> time + ahead, made |-> time]]
    BY <1>2 DEF Stamp
  <2>2. /\ time \in Nat /\ Skew \in Nat /\ Delay \in Nat /\ ahead \in Nat
        /\ time + ahead \in Nat /\ calls' \in Nat
        /\ UNCHANGED <<time, bucket, tally>>
    BY <1>0, <1>2, BucketAssumption DEF Stamp, TypeOK
  <2>3. /\ req' \in [Requests -> [step : Nat, now : Nat, made : Nat]]
        /\ req'[q] = [step |-> 1, now |-> time + ahead, made |-> time]
        /\ \A p \in Requests : p # q => req'[p] = req[p]
    BY <1>0, <2>1, <2>2 DEF TypeOK
  <2>4. 1 \in 1..Len(Asks[q])
    BY BucketAssumption
  <2>5. \A p \in Requests : req'[p] # Idle => req'[p].step \in 1..Len(Asks[p])
    <3>1. \A p \in Requests : req[p] # Idle => req[p].step \in 1..Len(Asks[p])
      BY <1>0 DEF TypeOK
    <3>2. req'[q].step = 1 BY <2>3
    <3> QED BY <2>3, <2>4, <3>1, <3>2
  <2>6. StampsAreFresh' BY <1>0, <2>2, <2>3 DEF StampsAreFresh
  <2>7. paid' \in [Requests -> SUBSET Buckets] /\ admitted' \subseteq Requests
    BY <1>0, <1>2 DEF Stamp, TypeOK
  <2> QED BY <2>2, <2>3, <2>5, <2>6, <2>7, UntouchedKeeps DEF BucketInv, TypeOK
<1>3. ASSUME NEW q \in Requests, Allow(q) PROVE BucketInv'
  <2>1. /\ req[q] # Idle /\ Script(q, TRUE) /\ UNCHANGED <<time, calls>>
        /\ \/ req' = [req EXCEPT ![q] = Idle]
           \/ ~IsLast(q) /\ req' = [req EXCEPT ![q].step = @ + 1]
        /\ admitted' \subseteq Requests
    BY <1>0, <1>3 DEF Allow, LetIn, TypeOK
  <2> QED BY <1>0, <2>1, ScriptKeeps, EndsKeeps DEF BucketInv, TypeOK
<1>4. ASSUME NEW q \in Requests, Deny(q) PROVE BucketInv'
  BY <1>0, <1>4, ScriptKeeps, EndsKeeps DEF Deny, BucketInv, TypeOK
<1>5. ASSUME NEW q \in Requests, Fail(q) PROVE BucketInv'
  <2>1. ASSUME NEW allowed \in BOOLEAN, Script(q, allowed) PROVE BucketInv'
    BY <1>0, <1>5, <2>1, ScriptKeeps, EndsKeeps DEF Fail, Unanswered, BucketInv, TypeOK
  <2>2. CASE UNCHANGED <<bucket, tally, paid>>
    BY <1>0, <1>5, <2>2, UntouchedKeeps, EndsKeeps
    DEF Fail, Unanswered, BucketInv, TypeOK
  <2> QED BY <1>5, <2>1, <2>2 DEF Fail
<1>6. ASSUME NEW k \in Buckets, Watch(k) PROVE BucketInv'
  <2>1. /\ tally' = NewTally(k, bucket[k], time)
        /\ UNCHANGED <<time, bucket, req, calls, paid, admitted>>
    BY <1>6 DEF Watch
  <2>2. /\ time \in Int /\ Delay \in Int /\ time - Delay \in Int
        /\ Capacity \in Nat
    BY <1>0, BucketAssumption DEF TypeOK
  <2>3. /\ tally' \in [of : Buckets, taken : Nat, back : Nat, since : Int]
        /\ tally'.of = k /\ tally'.taken = 0 /\ tally'.back = 0
        /\ tally'.since = IF bucket[k] = Missing THEN time - Delay ELSE bucket[k].ts
    BY <1>0, <2>1, <2>2, LiveIsRecord DEF NewTally
  <2>4. AccountsBalance'
    <3>1. CASE bucket[k] = Missing
      BY <2>1, <2>2, <2>3, <3>1 DEF AccountsBalance
    <3>2. CASE bucket[k] # Missing
      <4>1. bucket[k].tokens \in 0..Capacity /\ bucket[k].ts \in Nat
        BY <1>0, <3>2, LiveIsRecord
      <4> QED BY <2>1, <2>2, <2>3, <3>2, <4>1 DEF AccountsBalance
    <3> QED BY <3>1, <3>2
  <2> QED BY <1>0, <2>1, <2>3, <2>4
          DEF BucketInv, TypeOK, StampsAreFresh, KeysOutliveStamps
<1>7. ASSUME Tick PROVE BucketInv'
  <2>1. /\ time \in Nat /\ time' = time + 1 /\ time' \in Nat
        /\ UNCHANGED <<req, calls, tally, paid, admitted>>
        /\ bucket' \in [Buckets -> Bucket \cup {Missing}]
    BY <1>0, <1>7 DEF Tick, TypeOK
  <2>2. \A k \in Buckets :
          bucket'[k] = IF bucket[k] # Missing /\ bucket[k].dies <= time + 1
                       THEN Missing ELSE bucket[k]
    BY <1>7 DEF Tick
  <2>3. \A k \in Buckets : bucket'[k] # Missing =>
          /\ bucket'[k] = bucket[k] /\ bucket[k].dies \in Nat
          /\ time' < bucket'[k].dies
    BY <1>0, <2>1, <2>2, LiveIsRecord
  <2>4. StampsAreFresh'
    <3> SUFFICES ASSUME NEW q \in Requests, req[q] # Idle
                 PROVE  /\ req[q].made <= time + 1 /\ time + 1 <= req[q].made + Delay
                        /\ req[q].made <= req[q].now /\ req[q].now <= req[q].made + Skew
      BY <2>1 DEF StampsAreFresh
    <3>1. time < req[q].made + Delay BY <1>7 DEF Tick
    <3> QED BY <1>0, <2>1, <3>1, UnderWay, BucketAssumption DEF StampsAreFresh
  <2>5. KeysOutliveStamps'
    BY <1>0, <2>1, <2>3, BucketAssumption DEF KeysOutliveStamps
  <2>6. AccountsBalance'
    <3> DEFINE k == tally.of
    <3>1. /\ k \in Buckets /\ tally' = tally
          /\ tally.taken \in Nat /\ tally.back \in Nat /\ tally.since \in Int
          /\ Capacity \in Nat /\ Delay \in Nat /\ Skew \in Nat
          /\ Skew + Delay <= Capacity
      BY <1>0, <2>1, BucketAssumption DEF TypeOK
    <3>2. CASE bucket'[k] # Missing
      BY <1>0, <2>3, <3>1, <3>2 DEF AccountsBalance
    <3>3. CASE bucket'[k] = Missing /\ bucket[k] = Missing
      <4>1. tally.taken <= time - Delay - tally.since + tally.back
        BY <1>0, <3>3 DEF AccountsBalance
      <4>2. tally.taken <= time' - Delay - tally.since + tally.back
        BY <2>1, <3>1, <4>1
      <4> QED BY <3>1, <3>3, <4>2 DEF AccountsBalance
    <3>4. CASE bucket'[k] = Missing /\ bucket[k] # Missing
      <4>1. /\ bucket[k].tokens + tally.taken
                 <= Capacity + bucket[k].ts - tally.since + tally.back
            /\ bucket[k].ts + 2 * Capacity <= bucket[k].dies + Skew
            /\ bucket[k].dies <= time + 1
        BY <1>0, <2>2, <3>1, <3>4 DEF AccountsBalance, KeysOutliveStamps
      <4>2. /\ bucket[k].tokens \in Nat /\ bucket[k].ts \in Nat
            /\ bucket[k].dies \in Nat
        BY <1>0, <3>1, <3>4, LiveIsRecord
      <4>3. tally.taken <= time' - Delay - tally.since + tally.back
        <5> HIDE DEF k
        <5> QED BY <2>1, <3>1, <4>1, <4>2
      <4> QED BY <3>1, <3>4, <4>3 DEF AccountsBalance
    <3> QED BY <3>2, <3>3, <3>4
  <2> QED BY <1>0, <2>1, <2>3, <2>4, <2>5, <2>6 DEF BucketInv, TypeOK
<1> QED BY <1>1, <1>2, <1>3, <1>4, <1>5, <1>6, <1>7 DEF Next

LEMMA BucketInvInit == Init => BucketInv
<1> SUFFICES ASSUME Init PROVE BucketInv
  OBVIOUS
<1>1. PICK k \in Buckets : tally = NewTally(k, Missing, 0) BY DEF Init
<1>2. Delay \in Nat /\ 0 - Delay \in Int BY BucketAssumption
<1>3. /\ tally \in [of : Buckets, taken : Nat, back : Nat, since : Int]
      /\ tally.of = k /\ tally.taken = 0 /\ tally.back = 0
      /\ tally.since = 0 - Delay
  BY <1>1, <1>2 DEF NewTally
<1>4. AccountsBalance BY <1>2, <1>3 DEF Init, AccountsBalance
<1> QED BY <1>3, <1>4
        DEF Init, Idle, BucketInv, TypeOK, StampsAreFresh, KeysOutliveStamps

LEMMA BucketInvHolds == Spec => []BucketInv
BY BucketInvInit, BucketInvKept, PTL DEF Spec

----------------------------------------------------------------------------
(* The theorems.                                                           *)

\* Every variable has its type, a bucket never runs over or under, and no key
\* outlives its end (TypeOK), by the script in whatever order its stamps come.
THEOREM BucketTypeCorrect == Spec => []TypeOK
<1>1. BucketInv => TypeOK BY DEF BucketInv
<1> QED BY <1>1, BucketInvHolds, PTL

\* From whatever moment one counts, a bucket lets through a full bucket and what
\* time refills, and over that what the clocks went back (WithinBudget).
THEOREM BudgetIsKept == Spec => []WithinBudget
<1>1. BucketInv => WithinBudget
  <2> SUFFICES ASSUME BucketInv
               PROVE  tally.taken <= Capacity + (time + Skew - tally.since) + tally.back
    BY DEF WithinBudget
  <2> DEFINE k == tally.of
  <2>0. TypeOK /\ KeysOutliveStamps /\ AccountsBalance BY DEF BucketInv
  <2>1. /\ k \in Buckets /\ time \in Nat
        /\ tally.taken \in Nat /\ tally.back \in Nat /\ tally.since \in Int
        /\ Capacity \in Nat /\ Delay \in Nat /\ Skew \in Nat
    BY <2>0, BucketAssumption DEF TypeOK
  <2>2. CASE bucket[k] = Missing
    <3>1. tally.taken <= time - Delay - tally.since + tally.back
      BY <2>0, <2>2 DEF AccountsBalance
    <3> QED BY <2>1, <3>1
  <2>3. CASE bucket[k] # Missing
    <3>1. /\ bucket[k].tokens + tally.taken
               <= Capacity + bucket[k].ts - tally.since + tally.back
          /\ bucket[k].ts + 2 * Capacity <= bucket[k].dies + Skew
          /\ bucket[k].dies <= time + 2 * Capacity
      BY <2>0, <2>1, <2>3 DEF AccountsBalance, KeysOutliveStamps
    <3>2. /\ bucket[k].tokens \in Nat /\ bucket[k].ts \in Nat
          /\ bucket[k].dies \in Nat
      BY <2>0, <2>1, <2>3, LiveIsRecord
    <3> HIDE DEF k
    <3> QED BY <2>1, <3>1, <3>2
  <2> QED BY <2>2, <2>3
<1> QED BY <1>1, BucketInvHolds, PTL

\* A key that ends would have been full for every stamp still to come
\* (ExpiryForgivesNothing), as long as the clocks and the delay of a request
\* stay within one refill.
THEOREM NothingForgiven == Spec => ExpiryForgivesNothing
<1> DEFINE Forgotten(k) == bucket[k] # Missing /\ bucket'[k] = Missing
           Full(k) == bucket[k].tokens + (time' - Delay - bucket[k].ts) >= Capacity
<1>1. BucketInv /\ [Next]_vars => [\A k \in Buckets : Forgotten(k) => Full(k)]_vars
  <2> SUFFICES ASSUME BucketInv, Next, NEW k \in Buckets, Forgotten(k)
               PROVE  Full(k)
    OBVIOUS
  <2>0. TypeOK /\ KeysOutliveStamps BY DEF BucketInv
  <2>1. Tick
    <3>1. ASSUME NEW q \in Requests, req[q] # Idle, NEW allowed \in BOOLEAN,
                 Script(q, allowed)
          PROVE FALSE
      <4>1. /\ Asked(q) \in Buckets /\ req[q].now \in Nat
            /\ After(bucket[Asked(q)], req[q].now, allowed) # Missing
        BY <2>0, <3>1, UnderWay, AfterIsBucket DEF Script
      <4> QED BY <2>0, <3>1, <4>1 DEF Script, TypeOK
    <3>2. ASSUME NEW q \in Requests, Stamp(q) \/ Allow(q) \/ Deny(q) \/ Fail(q)
          PROVE FALSE
      BY <3>1, <3>2 DEF Stamp, Allow, Deny, Fail
    <3>3. ASSUME NEW j \in Buckets, Watch(j) PROVE FALSE
      BY <3>3 DEF Watch
    <3> QED BY <3>2, <3>3 DEF Next
  <2>2. bucket[k].dies <= time + 1 /\ time' = time + 1
    BY <2>1 DEF Tick
  <2>3. bucket[k].ts + 2 * Capacity <= bucket[k].dies + Skew
    BY <2>0 DEF KeysOutliveStamps
  <2>4. /\ bucket[k].tokens \in Nat /\ bucket[k].ts \in Nat /\ bucket[k].dies \in Nat
        /\ time \in Nat
    BY <2>0, LiveIsRecord DEF TypeOK
  <2>5. Capacity \in Nat /\ Delay \in Nat /\ Skew \in Nat /\ Skew + Delay <= Capacity
    BY BucketAssumption
  <2> QED BY <2>2, <2>3, <2>4, <2>5
<1> QED BY <1>1, BucketInvHolds, PTL DEF Spec, ExpiryForgivesNothing

\* The wait a refusal names is the true one but for the rounding: one unit after
\* it the request surely gets in if it is alone, and it surely does not get in
\* earlier than one unit before (RetryIsClose).
THEOREM RetryNamesTheMoment == Spec => []RetryIsClose
<1>1. TypeOK => RetryIsClose
  <2> SUFFICES ASSUME TypeOK, NEW q \in Requests, req[q] # Idle,
                      Verdict(bucket[Asked(q)], req[q].now, FALSE),
                      NEW wait \in RetryAfter(bucket[Asked(q)], req[q].now)
               PROVE  LET now == req[q].now
                          after == After(bucket[Asked(q)], now, FALSE)
                      IN /\ MustAllow(after, now + wait + 1)
                         /\ \A early \in now..(now + wait - 2) : ~MayAllow(after, early)
    BY DEF RetryIsClose
  <2> DEFINE k == Asked(q)
             now == req[q].now
             b == bucket[k]
             after == After(b, now, FALSE)
             need == Cost - Refilled(b, now)
  <2>1. k \in Buckets /\ now \in Nat BY UnderWay
  <2>2. /\ after # Missing /\ after.ts = now
        /\ after.tokens = Refilled(b, now)
        /\ Refilled(b, now) \in 0..Capacity
    <3>1. Refilled(b, now) \in 0..Capacity BY <2>1, RefilledBounds
    <3>2. /\ after # Missing /\ after.ts = now
          /\ after.tokens = Refilled(b, now) - Taken(FALSE)
      BY <2>1, AfterIsBucket
    <3>3. Taken(FALSE) = 0 BY DEF Taken
    <3>4. Capacity \in Nat BY BucketAssumption
    <3>5. \A n \in 0..Capacity : n - 0 = n BY <3>4
    <3> HIDE DEF k, now, b, after
    <3> QED BY <3>1, <3>2, <3>3, <3>5
  <2>3. Cost \in Nat /\ Capacity \in Nat /\ Cost <= Capacity
    BY BucketAssumption
  <2>4. wait \in {need, need + 1} BY DEF RetryAfter
  <2> HIDE DEF k, now, b, after
  <2>5. after.tokens \in 0..Capacity /\ after.tokens + need = Cost /\ need \in Int
    BY <2>2, <2>3
  <2>6. MustAllow(after, now + wait + 1)
    BY <2>1, <2>2, <2>3, <2>4, <2>5 DEF MustAllow, AtLeastZero
  <2>7. ASSUME NEW early \in now..(now + wait - 2) PROVE ~MayAllow(after, early)
    BY <2>1, <2>2, <2>3, <2>4, <2>5 DEF MayAllow, Refilled, AtMost, AtLeastZero
  <2> QED BY <2>6, <2>7 DEF k, now, b, after
<1> QED BY <1>1, BucketTypeCorrect, PTL

\* Whoever is let in has paid in every bucket it had to ask (AdmittedHavePaid),
\* whichever of its requests failed before.
THEOREM AdmissionIsPaid == Spec => []AdmittedHavePaid
<1> DEFINE Paid == PaidSoFar /\ AdmittedHavePaid
<1>1. Init => Paid BY DEF Init, PaidSoFar, AdmittedHavePaid
<1>2. TypeOK /\ Paid /\ [Next]_vars => Paid'
  <2> SUFFICES ASSUME TypeOK, Paid, [Next]_vars PROVE Paid'
    OBVIOUS
  <2>1. CASE UNCHANGED <<req, paid, admitted>>
    BY <2>1 DEF PaidSoFar, AdmittedHavePaid
  <2>2. ASSUME NEW q \in Requests, Stamp(q) PROVE Paid'
    <3>1. /\ \A p \in Requests : p # q => req'[p] = req[p] /\ paid'[p] = paid[p]
          /\ req'[q].step = 1 /\ admitted' = admitted \ {q}
      BY <2>2 DEF Stamp, TypeOK
    <3> QED BY <3>1 DEF PaidSoFar, AdmittedHavePaid, TypeOK
  <2>3. ASSUME NEW q \in Requests, Deny(q) \/ Fail(q) PROVE Paid'
    <3>0. \A p \in Requests : paid[p] \subseteq paid'[p]
      <4>1. ASSUME NEW allowed \in BOOLEAN, Script(q, allowed)
            PROVE  \A p \in Requests : paid[p] \subseteq paid'[p]
        BY <4>1 DEF Script, TypeOK
      <4> QED BY <2>3, <4>1 DEF Deny, Fail
    <3>1. /\ \A p \in Requests : p # q => req'[p] = req[p]
          /\ req'[q] = Idle /\ admitted' = admitted
          /\ \A p \in Requests : paid[p] \subseteq paid'[p]
      BY <2>3, <3>0 DEF Deny, Fail, Unanswered, TypeOK
    <3> QED BY <3>1 DEF PaidSoFar, AdmittedHavePaid, TypeOK
  <2>4. ASSUME NEW q \in Requests, Allow(q) PROVE Paid'
    <3>0. /\ req[q].step \in 1..Len(Asks[q]) /\ Len(Asks[q]) \in Nat /\ req[q] # Idle
          /\ Asks[q][req[q].step] = Asked(q)
          /\ q \notin admitted
          /\ \A i \in 1..(req[q].step - 1) : Asks[q][i] \in paid[q]
      BY <2>4, UnderWay DEF Allow, Asked, PaidSoFar
    <3>1. /\ \A p \in Requests : paid[p] \subseteq paid'[p]
          /\ Asked(q) \in paid'[q]
      BY <2>4 DEF Allow, Script, TypeOK
    <3>2. \A i \in 1..req[q].step : Asks[q][i] \in paid'[q]
      BY <3>0, <3>1
    <3>3. CASE IsLast(q)
      <4>1. /\ \A p \in Requests : p # q => req'[p] = req[p]
            /\ req'[q] = Idle /\ admitted' = admitted \cup {q}
        BY <2>4, <3>3 DEF Allow, LetIn, TypeOK
      <4> QED BY <3>1, <3>2, <3>3, <4>1 DEF IsLast, PaidSoFar, AdmittedHavePaid, TypeOK
    <3>4. CASE ~IsLast(q)
      <4>1. /\ \A p \in Requests : p # q => req'[p] = req[p]
            /\ req'[q].step = req[q].step + 1 /\ admitted' = admitted
        BY <2>4, <3>4 DEF Allow, TypeOK
      <4>2. \A i \in 1..(req'[q].step - 1) : Asks[q][i] \in paid'[q]
        BY <3>0, <3>2, <4>1
      <4>3. PaidSoFar' BY <3>0, <3>1, <4>1, <4>2 DEF PaidSoFar
      <4>4. AdmittedHavePaid' BY <3>1, <4>1 DEF AdmittedHavePaid, TypeOK
      <4> QED BY <4>3, <4>4
    <3> QED BY <3>3, <3>4
  <2> QED BY <2>1, <2>2, <2>3, <2>4 DEF Next, Watch, Tick, vars
<1> QED BY <1>1, <1>2, BucketTypeCorrect, PTL DEF Spec
=============================================================================
