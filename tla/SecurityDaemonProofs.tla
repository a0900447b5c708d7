------------------------ MODULE SecurityDaemonProofs ------------------------
(***************************************************************************)
(* The types of SecurityDaemon, that its limiter keeps the rate in every   *)
(* span of time, that the scorer's verdicts follow the probes, that a      *)
(* crossing is punished and that an address raises one alert in a window,  *)
(* for any addresses, subnets, capacities, rates, thresholds and delays,   *)
(* and any number of connections.                                          *)
(*                                                                         *)
(* A bucket is an account of the past: what was let through since any      *)
(* moment, and what the bucket still holds, is no more than the capacity   *)
(* and the refill from that moment to the last one (Spent).  A bucket      *)
(* that is tidied away, or was never there, is a full one filled now.      *)
(*                                                                         *)
(* A score is compared with a sum that looks back from each probe's tick.  *)
(* Counted in what a point of the first tick is worth, the probes of an    *)
(* address have a mass that time does not change (Mass), the score is a    *)
(* part of it, and what tidying gave up is less than two points (Tally).   *)
(***************************************************************************)
EXTENDS SecurityDaemon, FiniteSetTheorems, SequenceTheorems, WellFoundedInduction, TLAPS

ScoreTypes == scores \in [IPs -> [Score : Nat, LastUpdate : 0 .. now]]
QueueTypes == eventChan \in Seq(IPs)

\* What a connection has behind it at each place.
Journey(k) ==
    /\ k.at # "none" => k.ip \in IPs
    /\ k.at = "none" => k = NoConn
    /\ k.at = "accepted" => k.admitted = -1
    /\ k.at \in {"accepted", "allowed"} => ~k.crossed /\ k.recorded = -1
    /\ k.at \notin {"send", "done"} => k.alerted = -1
    /\ k.admitted <= now /\ k.recorded <= now
Journeys == \A c \in Conns : Journey(conn[c])

\* left tokens at time t, after what was let through up to now, are no more
\* than a bucket of this capacity and rate can have.
Spent(ips, left, t, cap, rate) ==
    /\ \A from \in 0 .. t :
            Cardinality(Admitted(ips, from, now)) + left <= cap + (t - from) * rate
    /\ Admitted(ips, t + 1, now) = {}
Bounded(ips, cap, rate) ==
    \A from \in 0 .. now : \A to \in from .. now :
        Cardinality(Admitted(ips, from, to)) <= cap + (to - from) * rate
Kept(ips, b, cap, rate) ==
    /\ Bucket(b, cap).lastRefill <= now
    /\ Spent(ips, Bucket(b, cap).tokens, Bucket(b, cap).lastRefill, cap, rate)
    /\ Bounded(ips, cap, rate)

Members(s) == {ip \in IPs : SubnetOf[ip] = s}
Limits ==
    /\ \A ip \in IPs : \A b \in {ipBuckets[ip]} : Kept({ip}, b, IPCap, IPRefill)
    /\ \A s \in Subnets : \A b \in {subnetBucket[s]} :
            Kept(Members(s), b, SubnetCap, SubnetRefill)

Bans ==
    /\ CrossingsArePunished
    /\ \A ip \in IPs : banned[ip] <= bannedTo[ip]
Alerts ==
    /\ OneAlertPerWindow
    /\ \A ip \in IPs : lastAlerted[ip] <= now
    /\ \A c \in Conns : conn[c].alerted # -1 => conn[c].alerted <= lastAlerted[conn[c].ip]

IInv == TypeOK /\ ScoreTypes /\ QueueTypes /\ Journeys /\ Limits /\ Bans /\ Alerts
-----------------------------------------------------------------------------
\* Counting what was let through.
LEMMA AdmittedCounts ==
    ASSUME NEW ips, NEW from, NEW to
    PROVE  IsFiniteSet(Admitted(ips, from, to)) /\ Cardinality(Admitted(ips, from, to)) \in Nat
<1>1. MaxConns \in Nat
    BY SecurityDaemonAssumption
<1>2. IsFiniteSet(Conns)
    BY <1>1, FS_Interval DEF Conns
<1>3. Admitted(ips, from, to) \subseteq Conns
    BY DEF Admitted
<1> QED
    BY <1>2, <1>3, FS_Subset, FS_CardinalityType

LEMMA EmptyCount == ASSUME NEW S, S = {} PROVE Cardinality(S) = 0
BY FS_EmptySet

\* An account holds for any bucket that is no fuller than time makes it.
LEMMA SpentLater ==
    ASSUME NEW ips, NEW cap \in Nat, NEW rate \in Nat, now \in Nat,
           NEW t \in 0 .. now, NEW left \in Nat, Spent(ips, left, t, cap, rate),
           NEW u \in t .. now, NEW rest \in Nat, rest <= cap, rest <= left + (u - t) * rate
    PROVE  Spent(ips, rest, u, cap, rate)
<1>1. ASSUME NEW from \in 0 .. u
      PROVE  Cardinality(Admitted(ips, from, now)) + rest <= cap + (u - from) * rate
  <2> DEFINE n == Cardinality(Admitted(ips, from, now))
  <2>1. n \in Nat
    BY AdmittedCounts
  <2>2. CASE from \in 0 .. t
    <3> DEFINE p == (t - from) * rate
               q == (u - t) * rate
    <3>1. n + left <= cap + p
      BY <2>2 DEF Spent
    <3>2. (u - from) * rate = q + p
      BY <2>2
    <3>3. p \in Nat /\ q \in Nat
      BY <2>2
    <3>4. rest <= left + q
      OBVIOUS
    <3> HIDE DEF n, p, q
    <3>5. n + rest <= cap + (q + p)
      BY <2>1, <3>1, <3>3, <3>4
    <3> QED
      BY <3>2, <3>5 DEF n
  <2>3. CASE from \notin 0 .. t
    <3>1. Admitted(ips, from, now) \subseteq Admitted(ips, t + 1, now)
      BY <2>3 DEF Admitted
    <3>2. n = 0
      BY <3>1, EmptyCount DEF Spent
    <3> DEFINE p == (u - from) * rate
    <3>3. p \in Nat
      BY <2>3
    <3> HIDE DEF n, p
    <3>4. n + rest <= cap + p
      BY <3>2, <3>3
    <3> QED
      BY <3>4 DEF n, p
  <2> QED
    BY <2>2, <2>3
<1>2. Admitted(ips, u + 1, now) \subseteq Admitted(ips, t + 1, now)
    BY DEF Admitted
<1> QED
    BY <1>1, <1>2 DEF Spent

\* What the account says of now.
LEMMA SpentBounds ==
    ASSUME NEW ips, NEW cap \in Nat, NEW rate \in Nat, now \in Nat,
           NEW t \in 0 .. now, NEW left \in Nat, Spent(ips, left, t, cap, rate),
           NEW from \in 0 .. now
    PROVE  Cardinality(Admitted(ips, from, now)) <= cap + (now - from) * rate
<1> DEFINE n == Cardinality(Admitted(ips, from, now))
<1>1. n \in Nat /\ left <= cap
  <2>1. Cardinality(Admitted(ips, t, now)) + left <= cap + (t - t) * rate
    BY DEF Spent
  <2> QED
    BY <2>1, AdmittedCounts
<1>2. left <= left + (now - t) * rate
    OBVIOUS
<1>3. Spent(ips, left, now, cap, rate)
    BY <1>1, <1>2, SpentLater
<1> DEFINE p == (now - from) * rate
<1>4. n + left <= cap + p
    BY <1>3 DEF Spent
<1>5. p \in Nat
    OBVIOUS
<1> HIDE DEF n, p
<1>6. n <= cap + p
    BY <1>1, <1>4, <1>5
<1> QED
    BY <1>6 DEF n, p
-----------------------------------------------------------------------------
\* How a step changes what was let through of ips: not at all, or by c, now.
Same(ips) == \A from, to : Admitted(ips, from, to)' = Admitted(ips, from, to)
Grows(ips, c) ==
    \A from, to :
        IF now \in from .. to
        THEN /\ Admitted(ips, from, to)' = Admitted(ips, from, to) \cup {c}
             /\ c \notin Admitted(ips, from, to)
        ELSE Admitted(ips, from, to)' = Admitted(ips, from, to)

FullBucket(cap) == [tokens : 0 .. cap, lastRefill : 0 .. MaxTime]

LEMMA MinOfTwo ==
    ASSUME NEW a \in Int, NEW b \in Int
    PROVE  Min({a, b}) \in {a, b} /\ Min({a, b}) <= a /\ Min({a, b}) <= b
<1>1. \E x \in {a, b} : \A y \in {a, b} : x <= y
    OBVIOUS
<1> QED
    BY <1>1 DEF Min

\* A bucket as Allow finds it, and after it was refilled.
LEMMA BucketTypes ==
    ASSUME TypeOK, NEW cap \in Nat, NEW b \in BucketType(cap)
    PROVE  Bucket(b, cap) \in FullBucket(cap)
BY SecurityDaemonAssumption DEF TypeOK, BucketType, FullBucket, Bucket

LEMMA RefillKept ==
    ASSUME TypeOK, NEW ips, NEW cap \in Nat, NEW rate \in Nat, NEW b \in BucketType(cap),
           Kept(ips, b, cap, rate)
    PROVE  LET full == Refilled(Bucket(b, cap), cap, rate) IN
           /\ full \in FullBucket(cap) /\ full.lastRefill = now
           /\ Spent(ips, full.tokens, now, cap, rate)
<1> DEFINE o == Bucket(b, cap)
           full == Refilled(o, cap, rate)
           q == (now - o.lastRefill) * rate
<1>1. o \in FullBucket(cap) /\ o.lastRefill <= now /\ now \in 0 .. MaxTime /\ MaxTime \in Nat
    BY BucketTypes, SecurityDaemonAssumption DEF TypeOK, Kept
<1>2. /\ o.tokens \in 0 .. cap /\ o.lastRefill \in 0 .. now /\ now \in Nat
    BY <1>1 DEF FullBucket
<1> HIDE DEF o
<1>3. q \in Nat
    BY <1>2
<1>4. full = [tokens |-> Min({cap, o.tokens + q}), lastRefill |-> now]
    BY DEF Refilled
<1> HIDE DEF q
<1> DEFINE rest == Min({cap, o.tokens + q})
<1>5. rest \in Nat /\ rest <= cap /\ rest <= o.tokens + q
  <2> DEFINE sum == o.tokens + q
  <2>1. sum \in Nat
    BY <1>2, <1>3
  <2> HIDE DEF sum
  <2>2. Min({cap, sum}) \in {cap, sum} /\ Min({cap, sum}) <= cap /\ Min({cap, sum}) <= sum
    BY <2>1, MinOfTwo
  <2> QED
    BY <2>1, <2>2 DEF sum
<1>6. Spent(ips, o.tokens, o.lastRefill, cap, rate)
    BY DEF Kept, o
<1> HIDE DEF rest
<1>7. Spent(ips, rest, now, cap, rate)
    BY <1>2, <1>5, <1>6, SpentLater DEF q
<1>8. full.tokens = rest /\ full.lastRefill = now /\ full \in FullBucket(cap)
    BY <1>1, <1>4, <1>5 DEF FullBucket, rest
<1> QED
    BY <1>7, <1>8 DEF o

\* The account of a bucket is that of Bucket(b, cap), so only the numbers count.
LEMMA KeptIfSpent ==
    ASSUME NEW ips, NEW cap \in Nat, NEW rate \in Nat, NEW b \in FullBucket(cap),
           now' = now, b.lastRefill <= now, Spent(ips, b.tokens, b.lastRefill, cap, rate)',
           Bounded(ips, cap, rate)'
    PROVE  Kept(ips, b, cap, rate)'
<1>1. b # NoBucket
    BY DEF FullBucket, NoBucket
<1>2. Bucket(b, cap)' = b
    BY <1>1 DEF Bucket
<1> QED
    BY <1>2 DEF Kept

LEMMA SameKeeps ==
    ASSUME NEW ips, NEW left, NEW t, NEW cap, NEW rate, now' = now, Same(ips)
    PROVE  /\ Spent(ips, left, t, cap, rate)' <=> Spent(ips, left, t, cap, rate)
           /\ Bounded(ips, cap, rate)' <=> Bounded(ips, cap, rate)
BY DEF Same, Spent, Bounded

\* A probe that is let through takes the token it is charged for.
LEMMA GrowsKeeps ==
    ASSUME NEW ips, NEW c, NEW cap \in Nat, NEW rate \in Nat, now \in Nat, now' = now,
           NEW left \in Nat \ {0}, Spent(ips, left, now, cap, rate),
           Bounded(ips, cap, rate), Grows(ips, c)
    PROVE  Spent(ips, left - 1, now, cap, rate)' /\ Bounded(ips, cap, rate)'
<1>1. ASSUME NEW from \in 0 .. now
      PROVE  Cardinality(Admitted(ips, from, now)') + (left - 1) <= cap + (now - from) * rate
  <2> DEFINE S == Admitted(ips, from, now)
             p == (now - from) * rate
  <2>1. Admitted(ips, from, now)' = S \cup {c} /\ c \notin S
    BY DEF Grows
  <2>2. IsFiniteSet(S) /\ Cardinality(S) \in Nat
    BY AdmittedCounts
  <2>3. Cardinality(S \cup {c}) = Cardinality(S) + 1
    BY <2>1, <2>2, FS_AddElement
  <2>4. Cardinality(S) + left <= cap + p
    BY DEF Spent
  <2>5. p \in Nat
    OBVIOUS
  <2> HIDE DEF S, p
  <2>6. Cardinality(S \cup {c}) + (left - 1) <= cap + p
    BY <2>2, <2>3, <2>4, <2>5
  <2> QED
    BY <2>1, <2>6 DEF p
<1>2. Admitted(ips, now + 1, now)' = {}
    BY DEF Grows, Spent
<1>3. Spent(ips, left - 1, now, cap, rate)'
    BY <1>1, <1>2 DEF Spent
<1>4. ASSUME NEW from \in 0 .. now, NEW to \in from .. now
      PROVE  Cardinality(Admitted(ips, from, to)') <= cap + (to - from) * rate
  <2>1. CASE to = now
    <3> DEFINE n == Cardinality(Admitted(ips, from, now)')
               p == (now - from) * rate
    <3>1. n + (left - 1) <= cap + p
      BY <1>1
    <3>2. p \in Nat
      OBVIOUS
    <3>3. n \in Nat
      <4>1. Admitted(ips, from, now)' = Admitted(ips, from, now) \cup {c}
        BY DEF Grows
      <4> QED
        BY <4>1, AdmittedCounts, FS_AddElement, FS_CardinalityType
    <3> HIDE DEF n, p
    <3>4. n <= cap + p
      BY <3>1, <3>2, <3>3
    <3> QED
      BY <2>1, <3>4 DEF n, p
  <2>2. CASE to # now
    <3>1. Admitted(ips, from, to)' = Admitted(ips, from, to)
      BY <2>2 DEF Grows
    <3> QED
      BY <3>1 DEF Bounded
  <2> QED
    BY <2>1, <2>2
<1>5. Bounded(ips, cap, rate)'
    BY <1>4 DEF Bounded
<1> QED
    BY <1>3, <1>5

\* A bucket that was only looked at, refilled, or charged keeps the account;
\* when a probe was let through it was charged.
LEMMA TakenKeeps ==
    ASSUME TypeOK, NEW ips, NEW c, NEW cap \in Nat, NEW rate \in Nat,
           NEW b \in BucketType(cap), Kept(ips, b, cap, rate), now' = now,
           NEW next, NEW full, full = Refilled(Bucket(b, cap), cap, rate),
           \/ Same(ips) /\ next \in {Bucket(b, cap), Taken(full)}
           \/ Grows(ips, c) /\ HasToken(full) /\ next = Taken(full)
    PROVE  Kept(ips, next, cap, rate)'
<1>0. now \in Nat
    BY SecurityDaemonAssumption DEF TypeOK
<1>1. /\ full \in FullBucket(cap) /\ full.lastRefill = now
      /\ Spent(ips, full.tokens, now, cap, rate) /\ Bounded(ips, cap, rate)
    BY RefillKept DEF Kept
<1>2. ASSUME HasToken(full)
      PROVE  /\ Taken(full) \in FullBucket(cap) /\ Taken(full).lastRefill = now
             /\ Taken(full).tokens = full.tokens - 1 /\ full.tokens \in Nat \ {0}
    BY <1>1, <1>2 DEF HasToken, Taken, FullBucket
<1>3. CASE Same(ips) /\ next = Bucket(b, cap)
  <2>1. next \in FullBucket(cap) /\ next.lastRefill <= now
        /\ Spent(ips, next.tokens, next.lastRefill, cap, rate)
    BY <1>3, BucketTypes DEF Kept
  <2>2. Spent(ips, next.tokens, next.lastRefill, cap, rate)' /\ Bounded(ips, cap, rate)'
    BY <1>1, <1>3, <2>1, SameKeeps
  <2> QED
    BY <2>1, <2>2, KeptIfSpent
<1>4. CASE Same(ips) /\ next = Taken(full)
  <2>1. CASE HasToken(full)
    <3>1. full.tokens \in 0 .. cap /\ full.tokens - 1 \in Nat /\ (now - now) * rate = 0
      BY <1>0, <1>1, <1>2, <2>1 DEF FullBucket
    <3>2. Spent(ips, full.tokens - 1, now, cap, rate)
      BY <1>0, <1>1, <3>1, SpentLater
    <3>3. Spent(ips, full.tokens - 1, now, cap, rate)' /\ Bounded(ips, cap, rate)'
      BY <1>1, <1>4, <3>2, SameKeeps
    <3> QED
      BY <1>0, <1>2, <1>4, <2>1, <3>3, KeptIfSpent
  <2>2. CASE ~HasToken(full)
    <3>1. next = full
      BY <1>4, <2>2 DEF Taken
    <3>2. Spent(ips, full.tokens, now, cap, rate)' /\ Bounded(ips, cap, rate)'
      BY <1>1, <1>4, SameKeeps
    <3> QED
      BY <1>0, <1>1, <3>1, <3>2, KeptIfSpent
  <2> QED
    BY <2>1, <2>2
<1>5. CASE Grows(ips, c) /\ HasToken(full) /\ next = Taken(full)
  <2>1. Spent(ips, full.tokens - 1, now, cap, rate)' /\ Bounded(ips, cap, rate)'
    BY <1>0, <1>1, <1>2, <1>5, GrowsKeeps
  <2> QED
    BY <1>0, <1>2, <1>5, <2>1, KeptIfSpent
<1> QED
    BY <1>3, <1>4, <1>5
LEMMA SameKept ==
    ASSUME NEW ips, NEW b, NEW cap, NEW rate, now' = now, Same(ips), Kept(ips, b, cap, rate)
    PROVE  Kept(ips, b, cap, rate)'
<1>1. Bucket(b, cap)' = Bucket(b, cap)
    BY DEF Bucket
<1>2. PICK o : o = Bucket(b, cap)
    OBVIOUS
<1>3. Spent(ips, o.tokens, o.lastRefill, cap, rate)' /\ Bounded(ips, cap, rate)'
    BY <1>2, SameKeeps DEF Kept
<1> QED
    BY <1>1, <1>2, <1>3 DEF Kept
-----------------------------------------------------------------------------
\* What keeps every account: nobody is let through and no bucket is touched.
LEMMA LimitsKept ==
    ASSUME Limits, UNCHANGED <<now, ipBuckets, subnetBucket>>,
           \A c \in Conns : conn'[c].admitted = conn[c].admitted
                                /\ (conn[c].admitted # -1 => conn'[c].ip = conn[c].ip)
    PROVE  Limits'
<1>1. \A ips : Same(ips)
    BY DEF Same, Admitted
<1>2. \A ips, b, cap, rate : Kept(ips, b, cap, rate) => Kept(ips, b, cap, rate)'
    BY <1>1, SameKept
<1> QED
    BY <1>2 DEF Limits

LEMMA LimitAssumption ==
    IPCap \in Nat /\ IPRefill \in Nat /\ SubnetCap \in Nat /\ SubnetRefill \in Nat
BY SecurityDaemonAssumption

LEMMA SubnetIsSubnet ==
    ASSUME NEW ip \in IPs
    PROVE  SubnetOf[ip] \in Subnets /\ \A s \in Subnets : ip \in Members(s) <=> s = SubnetOf[ip]
BY DEF Subnets, Members

LEMMA AllowLimits ==
    ASSUME TypeOK, Journeys, Limits, NEW c \in Conns, Allow(c)
    PROVE  Limits'
<1> USE LimitAssumption
<1> DEFINE ip == conn[c].ip
           s == SubnetOf[ip]
           own == Refilled(Bucket(ipBuckets[ip], IPCap), IPCap, IPRefill)
           shared == Bucket(subnetBucket[s], SubnetCap)
           full == Refilled(shared, SubnetCap, SubnetRefill)
           allowed == HasToken(own) /\ HasToken(full)
<1>1. /\ conn[c].at = "accepted" /\ now' = now
      /\ ipBuckets' = [ipBuckets EXCEPT ![ip] = Taken(own)]
      /\ subnetBucket' = [subnetBucket EXCEPT
                              ![s] = IF HasToken(own) THEN Taken(full) ELSE shared]
      /\ conn' = [conn EXCEPT ![c].at = IF allowed THEN "allowed" ELSE "done",
                              ![c].admitted = IF allowed THEN now ELSE -1]
    BY DEF Allow, LimitProbe
<1>2. ip \in IPs /\ conn[c].admitted = -1 /\ s \in Subnets
    BY <1>1, SubnetIsSubnet DEF Journeys, Journey
<1>3. /\ ipBuckets'[ip] = Taken(own) /\ \A k \in IPs \ {ip} : ipBuckets'[k] = ipBuckets[k]
      /\ subnetBucket'[s] = (IF HasToken(own) THEN Taken(full) ELSE shared)
      /\ \A k \in Subnets \ {s} : subnetBucket'[k] = subnetBucket[k]
      /\ \A k \in IPs : ipBuckets[k] \in BucketType(IPCap)
      /\ \A k \in Subnets : subnetBucket[k] \in BucketType(SubnetCap)
    BY <1>1, <1>2 DEF TypeOK
<1>4. /\ conn'[c].ip = ip /\ conn'[c].admitted = (IF allowed THEN now ELSE -1)
      /\ \A d \in Conns \ {c} : conn'[d] = conn[d]
    BY <1>1 DEF TypeOK, ConnType
<1>5. now \in Nat
    BY SecurityDaemonAssumption DEF TypeOK
<1> HIDE DEF own, full, shared
<1>6. ASSUME NEW ips, ~allowed \/ ip \notin ips PROVE Same(ips)
    BY <1>2, <1>4, <1>5, <1>6 DEF Same, Admitted
<1>7. ASSUME NEW ips, allowed, ip \in ips PROVE Grows(ips, c)
    BY <1>2, <1>4, <1>5, <1>7 DEF Grows, Admitted
<1> HIDE DEF allowed
<1>8. ASSUME NEW k \in IPs, NEW x, x = ipBuckets'[k] PROVE Kept({k}, x, IPCap, IPRefill)'
  <2>0. PICK b : b = ipBuckets[k]
    OBVIOUS
  <2>1. Kept({k}, b, IPCap, IPRefill) /\ b \in BucketType(IPCap)
    BY <1>3, <2>0 DEF Limits
  <2>2. CASE k = ip
    <3>1. PICK r : r = own
      OBVIOUS
    <3>2. r = Refilled(Bucket(b, IPCap), IPCap, IPRefill) /\ x = Taken(r)
      BY <1>3, <1>8, <2>0, <2>2, <3>1 DEF own
    <3>3. CASE ~allowed
      <4>1. Same({k})
        BY <1>6, <3>3
      <4> QED
        BY <1>1, <2>1, <3>2, <4>1, TakenKeeps
    <3>4. CASE allowed
      <4>1. Grows({k}, c) /\ HasToken(r)
        BY <1>7, <2>2, <3>1, <3>4 DEF allowed
      <4> QED
        BY <1>1, <2>1, <3>2, <4>1, TakenKeeps
    <3> QED
      BY <3>3, <3>4
  <2>3. CASE k # ip
    <3>1. Same({k})
      BY <1>6, <2>3
    <3>2. x = b
      BY <1>3, <1>8, <2>0, <2>3
    <3> QED
      BY <1>1, <2>1, <3>1, <3>2, SameKept
  <2> QED
    BY <2>2, <2>3
<1>9. ASSUME NEW k \in Subnets, NEW x, x = subnetBucket'[k]
      PROVE  Kept(Members(k), x, SubnetCap, SubnetRefill)'
  <2>0. PICK b : b = subnetBucket[k]
    OBVIOUS
  <2>1. Kept(Members(k), b, SubnetCap, SubnetRefill) /\ b \in BucketType(SubnetCap)
    BY <1>3, <2>0 DEF Limits
  <2>2. CASE k = s
    <3>1. PICK r : r = full
      OBVIOUS
    <3>2. /\ r = Refilled(Bucket(b, SubnetCap), SubnetCap, SubnetRefill)
          /\ x = IF HasToken(own) THEN Taken(r) ELSE Bucket(b, SubnetCap)
      BY <1>3, <1>9, <2>0, <2>2, <3>1 DEF full, shared
    <3>3. CASE ~allowed
      <4>1. Same(Members(k))
        BY <1>6, <3>3
      <4>2. x \in {Bucket(b, SubnetCap), Taken(r)}
        BY <3>2
      <4> QED
        BY <1>1, <2>1, <3>2, <4>1, <4>2, TakenKeeps
    <3>4. CASE allowed
      <4>1. Grows(Members(k), c) /\ HasToken(r) /\ x = Taken(r)
        BY <1>2, <1>7, <2>2, <3>1, <3>2, <3>4, SubnetIsSubnet DEF allowed
      <4> QED
        BY <1>1, <2>1, <3>2, <4>1, TakenKeeps
    <3> QED
      BY <3>3, <3>4
  <2>3. CASE k # s
    <3>1. Same(Members(k))
      BY <1>2, <1>6, <2>3, SubnetIsSubnet
    <3>2. x = b
      BY <1>3, <1>9, <2>0, <2>3
    <3> QED
      BY <1>1, <2>1, <3>1, <3>2, SameKept
  <2> QED
    BY <2>2, <2>3
<1> QED
    BY <1>8, <1>9 DEF Limits

\* A full bucket can be thrown away: a new one is no fuller.
LEMMA CleanLimits ==
    ASSUME TypeOK, Limits, CleanBuckets
    PROVE  Limits'
<1> USE LimitAssumption
<1>1. now \in Nat /\ now' = now /\ conn' = conn
    BY SecurityDaemonAssumption DEF TypeOK, CleanBuckets
<1>2. \A ips : Same(ips)
    BY <1>1 DEF Same, Admitted
<1>3. ASSUME NEW ips, NEW cap \in Nat, NEW rate \in Nat, NEW b \in BucketType(cap),
             Kept(ips, b, cap, rate),
             NEW x, x = IF Removable(b, cap) THEN NoBucket ELSE b
      PROVE  Kept(ips, x, cap, rate)'
  <2>1. Kept(ips, x, cap, rate) => Kept(ips, x, cap, rate)'
    BY <1>1, <1>2, SameKept
  <2>2. CASE Removable(b, cap)
    <3>1. Bucket(b, cap) = b /\ b \in FullBucket(cap) /\ b.lastRefill <= now /\ b.tokens >= cap
      BY <1>3, <2>2 DEF Removable, Stale, Bucket, BucketType, FullBucket, Kept
    <3>2. b.tokens \in Nat /\ b.lastRefill \in 0 .. now /\ cap <= b.tokens
      BY <1>1, <3>1 DEF FullBucket
    <3> DEFINE q == (now - b.lastRefill) * rate
    <3>3. q \in Nat
      BY <1>1, <3>2
    <3> HIDE DEF q
    <3>4. cap <= b.tokens + q
      BY <3>2, <3>3
    <3>5. Spent(ips, cap, now, cap, rate)
      BY <1>1, <1>3, <3>1, <3>2, <3>4, SpentLater DEF Kept, q
    <3>6. x = NoBucket /\ Bucket(x, cap) = [tokens |-> cap, lastRefill |-> now]
      BY <1>3, <2>2 DEF Bucket
    <3>7. Kept(ips, x, cap, rate)
      BY <1>1, <1>3, <3>5, <3>6 DEF Kept
    <3> QED
      BY <2>1, <3>7
  <2>3. CASE ~Removable(b, cap)
    BY <1>3, <2>1, <2>3
  <2> QED
    BY <2>2, <2>3
<1>4. ASSUME NEW k \in IPs, NEW x, x = ipBuckets'[k] PROVE Kept({k}, x, IPCap, IPRefill)'
  <2>1. PICK b : b = ipBuckets[k]
    OBVIOUS
  <2>2. x = (IF Removable(b, IPCap) THEN NoBucket ELSE b) /\ b \in BucketType(IPCap)
    BY <1>4, <2>1 DEF TypeOK, CleanBuckets
  <2>3. Kept({k}, b, IPCap, IPRefill)
    BY <2>1 DEF Limits
  <2> QED
    BY <1>3, <2>2, <2>3
<1>5. ASSUME NEW k \in Subnets, NEW x, x = subnetBucket'[k]
      PROVE  Kept(Members(k), x, SubnetCap, SubnetRefill)'
  <2>1. PICK b : b = subnetBucket[k]
    OBVIOUS
  <2>2. x = (IF Removable(b, SubnetCap) THEN NoBucket ELSE b) /\ b \in BucketType(SubnetCap)
    BY <1>5, <2>1 DEF TypeOK, CleanBuckets
  <2>3. Kept(Members(k), b, SubnetCap, SubnetRefill)
    BY <2>1 DEF Limits
  <2> QED
    BY <1>3, <2>2, <2>3
<1> QED
    BY <1>4, <1>5 DEF Limits

\* Time alone lets nobody through, and a bucket of the next tick is no fuller
\* than one of this tick and a tick's refill.
LEMMA TickLimits ==
    ASSUME TypeOK, Journeys, Limits, Tick
    PROVE  Limits'
<1> USE LimitAssumption
<1>1. /\ now \in Nat /\ now' = now + 1 /\ now' \in Nat
      /\ conn' = conn /\ ipBuckets' = ipBuckets /\ subnetBucket' = subnetBucket
  <2>1. now' = now + 1 /\ UNCHANGED <<conn, ipBuckets, subnetBucket>>
    BY DEF Tick, tables
  <2>2. now \in Nat
    BY SecurityDaemonAssumption DEF TypeOK
  <2> QED
    BY <2>1, <2>2
<1>0. PICK u : u = now + 1
    OBVIOUS
<1>2. \A ips, from : Admitted(ips, from, u)' = Admitted(ips, from, now)
  <2>1. \A c \in Conns : conn[c].admitted \in Int /\ conn[c].admitted <= now
    BY SecurityDaemonAssumption DEF TypeOK, ConnType, Times, Journeys, Journey
  <2> QED
    BY <1>0, <1>1, <2>1 DEF Admitted
<1>3. \A ips, from, to : Admitted(ips, from, to)' = Admitted(ips, from, to)
    BY <1>1 DEF Admitted
<1>4. \A ips : Admitted(ips, now + 1, now) = {}
    BY <1>1 DEF Admitted
<1>5. ASSUME NEW ips, NEW cap \in Nat, NEW rate \in Nat, NEW b \in BucketType(cap),
             Kept(ips, b, cap, rate)
      PROVE  Kept(ips, b, cap, rate)'
  <2>1. ASSUME NEW from \in 0 .. now + 1, NEW to \in from .. now + 1
        PROVE  Cardinality(Admitted(ips, from, to)') <= cap + (to - from) * rate
    <3>1. CASE to <= now
      BY <1>1, <1>3, <1>5, <2>1, <3>1 DEF Kept, Bounded
    <3>2. CASE to = now + 1 /\ from <= now
      <4> DEFINE n == Cardinality(Admitted(ips, from, now))
                 p == (now - from) * rate
      <4>1. n <= cap + p
        BY <1>1, <1>5, <2>1, <3>2 DEF Kept, Bounded
      <4>2. (to - from) * rate = p + rate
        BY <1>1, <2>1, <3>2
      <4>3. n \in Nat /\ p \in Nat
        BY <1>1, <2>1, <3>2, AdmittedCounts
      <4>4. Cardinality(Admitted(ips, from, to)') = n
        BY <1>0, <1>2, <3>2
      <4> HIDE DEF n, p
      <4>5. n <= cap + (p + rate)
        BY <4>1, <4>3
      <4> QED
        BY <4>2, <4>4, <4>5
    <3>3. CASE to = now + 1 /\ from = now + 1
      <4>1. Admitted(ips, from, to)' = {}
        BY <1>0, <1>2, <1>4, <3>3
      <4>2. Cardinality(Admitted(ips, from, to)') = 0 /\ (to - from) * rate = 0
        BY <1>1, <3>3, <4>1, EmptyCount
      <4> QED
        BY <4>2
    <3> QED
      BY <1>1, <2>1, <3>1, <3>2, <3>3
  <2>2. Bounded(ips, cap, rate)'
    BY <1>1, <2>1 DEF Bounded
  <2>3. CASE b = NoBucket
    <3>1. \A from \in 0 .. now : Cardinality(Admitted(ips, from, now)) + cap <= cap + (now - from) * rate
      BY <1>5, <2>3 DEF Kept, Spent, Bucket
    <3>2. ASSUME NEW from \in 0 .. now + 1
          PROVE  Cardinality(Admitted(ips, from, u)') + cap <= cap + (now + 1 - from) * rate
      <4>1. CASE from <= now
        <5> DEFINE n == Cardinality(Admitted(ips, from, now))
                   p == (now - from) * rate
        <5>1. n + cap <= cap + p
          BY <1>1, <3>1, <4>1
        <5>2. (now + 1 - from) * rate = p + rate
          BY <1>1, <4>1
        <5>3. n \in Nat /\ p \in Nat
          BY <1>1, <4>1, AdmittedCounts
        <5>4. Cardinality(Admitted(ips, from, u)') = n
          BY <1>2
        <5> HIDE DEF n, p
        <5>5. n + cap <= cap + (p + rate)
          BY <5>1, <5>3
        <5> QED
          BY <5>2, <5>4, <5>5
      <4>2. CASE from = now + 1
        <5>1. Admitted(ips, from, u)' = {}
          BY <1>0, <1>2, <1>4, <4>2
        <5>2. Cardinality(Admitted(ips, from, u)') = 0 /\ (now + 1 - from) * rate = 0
          BY <1>1, <4>2, <5>1, EmptyCount
        <5> QED
          BY <5>2
      <4> QED
        BY <1>1, <4>1, <4>2
    <3>3. Admitted(ips, u + 1, u)' = {}
      BY <1>0, <1>1 DEF Admitted
    <3>4. Spent(ips, cap, u, cap, rate)'
      BY <1>0, <1>1, <3>2, <3>3 DEF Spent, Admitted
    <3>5. Bucket(b, cap)' = [tokens |-> cap, lastRefill |-> u]
      BY <1>0, <1>1, <2>3 DEF Bucket
    <3> QED
      BY <1>0, <1>1, <2>2, <3>4, <3>5 DEF Kept
  <2>4. CASE b # NoBucket
    <3>1. Bucket(b, cap) = b /\ Bucket(b, cap)' = b
      BY <2>4 DEF Bucket
    <3>2. b.lastRefill \in Nat
      BY <1>5, <2>4, SecurityDaemonAssumption DEF BucketType
    <3>3. Spent(ips, b.tokens, b.lastRefill, cap, rate)'
      <4>1. Spent(ips, b.tokens, b.lastRefill, cap, rate)
        BY <1>5, <3>1 DEF Kept
      <4>2. \A from : Admitted(ips, from, now)' = Admitted(ips, from, now)
        BY <1>0, <1>1, <1>2 DEF Admitted
      <4> QED
        BY <4>1, <4>2 DEF Spent
    <3> QED
      BY <1>1, <1>5, <2>2, <3>1, <3>2, <3>3 DEF Kept
  <2> QED
    BY <2>3, <2>4
<1> QED
    BY <1>1, <1>5 DEF TypeOK, Limits
-----------------------------------------------------------------------------
\* What keeps the bans and the alerts: no connection gets to a place where more
\* is asked of them.
LEMMA BansKept ==
    ASSUME Bans, UNCHANGED <<banned, bannedTo>>,
           \A c \in Conns :
                conn'[c].crossed /\ conn'[c].at \in {"dispatch", "send", "done"} =>
                    /\ conn[c].crossed /\ conn[c].at \in {"dispatch", "send", "done"}
                    /\ conn'[c].ip = conn[c].ip /\ conn'[c].recorded = conn[c].recorded
    PROVE  Bans'
BY DEF Bans, CrossingsArePunished

LEMMA AlertsKept ==
    ASSUME TypeOK, Alerts, UNCHANGED lastAlerted, now' \in {now, now + 1},
           \A c \in Conns :
                /\ conn'[c].alerted = conn[c].alerted
                /\ conn[c].alerted # -1 => conn'[c].ip = conn[c].ip
    PROVE  Alerts'
<1>1. \A ip \in IPs : lastAlerted[ip] \in Int
    BY SecurityDaemonAssumption DEF TypeOK, Times
<1>2. now \in Int
    BY SecurityDaemonAssumption DEF TypeOK
<1>3. OneAlertPerWindow'
  <2> SUFFICES ASSUME NEW c \in Conns, NEW d \in Conns, c # d, conn'[c].ip = conn'[d].ip,
                      conn'[c].alerted # -1, conn'[c].alerted <= conn'[d].alerted
               PROVE  conn'[d].alerted - conn'[c].alerted >= AlertWindow
    BY DEF OneAlertPerWindow
  <2>1. conn[c].alerted \in Times /\ conn[d].alerted \in Times
    BY DEF TypeOK, ConnType
  <2>2. conn'[d].alerted # -1
    BY <2>1, SecurityDaemonAssumption DEF Times
  <2> QED
    BY <2>2 DEF Alerts, OneAlertPerWindow
<1>4. \A ip \in IPs : lastAlerted'[ip] <= now'
    BY <1>1, <1>2 DEF Alerts
<1>5. \A c \in Conns : conn'[c].alerted # -1 => conn'[c].alerted <= lastAlerted'[conn'[c].ip]
    BY DEF Alerts
<1> QED
    BY <1>3, <1>4, <1>5 DEF Alerts

\* A goroutine that goes on keeps what its connection is remembered for.
LEMMA GoToMoves ==
    ASSUME TypeOK, NEW c \in Conns, NEW place \in Places, GoTo(c, place)
    PROVE  /\ conn' \in [Conns -> ConnType]
           /\ conn'[c] = [conn[c] EXCEPT !.at = place]
           /\ conn'[c].at = place /\ conn'[c].ip = conn[c].ip
           /\ conn'[c].crossed = conn[c].crossed /\ conn'[c].admitted = conn[c].admitted
           /\ conn'[c].recorded = conn[c].recorded /\ conn'[c].alerted = conn[c].alerted
           /\ \A d \in Conns \ {c} : conn'[d] = conn[d]
BY DEF TypeOK, GoTo, ConnType

\* A power of two counts the subsets of a set, so it is a positive number.
LEMMA PowerIsCount ==
    ASSUME NEW n \in Nat
    PROVE  /\ IsFiniteSet(SUBSET (1 .. n))
           /\ 2 ^ n = Cardinality(SUBSET (1 .. n))
           /\ 2 ^ n \in Nat \ {0}
<1>1. IsFiniteSet(1 .. n) /\ Cardinality(1 .. n) = n
    BY FS_Interval
<1>2. IsFiniteSet(SUBSET (1 .. n)) /\ Cardinality(SUBSET (1 .. n)) = 2 ^ n
    BY <1>1, FS_SUBSET
<1>3. Cardinality(SUBSET (1 .. n)) \in Nat
    BY <1>2, FS_CardinalityType
<1>4. SUBSET (1 .. n) # {}
    OBVIOUS
<1>5. Cardinality(SUBSET (1 .. n)) # 0
    BY <1>2, <1>4, FS_EmptySet
<1> QED
    BY <1>2, <1>3, <1>5

\* The score and the point it is counted in.
LEMMA DecayedType ==
    ASSUME now \in 0 .. MaxTime, NEW entry \in [Score : Nat, LastUpdate : 0 .. now]
    PROVE  Decayed(entry) \in Nat /\ Unit \in Nat \ {0}
<1> DEFINE d == HalvingsPerTick * (now - entry.LastUpdate)
           top == HalvingsPerTick * MaxTime
<1>1. /\ HalvingsPerTick \in Nat /\ MaxTime \in Nat /\ entry.Score \in Nat
      /\ now - entry.LastUpdate \in 0 .. MaxTime
    BY SecurityDaemonAssumption
<1>2. d \in Nat /\ top \in Nat
    BY <1>1
<1> HIDE DEF d, top
<1>3. 2 ^ d \in Nat \ {0} /\ 2 ^ top \in Nat \ {0}
    BY <1>2, PowerIsCount
<1>4. \A x \in Nat, y \in Nat \ {0} : x \div y \in Nat
    OBVIOUS
<1>5. entry.Score \div 2 ^ d \in Nat
    BY <1>1, <1>3, <1>4
<1> QED
    BY <1>3, <1>5 DEF Decayed, Unit, d, top

LEMMA InitIInv == Init => IInv
<1> SUFFICES ASSUME Init PROVE IInv
    OBVIOUS
<1> USE SecurityDaemonAssumption
<1>1. now = 0 /\ now \in Nat /\ NoConn \in ConnType
    BY DEF Init, NoConn, ConnType, Places, Times
<1>2. TypeOK
  <2>1. eventChan = <<>> /\ Len(eventChan) <= QueueCapacity
    BY DEF Init
  <2>2. conn \in [Conns -> ConnType]
    BY <1>1 DEF Init
  <2>3. /\ ipBuckets \in [IPs -> BucketType(IPCap)]
        /\ subnetBucket \in [Subnets -> BucketType(SubnetCap)]
    BY DEF Init, BucketType
  <2>4. /\ banned \in [IPs -> -1 .. MaxTime + BanDuration]
        /\ bannedTo \in [IPs -> -1 .. MaxTime + BanDuration]
        /\ lastAlerted \in [IPs -> Times]
    BY DEF Init, Times
  <2>5. \A ip \in IPs : scores[ip].Score \in Nat /\ scores[ip].LastUpdate \in 0 .. now
    BY <1>1 DEF Init
  <2>6. now \in 0 .. MaxTime /\ worker \in [Workers -> {"idle", "sending", "ended"}]
    BY <1>1 DEF Init
  <2>7. {chanClosed, accepting, panicked} \subseteq BOOLEAN
    BY Zenon DEF Init
  <2> QED
    BY <2>1, <2>2, <2>3, <2>4, <2>5, <2>6, <2>7 DEF Init, TypeOK
<1>3. ScoreTypes /\ QueueTypes
    BY EmptySeq DEF Init, ScoreTypes, QueueTypes
<1>4. Journeys
    BY <1>1 DEF Init, Journeys, Journey, NoConn
<1>5. \A ips, from, to : Admitted(ips, from, to) = {}
    BY DEF Init, Admitted, NoConn
<1>6. ASSUME NEW ips, NEW cap \in Nat, NEW rate \in Nat, NEW b \in {NoBucket}
      PROVE  Kept(ips, b, cap, rate)
  <2>1. Bucket(b, cap) = [tokens |-> cap, lastRefill |-> 0]
    BY <1>1 DEF Bucket
  <2>2. \A from, to : Cardinality(Admitted(ips, from, to)) = 0
    BY <1>5, EmptyCount
  <2>3. (0 - 0) * rate = 0
    OBVIOUS
  <2>4. Spent(ips, cap, 0, cap, rate)
    BY <1>1, <1>5, <2>2, <2>3 DEF Spent
  <2>5. Bounded(ips, cap, rate)
    BY <1>1, <2>2, <2>3 DEF Bounded
  <2> QED
    BY <1>1, <2>1, <2>4, <2>5 DEF Kept
<1>7. Limits
  <2>1. /\ \A ip \in IPs : ipBuckets[ip] = NoBucket
        /\ \A k \in Subnets : subnetBucket[k] = NoBucket
    BY DEF Init
  <2> QED
    BY <1>6, <2>1, LimitAssumption DEF Limits
<1>8. Bans /\ Alerts
    BY <1>1 DEF Init, Bans, CrossingsArePunished, Alerts, OneAlertPerWindow, NoConn
<1> QED
    BY <1>2, <1>3, <1>4, <1>7, <1>8 DEF IInv
-----------------------------------------------------------------------------
LEMMA AcceptIInv ==
    ASSUME IInv, NEW c \in Conns, NEW ip \in IPs, Accept(c, ip)
    PROVE  IInv'
<1> USE DEF IInv
<1>1. /\ conn[c] = NoConn /\ conn'[c] = [NoConn EXCEPT !.ip = ip, !.at = "accepted"]
      /\ \A d \in Conns \ {c} : conn'[d] = conn[d]
    BY DEF TypeOK, Accept
<1>2. conn'[c] = [ip |-> ip, at |-> "accepted", crossed |-> FALSE,
                  admitted |-> -1, recorded |-> -1, alerted |-> -1]
    BY <1>1 DEF NoConn
<1>3. conn' \in [Conns -> ConnType]
  <2>1. conn'[c] \in ConnType
    BY <1>2, SecurityDaemonAssumption DEF ConnType, Places, Times
  <2>2. conn' = [conn EXCEPT ![c] = conn'[c]]
    BY <1>1 DEF TypeOK, Accept
  <2> QED
    BY <2>1, <2>2 DEF TypeOK
<1>4. TypeOK' /\ ScoreTypes' /\ QueueTypes'
    BY <1>3 DEF TypeOK, ScoreTypes, QueueTypes, Accept, tables, pool
<1>5. now \in Nat /\ now' = now /\ UNCHANGED tables
    BY SecurityDaemonAssumption DEF TypeOK, Accept
<1>6. Journeys'
  <2>1. Journey(conn[c])'
    BY <1>2, <1>5 DEF Journey
  <2>2. ASSUME NEW d \in Conns \ {c} PROVE Journey(conn[d])'
    BY <1>1, <1>5 DEF Journeys, Journey
  <2> QED
    BY <2>1, <2>2 DEF Journeys
<1>7. \A d \in Conns :
        /\ conn'[d].admitted = conn[d].admitted /\ conn'[d].alerted = conn[d].alerted
        /\ conn[d].admitted # -1 \/ conn[d].alerted # -1 => conn'[d].ip = conn[d].ip
        /\ conn'[d].crossed => conn'[d] = conn[d]
    BY <1>1, <1>2 DEF NoConn
<1>8. Limits'
    BY <1>5, <1>7, LimitsKept DEF tables
<1>9. Bans'
    BY <1>5, <1>7, BansKept DEF tables
<1>10. Alerts'
    BY <1>5, <1>7, AlertsKept DEF tables
<1> QED
    BY <1>4, <1>6, <1>8, <1>9, <1>10

\* A step that only moves a connection's goroutine.
LEMMA GoToIInv ==
    ASSUME IInv, NEW c \in Conns, NEW place \in Places \ {"none", "accepted", "allowed"},
           conn[c].at # "none", GoTo(c, place),
           conn[c].alerted # -1 => place = "done",
           place \notin {"dispatch", "send"},
           place = "done" => ~conn[c].crossed \/ conn[c].at = "send",
           UNCHANGED <<now, tables, pool, stop, accepting, panicked>>
    PROVE  IInv'
<1> USE DEF IInv
<1>0. /\ conn'[c].at = place /\ conn'[c].ip = conn[c].ip
      /\ conn'[c].crossed = conn[c].crossed /\ conn'[c].admitted = conn[c].admitted
      /\ conn'[c].recorded = conn[c].recorded /\ conn'[c].alerted = conn[c].alerted
      /\ \A d \in Conns \ {c} : conn'[d] = conn[d]
    BY GoToMoves
<1>1. TypeOK' /\ ScoreTypes' /\ QueueTypes'
    BY GoToMoves DEF TypeOK, ScoreTypes, QueueTypes, tables, pool
<1>2. Journeys'
  <2>1. Journey(conn[c])'
    BY <1>0 DEF Journeys, Journey
  <2>2. ASSUME NEW d \in Conns \ {c} PROVE Journey(conn[d])'
    BY <1>0 DEF Journeys, Journey
  <2> QED
    BY <2>1, <2>2 DEF Journeys
<1>3. Limits'
    BY GoToMoves, LimitsKept DEF tables
<1>4. Bans'
  <2>1. \A d \in Conns :
            /\ conn'[d].crossed = conn[d].crossed
            /\ conn'[d].ip = conn[d].ip /\ conn'[d].recorded = conn[d].recorded
            /\ conn[d].crossed /\ conn'[d].at \in {"dispatch", "send", "done"} =>
                    conn[d].at \in {"dispatch", "send", "done"}
    BY <1>0
  <2> QED
    BY <2>1, BansKept DEF tables
<1>5. Alerts'
    BY GoToMoves, AlertsKept DEF tables
<1> QED
    BY <1>1, <1>2, <1>3, <1>4, <1>5

LEMMA GreetIInv ==
    ASSUME IInv, NEW c \in Conns, Greet(c)
    PROVE  IInv'
<1>1. ~conn[c].crossed /\ conn[c].alerted = -1
    BY DEF IInv, Journeys, Journey, Greet
<1> QED
    BY <1>1, GoToIInv DEF Greet, Places

LEMMA AllowIInv ==
    ASSUME IInv, NEW c \in Conns, Allow(c)
    PROVE  IInv'
<1> USE DEF IInv
<1> DEFINE ip == conn[c].ip
           s == SubnetOf[ip]
           own == Refilled(Bucket(ipBuckets[ip], IPCap), IPCap, IPRefill)
           shared == Bucket(subnetBucket[s], SubnetCap)
           full == Refilled(shared, SubnetCap, SubnetRefill)
           allowed == HasToken(own) /\ HasToken(full)
<1>1. /\ conn[c].at = "accepted"
      /\ ipBuckets' = [ipBuckets EXCEPT ![ip] = Taken(own)]
      /\ subnetBucket' = [subnetBucket EXCEPT
                              ![s] = IF HasToken(own) THEN Taken(full) ELSE shared]
      /\ conn' = [conn EXCEPT ![c].at = IF allowed THEN "allowed" ELSE "done",
                              ![c].admitted = IF allowed THEN now ELSE -1]
      /\ UNCHANGED <<now, scores, banned, lastAlerted, bannedTo, pool, stop, accepting, panicked>>
    BY DEF Allow, LimitProbe
<1>2. ip \in IPs /\ s \in Subnets
    BY <1>1, SubnetIsSubnet DEF Journeys, Journey
<1>3. ASSUME NEW cap \in Nat, NEW b \in FullBucket(cap) PROVE Taken(b) \in FullBucket(cap)
    BY <1>3 DEF FullBucket, Taken, HasToken
<1>4. /\ own \in FullBucket(IPCap) /\ shared \in FullBucket(SubnetCap)
      /\ full \in FullBucket(SubnetCap)
  <2>1. PICK b : b = ipBuckets[ip]
    OBVIOUS
  <2>2. Kept({ip}, b, IPCap, IPRefill) /\ b \in BucketType(IPCap)
    BY <1>2, <2>1 DEF TypeOK, Limits
  <2>3. own \in FullBucket(IPCap)
    BY <2>1, <2>2, RefillKept, LimitAssumption
  <2>4. PICK x : x = subnetBucket[s]
    OBVIOUS
  <2>5. Kept(Members(s), x, SubnetCap, SubnetRefill) /\ x \in BucketType(SubnetCap)
    BY <1>2, <2>4 DEF TypeOK, Limits
  <2>6. shared \in FullBucket(SubnetCap)
    BY <2>4, <2>5, BucketTypes, LimitAssumption
  <2>7. full \in FullBucket(SubnetCap)
    BY <2>4, <2>5, RefillKept, LimitAssumption
  <2> QED
    BY <2>3, <2>6, <2>7
<1> HIDE DEF own, shared, full
<1>5. /\ ipBuckets' \in [IPs -> BucketType(IPCap)]
      /\ subnetBucket' \in [Subnets -> BucketType(SubnetCap)]
  <2>1. Taken(own) \in BucketType(IPCap)
    BY <1>3, <1>4, LimitAssumption DEF BucketType, FullBucket
  <2>2. Taken(full) \in BucketType(SubnetCap) /\ shared \in BucketType(SubnetCap)
    BY <1>3, <1>4, LimitAssumption DEF BucketType, FullBucket
  <2> QED
    BY <1>1, <2>1, <2>2 DEF TypeOK
<1>6. now \in 0 .. MaxTime /\ now' = now /\ now \in Nat
    BY <1>1, SecurityDaemonAssumption DEF TypeOK
<1> HIDE DEF allowed
<1>7. /\ conn'[c].at = (IF allowed THEN "allowed" ELSE "done") /\ conn'[c].ip = ip
      /\ conn'[c].crossed = conn[c].crossed
      /\ conn'[c].admitted = (IF allowed THEN now ELSE -1)
      /\ conn'[c].recorded = conn[c].recorded /\ conn'[c].alerted = conn[c].alerted
      /\ \A d \in Conns \ {c} : conn'[d] = conn[d]
    BY <1>1 DEF TypeOK, ConnType
<1>8. conn' \in [Conns -> ConnType]
  <2> DEFINE place == IF allowed THEN "allowed" ELSE "done"
             time == IF allowed THEN now ELSE -1
  <2>1. place \in Places /\ time \in Times
    BY <1>6, SecurityDaemonAssumption DEF Places, Times
  <2>2. conn' = [conn EXCEPT ![c].at = place, ![c].admitted = time]
    BY <1>1
  <2> DEFINE k == [conn[c] EXCEPT !.at = place, !.admitted = time]
  <2> HIDE DEF place, time
  <2>3. k \in ConnType
    BY <2>1 DEF TypeOK, ConnType
  <2>4. conn' = [conn EXCEPT ![c] = k]
    BY <2>2 DEF TypeOK, ConnType
  <2> HIDE DEF k
  <2> QED
    BY <2>3, <2>4 DEF TypeOK
<1>9. TypeOK' /\ ScoreTypes' /\ QueueTypes'
    BY <1>1, <1>5, <1>8 DEF TypeOK, ScoreTypes, QueueTypes, pool
<1>10. conn[c].alerted = -1 /\ ~conn[c].crossed /\ conn[c].recorded = -1
    BY <1>1 DEF Journeys, Journey
<1>11. Journeys'
  <2>1. Journey(conn[c])'
    BY <1>1, <1>2, <1>6, <1>7, <1>10 DEF Journeys, Journey
  <2>2. ASSUME NEW d \in Conns \ {c} PROVE Journey(conn[d])'
    BY <1>1, <1>2, <1>6, <1>7, <1>10 DEF Journeys, Journey
  <2> QED
    BY <2>1, <2>2 DEF Journeys
<1>12. Limits'
    BY AllowLimits
<1>13. Bans'
    BY <1>1, <1>7, <1>10, BansKept
<1>14. Alerts'
    BY <1>1, <1>7, <1>10, AlertsKept
<1> QED
    BY <1>9, <1>11, <1>12, <1>13, <1>14

LEMMA RecordThreatIInv ==
    ASSUME IInv, NEW c \in Conns, RecordThreat(c)
    PROVE  IInv'
<1> USE DEF IInv
<1> DEFINE ip == conn[c].ip
           newScore == Decayed(scores[ip]) + Points * Unit
           shouldBan == newScore >= BanThreshold * Unit
<1>1. /\ conn[c].at = "allowed"
      /\ scores' = [scores EXCEPT ![ip] = [Score |-> newScore, LastUpdate |-> now]]
      /\ conn' = [conn EXCEPT ![c].at = IF shouldBan THEN "test" ELSE "done",
                              ![c].crossed = shouldBan,
                              ![c].recorded = now]
      /\ UNCHANGED <<now, ipBuckets, subnetBucket, banned, lastAlerted, bannedTo, pool, stop,
                     accepting, panicked>>
    BY DEF RecordThreat
<1>2. ip \in IPs
    BY <1>1 DEF Journeys, Journey
<1>3. now \in 0 .. MaxTime /\ now' = now /\ now \in Nat
    BY <1>1, SecurityDaemonAssumption DEF TypeOK
<1>4. newScore \in Nat
  <2>1. Decayed(scores[ip]) \in Nat /\ Unit \in Nat
    BY <1>2, <1>3, DecayedType DEF ScoreTypes
  <2>2. Points \in Nat
    BY SecurityDaemonAssumption
  <2> QED
    BY <2>1, <2>2
<1>5. shouldBan \in BOOLEAN
    OBVIOUS
<1> HIDE DEF newScore, shouldBan
<1>6. ScoreTypes'
    BY <1>1, <1>2, <1>3, <1>4 DEF ScoreTypes
<1>7. conn' \in [Conns -> ConnType]
  <2> DEFINE place == IF shouldBan THEN "test" ELSE "done"
  <2>1. place \in Places /\ now \in Times
    BY <1>3, SecurityDaemonAssumption DEF Places, Times
  <2>2. conn' = [conn EXCEPT ![c].at = place, ![c].crossed = shouldBan, ![c].recorded = now]
    BY <1>1
  <2> DEFINE k == [conn[c] EXCEPT !.at = place, !.crossed = shouldBan, !.recorded = now]
  <2> HIDE DEF place
  <2>3. k \in ConnType
    BY <1>5, <2>1 DEF TypeOK, ConnType
  <2>4. conn' = [conn EXCEPT ![c] = k]
    BY <2>2 DEF TypeOK, ConnType
  <2> HIDE DEF k
  <2> QED
    BY <2>3, <2>4 DEF TypeOK
<1>8. TypeOK' /\ QueueTypes'
    BY <1>1, <1>3, <1>6, <1>7 DEF TypeOK, ScoreTypes, QueueTypes, pool
<1>9. /\ conn'[c].at = (IF shouldBan THEN "test" ELSE "done") /\ conn'[c].ip = ip
      /\ conn'[c].crossed = shouldBan /\ conn'[c].admitted = conn[c].admitted
      /\ conn'[c].recorded = now /\ conn'[c].alerted = conn[c].alerted
      /\ \A d \in Conns \ {c} : conn'[d] = conn[d]
    BY <1>1 DEF TypeOK, ConnType
<1>10. conn[c].alerted = -1
    BY <1>1 DEF Journeys, Journey
<1>11. Journeys'
  <2>1. Journey(conn[c])'
    BY <1>1, <1>2, <1>3, <1>9, <1>10 DEF Journeys, Journey
  <2>2. ASSUME NEW d \in Conns \ {c} PROVE Journey(conn[d])'
    BY <1>1, <1>2, <1>3, <1>9, <1>10 DEF Journeys, Journey
  <2> QED
    BY <2>1, <2>2 DEF Journeys
<1>12. Limits'
    BY <1>1, <1>9, LimitsKept
<1>13. Bans'
  <2>1. conn'[c].crossed => conn'[c].at = "test"
    BY <1>9
  <2> QED
    BY <1>1, <1>9, <2>1, BansKept
<1>14. Alerts'
    BY <1>1, <1>9, AlertsKept
<1> QED
    BY <1>6, <1>8, <1>11, <1>12, <1>13, <1>14

\* Times are whole numbers.
LEMMA TimeTypes ==
    ASSUME TypeOK
    PROVE  /\ now \in 0 .. MaxTime /\ now \in Nat /\ MaxTime \in Nat
           /\ BanDuration \in Nat /\ AlertWindow \in Nat
           /\ \A ip \in IPs : /\ banned[ip] \in Int /\ bannedTo[ip] \in Int
                              /\ lastAlerted[ip] \in Int
           /\ \A c \in Conns : /\ conn[c].recorded \in Int /\ conn[c].alerted \in Int
                               /\ conn[c].alerted >= -1
<1>1. /\ now \in 0 .. MaxTime /\ now \in Nat /\ MaxTime \in Nat
      /\ BanDuration \in Nat /\ AlertWindow \in Nat
    BY SecurityDaemonAssumption DEF TypeOK
<1>2. ASSUME NEW ip \in IPs
      PROVE  banned[ip] \in Int /\ bannedTo[ip] \in Int /\ lastAlerted[ip] \in Int
    BY <1>1 DEF TypeOK, Times
<1>3. ASSUME NEW c \in Conns
      PROVE  conn[c].recorded \in Int /\ conn[c].alerted \in Int /\ conn[c].alerted >= -1
    BY <1>1 DEF TypeOK, ConnType, Times
<1> QED
    BY <1>1, <1>2, <1>3

\* A crossing that finds its address banned is punished by that ban.
LEMMA TestBanIInv ==
    ASSUME IInv, NEW c \in Conns, TestBan(c)
    PROVE  IInv'
<1> USE DEF IInv
<1>1. CASE ~IsBanned(conn[c].ip)
  <2>1. GoTo(c, "ban") /\ conn[c].alerted = -1
    BY <1>1 DEF TestBan, Journeys, Journey
  <2> QED
    BY <2>1, GoToIInv DEF TestBan, Places
<1>2. CASE IsBanned(conn[c].ip)
  <2>1. /\ conn[c].at = "test" /\ GoTo(c, "done")
        /\ UNCHANGED <<now, tables, pool, stop, accepting, panicked>>
    BY <1>2 DEF TestBan
  <2>2. /\ conn' \in [Conns -> ConnType]
        /\ conn'[c].at = "done" /\ conn'[c].ip = conn[c].ip
        /\ conn'[c].crossed = conn[c].crossed /\ conn'[c].admitted = conn[c].admitted
        /\ conn'[c].recorded = conn[c].recorded /\ conn'[c].alerted = conn[c].alerted
        /\ \A d \in Conns \ {c} : conn'[d] = conn[d]
    BY <2>1, GoToMoves DEF Places
  <2>3. TypeOK' /\ ScoreTypes' /\ QueueTypes'
    BY <2>1, <2>2 DEF TypeOK, ScoreTypes, QueueTypes, tables, pool
  <2>4. Journeys'
    <3>1. Journey(conn[c])'
      BY <2>1, <2>2 DEF Journeys, Journey
    <3>2. ASSUME NEW d \in Conns \ {c} PROVE Journey(conn[d])'
      BY <2>1, <2>2 DEF Journeys, Journey
    <3> QED
      BY <3>1, <3>2 DEF Journeys
  <2>5. Limits'
    BY <2>1, <2>2, LimitsKept DEF tables
  <2>6. Bans'
    <3>1. conn[c].ip \in IPs /\ conn[c].recorded <= now
      BY <2>1 DEF Journeys, Journey
    <3>2. /\ conn[c].recorded \in Int /\ now \in Int
          /\ bannedTo[conn[c].ip] \in Int /\ banned[conn[c].ip] \in Int
      BY <3>1, TimeTypes
    <3>3. bannedTo[conn[c].ip] >= conn[c].recorded
      BY <1>2, <3>1, <3>2 DEF Bans, IsBanned
    <3> QED
      BY <2>1, <2>2, <3>3 DEF Bans, CrossingsArePunished, tables
  <2>7. Alerts'
    BY <2>1, <2>2, AlertsKept DEF tables
  <2> QED
    BY <2>3, <2>4, <2>5, <2>6, <2>7
<1> QED
    BY <1>1, <1>2

LEMMA BanIInv ==
    ASSUME IInv, NEW c \in Conns, Ban(c)
    PROVE  IInv'
<1> USE DEF IInv
<1>0. /\ conn' \in [Conns -> ConnType]
      /\ conn'[c].at = "dispatch" /\ conn'[c].ip = conn[c].ip
      /\ conn'[c].crossed = conn[c].crossed /\ conn'[c].admitted = conn[c].admitted
      /\ conn'[c].recorded = conn[c].recorded /\ conn'[c].alerted = conn[c].alerted
      /\ \A d \in Conns \ {c} : conn'[d] = conn[d]
    BY GoToMoves DEF Ban, Places
<1>1. /\ conn[c].at = "ban" /\ conn[c].ip \in IPs /\ conn[c].alerted = -1
      /\ now \in 0 .. MaxTime /\ now \in Nat /\ BanDuration \in Nat /\ MaxTime \in Nat
    BY TimeTypes DEF Journeys, Journey, Ban
<1>2. /\ banned' = [banned EXCEPT ![conn[c].ip] = now + BanDuration]
      /\ bannedTo' = [bannedTo EXCEPT ![conn[c].ip] = now + BanDuration]
      /\ UNCHANGED <<now, ipBuckets, subnetBucket, scores, lastAlerted, pool, stop, accepting,
                     panicked>>
    BY DEF Ban
<1>3. TypeOK' /\ ScoreTypes' /\ QueueTypes'
  <2>1. now + BanDuration \in -1 .. MaxTime + BanDuration
    BY <1>1
  <2> QED
    BY <1>0, <1>2, <2>1 DEF TypeOK, ScoreTypes, QueueTypes, pool
<1>4. Journeys'
  <2>1. Journey(conn[c])'
    BY <1>0, <1>1, <1>2 DEF Journeys, Journey
  <2>2. ASSUME NEW d \in Conns \ {c} PROVE Journey(conn[d])'
    BY <1>0, <1>1, <1>2 DEF Journeys, Journey
  <2> QED
    BY <2>1, <2>2 DEF Journeys
<1>5. Limits'
    BY <1>0, <1>2, LimitsKept
<1>6. Bans'
  <2>1. \A ip \in IPs : banned'[ip] <= bannedTo'[ip]
    BY <1>1, <1>2 DEF TypeOK, Bans
  <2>2. ASSUME NEW d \in Conns, conn'[d].crossed, conn'[d].at \in {"dispatch", "send", "done"}
        PROVE  bannedTo'[conn'[d].ip] >= conn'[d].recorded
    <3>1. conn'[d].ip = conn[d].ip /\ conn'[d].recorded = conn[d].recorded
      BY <1>0
    <3>2. conn[d].recorded \in Int /\ conn[d].recorded <= now
      BY TimeTypes DEF Journeys, Journey
    <3>3. CASE conn[d].ip = conn[c].ip
      BY <1>1, <1>2, <3>1, <3>2, <3>3 DEF TypeOK
    <3>4. CASE conn[d].ip # conn[c].ip
      <4>1. conn'[d] = conn[d] /\ bannedTo'[conn[d].ip] = bannedTo[conn[d].ip]
        <5>1. d # c
          BY <3>4
        <5>2. conn[d].ip \in IPs
          BY <1>0, <2>2, <5>1 DEF Journeys, Journey
        <5> QED
          BY <1>0, <1>2, <3>4, <5>1, <5>2 DEF TypeOK
      <4> QED
        BY <2>2, <4>1 DEF Bans, CrossingsArePunished
    <3> QED
      BY <3>3, <3>4
  <2> QED
    BY <2>1, <2>2 DEF Bans, CrossingsArePunished
<1>7. Alerts'
    BY <1>0, <1>2, AlertsKept
<1> QED
    BY <1>3, <1>4, <1>5, <1>6, <1>7

\* An address that is not silenced was last alerted of a window ago, and so was
\* every other connection of it.
LEMMA DispatchIInv ==
    ASSUME IInv, NEW c \in Conns, Dispatch(c)
    PROVE  IInv'
<1> USE DEF IInv
<1> DEFINE ip == conn[c].ip
<1>1. /\ conn[c].at = "dispatch" /\ ip \in IPs /\ conn[c].alerted = -1
      /\ now \in 0 .. MaxTime /\ now \in Nat /\ AlertWindow \in Nat /\ MaxTime \in Nat
      /\ UNCHANGED <<now, ipBuckets, subnetBucket, scores, banned, bannedTo, pool, stop,
                     accepting, panicked>>
    BY TimeTypes DEF Journeys, Journey, Dispatch
<1>2. \E place \in {"done", "send"}, time \in {now, -1} :
        /\ conn' = [conn EXCEPT ![c].at = place, ![c].alerted = time]
        /\ \/ place = "done" /\ time = -1 /\ lastAlerted' = lastAlerted
           \/ /\ place = "send" /\ time = now /\ ~Silenced(ip)
              /\ lastAlerted' = [lastAlerted EXCEPT ![ip] = now]
  <2>1. CASE GoTo(c, "done") /\ UNCHANGED lastAlerted
    <3>1. conn' = [conn EXCEPT ![c].at = "done", ![c].alerted = -1]
      BY <1>1, <2>1 DEF GoTo, TypeOK, ConnType
    <3> QED
      BY <2>1, <3>1
  <2>2. CASE /\ ~Silenced(ip) /\ lastAlerted' = [lastAlerted EXCEPT ![ip] = now]
             /\ conn' = [conn EXCEPT ![c].at = "send", ![c].alerted = now]
    BY <2>2
  <2> QED
    BY <2>1, <2>2 DEF Dispatch
<1>3. PICK place \in {"done", "send"}, time \in {now, -1} :
        /\ conn' = [conn EXCEPT ![c].at = place, ![c].alerted = time]
        /\ \/ place = "done" /\ time = -1 /\ lastAlerted' = lastAlerted
           \/ /\ place = "send" /\ time = now /\ ~Silenced(ip)
              /\ lastAlerted' = [lastAlerted EXCEPT ![ip] = now]
    BY <1>2
<1>4. /\ conn'[c].at = place /\ conn'[c].ip = conn[c].ip
      /\ conn'[c].crossed = conn[c].crossed /\ conn'[c].admitted = conn[c].admitted
      /\ conn'[c].recorded = conn[c].recorded /\ conn'[c].alerted = time
      /\ \A d \in Conns \ {c} : conn'[d] = conn[d]
    BY <1>3 DEF TypeOK, ConnType
<1>5. place \in Places /\ time \in Times /\ now \in Times
    BY <1>1 DEF Places, Times
<1>6. conn' \in [Conns -> ConnType]
  <2> DEFINE k == [conn[c] EXCEPT !.at = place, !.alerted = time]
  <2>1. k \in ConnType
    BY <1>5 DEF TypeOK, ConnType
  <2>2. conn' = [conn EXCEPT ![c] = k]
    BY <1>3 DEF TypeOK, ConnType
  <2> HIDE DEF k
  <2> QED
    BY <2>1, <2>2 DEF TypeOK
<1>7. lastAlerted' \in [IPs -> Times]
    BY <1>3, <1>5 DEF TypeOK
<1>8. TypeOK' /\ ScoreTypes' /\ QueueTypes'
    BY <1>1, <1>6, <1>7 DEF TypeOK, ScoreTypes, QueueTypes, pool
<1>9. Journeys'
  <2>1. now' = now /\ \A d \in Conns : Journey(conn[d])
    BY <1>1 DEF Journeys
  <2>2. /\ conn'[c].at = place /\ place \in {"done", "send"} /\ (place = "done" => time = -1)
        /\ conn[c].at = "dispatch"
    BY <1>1, <1>3, <1>4 DEF Dispatch
  <2>3. Journey(conn[c])'
    BY <1>4, <2>1, <2>2 DEF Journey
  <2>4. ASSUME NEW d \in Conns \ {c} PROVE Journey(conn[d])'
    BY <1>4, <2>1 DEF Journey
  <2> QED
    BY <2>3, <2>4 DEF Journeys
<1>10. Limits'
    BY <1>1, <1>4, LimitsKept
<1>11. Bans'
  <2>1. \A d \in Conns :
            /\ conn'[d].crossed = conn[d].crossed
            /\ conn'[d].ip = conn[d].ip /\ conn'[d].recorded = conn[d].recorded
            /\ conn'[d].at \in {"dispatch", "send", "done"} =>
                    conn[d].at \in {"dispatch", "send", "done"}
    BY <1>1, <1>4
  <2> QED
    BY <1>1, <2>1, BansKept
<1>12. Alerts'
  <2>1. CASE place = "done"
    <3>1. lastAlerted' = lastAlerted /\ time = -1
      BY <1>3, <2>1
    <3> QED
      BY <1>1, <1>4, <3>1, AlertsKept
  <2>2. CASE place = "send"
    <3>1. /\ time = now /\ lastAlerted'[ip] = now
          /\ \A x \in IPs \ {ip} : lastAlerted'[x] = lastAlerted[x]
          /\ lastAlerted[ip] = -1 \/ now - lastAlerted[ip] >= AlertWindow
          /\ \A x \in IPs : lastAlerted[x] \in Int
      <4>1. time = now /\ ~Silenced(ip) /\ lastAlerted' = [lastAlerted EXCEPT ![ip] = now]
        BY <1>3, <2>2
      <4>2. \A x \in IPs : lastAlerted[x] \in Int
        BY TimeTypes
      <4> QED
        BY <1>1, <4>1, <4>2 DEF TypeOK, Silenced
    <3>2. \A d \in Conns : conn[d].alerted \in Int /\ conn[d].alerted >= -1
      BY TimeTypes
    <3>3. ASSUME NEW d \in Conns \ {c}, conn[d].ip = ip, conn[d].alerted # -1
          PROVE  now - conn[d].alerted >= AlertWindow /\ conn[d].alerted <= now
      BY <1>1, <3>1, <3>2, <3>3 DEF Alerts
    <3>4. OneAlertPerWindow'
      <4> SUFFICES ASSUME NEW a \in Conns, NEW b \in Conns, a # b, conn'[a].ip = conn'[b].ip,
                          conn'[a].alerted # -1, conn'[a].alerted <= conn'[b].alerted
                   PROVE  conn'[b].alerted - conn'[a].alerted >= AlertWindow
        BY DEF OneAlertPerWindow
      <4>1. CASE b = c
        BY <1>4, <3>1, <3>3, <4>1
      <4>2. CASE a = c
        <5>1. conn[b].alerted # -1 /\ now <= conn[b].alerted
          BY <1>1, <1>4, <3>1, <4>2
        <5>2. now - conn[b].alerted >= AlertWindow
          BY <1>4, <3>3, <4>2, <5>1
        <5> QED
          BY <1>1, <1>4, <3>1, <3>2, <4>2, <5>1, <5>2
      <4>3. CASE a # c /\ b # c
        BY <1>4, <4>3 DEF Alerts, OneAlertPerWindow
      <4> QED
        BY <4>1, <4>2, <4>3
    <3>5. \A x \in IPs : lastAlerted'[x] <= now'
      BY <1>1, <3>1 DEF Alerts
    <3>6. ASSUME NEW d \in Conns, conn'[d].alerted # -1
          PROVE  conn'[d].alerted <= lastAlerted'[conn'[d].ip]
      <4>1. CASE d = c
        BY <1>1, <1>4, <3>1, <4>1
      <4>2. CASE d # c /\ conn[d].ip = ip
        BY <1>4, <3>1, <3>3, <3>6, <4>2
      <4>3. CASE d # c /\ conn[d].ip # ip
        <5>1. conn[d].ip \in IPs
          BY <1>4, <3>6, <4>3 DEF Journeys, Journey
        <5> QED
          BY <1>4, <3>1, <3>6, <4>3, <5>1 DEF Alerts
      <4> QED
        BY <4>1, <4>2, <4>3
    <3> QED
      BY <3>4, <3>5, <3>6 DEF Alerts
  <2> QED
    BY <1>3, <2>1, <2>2
<1> QED
    BY <1>8, <1>9, <1>10, <1>11, <1>12

LEMMA SendIInv ==
    ASSUME IInv, NEW c \in Conns, Send(c)
    PROVE  IInv'
<1> USE DEF IInv
<1>0. /\ conn' \in [Conns -> ConnType]
      /\ conn'[c].at = "done" /\ conn'[c].ip = conn[c].ip
      /\ conn'[c].crossed = conn[c].crossed /\ conn'[c].admitted = conn[c].admitted
      /\ conn'[c].recorded = conn[c].recorded /\ conn'[c].alerted = conn[c].alerted
      /\ \A d \in Conns \ {c} : conn'[d] = conn[d]
    BY GoToMoves DEF Send, Places
<1>1. conn[c].at = "send" /\ conn[c].ip \in IPs
    BY DEF Journeys, Journey, Send
<1>2. UNCHANGED <<now, tables, chanClosed, worker, stop, accepting>>
    BY DEF Send
<1>3. eventChan' \in Seq(IPs) /\ Len(eventChan') <= QueueCapacity
  <2>1. eventChan \in Seq(IPs) /\ Len(eventChan) <= QueueCapacity /\ QueueCapacity \in Nat
    BY SecurityDaemonAssumption DEF TypeOK, QueueTypes
  <2>2. CASE eventChan' = eventChan
    BY <2>1, <2>2
  <2>3. CASE eventChan' = Append(eventChan, conn[c].ip) /\ Len(eventChan) < QueueCapacity
    <3>1. /\ Append(eventChan, conn[c].ip) \in Seq(IPs)
          /\ Len(Append(eventChan, conn[c].ip)) = Len(eventChan) + 1 /\ Len(eventChan) \in Nat
      BY <1>1, <2>1, AppendProperties
    <3> QED
      BY <2>1, <2>3, <3>1
  <2> QED
    BY <2>2, <2>3 DEF Send
<1>4. TypeOK' /\ ScoreTypes' /\ QueueTypes'
  <2>1. {chanClosed, accepting, panicked}' \subseteq BOOLEAN
    BY <1>2, Zenon DEF TypeOK, Send
  <2> QED
    BY <1>0, <1>2, <1>3, <2>1 DEF TypeOK, ScoreTypes, QueueTypes, tables
<1>5. Journeys'
  <2>1. Journey(conn[c])'
    BY <1>0, <1>1, <1>2 DEF Journeys, Journey
  <2>2. ASSUME NEW d \in Conns \ {c} PROVE Journey(conn[d])'
    BY <1>0, <1>1, <1>2 DEF Journeys, Journey
  <2> QED
    BY <2>1, <2>2 DEF Journeys
<1>6. Limits'
    BY <1>0, <1>2, LimitsKept DEF tables
<1>7. Bans'
    BY <1>0, <1>1, <1>2, BansKept DEF tables
<1>8. Alerts'
    BY <1>0, <1>2, AlertsKept DEF tables
<1> QED
    BY <1>4, <1>5, <1>6, <1>7, <1>8

\* The steps of the workers and of Stop, which touch no table.
LEMMA PoolIInv ==
    ASSUME IInv, UNCHANGED <<now, conn, tables>>,
           worker' \in [Workers -> {"idle", "sending", "ended"}],
           stop' \in {"running", "cancelled", "draining", "cancelledPool", "joining", "stopped"},
           {chanClosed, accepting, panicked}' \subseteq BOOLEAN,
           eventChan' \in Seq(IPs), Len(eventChan') <= QueueCapacity
    PROVE  IInv'
<1> USE DEF IInv
<1>1. TypeOK' /\ ScoreTypes' /\ QueueTypes'
    BY DEF TypeOK, ScoreTypes, QueueTypes, tables
<1>2. Journeys'
    BY DEF Journeys, Journey
<1>3. Limits'
    BY LimitsKept DEF tables
<1>4. Bans'
    BY BansKept DEF tables
<1>5. Alerts'
    BY AlertsKept DEF tables
<1> QED
    BY <1>1, <1>2, <1>3, <1>4, <1>5

LEMMA WorkerIInv ==
    ASSUME IInv, NEW w \in Workers, WorkerSteps(w)
    PROVE  IInv'
<1>1. /\ UNCHANGED <<now, conn, tables, chanClosed, stop, accepting, panicked>>
      /\ worker' \in [Workers -> {"idle", "sending", "ended"}]
    BY DEF IInv, TypeOK, WorkerSteps, TakeAlert, SendAlert, WorkerEnds
<1>2. eventChan' \in Seq(IPs) /\ Len(eventChan') <= QueueCapacity
  <2>1. eventChan \in Seq(IPs) /\ Len(eventChan) <= QueueCapacity /\ QueueCapacity \in Nat
    BY SecurityDaemonAssumption DEF IInv, TypeOK, QueueTypes
  <2>2. CASE eventChan' = eventChan
    BY <2>1, <2>2
  <2>3. CASE eventChan' = Tail(eventChan) /\ eventChan # <<>>
    <3>1. /\ Tail(eventChan) \in Seq(IPs) /\ Len(Tail(eventChan)) = Len(eventChan) - 1
          /\ Len(eventChan) \in Nat
      BY <2>1, <2>3, HeadTailProperties, LenProperties
    <3> QED
      BY <2>1, <2>3, <3>1
  <2> QED
    BY <2>2, <2>3 DEF WorkerSteps, TakeAlert, SendAlert, WorkerEnds
<1>3. {chanClosed, accepting, panicked}' \subseteq BOOLEAN
    BY <1>1 DEF IInv, TypeOK
<1>4. stop' \in {"running", "cancelled", "draining", "cancelledPool", "joining", "stopped"}
    BY <1>1 DEF IInv, TypeOK
<1> QED
    BY <1>1, <1>2, <1>3, <1>4, PoolIInv

LEMMA StopIInv ==
    ASSUME IInv, Cancel \/ StopSteps
    PROVE  IInv'
<1>1. /\ UNCHANGED <<now, conn, tables, eventChan, worker, panicked>>
      /\ stop' \in {"running", "cancelled", "draining", "cancelledPool", "joining", "stopped"}
    BY DEF IInv, TypeOK, StopSteps, Cancel, CloseListener, AcceptLoopEnds, CancelPool,
           CloseQueue, JoinWorkers, Stopping, pool
<1>2. (chanClosed' = chanClosed \/ chanClosed' = TRUE)
      /\ (accepting' = accepting \/ accepting' = FALSE)
    BY DEF StopSteps, Cancel, CloseListener, AcceptLoopEnds, CancelPool,
           CloseQueue, JoinWorkers, pool
<1>3. {chanClosed, accepting, panicked}' \subseteq BOOLEAN
    BY <1>1, <1>2, Zenon DEF IInv, TypeOK
<1>4. worker' \in [Workers -> {"idle", "sending", "ended"}]
    BY <1>1 DEF IInv, TypeOK
<1>5. eventChan' \in Seq(IPs) /\ Len(eventChan') <= QueueCapacity
    BY <1>1 DEF IInv, TypeOK, QueueTypes
<1> QED
    BY <1>1, <1>3, <1>4, <1>5, PoolIInv
-----------------------------------------------------------------------------
LEMMA CleanBucketsIInv ==
    ASSUME IInv, CleanBuckets
    PROVE  IInv'
<1> USE DEF IInv
<1>1. UNCHANGED <<now, conn, scores, banned, lastAlerted, bannedTo, pool, stop, accepting, panicked>>
    BY DEF CleanBuckets
<1>2. /\ ipBuckets' \in [IPs -> BucketType(IPCap)]
      /\ subnetBucket' \in [Subnets -> BucketType(SubnetCap)]
    BY DEF TypeOK, CleanBuckets, BucketType
<1>3. TypeOK' /\ ScoreTypes' /\ QueueTypes'
    BY <1>1, <1>2 DEF TypeOK, ScoreTypes, QueueTypes, pool
<1>4. Journeys'
    BY <1>1 DEF Journeys, Journey
<1>5. Limits'
    BY CleanLimits
<1>6. Bans'
    BY <1>1, BansKept
<1>7. Alerts'
    BY <1>1, AlertsKept
<1> QED
    BY <1>3, <1>4, <1>5, <1>6, <1>7

LEMMA CleanScoresIInv ==
    ASSUME IInv, CleanScores
    PROVE  IInv'
<1> USE DEF IInv
<1>1. UNCHANGED <<now, conn, ipBuckets, subnetBucket, banned, lastAlerted, bannedTo, pool, stop,
                  accepting, panicked>>
    BY DEF CleanScores
<1>2. ScoreTypes'
  <2>1. now \in Nat /\ 0 \in 0 .. now
    BY TimeTypes
  <2> QED
    BY <1>1, <2>1 DEF ScoreTypes, CleanScores
<1>3. TypeOK' /\ QueueTypes'
    BY <1>1, <1>2 DEF TypeOK, ScoreTypes, QueueTypes, pool
<1>4. Journeys'
    BY <1>1 DEF Journeys, Journey
<1>5. Limits'
    BY <1>1, LimitsKept
<1>6. Bans'
    BY <1>1, BansKept
<1>7. Alerts'
    BY <1>1, AlertsKept
<1> QED
    BY <1>2, <1>3, <1>4, <1>5, <1>6, <1>7

LEMMA EvictIInv ==
    ASSUME IInv, Evict
    PROVE  IInv'
<1> USE DEF IInv
<1>1. /\ UNCHANGED <<now, conn, ipBuckets, subnetBucket, scores, lastAlerted, bannedTo, pool, stop,
                     accepting, panicked>>
      /\ \A ip \in IPs : banned'[ip] \in {-1, banned[ip]}
    BY DEF Evict
<1>2. banned' \in [IPs -> -1 .. MaxTime + BanDuration]
  <2>1. -1 \in -1 .. MaxTime + BanDuration
    BY TimeTypes
  <2> QED
    BY <2>1 DEF TypeOK, Evict
<1>3. TypeOK' /\ ScoreTypes' /\ QueueTypes'
    BY <1>1, <1>2 DEF TypeOK, ScoreTypes, QueueTypes, pool
<1>4. Journeys'
    BY <1>1 DEF Journeys, Journey
<1>5. Limits'
    BY <1>1, LimitsKept
<1>6. Bans'
  <2>1. \A ip \in IPs : -1 <= bannedTo[ip]
    BY TimeTypes DEF TypeOK
  <2>2. \A ip \in IPs : banned'[ip] <= bannedTo'[ip]
    BY <1>1, <2>1 DEF Bans
  <2> QED
    BY <1>1, <2>2 DEF Bans, CrossingsArePunished
<1>7. Alerts'
    BY <1>1, AlertsKept
<1> QED
    BY <1>3, <1>4, <1>5, <1>6, <1>7

LEMMA TickIInv ==
    ASSUME IInv, Tick
    PROVE  IInv'
<1> USE DEF IInv
<1>1. /\ now' = now + 1 /\ now' \in 0 .. MaxTime /\ now \in Nat
      /\ UNCHANGED <<conn, tables, pool, stop, accepting, panicked>>
    BY TimeTypes DEF Tick
<1>2. ScoreTypes'
    BY <1>1 DEF ScoreTypes, tables
<1>3. TypeOK' /\ QueueTypes'
    BY <1>1, <1>2 DEF TypeOK, ScoreTypes, QueueTypes, tables, pool
<1>4. Journeys'
  <2>1. \A c \in Conns : conn[c].admitted \in Int /\ conn[c].recorded \in Int
    BY TimeTypes DEF TypeOK, ConnType, Times
  <2> QED
    BY <1>1, <2>1 DEF Journeys, Journey
<1>5. Limits'
    BY TickLimits
<1>6. Bans'
    BY <1>1, BansKept DEF tables
<1>7. Alerts'
    BY <1>1, AlertsKept DEF tables
<1> QED
    BY <1>2, <1>3, <1>4, <1>5, <1>6, <1>7

LEMMA StepIInv ==
    ASSUME IInv, [Next]_vars
    PROVE  IInv'
<1>1. ASSUME NEW c \in Conns, ConnSteps(c) PROVE IInv'
    BY <1>1, GreetIInv, AllowIInv, RecordThreatIInv, TestBanIInv, BanIInv, DispatchIInv, SendIInv
       DEF ConnSteps
<1>2. CASE UNCHANGED vars
  <2>1. {chanClosed, accepting, panicked}' \subseteq BOOLEAN
    BY <1>2 DEF IInv, TypeOK, vars, pool
  <2>2. /\ UNCHANGED <<now, conn, tables>>
        /\ worker' \in [Workers -> {"idle", "sending", "ended"}]
        /\ stop' \in {"running", "cancelled", "draining", "cancelledPool", "joining", "stopped"}
        /\ eventChan' \in Seq(IPs) /\ Len(eventChan') <= QueueCapacity
    BY <1>2 DEF IInv, TypeOK, QueueTypes, vars, pool
  <2> QED
    BY <2>1, <2>2, PoolIInv
<1> QED
    BY <1>1, <1>2, AcceptIInv, WorkerIInv, CleanBucketsIInv, CleanScoresIInv, EvictIInv, TickIInv,
       StopIInv DEF Next
-----------------------------------------------------------------------------
\* A product of naturals is a natural, and a positive factor cancels.
LEMMA Products ==
    ASSUME NEW a \in Nat, NEW b \in Nat, NEW k \in Nat \ {0}
    PROVE  /\ a * k \in Nat
           /\ a * k >= b * k <=> a >= b
           /\ (a * k) \div k = a
<1>1. a * k \in Nat
    OBVIOUS
<1>2. a * k >= b * k <=> a >= b
  <2>1. a * k - b * k = (a - b) * k
    OBVIOUS
  <2>2. a - b >= 0 => (a - b) * k >= 0
    OBVIOUS
  <2>3. a - b < 0 => (a - b) * k < 0
    OBVIOUS
  <2> QED
    BY <1>1, <2>1, <2>2, <2>3
<1>3. (a * k) \div k = a
    OBVIOUS
<1> QED
    BY <1>1, <1>2, <1>3

\* Subsets of two disjoint sets are pairs of subsets.
LEMMA PowerOfSum ==
    ASSUME NEW a \in Nat, NEW b \in Nat
    PROVE  2 ^ (a + b) = 2 ^ a * 2 ^ b
<1> DEFINE L == 1 .. a
           H == (a + 1) .. (a + b)
           P == (SUBSET L) \X (SUBSET H)
           f == [p \in P |-> p[1] \cup p[2]]
<1>1. IsFiniteSet(H) /\ Cardinality(H) = b
    BY FS_Interval
<1>2. IsFiniteSet(SUBSET H) /\ Cardinality(SUBSET H) = 2 ^ b
    BY <1>1, FS_SUBSET
<1>3. IsFiniteSet(SUBSET L) /\ Cardinality(SUBSET L) = 2 ^ a
    BY PowerIsCount
<1>4. IsFiniteSet(P) /\ Cardinality(P) = 2 ^ a * 2 ^ b
  <2>1. PICK A, B : A = SUBSET L /\ B = SUBSET H
    OBVIOUS
  <2>2. IsFiniteSet(A) /\ IsFiniteSet(B) /\ Cardinality(A) = 2 ^ a /\ Cardinality(B) = 2 ^ b
    BY <1>2, <1>3, <2>1
  <2>3. IsFiniteSet(A \X B) /\ Cardinality(A \X B) = Cardinality(A) * Cardinality(B)
    BY <2>2, FS_Product
  <2>4. P = A \X B
    BY <2>1
  <2> HIDE DEF P
  <2> QED
    BY <2>2, <2>3, <2>4
<1>5. f \in Bijection(P, SUBSET (1 .. (a + b)))
  <2>1. f \in [P -> SUBSET (1 .. (a + b))]
    OBVIOUS
  <2>2. ASSUME NEW p \in P, NEW q \in P, f[p] = f[q] PROVE p = q
    <3>1. p[1] \cup p[2] = q[1] \cup q[2]
        BY <2>2
    <3>2. L \cap H = {}
        OBVIOUS
    <3> QED
        BY <3>1, <3>2
  <2>3. ASSUME NEW T \in SUBSET (1 .. (a + b)) PROVE \E p \in P : f[p] = T
    <3>1. <<T \cap L, T \cap H>> \in P
        OBVIOUS
    <3>2. (T \cap L) \cup (T \cap H) = T
      <4>1. \A i \in T : i \in L \/ i \in H
        OBVIOUS
      <4> HIDE DEF L, H
      <4> QED
        BY <4>1
    <3> QED
        BY <3>1, <3>2
  <2> HIDE DEF f, P
  <2> QED
    BY <2>1, <2>2, <2>3 DEF Bijection, Injection, Surjection, IsInjective
<1>6. Cardinality(SUBSET (1 .. (a + b))) = Cardinality(P)
    BY <1>4, <1>5, FS_Bijection DEF ExistsBijection
<1>7. a + b \in Nat
    OBVIOUS
<1>8. 2 ^ (a + b) = Cardinality(SUBSET (1 .. (a + b)))
    BY <1>7, PowerIsCount
<1> HIDE DEF P
<1> QED
    BY <1>4, <1>6, <1>8

-----------------------------------------------------------------------------
\* One point at tick t, in units of one point at the first tick: what a point
\* decays to does not depend on when it is looked at.
Worth(t) == 2 ^ (HalvingsPerTick * t)
Mass(k, cs) ==
    Cardinality({p \in cs \X Nat : p[2] \in 1 .. Points * Worth(k[p[1]].recorded)})
Recorded(k, ip) == {c \in Conns : k[c].ip = ip /\ k[c].recorded # -1}

LEMMA ScoreAssumption ==
    /\ Points \in Nat /\ BanThreshold \in Nat /\ HalvingsPerTick \in Nat /\ MaxTime \in Nat
    /\ MaxConns \in Nat
BY SecurityDaemonAssumption

\* What a point is worth grows by a factor that only depends on the time between.
LEMMA WorthFacts ==
    /\ \A t \in Nat : Worth(t) \in Nat \ {0} /\ HalvingsPerTick * t \in Nat
    /\ \A s, t \in Nat : Worth(s + t) = Worth(s) * Worth(t)
    /\ \A s, t \in Nat : s <= t => Worth(s) <= Worth(t) /\ Points * Worth(s) <= Points * Worth(t)
<1>1. \A t \in Nat : HalvingsPerTick * t \in Nat
    BY ScoreAssumption
<1>2. ASSUME NEW s \in Nat, NEW t \in Nat PROVE Worth(s + t) = Worth(s) * Worth(t)
  <2>1. HalvingsPerTick * (s + t) = HalvingsPerTick * s + HalvingsPerTick * t
    BY ScoreAssumption
  <2> QED
    BY <1>1, <2>1, PowerOfSum DEF Worth
<1>3. \A t \in Nat : Worth(t) \in Nat \ {0}
    BY <1>1, PowerIsCount DEF Worth
<1>4. ASSUME NEW s \in Nat, NEW t \in Nat, s <= t
      PROVE  Worth(s) <= Worth(t) /\ Points * Worth(s) <= Points * Worth(t)
  <2>1. PICK k \in Nat : k = t - s
    BY <1>4
  <2>2. Worth(t) = Worth(k) * Worth(s)
    BY <1>2, <2>1
  <2>3. PICK i, j \in Nat : i = Worth(s) /\ j = Worth(k) /\ j >= 1
    BY <1>3
  <2>4. j * i >= i
    BY <2>3
  <2>5. Points * (j * i) >= Points * i
    BY <2>3, <2>4, ScoreAssumption
  <2> QED
    BY <2>2, <2>3, <2>4, <2>5
<1> QED
    BY <1>1, <1>2, <1>3, <1>4

\* The mass of a set of probes is a sum.
LEMMA MassAdds ==
    ASSUME NEW k, NEW cs \in SUBSET Conns, \A c \in cs : k[c].recorded \in 0 .. MaxTime
    PROVE  /\ Mass(k, cs) \in Nat
           /\ \A x \in cs : Mass(k, cs) = Points * Worth(k[x].recorded) + Mass(k, cs \ {x})
           /\ \A ds \in SUBSET cs : Mass(k, ds) <= Mass(k, cs)
           /\ cs = {} => Mass(k, cs) = 0
<1> DEFINE part(x) == 1 .. Points * Worth(k[x].recorded)
           set(ds) == {p \in ds \X Nat : p[2] \in part(p[1])}
<1>0. \A x \in cs : k[x].recorded \in Nat /\ k[x].recorded <= MaxTime
    BY ScoreAssumption
<1>1. ASSUME NEW x \in cs
      PROVE  /\ Points * Worth(k[x].recorded) \in Nat
             /\ IsFiniteSet({x} \X part(x))
             /\ Cardinality({x} \X part(x)) = Points * Worth(k[x].recorded)
  <2>1. Points * Worth(k[x].recorded) \in Nat
    <3>1. Worth(k[x].recorded) \in Nat \ {0}
      BY <1>0, WorthFacts
    <3> QED
      BY <3>1, ScoreAssumption, Products
  <2>2. PICK n \in Nat : n = Points * Worth(k[x].recorded)
    BY <2>1
  <2>3. IsFiniteSet(part(x)) /\ Cardinality(part(x)) = n
    BY <2>2, FS_Interval
  <2>4. IsFiniteSet({x}) /\ Cardinality({x}) = 1
    BY FS_Singleton
  <2>5. IsFiniteSet({x} \X part(x)) /\ Cardinality({x} \X part(x)) = 1 * n
    BY <2>3, <2>4, FS_Product
  <2> QED
    BY <2>2, <2>5
<1>2. IsFiniteSet(set(cs))
  <2>1. PICK m \in Nat : m = Points * Worth(MaxTime)
    BY ScoreAssumption, WorthFacts, Products
  <2>2. IsFiniteSet(cs \X (1 .. m))
    <3>1. IsFiniteSet(Conns) /\ IsFiniteSet(1 .. m)
      BY FS_Interval, ScoreAssumption DEF Conns
    <3>2. IsFiniteSet(cs)
      BY <3>1, FS_Subset
    <3> QED
      BY <3>1, <3>2, FS_Product
  <2>3. ASSUME NEW x \in cs PROVE part(x) \subseteq 1 .. m
    <3>1. Points * Worth(k[x].recorded) <= m
      BY <1>0, <2>1, WorthFacts, ScoreAssumption
    <3>2. PICK q \in Nat : q = Points * Worth(k[x].recorded)
      BY <1>1
    <3> QED
      BY <3>1, <3>2
  <2>4. set(cs) \subseteq cs \X (1 .. m)
    BY <2>3
  <2> QED
    BY <2>2, <2>4, FS_Subset
<1>3. ASSUME NEW ds \in SUBSET cs PROVE IsFiniteSet(set(ds)) /\ Cardinality(set(ds)) <= Cardinality(set(cs))
  <2>1. set(ds) \in SUBSET set(cs)
    OBVIOUS
  <2> QED
    BY <1>2, <2>1, FS_Subset
<1>4. ASSUME NEW x \in cs
      PROVE  Cardinality(set(cs)) = Points * Worth(k[x].recorded) + Cardinality(set(cs \ {x}))
  <2>1. set(cs) = set(cs \ {x}) \cup ({x} \X part(x))
    BY <1>1
  <2>2. set(cs \ {x}) \cap ({x} \X part(x)) = {}
    OBVIOUS
  <2>3. Cardinality(set(cs \ {x}) \cap ({x} \X part(x))) = 0
    BY <2>2, FS_EmptySet
  <2>4. IsFiniteSet(set(cs \ {x})) /\ Cardinality(set(cs \ {x})) \in Nat
    BY <1>3, FS_CardinalityType
  <2>5. PICK u, v : u = set(cs \ {x}) /\ v = {x} \X part(x)
    OBVIOUS
  <2>6. Cardinality(u \cup v) = Cardinality(u) + Cardinality(v) - Cardinality(u \cap v)
    BY <1>1, <2>4, <2>5, FS_Union
  <2>7. PICK i \in Nat, j \in Nat : /\ i = Points * Worth(k[x].recorded) /\ i = Cardinality(v)
                                   /\ j = Cardinality(u) /\ Cardinality(u \cap v) = 0
    BY <1>1, <2>3, <2>4, <2>5
  <2> HIDE DEF set, part
  <2>8. Cardinality(set(cs)) = Cardinality(u \cup v)
    BY <2>1, <2>5
  <2> QED
    BY <2>5, <2>6, <2>7, <2>8
<1>5. cs = {} => Cardinality(set(cs)) = 0
  <2>1. cs = {} => set(cs) = {}
    OBVIOUS
  <2> QED
    BY <2>1, FS_EmptySet
<1>6. Mass(k, cs) = Cardinality(set(cs)) /\ \A ds \in SUBSET cs : Mass(k, ds) = Cardinality(set(ds))
    BY DEF Mass
<1> QED
    BY <1>2, <1>3, <1>4, <1>5, <1>6, FS_CardinalityType

\* One summand of Weight.
Weigh(c, t) == (Points * Unit) \div 2 ^ (HalvingsPerTick * (t - conn[c].recorded))

\* Some member of a set of subsets has no other one below it.
LEMMA SmallestSubset ==
    ASSUME NEW S, IsFiniteSet(S), NEW W, W \subseteq SUBSET S, W # {}
    PROVE  \E T \in W : \A U \in W : U \subseteq T => U = T
<1>1. IsWellFoundedOn(StrictSubsetOrdering(S), SUBSET S)
    BY FS_StrictSubsetOrderingWellFounded, FS_FiniteSubsetsOfFinite
<1>2. PICK T \in W : \A U \in W : ~(<<U, T>> \in StrictSubsetOrdering(S))
    BY <1>1, WFMin
<1> QED
    BY <1>2 DEF StrictSubsetOrdering

LEMMA WeighIs ==
    ASSUME NEW t \in 0 .. MaxTime, NEW c \in Conns, conn[c].recorded \in 0 .. t
    PROVE  /\ Weigh(c, t) = Points * Worth(conn[c].recorded) * Worth(MaxTime - t)
           /\ Points * Worth(conn[c].recorded) \in Nat
<1>1. PICK r \in Nat, k \in Nat, j \in Nat : r = conn[c].recorded /\ k = t - r /\ j = MaxTime - t
    BY ScoreAssumption
<1>2. MaxTime = (r + j) + k /\ r + j \in Nat
    BY <1>1, ScoreAssumption
<1>3. Unit = Worth(r) * Worth(j) * Worth(k)
  <2>1. Unit = Worth((r + j) + k)
    BY <1>2 DEF Unit, Worth
  <2>2. Worth((r + j) + k) = Worth(r + j) * Worth(k) /\ Worth(r + j) = Worth(r) * Worth(j)
    BY <1>2, WorthFacts
  <2> QED
    BY <2>1, <2>2
<1>4. PICK a \in Nat, b \in Nat, d \in Nat \ {0} : a = Worth(r) /\ b = Worth(j) /\ d = Worth(k)
    BY <1>1, WorthFacts
<1>5. Points * Unit = (Points * a * b) * d
    BY <1>3, <1>4, ScoreAssumption
<1>6. Points * a \in Nat /\ Points * a * b \in Nat
    BY <1>4, ScoreAssumption
<1>7. ((Points * a * b) * d) \div d = Points * a * b
    BY <1>4, <1>6, Products
<1> QED
    BY <1>1, <1>4, <1>5, <1>6, <1>7 DEF Weigh, Worth

\* The sum of the closed form is the mass at that tick.  The fold takes the
\* probes in an order of its own: a smallest set for which it were wrong would
\* not be empty, and without the probe taken first it would be wrong already.
LEMMA WeightIsMass ==
    ASSUME NEW t \in 0 .. MaxTime, NEW cs \in SUBSET Conns, \A c \in cs : conn[c].recorded \in 0 .. t
    PROVE  Weight(cs, t) = Mass(conn, cs) * Worth(MaxTime - t)
<1> DEFINE first(s) == CHOOSE c \in s : TRUE
           isSum(it) == it = [s \in SUBSET cs |->
                IF s = {} THEN 0 ELSE Weigh(first(s), t) + it[s \ {first(s)}]]
           mass == [s \in SUBSET cs |-> Mass(conn, s) * Worth(MaxTime - t)]
           iter == CHOOSE it : isSum(it)
<1>1. Weight(cs, t) = iter[cs]
    BY DEF Weight, MapThenSumSet, MapThenFoldSet, Weigh
<1>2. PICK w \in Nat : w = Worth(MaxTime - t)
    BY WorthFacts, ScoreAssumption
<1>3. ASSUME NEW s \in SUBSET cs
      PROVE  /\ s = {} => mass[s] = 0
             /\ s # {} => first(s) \in s /\ mass[s] = Weigh(first(s), t) + mass[s \ {first(s)}]
  <2>1. \A c \in cs : conn[c].recorded \in 0 .. MaxTime
    BY ScoreAssumption
  <2>2. s = {} => mass[s] = 0
    BY <1>2, <2>1, MassAdds
  <2>3. ASSUME s # {} PROVE first(s) \in s /\ mass[s] = Weigh(first(s), t) + mass[s \ {first(s)}]
    <3>1. PICK x : x = first(s) /\ x \in s
      BY <2>3
    <3>2. /\ Mass(conn, s) = Points * Worth(conn[x].recorded) + Mass(conn, s \ {x})
          /\ Mass(conn, s) \in Nat /\ Mass(conn, s \ {x}) \in Nat
      <4>1. \A c \in s \ {x} : conn[c].recorded \in 0 .. MaxTime
        BY <2>1
      <4>2. Mass(conn, s \ {x}) \in Nat
        BY <4>1, MassAdds
      <4>3. \A c \in s : conn[c].recorded \in 0 .. MaxTime
        BY <2>1
      <4>4. s \in SUBSET Conns
        OBVIOUS
      <4>5. /\ \A c \in s : Mass(conn, s) = Points * Worth(conn[c].recorded) + Mass(conn, s \ {c})
            /\ Mass(conn, s) \in Nat
        BY <4>3, <4>4, MassAdds, Zenon
      <4> QED
        BY <3>1, <4>2, <4>5
    <3>3. Weigh(x, t) = Points * Worth(conn[x].recorded) * w /\ Points * Worth(conn[x].recorded) \in Nat
      BY <1>2, <3>1, WeighIs
    <3>4. PICK i \in Nat, j \in Nat : i = Points * Worth(conn[x].recorded) /\ j = Mass(conn, s \ {x})
      BY <3>2, <3>3
    <3>5. (i + j) * w = i * w + j * w
      BY <1>2
    <3>6. mass[s] = Mass(conn, s) * w /\ mass[s \ {x}] = j * w
      BY <1>2, <3>1, <3>4
    <3> QED
      BY <3>1, <3>2, <3>3, <3>4, <3>5, <3>6
  <2> QED
    BY <2>2, <2>3
<1>4. isSum(mass)
  <2>1. mass = [s \in SUBSET cs |-> mass[s]]
    OBVIOUS
  <2> HIDE DEF mass, first
  <2> QED
    BY <1>3, <2>1
<1>5. isSum(iter)
    BY <1>4
<1> DEFINE W == {s \in SUBSET cs : iter[s] # mass[s]}
<1>6. SUFFICES ASSUME W # {} PROVE FALSE
  <2>1. mass[cs] = Mass(conn, cs) * Worth(MaxTime - t)
    OBVIOUS
  <2> HIDE DEF iter, mass
  <2>2. iter[cs] = mass[cs]
    BY <1>6
  <2> QED
    BY <1>1, <2>1, <2>2
<1> HIDE DEF iter, mass
<1>7. IsFiniteSet(cs)
  <2>1. IsFiniteSet(Conns)
    BY FS_Interval, ScoreAssumption DEF Conns
  <2> QED
    BY <2>1, FS_Subset
<1>8. PICK T \in W : \A U \in W : U \subseteq T => U = T
  <2>1. W \subseteq SUBSET cs
    OBVIOUS
  <2> HIDE DEF W
  <2> QED
    BY <1>6, <1>7, <2>1, SmallestSubset
<1>9. T \in SUBSET cs /\ iter[T] # mass[T]
    BY <1>6, <1>8
<1>10. iter[T] = IF T = {} THEN 0 ELSE Weigh(first(T), t) + iter[T \ {first(T)}]
    BY <1>5, <1>9
<1> HIDE DEF first
<1>11. T # {} /\ first(T) \in T /\ T \ {first(T)} \in SUBSET cs
    BY <1>3, <1>9, <1>10
<1>12. iter[T \ {first(T)}] = mass[T \ {first(T)}]
    BY <1>6, <1>8, <1>11
<1> QED
    BY <1>3, <1>9, <1>10, <1>11, <1>12
-----------------------------------------------------------------------------
\* The score of an entry, in units of one point at the first tick.
Held(e) == e.Score \div Worth(MaxTime - e.LastUpdate)
Entry(e, t) == e \in [Score : Nat, LastUpdate : 0 .. t]

\* What an address has behind it weighs no less than its score, and less than
\* two points more; two points of now, if nothing is left of the score.
Tally(e, m, t) ==
    /\ e.Score = Held(e) * Worth(MaxTime - e.LastUpdate)
    /\ Held(e) <= m
    /\ Held(e) = 0 => m < 2 * Worth(t)
    /\ Held(e) # 0 => /\ Points # 0 /\ Held(e) >= Worth(e.LastUpdate)
                      /\ m < Held(e) + 2 * Worth(e.LastUpdate)

\* An entry holds one number of units.
LEMMA TallyIs ==
    ASSUME NEW t \in 0 .. MaxTime, NEW e, Entry(e, t)
    PROVE  /\ Held(e) \in Nat
           /\ \A b \in Nat : e.Score = b * Worth(MaxTime - e.LastUpdate) => Held(e) = b
<1>1. PICK w \in Nat \ {0} : w = Worth(MaxTime - e.LastUpdate)
  <2>1. MaxTime - e.LastUpdate \in Nat
    BY ScoreAssumption DEF Entry
  <2> QED
    BY <2>1, WorthFacts
<1>2. e.Score \in Nat
    BY DEF Entry
<1>3. e.Score \div w \in Nat
    BY <1>1, <1>2
<1> QED
    BY <1>1, <1>3, Products DEF Held

\* The times at which an entry was changed and is looked at.
LEMMA Spans ==
    ASSUME NEW t \in 0 .. MaxTime, NEW l \in 0 .. t
    PROVE  /\ {Worth(t), Worth(t - l), Worth(MaxTime - t), Worth(l)} \subseteq Nat \ {0}
           /\ Worth(l) <= Worth(t) /\ Worth(t) = Worth(l) * Worth(t - l)
           /\ Unit = Worth(t) * Worth(MaxTime - t)
           /\ Worth(MaxTime - l) = Worth(MaxTime - t) * Worth(t - l)
<1>1. PICK d \in Nat, j \in Nat : d = t - l /\ j = MaxTime - t
    BY ScoreAssumption
<1>2. t \in Nat /\ l \in Nat /\ l <= t /\ t = l + d /\ MaxTime = t + j /\ MaxTime - l = j + d
    BY <1>1, ScoreAssumption
<1>3. /\ Worth(t) = Worth(l) * Worth(d) /\ Worth(t + j) = Worth(t) * Worth(j)
      /\ Worth(j + d) = Worth(j) * Worth(d) /\ Worth(l) <= Worth(t)
    BY <1>1, <1>2, WorthFacts
<1>4. Unit = Worth(t + j)
    BY <1>2 DEF Unit, Worth
<1>5. {Worth(t), Worth(d), Worth(j), Worth(l)} \subseteq Nat \ {0}
    BY <1>1, <1>2, WorthFacts
<1> QED
    BY <1>1, <1>2, <1>3, <1>4, <1>5

\* A probe at t adds its point to what is left.
LEMMA TallyRecorded ==
    ASSUME NEW t \in 0 .. MaxTime, NEW e, Entry(e, t), NEW m \in Nat, Tally(e, m, t), NEW e2,
           e2 = [Score |-> (e.Score \div Worth(t - e.LastUpdate)) + Points * Unit, LastUpdate |-> t]
    PROVE  /\ Entry(e2, t) /\ Tally(e2, m + Points * Worth(t), t)
           /\ m + Points * Worth(t) < Held(e2) + 2 * Worth(t)
           /\ \A n \in Nat : e2.Score >= n * Unit <=> Held(e2) >= n * Worth(t)
<1>1. PICK l \in 0 .. t : l = e.LastUpdate
    BY DEF Entry
<1>2. PICK a, x, y, v \in Nat \ {0} :
            /\ a = Worth(t) /\ x = Worth(t - l) /\ y = Worth(MaxTime - t) /\ v = Worth(l)
            /\ v <= a /\ a = v * x /\ Unit = a * y /\ Worth(MaxTime - l) = y * x
  <2>1. PICK a, x, y, v : a = Worth(t) /\ x = Worth(t - l) /\ y = Worth(MaxTime - t) /\ v = Worth(l)
    OBVIOUS
  <2>2. /\ {a, x, y, v} \subseteq Nat \ {0} /\ v <= a /\ a = v * x /\ Unit = a * y
        /\ Worth(MaxTime - l) = y * x
    BY <2>1, Spans
  <2> QED
    BY <2>1, <2>2
<1>3. Unit = a * y /\ Worth(MaxTime - l) = y * x
    BY <1>2
<1>4. PICK b \in Nat : b = Held(e) /\ e.Score = b * (y * x)
    BY <1>1, <1>3, TallyIs DEF Tally
<1>5. e.Score \div x = b * y
  <2>1. b * (y * x) = (b * y) * x /\ b * y \in Nat
    BY <1>2
  <2> QED
    BY <1>2, <1>4, <2>1, Products
<1>6. PICK pts \in Nat, add \in Nat : pts = Points /\ add = pts * a
    BY <1>2, ScoreAssumption
<1>7. e2.Score = (b + add) * y /\ e2.LastUpdate = t /\ (b + add) * y \in Nat
  <2>1. b * y + pts * (a * y) = (b + add) * y
    BY <1>2, <1>6
  <2> QED
    BY <1>1, <1>2, <1>3, <1>5, <1>6, <2>1
<1>8. Entry(e2, t)
    BY <1>7 DEF Entry
<1>9. Held(e2) = b + add /\ Worth(MaxTime - e2.LastUpdate) = y
    BY <1>1, <1>2, <1>7, <1>8, TallyIs
<1>10. /\ b <= m
       /\ b = 0 => m < 2 * a
       /\ b # 0 => pts # 0 /\ b >= v /\ m < b + 2 * v
    BY <1>1, <1>2, <1>4, <1>6 DEF Tally
<1>11. m + add < b + add + 2 * a
    BY <1>2, <1>10
<1>12. b + add # 0 => pts # 0
    BY <1>6, <1>10
<1>13. pts # 0 => add >= a
    BY <1>2, <1>6
<1>14. Tally(e2, m + add, t)
  <2>1. PICK g \in Nat, n \in Nat : g = b + add /\ n = m + add
    OBVIOUS
  <2>2. g <= n /\ n < g + 2 * a /\ (g = 0 => n < 2 * a) /\ (g # 0 => pts # 0 /\ g >= a)
    BY <1>2, <1>10, <1>11, <1>12, <1>13, <2>1
  <2>3. /\ Held(e2) = g /\ e2.LastUpdate = t /\ Worth(e2.LastUpdate) = a
        /\ e2.Score = g * Worth(MaxTime - e2.LastUpdate)
    BY <1>2, <1>7, <1>9, <2>1
  <2> QED
    BY <1>2, <1>6, <2>1, <2>2, <2>3 DEF Tally
<1>15. ASSUME NEW n \in Nat PROVE e2.Score >= n * Unit <=> Held(e2) >= n * a
  <2>1. n * (a * y) = (n * a) * y /\ n * a \in Nat /\ b + add \in Nat
    BY <1>2
  <2> QED
    BY <1>2, <1>3, <1>7, <1>9, <2>1, Products
<1> QED
    BY <1>2, <1>6, <1>8, <1>9, <1>11, <1>14, <1>15

\* An entry of less than one point is given up when at least half of what was
\* given up before has decayed.
LEMMA TallyCleaned ==
    ASSUME NEW t \in 0 .. MaxTime, NEW e, Entry(e, t), NEW m \in Nat, Tally(e, m, t),
           e.Score \div Worth(t - e.LastUpdate) < Unit
    PROVE  Tally([Score |-> 0, LastUpdate |-> 0], m, t)
<1>1. PICK l \in 0 .. t : l = e.LastUpdate
    BY DEF Entry
<1>2. PICK a, x, y, v \in Nat \ {0} :
            /\ a = Worth(t) /\ x = Worth(t - l) /\ y = Worth(MaxTime - t) /\ v = Worth(l)
            /\ v <= a /\ a = v * x /\ Unit = a * y /\ Worth(MaxTime - l) = y * x
  <2>1. PICK a, x, y, v : a = Worth(t) /\ x = Worth(t - l) /\ y = Worth(MaxTime - t) /\ v = Worth(l)
    OBVIOUS
  <2>2. /\ {a, x, y, v} \subseteq Nat \ {0} /\ v <= a /\ a = v * x /\ Unit = a * y
        /\ Worth(MaxTime - l) = y * x
    BY <2>1, Spans
  <2> QED
    BY <2>1, <2>2
<1>3. Unit = a * y /\ Worth(MaxTime - l) = y * x
    BY <1>2
<1>4. PICK b \in Nat : b = Held(e) /\ e.Score = b * (y * x)
    BY <1>1, <1>3, TallyIs DEF Tally
<1>5. e.Score \div x = b * y
  <2>1. b * (y * x) = (b * y) * x /\ b * y \in Nat
    BY <1>2
  <2> QED
    BY <1>2, <1>4, <2>1, Products
<1>6. b < a
  <2>1. ~(b * y >= a * y)
    BY <1>1, <1>2, <1>3, <1>5
  <2> QED
    BY <1>2, <2>1, Products
<1>7. b # 0 => b >= v /\ m < b + 2 * v
    BY <1>1, <1>2, <1>4 DEF Tally
<1>8. m < 2 * a
  <2>1. b = 0 => m < 2 * a
    BY <1>2, <1>4 DEF Tally
  <2>2. v < v * x => 2 * v <= v * x
    BY <1>2
  <2> QED
    BY <1>2, <1>6, <1>7, <2>1, <2>2
<1> DEFINE none == [Score |-> 0, LastUpdate |-> 0]
<1>9. Entry(none, t) /\ none.Score = 0
    BY ScoreAssumption DEF Entry
<1>10. none.Score = 0 * Worth(MaxTime - none.LastUpdate)
    BY WorthFacts, ScoreAssumption
<1>11. Held(none) = 0
    BY <1>9, <1>10, TallyIs
<1> HIDE DEF none
<1>12. Tally(none, m, t)
    BY <1>2, <1>8, <1>9, <1>10, <1>11 DEF Tally
<1> QED
    BY <1>12 DEF none
-----------------------------------------------------------------------------
\* The probes of an address up to that of c, and those before its tick.
Upto(k, c) == {d \in Recorded(k, k[c].ip) : k[d].recorded <= k[c].recorded}
Before(k, c) == {c} \cup {d \in Recorded(k, k[c].ip) : k[d].recorded < k[c].recorded}

Verdict(k, c) == k[c].recorded # -1 =>
    /\ k[c].crossed => Mass(k, Upto(k, c)) >= BanThreshold * Worth(k[c].recorded)
    /\ Mass(k, Before(k, c)) >= (BanThreshold + 2) * Worth(k[c].recorded) => k[c].crossed

Scoring ==
    /\ \A ip \in IPs : Tally(scores[ip], Mass(conn, Recorded(conn, ip)), now)
    /\ \A c \in Conns : Verdict(conn, c)

Recording(k, t) == \A c \in Conns : k[c].recorded \in -1 .. t

\* The same probes weigh the same.
LEMMA SameMass ==
    ASSUME NEW k, NEW k2, NEW cs, \A c \in cs : k2[c].recorded = k[c].recorded
    PROVE  Mass(k2, cs) = Mass(k, cs)
<1>1. {p \in cs \X Nat : p[2] \in 1 .. Points * Worth(k2[p[1]].recorded)}
        = {p \in cs \X Nat : p[2] \in 1 .. Points * Worth(k[p[1]].recorded)}
    OBVIOUS
<1> QED
    BY <1>1 DEF Mass

\* The probes recorded for an address have a mass, and a part of them no more.
LEMMA RecordedMass ==
    ASSUME NEW k, NEW t \in 0 .. MaxTime, Recording(k, t), NEW ip
    PROVE  /\ Recorded(k, ip) \in SUBSET Conns
           /\ \A c \in Recorded(k, ip) : k[c].recorded \in 0 .. t /\ k[c].recorded \in 0 .. MaxTime
           /\ \A cs \in SUBSET Recorded(k, ip) :
                    Mass(k, cs) \in Nat /\ Mass(k, cs) <= Mass(k, Recorded(k, ip))
<1>1. /\ Recorded(k, ip) \in SUBSET Conns
      /\ \A c \in Recorded(k, ip) : k[c].recorded \in 0 .. t /\ k[c].recorded \in 0 .. MaxTime
    BY ScoreAssumption DEF Recorded, Recording
<1>2. ASSUME NEW cs \in SUBSET Recorded(k, ip)
      PROVE  Mass(k, cs) \in Nat /\ Mass(k, cs) <= Mass(k, Recorded(k, ip))
  <2>1. cs \in SUBSET Conns /\ \A c \in cs : k[c].recorded \in 0 .. MaxTime
    BY <1>1
  <2> QED
    BY <1>1, <2>1, MassAdds
<1> QED
    BY <1>1, <1>2

\* What a verdict rests on stays: later probes only add to what was there up to
\* it, and nothing to what was there before.
LEMMA VerdictStays ==
    ASSUME NEW k, NEW k2, NEW t \in 0 .. MaxTime, Recording(k, t), Recording(k2, t),
           NEW c \in Conns, Verdict(k, c), k2[c].recorded = k[c].recorded,
           k[c].recorded # -1 => k2[c].ip = k[c].ip /\ k2[c].crossed = k[c].crossed,
           \A d \in Conns : k[d].recorded # -1 =>
                k2[d].ip = k[d].ip /\ k2[d].recorded = k[d].recorded,
           \A d \in Conns : k[d].recorded = -1 => k2[d].recorded \in {-1, t}
    PROVE  Verdict(k2, c)
<1> SUFFICES ASSUME k[c].recorded # -1 PROVE Verdict(k2, c)
    BY DEF Verdict
<1>1. PICK ip \in {k[c].ip}, r \in 0 .. t : ip = k[c].ip /\ ip = k2[c].ip /\ r = k[c].recorded /\ r = k2[c].recorded
    BY DEF Recording
<1>2. Recorded(k, ip) \subseteq Recorded(k2, ip)
    BY DEF Recorded
<1>3. Upto(k, c) \subseteq Upto(k2, c) /\ Upto(k2, c) \subseteq Recorded(k2, ip) /\ Upto(k, c) \subseteq Conns
    BY <1>1, <1>2 DEF Upto, Recorded
<1>4. Before(k2, c) = Before(k, c)
  <2>1. ASSUME NEW d \in Conns
        PROVE  d \in Recorded(k2, ip) /\ k2[d].recorded < r <=> d \in Recorded(k, ip) /\ k[d].recorded < r
    <3>1. CASE k[d].recorded # -1
      BY <3>1 DEF Recorded
    <3>2. CASE k[d].recorded = -1
      BY <1>1, <3>2 DEF Recorded
    <3> QED
      BY <3>1, <3>2
  <2>2. Recorded(k, ip) \subseteq Conns /\ Recorded(k2, ip) \subseteq Conns
    BY DEF Recorded
  <2> QED
    BY <1>1, <2>1, <2>2 DEF Before
<1>5. Mass(k2, Upto(k, c)) = Mass(k, Upto(k, c))
  <2>1. \A d \in Upto(k, c) : k2[d].recorded = k[d].recorded
    BY DEF Upto, Recorded
  <2> QED
    BY <2>1, SameMass
<1>6. Mass(k2, Before(k, c)) = Mass(k, Before(k, c))
  <2>1. \A d \in Before(k, c) : k2[d].recorded = k[d].recorded
    BY DEF Before, Recorded
  <2> QED
    BY <2>1, SameMass
<1>7. Mass(k2, Upto(k, c)) \in Nat /\ Mass(k2, Upto(k2, c)) \in Nat /\ Mass(k2, Upto(k, c)) <= Mass(k2, Upto(k2, c))
  <2>1. Upto(k2, c) \in SUBSET Conns /\ \A d \in Upto(k2, c) : k2[d].recorded \in 0 .. MaxTime
    BY <1>3, RecordedMass
  <2>2. Mass(k2, Upto(k2, c)) \in Nat
    BY <1>3, RecordedMass
  <2>3. Upto(k, c) \in SUBSET Recorded(k2, ip)
    BY <1>3
  <2>4. Mass(k2, Upto(k, c)) \in Nat
    BY <2>3, RecordedMass
  <2> QED
    BY <1>3, <2>1, <2>2, <2>4, MassAdds
<1>8. PICK w \in Nat : w = BanThreshold * Worth(r)
  <2>1. r \in Nat
    BY ScoreAssumption
  <2>2. Worth(r) \in Nat \ {0}
    BY <2>1, WorthFacts
  <2> QED
    BY <2>2, ScoreAssumption, Products
<1> QED
    BY <1>1, <1>4, <1>5, <1>6, <1>7, <1>8 DEF Verdict

\* What the other invariants say of scores and recorded probes.
LEMMA ScoreFacts ==
    ASSUME TypeOK, ScoreTypes, Journeys
    PROVE  /\ now \in 0 .. MaxTime /\ now \in Nat /\ Recording(conn, now)
           /\ \A ip \in IPs : Entry(scores[ip], now)
           /\ \A c \in Conns : conn[c].recorded # -1 => conn[c].ip \in IPs
<1>1. now \in 0 .. MaxTime /\ now \in Nat
    BY ScoreAssumption DEF TypeOK
<1>2. Recording(conn, now)
    BY <1>1, ScoreAssumption DEF TypeOK, ConnType, Times, Journeys, Journey, Recording
<1>3. \A ip \in IPs : Entry(scores[ip], now)
    BY DEF ScoreTypes, Entry
<1>4. \A c \in Conns : conn[c].recorded # -1 => conn[c].ip \in IPs
    BY DEF Journeys, Journey, NoConn
<1> QED
    BY <1>1, <1>2, <1>3, <1>4

\* Steps that record and tidy nothing, and time.
LEMMA ScoringKept ==
    ASSUME TypeOK, ScoreTypes, Journeys, Scoring, (TypeOK /\ ScoreTypes /\ Journeys)',
           UNCHANGED scores, now <= now',
           \A c \in Conns : conn'[c].recorded = conn[c].recorded,
           \A c \in Conns : conn[c].recorded # -1 =>
                conn'[c].ip = conn[c].ip /\ conn'[c].crossed = conn[c].crossed
    PROVE  Scoring'
<1>1. PICK k, k2, s, t, t2 : k = conn /\ k2 = conn' /\ s = scores /\ t = now /\ t2 = now'
    OBVIOUS
<1>2. /\ t2 \in 0 .. MaxTime /\ t2 \in Nat /\ t \in Nat /\ t <= t2 /\ Recording(k2, t2)
      /\ Recording(k, t) /\ t \in 0 .. MaxTime
  <2>1. t2 \in 0 .. MaxTime /\ t2 \in Nat
    BY <1>1, ScoreAssumption DEF TypeOK
  <2>2. \A c \in Conns : k2[c].recorded \in -1 .. t2
    BY <1>1, <2>1, ScoreAssumption DEF TypeOK, ConnType, Times, Journeys, Journey
  <2> QED
    BY <1>1, <2>1, <2>2, ScoreFacts DEF Recording
<1>3. Recording(k, t2)
    BY <1>2 DEF Recording
<1>4. ASSUME NEW ip \in IPs PROVE Tally(s[ip], Mass(k2, Recorded(k2, ip)), t2)
  <2>1. Recorded(k2, ip) = Recorded(k, ip)
    BY <1>1 DEF Recorded
  <2>2. Mass(k2, Recorded(k2, ip)) = Mass(k, Recorded(k, ip)) /\ Mass(k, Recorded(k, ip)) \in Nat
    <3>1. \A c \in Recorded(k, ip) : k2[c].recorded = k[c].recorded
      BY <1>1 DEF Recorded
    <3> QED
      BY <1>2, <2>1, <3>1, SameMass, RecordedMass
  <2>3. Worth(t) <= Worth(t2) /\ Worth(t) \in Nat /\ Worth(t2) \in Nat
    BY <1>2, WorthFacts
  <2>4. Tally(s[ip], Mass(k, Recorded(k, ip)), t)
    BY <1>1 DEF Scoring
  <2> QED
    BY <2>2, <2>3, <2>4 DEF Tally
<1>5. ASSUME NEW c \in Conns PROVE Verdict(k2, c)
  <2>1. Verdict(k, c)
    BY <1>1 DEF Scoring
  <2> QED
    BY <1>1, <1>2, <1>3, <2>1, VerdictStays
<1> QED
    BY <1>1, <1>4, <1>5 DEF Scoring

\* Tidying gives up a score of less than a point.
LEMMA CleanScoring ==
    ASSUME TypeOK, ScoreTypes, Journeys, Scoring, CleanScores
    PROVE  Scoring'
<1>1. now' = now /\ conn' = conn
    BY DEF CleanScores
<1>2. now \in 0 .. MaxTime /\ Recording(conn, now)
    BY ScoreFacts
<1>3. ASSUME NEW ip \in IPs PROVE Tally(scores'[ip], Mass(conn, Recorded(conn, ip)), now)
  <2>1. PICK e, m : e = scores[ip] /\ m = Mass(conn, Recorded(conn, ip))
    OBVIOUS
  <2>2. Entry(e, now) /\ m \in Nat /\ Tally(e, m, now)
    BY <1>2, <2>1, ScoreFacts, RecordedMass DEF Scoring
  <2>3. CASE ~(Decayed(e) < Unit)
    BY <2>1, <2>2, <2>3 DEF CleanScores
  <2>4. CASE Decayed(e) < Unit
    <3>1. e.Score \div Worth(now - e.LastUpdate) < Unit
      BY <2>4 DEF Decayed, Worth
    <3>2. scores'[ip] = [Score |-> 0, LastUpdate |-> 0]
      BY <2>1, <2>4 DEF CleanScores
    <3> QED
      BY <1>2, <2>1, <2>2, <3>1, <3>2, TallyCleaned
  <2> QED
    BY <2>3, <2>4
<1> QED
    BY <1>1, <1>3 DEF Scoring

\* A probe is recorded: a unit of mass for each unit of score, and a verdict.
LEMMA RecordScoring ==
    ASSUME TypeOK, ScoreTypes, Journeys, Scoring, NEW c \in Conns, RecordThreat(c)
    PROVE  Scoring'
<1>1. PICK k, k2, t, ip, e, e2 :
            k = conn /\ k2 = conn' /\ t = now /\ ip = conn[c].ip /\ e = scores[ip] /\ e2 = scores'[ip]
    OBVIOUS
<1>2. /\ t \in 0 .. MaxTime /\ t \in Nat /\ Recording(k, t) /\ now' = now
      /\ ip \in IPs /\ k[c].recorded = -1 /\ Entry(e, t)
  <2>1. conn[c].at = "allowed" /\ now' = now
    BY DEF RecordThreat
  <2>2. conn[c].ip \in IPs /\ conn[c].recorded = -1
    BY <2>1 DEF Journeys, Journey
  <2> QED
    BY <1>1, <2>1, <2>2, ScoreFacts
<1>3. e2 = [Score |-> (e.Score \div Worth(t - e.LastUpdate)) + Points * Unit, LastUpdate |-> t]
    BY <1>1, <1>2 DEF RecordThreat, Decayed, Worth, ScoreTypes
<1>4. \A q \in IPs \ {ip} : scores'[q] = scores[q]
    BY <1>1 DEF RecordThreat, ScoreTypes
<1>5. /\ \A d \in Conns \ {c} : k2[d] = k[d]
      /\ k2[c].ip = ip /\ k2[c].recorded = t
      /\ k2[c].crossed <=> e2.Score >= BanThreshold * Unit
  <2>1. conn \in [Conns -> ConnType] /\ conn[c] \in ConnType
    BY DEF TypeOK
  <2>2. conn' = [conn EXCEPT ![c].at = IF e2.Score >= BanThreshold * Unit THEN "test" ELSE "done",
                             ![c].crossed = (e2.Score >= BanThreshold * Unit),
                             ![c].recorded = now]
    <3>1. Decayed(e) = e.Score \div Worth(t - e.LastUpdate)
      BY <1>1 DEF Decayed, Worth
    <3>2. e2.Score = Decayed(e) + Points * Unit
      BY <1>3, <3>1
    <3>3. Decayed(scores[conn[c].ip]) + Points * Unit = e2.Score
      BY <1>1, <3>2
    <3> QED
      BY <3>3 DEF RecordThreat
  <2> QED
    BY <1>1, <2>1, <2>2 DEF ConnType
<1>6. Recording(k2, t)
    BY <1>2, <1>5 DEF Recording
<1>7. Recorded(k2, ip) = Recorded(k, ip) \cup {c} /\ c \notin Recorded(k, ip)
    BY <1>1, <1>2, <1>5 DEF Recorded
<1>8. ASSUME NEW q, q # ip PROVE Recorded(k2, q) = Recorded(k, q) /\ c \notin Recorded(k, q)
    BY <1>1, <1>2, <1>5, <1>8 DEF Recorded
<1>9. \A cs \in SUBSET (Conns \ {c}) : Mass(k2, cs) = Mass(k, cs)
    BY <1>5, SameMass
<1>10. PICK m \in Nat : m = Mass(k, Recorded(k, ip)) /\ Tally(e, m, t)
    BY <1>1, <1>2, RecordedMass DEF Scoring
<1>11. Mass(k2, Recorded(k2, ip)) = m + Points * Worth(t)
  <2>1. Recorded(k2, ip) \ {c} = Recorded(k, ip) /\ c \in Recorded(k2, ip)
    BY <1>7
  <2>2. Mass(k2, Recorded(k, ip)) = m
    <3>1. Recorded(k, ip) \in SUBSET (Conns \ {c})
      BY <1>7 DEF Recorded
    <3> QED
      BY <1>9, <1>10, <3>1
  <2>3. Mass(k2, Recorded(k2, ip)) = Points * Worth(k2[c].recorded) + Mass(k2, Recorded(k2, ip) \ {c})
    <3>1. /\ Recorded(k2, ip) \in SUBSET Conns
          /\ \A d \in Recorded(k2, ip) : k2[d].recorded \in 0 .. MaxTime
      BY <1>2, <1>6, RecordedMass
    <3> QED
      BY <2>1, <3>1, MassAdds
  <2>4. Worth(t) \in Nat /\ Points \in Nat
    BY <1>2, WorthFacts, ScoreAssumption
  <2>5. PICK i \in Nat : i = Points * Worth(t)
    BY <2>4
  <2>6. Mass(k2, Recorded(k2, ip)) = i + m
    BY <1>5, <2>1, <2>2, <2>3, <2>5
  <2> QED
    BY <1>10, <2>5, <2>6
<1>12. /\ Tally(e2, m + Points * Worth(t), t) /\ Entry(e2, t)
       /\ m + Points * Worth(t) < Held(e2) + 2 * Worth(t)
       /\ e2.Score >= BanThreshold * Unit <=> Held(e2) >= BanThreshold * Worth(t)
    BY <1>2, <1>3, <1>10, TallyRecorded, ScoreAssumption
<1>13. ASSUME NEW q \in IPs PROVE Tally(scores'[q], Mass(k2, Recorded(k2, q)), t)
  <2>1. CASE q = ip
    BY <1>1, <1>11, <1>12, <2>1
  <2>2. CASE q # ip
    <3>1. Recorded(k, q) \in SUBSET (Conns \ {c})
      BY <1>8, <2>2 DEF Recorded
    <3>2. Mass(k2, Recorded(k2, q)) = Mass(k, Recorded(k, q))
      BY <1>8, <1>9, <2>2, <3>1
    <3> QED
      BY <1>1, <1>4, <2>2, <3>2 DEF Scoring
  <2> QED
    BY <2>1, <2>2
<1>14. Verdict(k2, c)
  <2>1. Upto(k2, c) = Recorded(k2, ip)
    BY <1>2, <1>5, <1>6 DEF Upto, Recorded, Recording
  <2>2. Before(k2, c) \in SUBSET Recorded(k2, ip)
    BY <1>5, <1>7 DEF Before
  <2>3. PICK w \in Nat, g \in Nat, n \in Nat, a \in Nat : /\ w = Worth(t) /\ g = Held(e2)
                    /\ n = Mass(k2, Recorded(k2, ip)) /\ a = Mass(k2, Before(k2, c)) /\ a <= n
    <3>1. Worth(t) \in Nat
      BY <1>2, WorthFacts
    <3>2. Held(e2) \in Nat
      BY <1>2, <1>12, TallyIs
    <3>3. /\ Mass(k2, Before(k2, c)) \in Nat
          /\ Mass(k2, Before(k2, c)) <= Mass(k2, Recorded(k2, ip))
      BY <1>2, <1>6, <2>2, RecordedMass
    <3>4. Recorded(k2, ip) \in SUBSET Recorded(k2, ip)
      OBVIOUS
    <3>5. Mass(k2, Recorded(k2, ip)) \in Nat
      BY <1>2, <1>6, <3>4, RecordedMass
    <3> QED
      BY <3>1, <3>2, <3>3, <3>5
  <2>4. g <= n /\ n < g + 2 * w
    BY <1>11, <1>12, <2>3 DEF Tally
  <2>5. PICK h \in Nat : h = BanThreshold * w /\ (BanThreshold + 2) * w = h + 2 * w
    BY <2>3, ScoreAssumption
  <2>6. k2[c].crossed <=> g >= h
    BY <1>5, <1>12, <2>3, <2>5
  <2> QED
    BY <1>5, <2>1, <2>3, <2>4, <2>5, <2>6 DEF Verdict
<1>15. ASSUME NEW d \in Conns \ {c} PROVE Verdict(k2, d)
  <2>1. Verdict(k, d)
    BY <1>1 DEF Scoring
  <2> QED
    BY <1>2, <1>5, <1>6, <2>1, VerdictStays
<1> QED
    BY <1>1, <1>2, <1>13, <1>14, <1>15 DEF Scoring

\* The property in units of the first tick is the property.
LEMMA VerdictsHold ==
    ASSUME TypeOK, ScoreTypes, Journeys, Scoring
    PROVE  VerdictsFollowProbes
<1> SUFFICES ASSUME NEW c \in Conns, conn[c].recorded # -1
             PROVE  LET t == conn[c].recorded
                        others == {d \in Conns : d # c /\ conn[d].ip = conn[c].ip
                                                       /\ conn[d].recorded # -1}
                    IN  /\ conn[c].crossed =>
                            Weight({c} \cup {d \in others : conn[d].recorded <= t}, t)
                                >= BanThreshold * Unit
                        /\ Weight({c} \cup {d \in others : conn[d].recorded < t}, t)
                                >= (BanThreshold + 2) * Unit => conn[c].crossed
    BY DEF VerdictsFollowProbes
<1>1. PICK t \in 0 .. MaxTime : t = conn[c].recorded /\ Recording(conn, now) /\ now \in 0 .. MaxTime
    BY ScoreFacts, ScoreAssumption DEF Recording
<1> DEFINE others == {d \in Conns : d # c /\ conn[d].ip = conn[c].ip /\ conn[d].recorded # -1}
<1>2. /\ {c} \cup {d \in others : conn[d].recorded <= t} = Upto(conn, c)
      /\ {c} \cup {d \in others : conn[d].recorded < t} = Before(conn, c)
    BY <1>1 DEF Upto, Before, Recorded
<1>3. ASSUME NEW cs \in {Upto(conn, c), Before(conn, c)}
      PROVE  Weight(cs, t) = Mass(conn, cs) * Worth(MaxTime - t) /\ Mass(conn, cs) \in Nat
  <2>1. cs \in SUBSET Recorded(conn, conn[c].ip) /\ cs \in SUBSET Conns
    BY <1>1 DEF Upto, Before, Recorded
  <2>2. \A d \in cs : conn[d].recorded \in 0 .. t
    BY <1>1, <2>1, RecordedMass DEF Upto, Before
  <2> QED
    BY <1>1, <2>1, <2>2, WeightIsMass, RecordedMass
<1>4. PICK a \in Nat \ {0}, y \in Nat \ {0} : a = Worth(t) /\ y = Worth(MaxTime - t) /\ Unit = a * y
  <2>1. PICK l \in 0 .. t : l = 0
    BY <1>1, ScoreAssumption
  <2>2. PICK a, y : a = Worth(t) /\ y = Worth(MaxTime - t)
    OBVIOUS
  <2>3. {a, y} \subseteq Nat \ {0} /\ Unit = a * y
    BY <2>2, Spans
  <2> QED
    BY <2>2, <2>3
<1>5. ASSUME NEW n \in Nat, NEW m \in Nat PROVE m * y >= n * Unit <=> m >= n * a
  <2>1. n * (a * y) = (n * a) * y /\ n * a \in Nat
    BY <1>4
  <2> QED
    BY <1>4, <2>1, Products
<1>6. BanThreshold \in Nat /\ BanThreshold + 2 \in Nat
    BY ScoreAssumption
<1>7. Verdict(conn, c)
    BY DEF Scoring
<1>8. /\ Weight(Upto(conn, c), t) >= BanThreshold * Unit <=> Mass(conn, Upto(conn, c)) >= BanThreshold * a
      /\ Weight(Before(conn, c), t) >= (BanThreshold + 2) * Unit
            <=> Mass(conn, Before(conn, c)) >= (BanThreshold + 2) * a
    BY <1>3, <1>4, <1>5, <1>6
<1> QED
    BY <1>1, <1>2, <1>4, <1>7, <1>8 DEF Verdict

LEMMA InitScoring == ASSUME Init PROVE Scoring
<1> USE SecurityDaemonAssumption
<1>1. now = 0 /\ 0 \in 0 .. MaxTime /\ \A c \in Conns : conn[c].recorded = -1 /\ ~conn[c].crossed
    BY DEF Init, NoConn
<1>2. ASSUME NEW ip \in IPs PROVE Tally(scores[ip], Mass(conn, Recorded(conn, ip)), now)
  <2>1. scores[ip] = [Score |-> 0, LastUpdate |-> 0]
    BY DEF Init
  <2>2. Recorded(conn, ip) = {}
    BY <1>1 DEF Recorded
  <2>3. Mass(conn, Recorded(conn, ip)) = 0
    BY <2>2, MassAdds
  <2>4. Entry(scores[ip], 0) /\ scores[ip].Score = 0
    BY <2>1 DEF Entry
  <2>5. scores[ip].Score = 0 * Worth(MaxTime - scores[ip].LastUpdate)
    BY <2>1, WorthFacts
  <2>6. Held(scores[ip]) = 0
    BY <1>1, <2>4, <2>5, TallyIs
  <2>7. Worth(0) \in Nat \ {0}
    BY WorthFacts
  <2> QED
    BY <1>1, <2>3, <2>5, <2>6, <2>7 DEF Tally
<1> QED
    BY <1>1, <1>2 DEF Scoring, Verdict

\* Steps of a connection other than the recording of its probe.
LEMMA MovesScoring ==
    ASSUME IInv, IInv', Scoring, NEW c \in Conns, NEW place,
           \/ GoTo(c, place)
           \/ \E when : conn' = [conn EXCEPT ![c].at = place, ![c].alerted = when]
           \/ \E when : conn' = [conn EXCEPT ![c].at = place, ![c].admitted = when],
           UNCHANGED <<now, scores>>
    PROVE  Scoring'
<1>1. conn \in [Conns -> ConnType] /\ conn[c] \in ConnType
    BY DEF IInv, TypeOK
<1>2. \A d \in Conns : /\ conn'[d].recorded = conn[d].recorded
                       /\ conn'[d].ip = conn[d].ip /\ conn'[d].crossed = conn[d].crossed
    BY <1>1 DEF GoTo, ConnType
<1>3. now <= now'
    BY ScoreAssumption DEF IInv, TypeOK
<1> QED
    BY <1>2, <1>3, ScoringKept DEF IInv

LEMMA AcceptScoring ==
    ASSUME IInv, IInv', Scoring, NEW c \in Conns, NEW ip, Accept(c, ip)
    PROVE  Scoring'
<1>1. conn \in [Conns -> ConnType] /\ conn[c] \in ConnType /\ conn[c].recorded = -1
    BY DEF IInv, TypeOK, Accept, NoConn
<1>2. conn' = [conn EXCEPT ![c].ip = ip, ![c].at = "accepted"] /\ UNCHANGED <<now, scores>>
    BY DEF Accept, tables
<1>3. \A d \in Conns :
            /\ conn'[d].recorded = conn[d].recorded
            /\ conn[d].recorded # -1 => conn'[d].ip = conn[d].ip /\ conn'[d].crossed = conn[d].crossed
    BY <1>1, <1>2 DEF ConnType
<1>4. now <= now'
    BY <1>2, ScoreAssumption DEF IInv, TypeOK
<1> QED
    BY <1>2, <1>3, <1>4, ScoringKept DEF IInv

LEMMA ConnScoring ==
    ASSUME IInv, IInv', Scoring, NEW c \in Conns, ConnSteps(c)
    PROVE  Scoring'
<1>1. CASE Greet(c)
    BY <1>1, MovesScoring DEF Greet, tables
<1>2. CASE Allow(c)
  <2>1. PICK place, when : conn' = [conn EXCEPT ![c].at = place, ![c].admitted = when]
    BY <1>2 DEF Allow, LimitProbe
  <2>2. UNCHANGED <<now, scores>>
    BY <1>2 DEF Allow, LimitProbe
  <2> QED
    BY <2>1, <2>2, MovesScoring
<1>3. CASE RecordThreat(c)
    BY <1>3, RecordScoring DEF IInv
<1>4. CASE TestBan(c)
    BY <1>4, MovesScoring DEF TestBan, tables
<1>5. CASE Ban(c)
    BY <1>5, MovesScoring DEF Ban
<1>6. CASE Dispatch(c)
  <2>1. \/ GoTo(c, "done")
        \/ conn' = [conn EXCEPT ![c].at = "send", ![c].alerted = now]
    BY <1>6 DEF Dispatch
  <2>2. UNCHANGED <<now, scores>>
    BY <1>6 DEF Dispatch
  <2> QED
    BY <2>1, <2>2, MovesScoring
<1>7. CASE Send(c)
    BY <1>7, MovesScoring DEF Send, tables
<1> QED
    BY <1>1, <1>2, <1>3, <1>4, <1>5, <1>6, <1>7 DEF ConnSteps

LEMMA StepScoring ==
    ASSUME IInv, IInv', Scoring, [Next]_vars
    PROVE  Scoring'
<1>1. ASSUME NEW c \in Conns, NEW ip, Accept(c, ip) PROVE Scoring'
    BY <1>1, AcceptScoring
<1>2. ASSUME NEW c \in Conns, ConnSteps(c) PROVE Scoring'
    BY <1>2, ConnScoring
<1>3. ASSUME UNCHANGED <<conn, scores>>, now' \in {now, now + 1} PROVE Scoring'
  <2>1. now <= now'
    BY <1>3, ScoreAssumption DEF IInv, TypeOK
  <2> QED
    BY <1>3, <2>1, ScoringKept DEF IInv
<1>4. CASE CleanScores
    BY <1>4, CleanScoring DEF IInv
<1>5. CASE \/ \E w \in Workers : WorkerSteps(w)
           \/ CleanBuckets \/ Evict \/ Tick \/ Cancel \/ StopSteps \/ UNCHANGED vars
  <2>1. UNCHANGED <<conn, scores>> /\ now' \in {now, now + 1}
    BY <1>5 DEF WorkerSteps, TakeAlert, SendAlert, WorkerEnds, CleanBuckets, Evict, Tick,
       Cancel, StopSteps, CloseListener, AcceptLoopEnds, CancelPool, CloseQueue, JoinWorkers,
       tables, vars
  <2> QED
    BY <1>3, <2>1
<1> QED
    BY <1>1, <1>2, <1>4, <1>5 DEF Next

-----------------------------------------------------------------------------
\* In every reachable state the buckets are true accounts of what was let
\* through, and bans and alerts of what crossed the threshold.
THEOREM DaemonInvariant == Spec => []IInv
<1>1. IInv /\ [Next]_vars => IInv'
    BY StepIInv
<1> QED
    BY <1>1, InitIInv, PTL DEF Spec

\* Every variable of the daemon keeps its type: a bucket holds no more than its
\* capacity, the queue of alerts no more than its own, and no score is negative.
THEOREM DaemonTypes == Spec => []TypeOK
<1>1. IInv => TypeOK
    BY DEF IInv
<1> QED
    BY <1>1, DaemonInvariant, PTL

\* DualTokenBucketLimiter: whatever the order of probes, refills, denials and
\* tidying up, in no span of time more probes of an address or a subnet are let
\* through than its capacity and the refill of the span.
THEOREM LimiterKeepsRate == Spec => []RateIsBounded
<1>1. ASSUME IInv PROVE RateIsBounded
  <2>1. \A ip \in IPs : Bounded({ip}, IPCap, IPRefill)
    BY <1>1 DEF IInv, Limits, Kept
  <2>2. \A s \in Subnets : Bounded(Members(s), SubnetCap, SubnetRefill)
    BY <1>1 DEF IInv, Limits, Kept
  <2> QED
    BY <2>1, <2>2 DEF RateIsBounded, Bounded, Members
<1> QED
    BY <1>1, DaemonInvariant, PTL

\* The goroutine of a crossing: however several of one address test and ban,
\* when one ends its address was banned to a time not before the crossing.
THEOREM CrossingsPunished == Spec => []CrossingsArePunished
<1>1. IInv => CrossingsArePunished
    BY DEF IInv, Bans
<1> QED
    BY <1>1, DaemonInvariant, PTL

\* Dispatch: crossings of one address raise one alert in a window.
THEOREM AlertsKeepTheWindow == Spec => []OneAlertPerWindow
<1>1. IInv => OneAlertPerWindow
    BY DEF IInv, Alerts
<1> QED
    BY <1>1, DaemonInvariant, PTL

\* ThreatScorer: whatever the order of probes and tidying up, a probe is taken
\* for a crossing only if the probes of its address up to then weigh the
\* threshold, decayed by the closed form, and it is taken for one if they weigh
\* two points more.
THEOREM VerdictsFollow == Spec => []VerdictsFollowProbes
<1>1. Init => IInv /\ Scoring
    BY InitIInv, InitScoring
<1>2. (IInv /\ Scoring) /\ [Next]_vars => (IInv /\ Scoring)'
    BY StepIInv, StepScoring
<1>3. IInv /\ Scoring => VerdictsFollowProbes
    BY VerdictsHold DEF IInv
<1> QED
    BY <1>1, <1>2, <1>3, PTL DEF Spec
=============================================================================
