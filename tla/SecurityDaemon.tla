--------------------------- MODULE SecurityDaemon ---------------------------
(***************************************************************************)
(* cmd/sovereign-security-daemon: a honeypot that scores the addresses     *)
(* which probe it, bans them and sends alerts.  One goroutine accepts, one *)
(* per connection limits and scores, a further one per crossing of the     *)
(* threshold bans and alerts, workers send the alerts, two tickers tidy    *)
(* up, and main stops everything.  One action is one critical section.     *)
(*                                                                         *)
(* Time is counted in ticks.  A token is refilled a whole number of times  *)
(* in a tick and the score halves a whole number of times, so the floating *)
(* point of the code is exact here.  The firewall is the in-memory driver, *)
(* the default one.  A connection ends only by the steps below: its reads  *)
(* and writes have a deadline and their errors are ignored.                *)
(***************************************************************************)
EXTENDS Integers, Sequences, FiniteSets, FiniteSetsExt

CONSTANTS
    IPs,
    SubnetOf,               \* SubnetOf[ip]: getSubnet24Key
    Whitelisted,            \* the addresses IsWhitelisted accepts
    IPCap, IPRefill, SubnetCap, SubnetRefill,
    Points,                 \* points of one probe
    BanThreshold,           \* in points
    HalvingsPerTick,        \* half-lives of a score in a tick
    BanDuration,            \* in ticks, as the next two
    AlertWindow,            \* how long an alert silences the next one
    StaleAfter,             \* how long a bucket is unused before it is stale
    Workers, QueueCapacity, \* of the notification pool
    MaxConns,               \* bound: connections
    MaxTime,                \* bound: ticks
    None

ASSUME SecurityDaemonAssumption ==
    /\ {IPCap, IPRefill, SubnetCap, SubnetRefill, Points, BanThreshold,
        HalvingsPerTick, BanDuration, AlertWindow, StaleAfter, QueueCapacity,
        MaxConns, MaxTime} \subseteq Nat
    /\ IPs \subseteq DOMAIN SubnetOf /\ Whitelisted \subseteq IPs
    /\ None \notin IPs

Conns == 1 .. MaxConns
Subnets == {SubnetOf[ip] : ip \in IPs}
Unit == 2 ^ (HalvingsPerTick * MaxTime)     \* one point of score

VARIABLES
    now,
    conn,           \* conn[c]: where connection c's goroutines are, see NoConn
    ipBuckets,      \* ipBuckets[ip], subnetBucket[s]: a bucket or NoBucket
    subnetBucket,
    scores,         \* scores[ip]: a ThreatEntry, Score 0 if there is none
    banned,         \* banned[ip]: ExpiresAt, or -1
    lastAlerted,    \* lastAlerted[ip], or -1
    eventChan,      \* the queue of alerts
    chanClosed,
    worker,         \* worker[w]: "idle", "sending" or "ended"
    stop,           \* how far Stop is
    accepting,      \* acceptLoop runs
    panicked,       \* a goroutine panicked and took the process down
    bannedTo        \* history: latest ExpiresAt of a ban of ip, or -1

tables == <<ipBuckets, subnetBucket, scores, banned, lastAlerted, bannedTo>>
pool == <<eventChan, chanClosed, worker>>
vars == <<now, conn, tables, pool, stop, accepting, panicked>>

\* admitted, recorded and alerted: when that was, or -1 (history).
NoConn == [ip |-> None, at |-> "none", crossed |-> FALSE,
           admitted |-> -1, recorded |-> -1, alerted |-> -1]
NoBucket == [tokens |-> -1, lastRefill |-> -1]

Init ==
    /\ now = 0
    /\ conn = [c \in Conns |-> NoConn]
    /\ ipBuckets = [ip \in IPs |-> NoBucket]
    /\ subnetBucket = [s \in Subnets |-> NoBucket]
    /\ scores = [ip \in IPs |-> [Score |-> 0, LastUpdate |-> 0]]
    /\ banned = [ip \in IPs |-> -1]
    /\ lastAlerted = [ip \in IPs |-> -1]
    /\ eventChan = <<>>
    /\ chanClosed = FALSE
    /\ worker = [w \in Workers |-> "idle"]
    /\ stop = "running"
    /\ accepting = TRUE
    /\ panicked = FALSE
    /\ bannedTo = [ip \in IPs |-> -1]

\* main returns when Stop does, and every goroutine goes with it.
Alive == ~ panicked /\ stop # "stopped"
GoTo(c, place) == conn' = [conn EXCEPT ![c].at = place]
-----------------------------------------------------------------------------
(* acceptLoop and handleConnection *)

Accept(c, ip) ==
    /\ Alive
    /\ accepting
    /\ stop \in {"running", "cancelled"}
    /\ conn[c] = NoConn
    /\ \A d \in 1 .. c - 1 : conn[d] # NoConn
    /\ conn' = [conn EXCEPT ![c].ip = ip, ![c].at = "accepted"]
    /\ UNCHANGED <<now, tables, pool, stop, accepting, panicked>>

\* A whitelisted address gets the banner and nothing else.
Greet(c) ==
    /\ Alive
    /\ conn[c].at = "accepted"
    /\ conn[c].ip \in Whitelisted
    /\ GoTo(c, "done")
    /\ UNCHANGED <<now, tables, pool, stop, accepting, panicked>>

\* newTokenBucket, when there is none.
Bucket(b, cap) ==
    IF b = NoBucket THEN [tokens |-> cap, lastRefill |-> now] ELSE b

\* Variant: a refill that overlooks the capacity.
RefilledUncapped(b, cap, rate) ==
    [tokens |-> b.tokens + (now - b.lastRefill) * rate, lastRefill |-> now]

Refilled(b, cap, rate) ==
    [tokens |-> Min({cap, b.tokens + (now - b.lastRefill) * rate}),
     lastRefill |-> now]

\* Variant: a test off by one.
HasTokenOrNone(b) == b.tokens >= 0

HasToken(b) == b.tokens >= 1
Taken(b) == IF HasToken(b) THEN [b EXCEPT !.tokens = @ - 1] ELSE b

\* Allow: the subnet's bucket is asked, and refilled, only if the address's
\* own bucket has a token, and that token is gone even if the subnet's has none.
LimitProbe(c, denied) ==
    LET ip == conn[c].ip
        s == SubnetOf[ip]
        own == Refilled(Bucket(ipBuckets[ip], IPCap), IPCap, IPRefill)
        shared == Bucket(subnetBucket[s], SubnetCap)
        full == Refilled(shared, SubnetCap, SubnetRefill)
        allowed == HasToken(own) /\ HasToken(full)
    IN
    /\ Alive
    /\ conn[c].at = "accepted"
    /\ ip \notin Whitelisted
    /\ ipBuckets' = [ipBuckets EXCEPT ![ip] = Taken(own)]
    /\ subnetBucket' = [subnetBucket EXCEPT
                            ![s] = IF HasToken(own) THEN Taken(full) ELSE shared]
    /\ conn' = [conn EXCEPT ![c].at = IF allowed THEN "allowed" ELSE denied,
                            ![c].admitted = IF allowed THEN now ELSE -1]
    /\ UNCHANGED <<now, scores, banned, lastAlerted, bannedTo, pool, stop,
                   accepting, panicked>>

\* Variant: the early return forgets wg.Done, so the handler counts for ever.
AllowLeaking(c) == LimitProbe(c, "accepted")

Allow(c) == LimitProbe(c, "done")

\* Variant: points that never decay.
Undecayed(entry) == entry.Score

\* e^(-lambda dt), with lambda = ln 2 / half-life.
Decayed(entry) ==
    entry.Score \div 2 ^ (HalvingsPerTick * (now - entry.LastUpdate))

\* RecordThreat; a crossing starts the goroutine that bans, and the handler
\* returns either way.
RecordThreat(c) ==
    LET ip == conn[c].ip
        newScore == Decayed(scores[ip]) + Points * Unit
        shouldBan == newScore >= BanThreshold * Unit
    IN
    /\ Alive
    /\ conn[c].at = "allowed"
    /\ scores' = [scores EXCEPT ![ip] = [Score |-> newScore, LastUpdate |-> now]]
    /\ conn' = [conn EXCEPT ![c].at = IF shouldBan THEN "test" ELSE "done",
                            ![c].crossed = shouldBan,
                            ![c].recorded = now]
    /\ UNCHANGED <<now, ipBuckets, subnetBucket, banned, lastAlerted, bannedTo,
                   pool, stop, accepting, panicked>>
-----------------------------------------------------------------------------
(* The goroutine of a crossing: it outlives its connection and Stop does not *)
(* wait for it.                                                              *)

\* Variant: an entry not yet evicted counts, expired or not.
IsListed(ip) == banned[ip] >= 0

IsBanned(ip) == banned[ip] >= now

TestBan(c) ==
    /\ Alive
    /\ conn[c].at = "test"
    /\ GoTo(c, IF IsBanned(conn[c].ip) THEN "done" ELSE "ban")
    /\ UNCHANGED <<now, tables, pool, stop, accepting, panicked>>

Ban(c) ==
    LET ip == conn[c].ip IN
    /\ Alive
    /\ conn[c].at = "ban"
    /\ banned' = [banned EXCEPT ![ip] = now + BanDuration]
    /\ bannedTo' = [bannedTo EXCEPT ![ip] = now + BanDuration]
    /\ GoTo(c, "dispatch")
    /\ UNCHANGED <<now, ipBuckets, subnetBucket, scores, lastAlerted, pool,
                   stop, accepting, panicked>>

\* Variant: the comparison of the window the wrong way round.
SilencedLater(ip) == lastAlerted[ip] # -1 /\ now - lastAlerted[ip] > AlertWindow

\* Dispatch under its lock: at most one alert for an address in a window.
Silenced(ip) == lastAlerted[ip] # -1 /\ now - lastAlerted[ip] < AlertWindow

Dispatch(c) ==
    LET ip == conn[c].ip IN
    /\ Alive
    /\ conn[c].at = "dispatch"
    /\ \/ /\ Silenced(ip)
          /\ GoTo(c, "done")
          /\ UNCHANGED lastAlerted
       \/ /\ ~ Silenced(ip)
          /\ lastAlerted' = [lastAlerted EXCEPT ![ip] = now]
          /\ conn' = [conn EXCEPT ![c].at = "send", ![c].alerted = now]
    /\ UNCHANGED <<now, ipBuckets, subnetBucket, scores, banned, bannedTo, pool,
                   stop, accepting, panicked>>

\* The send is after the unlock.  A full queue drops the alert; a closed one
\* is a panic.
Send(c) ==
    /\ Alive
    /\ conn[c].at = "send"
    /\ GoTo(c, "done")
    /\ panicked' = chanClosed
    /\ eventChan' = IF ~ chanClosed /\ Len(eventChan) < QueueCapacity
                    THEN Append(eventChan, conn[c].ip) ELSE eventChan
    /\ UNCHANGED <<now, tables, chanClosed, worker, stop, accepting>>
-----------------------------------------------------------------------------
(* workerLoop: the select takes any ready case *)

Cancelled == stop \in {"cancelledPool", "joining"}

TakeAlert(w) ==
    /\ Alive
    /\ worker[w] = "idle"
    /\ eventChan # <<>>
    /\ eventChan' = Tail(eventChan)
    /\ worker' = [worker EXCEPT ![w] = "sending"]
    /\ UNCHANGED <<now, conn, tables, chanClosed, stop, accepting, panicked>>

\* The client's timeout, or the pool's context, ends a request that hangs.
SendAlert(w) ==
    /\ Alive
    /\ worker[w] = "sending"
    /\ worker' = [worker EXCEPT ![w] = "idle"]
    /\ UNCHANGED <<now, conn, tables, eventChan, chanClosed, stop, accepting,
                   panicked>>

WorkerEnds(w) ==
    /\ Alive
    /\ worker[w] = "idle"
    /\ Cancelled \/ (chanClosed /\ eventChan = <<>>)
    /\ worker' = [worker EXCEPT ![w] = "ended"]
    /\ UNCHANGED <<now, conn, tables, eventChan, chanClosed, stop, accepting,
                   panicked>>
-----------------------------------------------------------------------------
(* The tickers.  Their periods are left out: they may fire at any time until *)
(* Stop has closed limiter and scorer.                                       *)

Tidying == Alive /\ stop \in {"running", "cancelled", "draining"}

Stale(b) == b # NoBucket /\ b.lastRefill < now - StaleAfter

Removable(b, cap) == Stale(b) /\ b.tokens >= cap

\* Both loops of the limiter's cleanupLoop.
CleanBuckets ==
    LET Clean(buckets, cap) ==
            [k \in DOMAIN buckets |->
                IF Removable(buckets[k], cap) THEN NoBucket ELSE buckets[k]]
    IN
    /\ Tidying
    /\ ipBuckets' = Clean(ipBuckets, IPCap)
    /\ subnetBucket' = Clean(subnetBucket, SubnetCap)
    /\ UNCHANGED <<now, conn, scores, banned, lastAlerted, bannedTo, pool, stop,
                   accepting, panicked>>

\* The scorer's cleanupLoop: entries below one point go.
CleanScores ==
    /\ Tidying
    /\ scores' = [ip \in IPs |-> IF Decayed(scores[ip]) < Unit
                                 THEN [Score |-> 0, LastUpdate |-> 0]
                                 ELSE scores[ip]]
    /\ UNCHANGED <<now, conn, ipBuckets, subnetBucket, banned, lastAlerted,
                   bannedTo, pool, stop, accepting, panicked>>

\* evictionLoop, until the firewall is closed.
Evict ==
    /\ Alive
    /\ banned' = [ip \in IPs |-> IF banned[ip] < now THEN -1 ELSE banned[ip]]
    /\ UNCHANGED <<now, conn, ipBuckets, subnetBucket, scores, lastAlerted,
                   bannedTo, pool, stop, accepting, panicked>>

Tick ==
    /\ Alive
    /\ now < MaxTime
    /\ now' = now + 1
    /\ UNCHANGED <<conn, tables, pool, stop, accepting, panicked>>
-----------------------------------------------------------------------------
(* Stop *)

Stopping(from, to) ==
    /\ Alive
    /\ stop = from
    /\ stop' = to

Cancel ==
    /\ Stopping("running", "cancelled")
    /\ UNCHANGED <<now, conn, tables, pool, accepting, panicked>>

CloseListener ==
    /\ Stopping("cancelled", "draining")
    /\ UNCHANGED <<now, conn, tables, pool, accepting, panicked>>

\* Accept fails on the closed listener and the context is done.
AcceptLoopEnds ==
    /\ Alive
    /\ accepting
    /\ stop = "draining"
    /\ accepting' = FALSE
    /\ UNCHANGED <<now, conn, tables, pool, stop, panicked>>

\* sd.wg: acceptLoop and the handlers, but not the goroutines that ban.
WaitGroupDone ==
    /\ ~ accepting
    /\ \A c \in Conns : conn[c].at \notin {"accepted", "allowed"}

\* wg.Wait returns; limiter and scorer are closed, the pool is cancelled.
CancelPool ==
    /\ WaitGroupDone
    /\ Stopping("draining", "cancelledPool")
    /\ UNCHANGED <<now, conn, tables, pool, accepting, panicked>>

CloseQueue ==
    /\ Stopping("cancelledPool", "joining")
    /\ chanClosed' = TRUE
    /\ UNCHANGED <<now, conn, tables, eventChan, worker, accepting, panicked>>

JoinWorkers ==
    /\ \A w \in Workers : worker[w] = "ended"
    /\ Stopping("joining", "stopped")
    /\ UNCHANGED <<now, conn, tables, pool, accepting, panicked>>

StopSteps == CloseListener \/ AcceptLoopEnds \/ CancelPool \/ CloseQueue \/ JoinWorkers
ConnSteps(c) ==
    Greet(c) \/ Allow(c) \/ RecordThreat(c) \/ TestBan(c) \/ Ban(c) \/ Dispatch(c)
        \/ Send(c)
WorkerSteps(w) == TakeAlert(w) \/ SendAlert(w) \/ WorkerEnds(w)

Next ==
    \/ \E c \in Conns : ConnSteps(c) \/ \E ip \in IPs : Accept(c, ip)
    \/ \E w \in Workers : WorkerSteps(w)
    \/ CleanBuckets \/ CleanScores \/ Evict
    \/ Tick
    \/ Cancel \/ StopSteps

Spec == Init /\ [][Next]_vars

\* Goroutines that can run do run; a worker whose context is cancelled leaves
\* in the end because nothing is added to a queue it could still take from.
FairSpec ==
    /\ Spec
    /\ \A c \in Conns : WF_vars(ConnSteps(c))
    /\ \A w \in Workers : WF_vars(WorkerSteps(w))
    /\ WF_vars(StopSteps)
-----------------------------------------------------------------------------
Times == -1 .. MaxTime
BucketType(cap) == [tokens : 0 .. cap, lastRefill : 0 .. MaxTime] \cup {NoBucket}
Places == {"none", "accepted", "allowed", "test", "ban", "dispatch", "send", "done"}
ConnType == [ip : IPs \cup {None}, at : Places, crossed : BOOLEAN,
             admitted : Times, recorded : Times, alerted : Times]

\* The types of the variables; a bucket never holds more than its capacity.
TypeOK ==
    /\ now \in 0 .. MaxTime
    /\ conn \in [Conns -> ConnType]
    /\ ipBuckets \in [IPs -> BucketType(IPCap)]
    /\ subnetBucket \in [Subnets -> BucketType(SubnetCap)]
    /\ \A ip \in IPs : scores[ip].Score \in Nat /\ scores[ip].LastUpdate \in 0 .. now
    /\ banned \in [IPs -> -1 .. MaxTime + BanDuration]
    /\ bannedTo \in [IPs -> -1 .. MaxTime + BanDuration]
    /\ lastAlerted \in [IPs -> Times]
    /\ Len(eventChan) <= QueueCapacity
    /\ worker \in [Workers -> {"idle", "sending", "ended"}]
    /\ stop \in {"running", "cancelled", "draining", "cancelledPool", "joining",
                 "stopped"}
    /\ {chanClosed, accepting, panicked} \subseteq BOOLEAN

Admitted(ips, from, to) ==
    {c \in Conns : conn[c].ip \in ips /\ conn[c].admitted \in from .. to
                                      /\ conn[c].admitted # -1}

\* In every span of time the limiter lets no more probes of an address, and no
\* more of a subnet, through than the capacity and what is refilled in the span:
\* neither tidying up nor a denied probe hands out tokens (DualTokenBucketLimiter).
RateIsBounded ==
    \A from \in 0 .. now : \A to \in from .. now :
        /\ \A ip \in IPs :
            Cardinality(Admitted({ip}, from, to)) <= IPCap + (to - from) * IPRefill
        /\ \A s \in Subnets :
            LET ips == {ip \in IPs : SubnetOf[ip] = s} IN
            Cardinality(Admitted(ips, from, to)) <= SubnetCap + (to - from) * SubnetRefill

\* What the probes cs weigh at time t, by the closed form of the decay.
Weight(cs, t) ==
    MapThenSumSet(LAMBDA c : (Points * Unit) \div 2 ^ (HalvingsPerTick * (t - conn[c].recorded)),
                  cs)

\* A probe is taken for a crossing only if the probes up to then weigh the
\* threshold, and it is taken for one if they weigh two points more: the running
\* score and the entries tidied away never add up to more (ThreatScorer).
VerdictsFollowProbes ==
    \A c \in Conns : conn[c].recorded # -1 =>
        LET t == conn[c].recorded
            others == {d \in Conns : d # c /\ conn[d].ip = conn[c].ip
                                           /\ conn[d].recorded # -1}
        IN  /\ conn[c].crossed =>
                Weight({c} \cup {d \in others : conn[d].recorded <= t}, t)
                    >= BanThreshold * Unit
            /\ Weight({c} \cup {d \in others : conn[d].recorded < t}, t)
                    >= (BanThreshold + 2) * Unit => conn[c].crossed

\* Whatever the order in which crossings test and ban, when the goroutine of a
\* crossing ends the address has been banned to a time not before the crossing.
CrossingsArePunished ==
    \A c \in Conns : conn[c].crossed /\ conn[c].at \in {"dispatch", "send", "done"} =>
        bannedTo[conn[c].ip] >= conn[c].recorded

\* Two crossings that both found the address free, and both banned it, still
\* raise one alert in a window (notifier.go: "at most 1 alert per IP every 10
\* minutes").
OneAlertPerWindow ==
    \A c, d \in Conns :
        c # d /\ conn[c].ip = conn[d].ip /\ conn[c].alerted # -1
              /\ conn[c].alerted <= conn[d].alerted =>
            conn[d].alerted - conn[c].alerted >= AlertWindow

\* Once asked to stop the daemon stops, unless a late alert makes it panic.
StopReturns == stop = "cancelled" ~> (stop = "stopped" \/ panicked)
=============================================================================
