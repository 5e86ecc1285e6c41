------------------------------ MODULE RateLimit ------------------------------
(***************************************************************************)
(* The fixed-window rate limiters of hosted/limits.py: the one in process  *)
(* memory and the one on Redis, shared by all processes.                   *)
(*                                                                         *)
(* A check reads the clock, works out the buckets its request is counted   *)
(* in, and then, in one atomic step (a lock, or a script on the server),   *)
(* either finds a full bucket and charges none or charges them all.        *)
(* Between the two the Redis client awaits the network.                    *)
(***************************************************************************)
EXTENDS Integers, FiniteSets

CONSTANTS
    Checks,     \* checks that may be under way at the same time
    Sellers,    \* seller accounts
    Hosts,      \* client addresses
    NoSeller,   \* the seller of a request that was not authenticated
    Requests,   \* the requests that are checked
    Limits,     \* the policy: what a bucket of each kind admits in a window
    Second,     \* the ticks of the clock in a second
    Window,     \* window_seconds, in ticks
    MaxDelay,   \* what may pass between reading the clock and the script
    MaxTime     \* bound: the clock stops here

Endpoints == {"supported", "verify", "settle", "invalid"}
BucketKinds == Endpoints \cup {"all", "ip_all", "ip_invalid"}

RateLimitAssumption ==
    /\ NoSeller \notin Sellers
    /\ Requests \subseteq [endpoint: Endpoints, seller: Sellers \cup {NoSeller}, host: Hosts]
    /\ Limits \in [BucketKinds -> Nat]
    /\ Second \in Nat \ {0}
    /\ Window \in Nat \ {0} /\ MaxDelay \in Nat /\ MaxTime \in Nat
    /\ Window % Second = 0
    /\ MaxDelay < Window

VARIABLES
    redis,      \* TRUE: the Redis limiter, FALSE: the one in memory
    clock,      \* time.time()
    counters,   \* counters[b][w]: bucket b in window w, [count, expires]
    pending,    \* pending[c]: the request c has read the clock for
    decision,   \* decision[c]: what c was last told
    admitted    \* history: admitted[b][w], requests let through by bucket b in
                \* window w: while it was the current one, and late

vars == <<redis, clock, counters, pending, decision, admitted>>

Windows == 0 .. (MaxTime \div Window)
WindowId(t) == t \div Window

(***************************************************************************)
(* The keys of the counters.  Redis keys carry the hash tag of the request *)
(* (its seller, else its address), so that all keys of a script are in one *)
(* slot; the counters in memory do not.                                    *)
(***************************************************************************)
HashTag(req) == IF req.seller # NoSeller THEN req.seller ELSE req.host

Tag(req) == IF redis THEN HashTag(req) ELSE NoSeller

BucketsFor(req) ==
    LET Bucket(of, kind) == [tag |-> Tag(req), of |-> of, kind |-> kind]
    IN  {Bucket(req.host, "ip_all")}
        \cup (IF req.seller # NoSeller THEN {Bucket(req.seller, req.endpoint)} ELSE {})
        \cup (IF req.seller # NoSeller /\ req.endpoint # "invalid"
              THEN {Bucket(req.seller, "all")} ELSE {})
        \cup (IF req.endpoint = "invalid" THEN {Bucket(req.host, "ip_invalid")} ELSE {})

Buckets == UNION {BucketsFor(req) : req \in Requests}

Limit(b) == Limits[b.kind]

NoCheck == [waits |-> FALSE]
Waiting(req, t) == [waits |-> TRUE, req |-> req, read |-> t]

NoDecision == [allowed |-> TRUE, retry |-> 0, win |-> 0]

Init ==
    /\ redis \in BOOLEAN
    /\ clock = 0
    /\ counters = [b \in Buckets |-> [w \in Windows |-> [count |-> 0, expires |-> 0]]]
    /\ pending = [c \in Checks |-> NoCheck]
    /\ decision = [c \in Checks |-> NoDecision]
    /\ admitted = [b \in Buckets |-> [w \in Windows |-> [intime |-> 0, late |-> 0]]]

\* check: build the buckets, read the clock
Start(c, req) ==
    /\ ~pending[c].waits
    /\ pending' = [pending EXCEPT ![c] = Waiting(req, clock)]
    /\ decision' = [decision EXCEPT ![c] = NoDecision]
    /\ UNCHANGED <<clock, counters, admitted>>

(***************************************************************************)
(* The counter of a bucket in a window.  Redis forgets a key when its time *)
(* to live is over; the dictionary in memory forgets nothing.              *)
(***************************************************************************)
Lives(b, w) == counters[b][w].count > 0 /\ (~redis \/ clock < counters[b][w].expires)

Count(b, w) == IF Lives(b, w) THEN counters[b][w].count ELSE 0

MutantFullOffByOne(b, w) == Count(b, w) > Limit(b)

Full(b, w) == Count(b, w) >= Limit(b)

\* Redis keeps the expiry of a key in milliseconds; the TTL command, external to
\* this code, answers the nearest second, which is none in the last half second
Rounded(t) == ((2 * t + Second) \div (2 * Second)) * Second

\* time to live of a full bucket: of its key, or a window if it has no key
TimeToLive(b, w) ==
    IF redis /\ Lives(b, w) THEN Rounded(counters[b][w].expires - clock) ELSE Window

\* the first charge starts the key's time to live, later ones keep it
Charged(b, w) ==
    [count   |-> Count(b, w) + 1,
     expires |-> IF Lives(b, w) THEN counters[b][w].expires ELSE clock + Window]

\* the script, and the body of the lock: some bucket is full
Reject(c) ==
    /\ pending[c].waits
    /\ LET w == WindowId(pending[c].read)
           full == {b \in BucketsFor(pending[c].req) : Full(b, w)}
       IN  /\ full # {}
           /\ \E b \in full :
                 /\ \A d \in full : TimeToLive(d, w) <= TimeToLive(b, w)
                 /\ decision' = [decision EXCEPT ![c] =
                        [allowed |-> FALSE, retry |-> TimeToLive(b, w), win |-> w]]
    /\ pending' = [pending EXCEPT ![c] = NoCheck]
    /\ UNCHANGED <<clock, counters, admitted>>

\* one more is let through in window w
LetThrough(n, w) ==
    IF WindowId(clock) = w THEN [n EXCEPT !.intime = @ + 1] ELSE [n EXCEPT !.late = @ + 1]

\* a bucket is tested when it is charged, not before the others are
MutantAdmit(c) ==
    /\ pending[c].waits
    /\ LET w == WindowId(pending[c].read)
           charged == {b \in BucketsFor(pending[c].req) : ~Full(b, w)}
       IN  /\ counters' = [b \in DOMAIN counters |->
                IF b \in charged THEN [counters[b] EXCEPT ![w] = Charged(b, w)] ELSE counters[b]]
           /\ decision' = [decision EXCEPT ![c] =
                [allowed |-> charged = BucketsFor(pending[c].req), retry |-> Window, win |-> w]]
           /\ UNCHANGED admitted
    /\ pending' = [pending EXCEPT ![c] = NoCheck]
    /\ UNCHANGED clock

\* the script, and the body of the lock: none is
Admit(c) ==
    /\ pending[c].waits
    /\ LET w == WindowId(pending[c].read)
           charged == BucketsFor(pending[c].req)
       IN  /\ \A b \in charged : ~Full(b, w)
           /\ counters' = [b \in DOMAIN counters |->
                IF b \in charged THEN [counters[b] EXCEPT ![w] = Charged(b, w)] ELSE counters[b]]
           /\ admitted' = [b \in DOMAIN counters |->
                IF b \in charged THEN [admitted[b] EXCEPT ![w] = LetThrough(admitted[b][w], w)]
                ELSE admitted[b]]
           /\ decision' = [decision EXCEPT ![c] = [allowed |-> TRUE, retry |-> 0, win |-> w]]
    /\ pending' = [pending EXCEPT ![c] = NoCheck]
    /\ UNCHANGED clock

(***************************************************************************)
(* The connection to Redis is lost or times out (socket_timeout): the      *)
(* caller gets an exception, and the script has run or has not.            *)
(***************************************************************************)
Lost(c) ==
    /\ redis /\ pending[c].waits
    /\ pending' = [pending EXCEPT ![c] = NoCheck]
    /\ \/ UNCHANGED counters
       \/ LET w == WindowId(pending[c].read)
              charged == BucketsFor(pending[c].req)
          IN  /\ \A b \in charged : ~Full(b, w)
              /\ counters' = [b \in DOMAIN counters |->
                    IF b \in charged THEN [counters[b] EXCEPT ![w] = Charged(b, w)]
                    ELSE counters[b]]
    /\ UNCHANGED <<clock, decision, admitted>>

\* time passes, but a check that waits longer than MaxDelay has timed out
Tick ==
    /\ clock < MaxTime
    /\ \A c \in Checks : pending[c].waits =>
           clock < pending[c].read + (IF redis THEN MaxDelay ELSE 0)
    /\ clock' = clock + 1
    /\ UNCHANGED <<counters, pending, decision, admitted>>

Next ==
    /\ \/ \E c \in Checks :
             \/ \E req \in Requests : Start(c, req)
             \/ Reject(c) \/ Admit(c) \/ Lost(c)
       \/ Tick
    /\ UNCHANGED redis

Spec == Init /\ [][Next]_vars

-----------------------------------------------------------------------------
\* Domains of the state of the limiter.
RateLimitTypeOK ==
    /\ clock \in 0 .. MaxTime
    /\ counters \in [Buckets -> [Windows -> [count: Nat, expires: 0 .. MaxTime + Window]]]
    /\ \A c \in Checks :
          \/ pending[c] = NoCheck
          \/ \E req \in Requests, t \in 0 .. MaxTime : pending[c] = Waiting(req, t)
    /\ decision \in [Checks -> [allowed: BOOLEAN, retry: 0 .. Window + Second, win: Windows]]
    /\ admitted \in [Buckets -> [Windows -> [intime: Nat, late: Nat]]]

(***************************************************************************)
(* No bucket lets more than its limit through while its window lasts,      *)
(* although checks overlap.  Redis forgets a counter one window after its  *)
(* first charge, which may be before the last late script has run: those   *)
(* that come then find an empty bucket and can fill it once more, so that  *)
(* a window is charged no more than twice its limit.  In memory nothing is *)
(* late.                                                                   *)
(***************************************************************************)
WindowBound ==
    \A b \in DOMAIN counters, w \in Windows :
        /\ admitted[b][w].intime <= Limit(b)
        /\ admitted[b][w].intime + admitted[b][w].late <= 2 * Limit(b)
        /\ ~redis => admitted[b][w].late = 0

(***************************************************************************)
(* A rejected request is counted nowhere, and an admitted one in all its   *)
(* buckets: all or nothing.                                                *)
(***************************************************************************)
AllOrNothing ==
    [][\A c \in Checks : (pending[c].waits /\ ~pending'[c].waits) =>
         LET w == WindowId(pending[c].read)
             charged == {b \in DOMAIN counters : counters'[b] # counters[b]}
         IN  /\ charged \in {{}, BucketsFor(pending[c].req)}
             /\ ~decision'[c].allowed /\ decision'[c] # decision[c] => charged = {}]_vars

(***************************************************************************)
(* Retry-After, in memory, is long enough: who waits for it is counted in  *)
(* a later window than the one that was full.  On Redis, where it is taken *)
(* from a rounded time to live, it may be short of that (or not sent at    *)
(* all, being 0), but by no more than half a second.                       *)
(***************************************************************************)
Slack == IF redis THEN Second \div 2 ELSE 0

RetryAfterSuffices ==
    [][\A c \in Checks : (~decision'[c].allowed /\ pending[c].waits /\ ~pending'[c].waits
                            /\ decision'[c] # decision[c]) =>
         WindowId(clock + decision'[c].retry + Slack) > decision'[c].win]_vars

(***************************************************************************)
(* A decision counts a request everywhere or nowhere, and a refusal says   *)
(* when to come back, to half a second.                                    *)
(***************************************************************************)
DecisionsSound == AllOrNothing /\ RetryAfterSuffices
=============================================================================
