---------------------------- MODULE CookieLimiter ----------------------------
(***************************************************************************)
(* USMPServer._allow_udp_cookie: the token buckets, one per source         *)
(* address, that limit how many cookies the UDP listener issues.  The      *)
(* whole call is one step of the event loop.                               *)
(*                                                                         *)
(* Time is counted in ticks in which a bucket gains Refill tokens (a tick  *)
(* of 0.2 s and one token at the code's 5 per second), so tokens are whole *)
(* numbers.                                                                *)
(***************************************************************************)
EXTENDS Integers, Sequences, FiniteSets

CONSTANTS
    Ips,          \* source addresses
    Capacity,     \* 10 in the code
    Refill,       \* tokens per tick
    MaxTable,     \* 1000 in the code
    MaxTime,      \* bound on the clock
    MaxRequests   \* bound on the requests of each address

ASSUME CookieAssumption ==
    /\ Capacity \in Nat \ {0} /\ Refill \in Nat \ {0} /\ MaxTable \in Nat \ {0}
    /\ MaxTime \in Nat /\ MaxRequests \in Nat

VARIABLES
    now,       \* time.monotonic()
    limiter,   \* _udp_cookie_rate_limiter: (tokens, last) of the addresses in it
    requests,  \* requests of each address so far
    grants     \* history: when each address was allowed a cookie, in order,
               \* since it was last evicted

vars == <<now, limiter, requests, grants>>

Init ==
    /\ now = 0
    /\ limiter = << >>  \* the empty dictionary
    /\ requests = [ip \in Ips |-> 0]
    /\ grants = [ip \in Ips |-> << >>]

Tick ==
    /\ now < MaxTime
    /\ now' = now + 1
    /\ UNCHANGED <<limiter, requests, grants>>

-----------------------------------------------------------------------------
(* min(capacity, tokens + (now - last) * refill_per_sec) *)
Refilled(entry) ==
    LET tokens == entry.tokens + (now - entry.last) * Refill
    IN  IF tokens < Capacity THEN tokens ELSE Capacity

(* What an address has: a full bucket if the table does not know it. *)
Tokens(ip) == IF ip \in DOMAIN limiter THEN Refilled(limiter[ip]) ELSE Capacity

With(table, ip, tokens) ==
    [k \in DOMAIN table \cup {ip} |->
        IF k = ip THEN [tokens |-> tokens, last |-> now] ELSE table[k]]

Without(table, ips) == [k \in DOMAIN table \ ips |-> table[k]]

(* Mutant: an entry that has a token again counts as idle. *)
Idle_OneToken(table) == { k \in DOMAIN table : Refilled(table[k]) >= 1 }

(* "An entry that has fully refilled is idle and holds no state worth      *)
(* keeping."                                                               *)
Idle(table) == { k \in DOMAIN table : Refilled(table[k]) = Capacity }

(* Mutant: any entry may go. *)
Oldest_Any(table) ==
    { victims \in SUBSET DOMAIN table :
        Cardinality(DOMAIN table \ victims) = MaxTable }

(* Mutant: nothing is evicted. *)
Oldest_Nothing(table) == { {} }

(* "evict oldest-seen first": the ways to cut the table to its limit.  (Of *)
(* entries with equal times the code takes the ones inserted first.)       *)
Oldest(table) ==
    { victims \in SUBSET DOMAIN table :
        /\ Cardinality(DOMAIN table \ victims) = MaxTable
        /\ \A v \in victims, k \in DOMAIN table \ victims : table[v].last <= table[k].last }

Requests(ip) ==
    /\ requests[ip] < MaxRequests
    /\ requests' = [requests EXCEPT ![ip] = @ + 1]
    /\ UNCHANGED now

Refuse(ip) ==
    /\ Requests(ip)
    /\ Tokens(ip) < 1
    /\ limiter' = With(limiter, ip, Tokens(ip))
    /\ UNCHANGED grants

Allow(ip) ==
    LET spent == With(limiter, ip, Tokens(ip) - 1)
        pruned == Without(spent, Idle(spent))
        granted == [grants EXCEPT ![ip] = Append(@, now)]
    IN
    /\ Requests(ip)
    /\ Tokens(ip) >= 1
    /\ \/ /\ Cardinality(DOMAIN spent) <= MaxTable
          /\ limiter' = spent
          /\ grants' = granted
       \/ /\ Cardinality(DOMAIN spent) > MaxTable
          /\ Cardinality(DOMAIN pruned) <= MaxTable
          /\ limiter' = pruned
          /\ grants' = granted
       \/ /\ Cardinality(DOMAIN pruned) > MaxTable
          /\ \E victims \in Oldest(pruned) :
                /\ limiter' = Without(pruned, victims)
                /\ grants' = [k \in Ips |-> IF k \in victims THEN << >> ELSE granted[k]]

Next == Tick \/ \E ip \in Ips : Allow(ip) \/ Refuse(ip)

Spec == Init /\ [][Next]_vars

-----------------------------------------------------------------------------
(* A flood of addresses cannot make the table grow past its limit, and no  *)
(* bucket in it is full or overdrawn.                                      *)
CookieTypeOK ==
    /\ now \in 0 .. MaxTime
    /\ DOMAIN limiter \subseteq Ips
    /\ Cardinality(DOMAIN limiter) <= MaxTable
    /\ \A ip \in DOMAIN limiter :
          limiter[ip].tokens \in 0 .. Capacity - 1 /\ limiter[ip].last \in 0 .. now

(* The reference: of the cookies allowed from the i-th on, at most         *)
(* Capacity plus the refill of the time since then; the allowance is what  *)
(* is left of that over every such interval.                               *)
Left(g, i) == Capacity + (now - g[i]) * Refill - (Len(g) - i + 1)

Allowance(ip) ==
    LET g == grants[ip]
        lefts == { Left(g, i) : i \in 1 .. Len(g) } \cup {Capacity}
    IN  CHOOSE n \in lefts : \A k \in lefts : n <= k

(* Lazy refill, refusals that store the bucket, and pruning all leave an   *)
(* address exactly the tokens that the history of its cookies justifies:   *)
(* it never gets more than Capacity plus the refill over any interval, is  *)
(* never refused with less, and loses nothing and gains nothing when the   *)
(* table forgets it as idle.                                               *)
BucketExact == \A ip \in Ips : Tokens(ip) = Allowance(ip)

(* An address leaves the table, and so starts afresh, only when its bucket *)
(* is full, or when as many addresses as the table holds have asked no     *)
(* earlier than it did.                                                    *)
KeepsRecent ==
    [][\A ip \in DOMAIN limiter \ DOMAIN limiter' :
          \/ Tokens(ip) = Capacity
          \/ Cardinality({ k \in DOMAIN limiter' : limiter'[k].last >= limiter[ip].last })
                >= MaxTable]_vars

=============================================================================
