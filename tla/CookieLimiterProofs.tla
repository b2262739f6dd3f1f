------------------------- MODULE CookieLimiterProofs -------------------------
(***************************************************************************)
(* Proofs about the token buckets of the UDP listener, for any set of      *)
(* addresses, capacity, refill rate and size of the table.                 *)
(*                                                                         *)
(* A step asks for one address.  It stores that address's bucket, and may  *)
(* drop others from the table: those that are full, and, if that is not    *)
(* enough, the oldest.                                                     *)
(***************************************************************************)
EXTENDS CookieLimiter, SequenceTheorems, FiniteSetTheorems, TLAPS

Buckets == [tokens : 0 .. Capacity - 1, last : 0 .. now]

TypeInv ==
    /\ now \in 0 .. MaxTime
    /\ limiter \in [DOMAIN limiter -> Buckets]
    /\ DOMAIN limiter \subseteq Ips
    /\ IsFiniteSet(DOMAIN limiter)
    /\ Cardinality(DOMAIN limiter) <= MaxTable
    /\ grants \in [Ips -> Seq(Int)]

(* The reference, at time t and for the history g: n is the least of what  *)
(* is left over the intervals from each cookie to t, and of Capacity.      *)
Spare(t, g, i) == Capacity + (t - g[i]) * Refill - (Len(g) - i + 1)

Least(n, t, g) ==
    /\ n = Capacity \/ \E i \in 1 .. Len(g) : n = Spare(t, g, i)
    /\ n <= Capacity
    /\ \A i \in 1 .. Len(g) : n <= Spare(t, g, i)

BucketInv == \A ip \in Ips : Least(Tokens(ip), now, grants[ip])

-----------------------------------------------------------------------------
(* The refill of a longer time. *)
LEMMA RefillFacts ==
    /\ Refill \in Nat \ {0} /\ Capacity \in Nat \ {0}
    /\ \A t \in Int : t * Refill \in Int
    /\ \A t \in Nat : t * Refill \in Nat
    /\ \A t \in Int : (t + 1) * Refill = t * Refill + Refill
    /\ 0 * Refill = 0
<1>1. Refill \in Nat \ {0} /\ Capacity \in Nat \ {0}
  BY CookieAssumption
<1>2. /\ \A t \in Int : t * Refill \in Int
      /\ \A t \in Nat : t * Refill \in Nat
      /\ \A t \in Int : (t + 1) * Refill = t * Refill + Refill
      /\ 0 * Refill = 0
  BY <1>1
<1> QED BY <1>1, <1>2

LEMMA RefilledFacts ==
    ASSUME TypeInv, NEW b \in Buckets
    PROVE  Refilled(b) \in 0 .. Capacity
<1>1. b.tokens \in Nat /\ now - b.last \in Nat
  BY DEF Buckets, TypeInv
<1>2. (now - b.last) * Refill \in Nat
  BY <1>1, RefillFacts
<1> QED BY <1>1, <1>2, RefillFacts DEF Refilled

LEMMA TokensFacts ==
    ASSUME TypeInv, NEW ip \in Ips
    PROVE  /\ Tokens(ip) \in 0 .. Capacity
           /\ Tokens(ip) < Capacity => ip \in DOMAIN limiter
<1>1. CASE ip \in DOMAIN limiter
  <2>1. limiter[ip] \in Buckets
    BY <1>1 DEF TypeInv
  <2> QED BY <1>1, <2>1, RefilledFacts DEF Tokens
<1>2. CASE ip \notin DOMAIN limiter
  BY <1>2, RefillFacts DEF Tokens
<1> QED BY <1>1, <1>2

(* A bucket stored at this moment. *)
LEMMA StoredFacts ==
    ASSUME TypeInv, NEW n \in 0 .. Capacity - 1
    PROVE  /\ [tokens |-> n, last |-> now] \in Buckets
           /\ Refilled([tokens |-> n, last |-> now]) = n
<1>1. now \in Nat /\ now - now = 0 /\ 0 .. now \subseteq Nat /\ now \in 0 .. now
  BY DEF TypeInv
<1>2. (now - now) * Refill = 0
  BY <1>1, RefillFacts
<1>3. n < Capacity /\ n + 0 = n
  BY RefillFacts
<1> QED BY <1>1, <1>2, <1>3 DEF Buckets, Refilled

(* The table once the bucket of ip is stored. *)
LEMMA WithFacts ==
    ASSUME TypeInv, NEW ip \in Ips, NEW n \in 0 .. Capacity - 1
    PROVE  /\ DOMAIN With(limiter, ip, n) = DOMAIN limiter \cup {ip}
           /\ With(limiter, ip, n) \in [DOMAIN limiter \cup {ip} -> Buckets]
           /\ With(limiter, ip, n)[ip] = [tokens |-> n, last |-> now]
           /\ \A k \in DOMAIN limiter : k # ip => With(limiter, ip, n)[k] = limiter[k]
           /\ DOMAIN With(limiter, ip, n) \subseteq Ips
           /\ IsFiniteSet(DOMAIN With(limiter, ip, n))
<1> DEFINE b == [tokens |-> n, last |-> now]
<1>1. b \in Buckets
  BY StoredFacts
<1>2. With(limiter, ip, n) = [k \in DOMAIN limiter \cup {ip} |-> IF k = ip THEN b ELSE limiter[k]]
  BY DEF With
<1> HIDE DEF b
<1>3. \A k \in DOMAIN limiter \cup {ip} : (IF k = ip THEN b ELSE limiter[k]) \in Buckets
  BY <1>1 DEF TypeInv
<1>4. IsFiniteSet(DOMAIN limiter \cup {ip})
  BY FS_AddElement DEF TypeInv
<1> QED BY <1>2, <1>3, <1>4 DEF b, TypeInv

(* What a request of ip makes of the table: S leaves it, n is what the     *)
(* bucket of ip holds.                                                     *)
Asked(ip, n, S) ==
    /\ n \in 0 .. Capacity - 1
    /\ UNCHANGED now
    /\ DOMAIN limiter' = (DOMAIN limiter \cup {ip}) \ S
    /\ limiter' = [k \in DOMAIN limiter' |-> limiter'[k]]
    /\ \A k \in DOMAIN limiter' :
          limiter'[k] = IF k = ip THEN [tokens |-> n, last |-> now] ELSE limiter[k]
    /\ Cardinality(DOMAIN limiter') <= MaxTable

LEMMA AskedType ==
    ASSUME TypeInv, NEW ip \in Ips, NEW n, NEW S, Asked(ip, n, S), grants' \in [Ips -> Seq(Int)]
    PROVE  TypeInv'
<1>1. [tokens |-> n, last |-> now] \in Buckets
  BY StoredFacts DEF Asked
<1>2. Buckets' = Buckets
  BY DEF Asked, Buckets
<1>3. \A k \in DOMAIN limiter' : limiter'[k] \in Buckets
  BY <1>1 DEF Asked, TypeInv
<1>4. limiter' \in [DOMAIN limiter' -> Buckets]
  BY <1>3 DEF Asked
<1>5. IsFiniteSet(DOMAIN limiter')
  <2>1. IsFiniteSet(DOMAIN limiter \cup {ip})
    BY FS_AddElement DEF TypeInv
  <2> QED BY <2>1, FS_Subset DEF Asked
<1> QED BY <1>2, <1>4, <1>5 DEF Asked, TypeInv

(* A refusal stores an empty bucket and drops nothing. *)
LEMMA RefuseEffect ==
    ASSUME TypeInv, NEW ip \in Ips, Refuse(ip)
    PROVE  Asked(ip, 0, {}) /\ Tokens(ip) = 0 /\ ip \in DOMAIN limiter /\ UNCHANGED grants
<1>1. Tokens(ip) = 0 /\ ip \in DOMAIN limiter
  BY TokensFacts, RefillFacts DEF Refuse
<1>2. 0 \in 0 .. Capacity - 1
  BY RefillFacts
<1>3. limiter' = With(limiter, ip, 0) /\ UNCHANGED now /\ UNCHANGED grants
  BY <1>1 DEF Refuse, Requests
<1>4. DOMAIN limiter' = DOMAIN limiter /\ DOMAIN limiter \cup {ip} = DOMAIN limiter
  BY <1>1, <1>2, <1>3, WithFacts
<1>5. limiter' = [k \in DOMAIN limiter' |-> limiter'[k]]
  BY <1>3 DEF With
<1>6. \A k \in DOMAIN limiter' :
         limiter'[k] = IF k = ip THEN [tokens |-> 0, last |-> now] ELSE limiter[k]
  <2>1. limiter' = [k \in DOMAIN limiter \cup {ip} |->
                      IF k = ip THEN [tokens |-> 0, last |-> now] ELSE limiter[k]]
    BY <1>3 DEF With
  <2> DEFINE b == [tokens |-> 0, last |-> now]
  <2>2. limiter' = [k \in DOMAIN limiter \cup {ip} |-> IF k = ip THEN b ELSE limiter[k]]
    BY <2>1
  <2> HIDE DEF b
  <2>3. \A k \in DOMAIN limiter' : limiter'[k] = IF k = ip THEN b ELSE limiter[k]
    BY <1>4, <2>2
  <2> QED BY <2>3 DEF b
<1>7. Cardinality(DOMAIN limiter') <= MaxTable
  BY <1>4 DEF TypeInv
<1> QED BY <1>1, <1>2, <1>3, <1>4, <1>5, <1>6, <1>7 DEF Asked

(* A cookie takes a token; I are the addresses dropped as idle, V the      *)
(* oldest ones.                                                            *)
AllowDrops(ip, I, V) ==
    /\ ip \notin I /\ I \subseteq DOMAIN limiter /\ \A k \in I : Tokens(k) = Capacity
    /\ V \subseteq DOMAIN limiter \cup {ip}
    /\ V # {} => /\ Cardinality(DOMAIN limiter') = MaxTable
                 /\ \A v \in V, k \in DOMAIN limiter' :
                       (IF v = ip THEN now ELSE limiter[v].last) <= limiter'[k].last
    /\ grants' = [k \in Ips |-> IF k \in V THEN << >>
                                ELSE IF k = ip THEN Append(grants[k], now) ELSE grants[k]]

LEMMA AllowEffect ==
    ASSUME TypeInv, NEW ip \in Ips, Allow(ip)
    PROVE  /\ Tokens(ip) \in 1 .. Capacity
           /\ \E I, V : Asked(ip, Tokens(ip) - 1, I \cup V) /\ AllowDrops(ip, I, V)
<1> DEFINE n == Tokens(ip) - 1
           spent == With(limiter, ip, n)
           I == Idle(spent)
           pruned == Without(spent, I)
           granted == [grants EXCEPT ![ip] = Append(@, now)]
<1>1. Tokens(ip) \in 1 .. Capacity /\ n \in 0 .. Capacity - 1 /\ UNCHANGED now
  BY TokensFacts, RefillFacts DEF Allow, Requests
<1>2. /\ DOMAIN spent = DOMAIN limiter \cup {ip}
      /\ spent \in [DOMAIN limiter \cup {ip} -> Buckets]
      /\ spent[ip] = [tokens |-> n, last |-> now]
      /\ \A k \in DOMAIN limiter : k # ip => spent[k] = limiter[k]
  BY <1>1, WithFacts
<1>3. \/ /\ Cardinality(DOMAIN spent) <= MaxTable
         /\ limiter' = spent
         /\ grants' = granted
      \/ /\ Cardinality(DOMAIN pruned) <= MaxTable
         /\ limiter' = pruned
         /\ grants' = granted
      \/ \E victims \in Oldest(pruned) :
            /\ limiter' = Without(pruned, victims)
            /\ grants' = [k \in Ips |-> IF k \in victims THEN << >> ELSE granted[k]]
  BY DEF Allow
<1>4. granted = [k \in Ips |-> IF k = ip THEN Append(grants[k], now) ELSE grants[k]]
  BY DEF TypeInv
<1> HIDE DEF n, spent, granted
<1>5. /\ ip \notin I /\ I \subseteq DOMAIN limiter /\ \A k \in I : Tokens(k) = Capacity
  <2>1. Refilled(spent[ip]) # Capacity
    BY <1>1, <1>2, StoredFacts, RefillFacts
  <2>2. \A k \in I : k \in DOMAIN limiter \cup {ip} /\ Refilled(spent[k]) = Capacity
    BY <1>2 DEF Idle
  <2>3. \A k \in I : k # ip /\ k \in DOMAIN limiter /\ spent[k] = limiter[k]
    BY <1>2, <2>1, <2>2
  <2> QED BY <2>2, <2>3 DEF Tokens
<1>6. /\ DOMAIN pruned = (DOMAIN limiter \cup {ip}) \ I
      /\ \A k \in DOMAIN pruned : pruned[k] = spent[k]
      /\ pruned = [k \in DOMAIN pruned |-> pruned[k]]
  <2>1. pruned = [k \in DOMAIN spent \ I |-> spent[k]]
    BY DEF Without
  <2> HIDE DEF I, pruned
  <2> QED BY <1>2, <2>1
<1> HIDE DEF I, pruned
<1>7. \A k \in DOMAIN limiter \cup {ip} :
         spent[k] = IF k = ip THEN [tokens |-> n, last |-> now] ELSE limiter[k]
  BY <1>2
<1>8. CASE /\ Cardinality(DOMAIN spent) <= MaxTable
           /\ limiter' = spent
           /\ grants' = granted
  <2>1. limiter' = [k \in DOMAIN limiter' |-> limiter'[k]]
    BY <1>2, <1>8
  <2>2. Asked(ip, n, {} \cup {})
    BY <1>1, <1>2, <1>7, <1>8, <2>1 DEF Asked
  <2>3. AllowDrops(ip, {}, {})
    BY <1>4, <1>8 DEF AllowDrops
  <2> QED BY <1>1, <2>2, <2>3 DEF n
<1>9. CASE /\ Cardinality(DOMAIN pruned) <= MaxTable
           /\ limiter' = pruned
           /\ grants' = granted
  <2>1. Asked(ip, n, I \cup {})
    BY <1>1, <1>6, <1>7, <1>9 DEF Asked
  <2>2. AllowDrops(ip, I, {})
    BY <1>4, <1>5, <1>9 DEF AllowDrops
  <2> QED BY <1>1, <2>1, <2>2 DEF n
<1>10. CASE \E victims \in Oldest(pruned) :
              /\ limiter' = Without(pruned, victims)
              /\ grants' = [k \in Ips |-> IF k \in victims THEN << >> ELSE granted[k]]
  <2>1. PICK V \in Oldest(pruned) :
              /\ limiter' = Without(pruned, V)
              /\ grants' = [k \in Ips |-> IF k \in V THEN << >> ELSE granted[k]]
    BY <1>10
  <2>2. /\ V \subseteq DOMAIN pruned
        /\ Cardinality(DOMAIN pruned \ V) = MaxTable
        /\ \A v \in V, k \in DOMAIN pruned \ V : pruned[v].last <= pruned[k].last
    BY <2>1 DEF Oldest
  <2>3. /\ DOMAIN limiter' = DOMAIN pruned \ V
        /\ \A k \in DOMAIN limiter' : limiter'[k] = pruned[k]
        /\ limiter' = [k \in DOMAIN limiter' |-> limiter'[k]]
    <3>1. limiter' = [k \in DOMAIN pruned \ V |-> pruned[k]]
      BY <2>1 DEF Without
    <3> QED BY <3>1
  <2>4. Cardinality(DOMAIN limiter') <= MaxTable
    BY <2>2, <2>3, CookieAssumption
  <2>5. Asked(ip, n, I \cup V)
    BY <1>1, <1>6, <1>7, <2>3, <2>4 DEF Asked
  <2>6. \A v \in V : pruned[v].last = IF v = ip THEN now ELSE limiter[v].last
    <3>1. \A v \in V : pruned[v] = IF v = ip THEN [tokens |-> n, last |-> now] ELSE limiter[v]
      BY <1>6, <1>7, <2>2
    <3> QED BY <3>1
  <2>7. AllowDrops(ip, I, V)
    BY <1>4, <1>5, <1>6, <2>1, <2>2, <2>3, <2>6 DEF AllowDrops
  <2> QED BY <1>1, <2>5, <2>7 DEF n
<1> QED BY <1>1, <1>3, <1>8, <1>9, <1>10

LEMMA TypeNext == TypeInv /\ [Next]_vars => TypeInv'
<1> SUFFICES ASSUME TypeInv, [Next]_vars PROVE TypeInv'
  OBVIOUS
<1>1. CASE Tick
  <2>1. now' \in 0 .. MaxTime /\ 0 .. now \subseteq 0 .. now' /\ UNCHANGED <<limiter, grants>>
    BY <1>1, CookieAssumption DEF Tick, TypeInv
  <2>2. Buckets \subseteq Buckets'
    BY <2>1 DEF Buckets
  <2>3. limiter \in [DOMAIN limiter -> Buckets']
    BY <2>2 DEF TypeInv
  <2> QED BY <2>1, <2>3 DEF TypeInv
<1>2. ASSUME NEW ip \in Ips, Allow(ip) PROVE TypeInv'
  <2>1. PICK I, V : Asked(ip, Tokens(ip) - 1, I \cup V) /\ AllowDrops(ip, I, V)
    BY <1>2, AllowEffect
  <2>2. now \in Int
    BY DEF TypeInv
  <2>3. Append(grants[ip], now) \in Seq(Int) /\ << >> \in Seq(Int)
    BY <2>2, AppendProperties, EmptySeq DEF TypeInv
  <2>4. grants' \in [Ips -> Seq(Int)]
    BY <2>1, <2>3 DEF AllowDrops, TypeInv
  <2> QED BY <2>1, <2>4, AskedType
<1>3. ASSUME NEW ip \in Ips, Refuse(ip) PROVE TypeInv'
  <2>1. Asked(ip, 0, {}) /\ grants' \in [Ips -> Seq(Int)]
    BY <1>3, RefuseEffect DEF TypeInv
  <2> QED BY <2>1, AskedType
<1>4. CASE UNCHANGED vars
  BY <1>4 DEF vars, TypeInv, Buckets
<1> QED BY <1>1, <1>2, <1>3, <1>4 DEF Next

LEMMA TypeInit == Init => TypeInv
<1> SUFFICES ASSUME Init PROVE TypeInv
  OBVIOUS
<1>1. DOMAIN limiter = {}
  BY DEF Init
<1>2. limiter \in [DOMAIN limiter -> Buckets]
  BY <1>1 DEF Init
<1>3. IsFiniteSet({}) /\ Cardinality({}) = 0
  BY FS_EmptySet
<1>4. grants \in [Ips -> Seq(Int)] /\ now \in 0 .. MaxTime
  BY EmptySeq, CookieAssumption DEF Init
<1> QED BY <1>1, <1>2, <1>3, <1>4, CookieAssumption DEF TypeInv

(* The buckets, the clock and the history keep their ranges under every    *)
(* request and every tick.                                                 *)
THEOREM TypeInvariant == Spec => []TypeInv
BY TypeInit, TypeNext, PTL DEF Spec

(* _udp_cookie_rate_limiter never holds more than its limit, and only      *)
(* buckets that are neither full nor overdrawn.                            *)
THEOREM CookieTypeCorrect == Spec => []CookieTypeOK
<1>1. TypeInv => CookieTypeOK
  BY DEF TypeInv, CookieTypeOK, Buckets
<1> QED BY <1>1, TypeInvariant, PTL

(* An address is dropped from the table only when its bucket is full, or   *)
(* when the table is full of addresses that asked no earlier.              *)
THEOREM RecentKept == Spec => KeepsRecent
<1> DEFINE Justified(k) ==
             \/ Tokens(k) = Capacity
             \/ Cardinality({ j \in DOMAIN limiter' : limiter'[j].last >= limiter[k].last })
                   >= MaxTable
           Drops == \A ip \in DOMAIN limiter \ DOMAIN limiter' :
                      \/ Tokens(ip) = Capacity
                      \/ Cardinality({ k \in DOMAIN limiter' : limiter'[k].last >= limiter[ip].last })
                            >= MaxTable
<1>1. TypeInv /\ [Next]_vars => [Drops]_vars
  <2> SUFFICES ASSUME TypeInv, Next, NEW k \in DOMAIN limiter \ DOMAIN limiter'
               PROVE  Justified(k)
    OBVIOUS
  <2>1. CASE Tick
    BY <2>1 DEF Tick
  <2>2. ASSUME NEW ip \in Ips, Refuse(ip) PROVE Justified(k)
    BY <2>2, RefuseEffect DEF Asked
  <2>3. ASSUME NEW ip \in Ips, Allow(ip) PROVE Justified(k)
    <3>1. PICK I, V : Asked(ip, Tokens(ip) - 1, I \cup V) /\ AllowDrops(ip, I, V)
      BY <2>3, AllowEffect
    <3>2. CASE k \in I
      BY <3>1, <3>2 DEF AllowDrops
    <3>3. CASE k \in V
      <4> DEFINE J == { j \in DOMAIN limiter' : limiter'[j].last >= limiter[k].last }
      <4>1. TypeInv'
        BY <2>3, TypeNext DEF Next
      <4>2. limiter[k].last \in 0 .. now /\ now \in Nat
        BY DEF TypeInv, Buckets
      <4>3. ASSUME NEW j \in DOMAIN limiter'
            PROVE  limiter'[j].last >= limiter[k].last
        <5>1. limiter'[j].last \in Int
          <6>1. limiter'[j] \in Buckets'
            BY <4>1 DEF TypeInv
          <6> QED BY <6>1 DEF Buckets
        <5>2. (IF k = ip THEN now ELSE limiter[k].last) <= limiter'[j].last
          BY <3>1, <3>3 DEF AllowDrops
        <5> QED BY <4>2, <5>1, <5>2
      <4>4. J = DOMAIN limiter'
        BY <4>3
      <4>5. Cardinality(DOMAIN limiter') = MaxTable
        BY <3>1, <3>3 DEF AllowDrops
      <4> QED BY <4>4, <4>5, CookieAssumption
    <3> QED BY <3>1, <3>2, <3>3 DEF Asked
  <2> QED BY <2>1, <2>2, <2>3 DEF Next
<1>2. [][Drops]_vars => KeepsRecent
  BY DEF KeepsRecent
<1> QED BY <1>1, <1>2, TypeInvariant, PTL DEF Spec

-----------------------------------------------------------------------------
(* The reference over time: what is left grows by the refill, is capped,   *)
(* and a cookie takes one from every interval.                             *)

LEMMA SpareFacts ==
    ASSUME NEW t \in Int, NEW g \in Seq(Int), NEW i \in 1 .. Len(g)
    PROVE  Spare(t, g, i) \in Int /\ Spare(t + 1, g, i) = Spare(t, g, i) + Refill
<1>1. g[i] \in Int /\ Len(g) \in Nat /\ i \in Int
  BY LenProperties
<1>2. t - g[i] \in Int /\ (t + 1) - g[i] = (t - g[i]) + 1
  BY <1>1
<1>3. (t - g[i]) * Refill \in Int /\ ((t + 1) - g[i]) * Refill = (t - g[i]) * Refill + Refill
  BY <1>2, RefillFacts
<1>4. PICK p \in Int : p = (t - g[i]) * Refill
  BY <1>3
<1>5. PICK q \in Int : q = ((t + 1) - g[i]) * Refill
  BY <1>3, RefillFacts
<1>6. q = p + Refill
  BY <1>3, <1>4, <1>5
<1>7. Spare(t, g, i) = Capacity + p - (Len(g) - i + 1)
  BY <1>4 DEF Spare
<1>8. Spare(t + 1, g, i) = Capacity + q - (Len(g) - i + 1)
  BY <1>5 DEF Spare
<1> QED BY <1>1, <1>6, <1>7, <1>8, RefillFacts

LEMMA LeastTick ==
    ASSUME NEW n \in Int, NEW t \in Int, NEW g \in Seq(Int), Least(n, t, g)
    PROVE  Least(IF n + Refill < Capacity THEN n + Refill ELSE Capacity, t + 1, g)
<1>1. \A i \in 1 .. Len(g) : Spare(t, g, i) \in Int /\ Spare(t + 1, g, i) = Spare(t, g, i) + Refill
  BY SpareFacts
<1>2. CASE n + Refill < Capacity
  <2>1. n # Capacity
    BY <1>2, RefillFacts
  <2>2. PICK i \in 1 .. Len(g) : n = Spare(t, g, i)
    BY <2>1 DEF Least
  <2>3. n + Refill = Spare(t + 1, g, i)
    BY <1>1, <2>2
  <2>4. \A j \in 1 .. Len(g) : n + Refill <= Spare(t + 1, g, j)
    BY <1>1, RefillFacts DEF Least
  <2>5. n + Refill <= Capacity
    BY <1>2, RefillFacts
  <2>6. Least(n + Refill, t + 1, g)
    BY <2>3, <2>4, <2>5 DEF Least
  <2> QED BY <1>2, <2>6
<1>3. CASE ~(n + Refill < Capacity)
  <2>1. \A j \in 1 .. Len(g) : Capacity <= Spare(t + 1, g, j)
    BY <1>1, <1>3, RefillFacts DEF Least
  <2>2. Least(Capacity, t + 1, g)
    BY <2>1, RefillFacts DEF Least
  <2> QED BY <1>3, <2>2
<1> QED BY <1>2, <1>3

LEMMA LeastGrant ==
    ASSUME NEW n \in Int, NEW t \in Int, NEW g \in Seq(Int), Least(n, t, g)
    PROVE  Least(n - 1, t, Append(g, t))
<1> DEFINE h == Append(g, t)
<1>1. /\ Len(g) \in Nat /\ Len(h) = Len(g) + 1 /\ h[Len(g) + 1] = t
      /\ \A i \in 1 .. Len(g) : h[i] = g[i]
  BY AppendProperties, LenProperties
<1> HIDE DEF h
<1>2. ASSUME NEW i \in 1 .. Len(g)
      PROVE  Spare(t, h, i) = Spare(t, g, i) - 1 /\ Spare(t, g, i) \in Int
  <2>1. h[i] = g[i] /\ i \in Int /\ g[i] \in Int
    BY <1>1
  <2>2. PICK p \in Int : p = (t - g[i]) * Refill
    BY <2>1, RefillFacts
  <2>3. Spare(t, g, i) = Capacity + p - (Len(g) - i + 1)
    BY <2>2 DEF Spare
  <2>4. Spare(t, h, i) = Capacity + p - (Len(h) - i + 1)
    BY <2>1, <2>2 DEF Spare
  <2> QED BY <1>1, <2>1, <2>3, <2>4, RefillFacts
<1>3. Spare(t, h, Len(g) + 1) = Capacity - 1
  <2>1. (t - h[Len(g) + 1]) * Refill = 0
    BY <1>1, RefillFacts
  <2> QED BY <1>1, <2>1, RefillFacts DEF Spare
<1>4. \A i \in 1 .. Len(h) : i \in 1 .. Len(g) \/ i = Len(g) + 1
  BY <1>1
<1>5. \A i \in 1 .. Len(g) : i \in 1 .. Len(h)
  BY <1>1
<1>6. Len(g) + 1 \in 1 .. Len(h)
  BY <1>1
<1>7. n <= Capacity /\ Capacity \in Int
  BY RefillFacts DEF Least
<1>8. \A i \in 1 .. Len(h) : n - 1 <= Spare(t, h, i)
  <2>1. \A i \in 1 .. Len(g) : n - 1 <= Spare(t, h, i)
    BY <1>2 DEF Least
  <2>2. n - 1 <= Spare(t, h, Len(g) + 1)
    BY <1>3, <1>7
  <2> QED BY <1>4, <2>1, <2>2
<1>9. \E i \in 1 .. Len(h) : n - 1 = Spare(t, h, i)
  <2>1. CASE n = Capacity
    BY <1>3, <1>6, <2>1
  <2>2. CASE \E i \in 1 .. Len(g) : n = Spare(t, g, i)
    BY <1>2, <1>5, <2>2
  <2> QED BY <2>1, <2>2 DEF Least
<1>10. n - 1 <= Capacity
  BY <1>7
<1> QED BY <1>8, <1>9, <1>10 DEF Least, h

LEMMA LeastEmpty ==
    ASSUME NEW t
    PROVE  Least(Capacity, t, << >>)
BY EmptySeq, RefillFacts DEF Least

-----------------------------------------------------------------------------
LEMMA TokensTick ==
    ASSUME TypeInv, Tick, NEW ip \in Ips
    PROVE  Tokens(ip)' = IF Tokens(ip) + Refill < Capacity THEN Tokens(ip) + Refill ELSE Capacity
<1>1. UNCHANGED limiter /\ now' = now + 1
  BY DEF Tick
<1>2. CASE ip \notin DOMAIN limiter
  BY <1>1, <1>2, RefillFacts DEF Tokens
<1>3. CASE ip \in DOMAIN limiter
  <2>1. PICK b : b = limiter[ip]
    OBVIOUS
  <2>2. b.tokens \in Int /\ b.last \in Int /\ now \in Int
    BY <1>3, <2>1 DEF TypeInv, Buckets
  <2>3. PICK d \in Int : d = now - b.last
    BY <2>2
  <2>4. now' - b.last = d + 1
    BY <1>1, <2>2, <2>3
  <2>5. PICK p \in Int : p = d * Refill
    BY RefillFacts
  <2>6. (d + 1) * Refill = p + Refill
    BY <2>5, RefillFacts
  <2>7. Tokens(ip) = IF b.tokens + p < Capacity THEN b.tokens + p ELSE Capacity
    BY <1>3, <2>1, <2>3, <2>5 DEF Tokens, Refilled
  <2>8. Tokens(ip)' = IF b.tokens + (p + Refill) < Capacity
                      THEN b.tokens + (p + Refill) ELSE Capacity
    <3>1. Tokens(ip)' = IF b.tokens + (now' - b.last) * Refill < Capacity
                        THEN b.tokens + (now' - b.last) * Refill ELSE Capacity
      BY <1>1, <1>3, <2>1 DEF Tokens, Refilled
    <3>2. (now' - b.last) * Refill = p + Refill
      BY <2>4, <2>6
    <3> QED BY <3>1, <3>2
  <2> QED BY <2>2, <2>7, <2>8, RefillFacts
<1> QED BY <1>2, <1>3

LEMMA TokensAsked ==
    ASSUME TypeInv, NEW ip \in Ips, NEW n, NEW S, Asked(ip, n, S), NEW k \in Ips
    PROVE  /\ k \in S => Tokens(k)' = Capacity
           /\ k = ip /\ k \notin S => Tokens(k)' = n
           /\ k # ip /\ k \notin S => Tokens(k)' = Tokens(k)
<1>1. /\ UNCHANGED now /\ n \in 0 .. Capacity - 1
      /\ DOMAIN limiter' = (DOMAIN limiter \cup {ip}) \ S
      /\ \A j \in DOMAIN limiter' :
            limiter'[j] = IF j = ip THEN [tokens |-> n, last |-> now] ELSE limiter[j]
  BY DEF Asked
<1>2. \A b : Refilled(b)' = Refilled(b)
  BY <1>1 DEF Refilled
<1>3. CASE k \in S
  BY <1>1, <1>3 DEF Tokens
<1>4. CASE k = ip /\ k \notin S
  <2>1. k \in DOMAIN limiter' /\ limiter'[k] = [tokens |-> n, last |-> now]
    BY <1>1, <1>4
  <2>2. Tokens(k)' = Refilled([tokens |-> n, last |-> now])
    BY <1>1, <2>1 DEF Tokens, Refilled
  <2>3. Refilled([tokens |-> n, last |-> now]) = n
    BY <1>1, StoredFacts
  <2> QED BY <1>4, <2>2, <2>3
<1>5. CASE k # ip /\ k \notin S
  BY <1>1, <1>5 DEF Tokens, Refilled
<1> QED BY <1>3, <1>4, <1>5

LEMMA BucketNext == TypeInv /\ BucketInv /\ [Next]_vars => BucketInv'
<1> SUFFICES ASSUME TypeInv, BucketInv, [Next]_vars, NEW k \in Ips
             PROVE  Least(Tokens(k)', now', grants'[k])
  BY DEF BucketInv, Least, Spare
<1>0. /\ Least(Tokens(k), now, grants[k]) /\ Tokens(k) \in Int /\ now \in Int
      /\ grants[k] \in Seq(Int)
  BY TokensFacts DEF BucketInv, TypeInv
<1>1. CASE Tick
  <2>1. now' = now + 1 /\ UNCHANGED grants
    BY <1>1 DEF Tick
  <2> QED BY <1>0, <1>1, <2>1, TokensTick, LeastTick
<1>2. ASSUME NEW ip \in Ips, Refuse(ip) PROVE Least(Tokens(k)', now', grants'[k])
  <2>1. Asked(ip, 0, {}) /\ Tokens(ip) = 0 /\ UNCHANGED grants /\ UNCHANGED now
    BY <1>2, RefuseEffect DEF Asked
  <2>2. Tokens(k)' = Tokens(k)
    BY <2>1, TokensAsked
  <2> QED BY <1>0, <2>1, <2>2
<1>3. ASSUME NEW ip \in Ips, Allow(ip) PROVE Least(Tokens(k)', now', grants'[k])
  <2>1. PICK I, V : Asked(ip, Tokens(ip) - 1, I \cup V) /\ AllowDrops(ip, I, V)
    BY <1>3, AllowEffect
  <2>2. UNCHANGED now
    BY <2>1 DEF Asked
  <2>3. /\ k \in V => grants'[k] = << >>
        /\ k \notin V /\ k = ip => grants'[k] = Append(grants[k], now)
        /\ k \notin V /\ k # ip => grants'[k] = grants[k]
    BY <2>1 DEF AllowDrops
  <2>4. /\ k \in I \cup V => Tokens(k)' = Capacity
        /\ k = ip /\ k \notin I \cup V => Tokens(k)' = Tokens(ip) - 1
        /\ k # ip /\ k \notin I \cup V => Tokens(k)' = Tokens(k)
    BY <2>1, TokensAsked
  <2>5. ip \notin I /\ (k \in I => Tokens(k) = Capacity)
    BY <2>1 DEF AllowDrops
  <2>6. CASE k \in V
    BY <2>2, <2>3, <2>4, <2>6, LeastEmpty
  <2>7. CASE k \notin V /\ k = ip
    <3>1. Least(Tokens(k) - 1, now, Append(grants[k], now))
      BY <1>0, LeastGrant
    <3> QED BY <2>2, <2>3, <2>4, <2>5, <2>7, <3>1
  <2>8. CASE k \notin V /\ k # ip
    BY <1>0, <2>2, <2>3, <2>4, <2>5, <2>8
  <2> QED BY <2>6, <2>7, <2>8
<1>4. CASE UNCHANGED vars
  BY <1>0, <1>4 DEF vars, Tokens, Refilled
<1> QED BY <1>1, <1>2, <1>3, <1>4 DEF Next

(* Whatever requests are made, refused and pruned, an address has exactly  *)
(* the tokens that the history of its cookies leaves it.                   *)
THEOREM BucketsExact == Spec => []BucketExact
<1>1. Init => BucketInv
  BY LeastEmpty DEF Init, BucketInv, Tokens
<1>2. ASSUME TypeInv, BucketInv, NEW ip \in Ips
      PROVE  Tokens(ip) = Allowance(ip)
  <2> DEFINE g == grants[ip]
             lefts == { Left(g, i) : i \in 1 .. Len(g) } \cup {Capacity}
  <2>1. g \in Seq(Int) /\ now \in Int /\ Tokens(ip) \in Int /\ Least(Tokens(ip), now, g)
    BY <1>2, TokensFacts DEF TypeInv, BucketInv
  <2>2. \A i \in 1 .. Len(g) : Left(g, i) = Spare(now, g, i) /\ Left(g, i) \in Int
    BY <2>1, SpareFacts DEF Left, Spare
  <2>3. \A n \in lefts : n \in Int
    BY <2>2, RefillFacts
  <2>4. Tokens(ip) \in lefts /\ \A n \in lefts : Tokens(ip) <= n
    BY <2>1, <2>2 DEF Least
  <2>5. Allowance(ip) = CHOOSE n \in lefts : \A j \in lefts : n <= j
    BY DEF Allowance
  <2> HIDE DEF lefts
  <2>6. Allowance(ip) \in lefts /\ \A j \in lefts : Allowance(ip) <= j
    BY <2>4, <2>5
  <2> QED BY <2>3, <2>4, <2>6
<1>3. TypeInv /\ BucketInv => BucketExact
  BY <1>2 DEF BucketExact
<1> QED BY <1>1, <1>3, BucketNext, TypeInvariant, PTL DEF Spec

=============================================================================
