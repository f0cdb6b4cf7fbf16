---------------------------- MODULE Lemmas_proof ----------------------------
(***************************************************************************)
(* What several of the proofs rest on: induction and recursion over the    *)
(* natural numbers; sequences as queues; and a queue of write requests.    *)
(***************************************************************************)
EXTENDS Integers, Sequences, FiniteSets, SequenceTheorems, FiniteSetTheorems,
        WellFoundedInduction, TLAPS

-----------------------------------------------------------------------------
(* Induction, with a set in the place of a predicate, and functions        *)
(* defined by recursion on the numbers up to a bound.                      *)

\* What an interval holds; it saves the provers from counting up a long one.
LEMMA Interval ==
  ASSUME NEW l \in Int, NEW m \in Int, NEW x \in Int
  PROVE  x \in l..m <=> l <= x /\ x <= m
  OBVIOUS

NatLess == {p \in Nat \X Nat : p[1] < p[2]}

LEMMA SetInduction ==
  ASSUME NEW S, 0 \in S, \A n \in Nat : n \in S => n + 1 \in S
  PROVE  Nat \subseteq S
<1>. DEFINE T == Nat \ S
<1>1. IsWellFoundedOn(NatLess, Nat)
  BY NatLessThanWellFounded, Zenon DEF OpToRel, NatLess
<1>. SUFFICES ASSUME T # {} PROVE FALSE
  OBVIOUS
<1>2. PICK x \in T : \A y \in T : ~ (<<y, x>> \in NatLess)
  <2>1. T \subseteq Nat
    OBVIOUS
  <2>. HIDE DEF T
  <2>. QED  BY <1>1, <2>1, WFMin
<1>3. x \in Nat /\ x # 0
  OBVIOUS
<1>4. x - 1 \in T /\ x - 1 < x
  BY <1>3
<1>5. \A m, n \in Nat : <<m, n>> \in NatLess <=> m < n
  BY DEF NatLess
<1>. QED  BY <1>2, <1>3, <1>4, <1>5

LEMMA SmallestExists ==
  ASSUME NEW T \in SUBSET Nat, T # {}
  PROVE  \E i \in T : \A j \in T : i <= j
<1>1. IsWellFoundedOn(NatLess, Nat)
  BY NatLessThanWellFounded, Zenon DEF OpToRel, NatLess
<1>2. PICK x \in T : \A y \in T : ~ (<<y, x>> \in NatLess)
  BY <1>1, WFMin
<1>3. \A m, n \in Nat : <<m, n>> \in NatLess <=> m < n
  BY DEF NatLess
<1>4. ASSUME NEW y \in T PROVE x <= y
  <2>1. x \in Nat /\ y \in Nat
    OBVIOUS
  <2>2. ~ (y < x)
    BY <1>2, <1>3, <2>1
  <2>. QED  BY <2>1, <2>2
<1>. QED  BY <1>4

\* g begins with a and goes on by h, up to n.
Follows(g, n, S, a, h) ==
  /\ g \in [0..n -> S] /\ g[0] = a
  /\ \A i \in 1..n : g[i] = h[i][g[i - 1]]

LEMMA Recursion ==
  ASSUME NEW N \in Nat, NEW S, NEW a \in S, NEW h \in [1..N -> [S -> S]]
  PROVE  \E g : Follows(g, N, S, a, h)
<1>. DEFINE T == {n \in Nat : n <= N => \E g : Follows(g, n, S, a, h)}
<1>1. 0 \in T
  <2>1. Follows([i \in 0..0 |-> a], 0, S, a, h)
    BY DEF Follows
  <2>. QED  BY <2>1
<1>2. ASSUME NEW n \in Nat, n \in T PROVE n + 1 \in T
  <2>. SUFFICES ASSUME n + 1 <= N PROVE \E g : Follows(g, n + 1, S, a, h)
    OBVIOUS
  <2>1. PICK g : Follows(g, n, S, a, h)
    BY <1>2
  <2>. DEFINE f == [i \in 0..n + 1 |-> IF i <= n THEN g[i] ELSE h[n + 1][g[n]]]
  <2>2. g[n] \in S /\ n + 1 \in 1..N
    BY <2>1 DEF Follows
  <2>3. h[n + 1][g[n]] \in S
    BY <2>2
  <2>4. f \in [0..n + 1 -> S] /\ f[0] = a
    BY <2>1, <2>3 DEF Follows
  <2>5. ASSUME NEW i \in 1..n + 1 PROVE f[i] = h[i][f[i - 1]]
    <3>1. f[i - 1] = g[i - 1]
      OBVIOUS
    <3>2. CASE i <= n
      BY <2>1, <3>1, <3>2 DEF Follows
    <3>3. CASE i = n + 1
      BY <3>1, <3>3
    <3>. QED  BY <3>2, <3>3
  <2>6. Follows(f, n + 1, S, a, h)
    BY <2>4, <2>5 DEF Follows
  <2>. QED  BY <2>6
<1>3. N \in T
  <2>. HIDE DEF T
  <2>. QED  BY <1>1, <1>2, SetInduction
<1>. QED  BY <1>3

\* What is true of c at 0, and passes from each number to the next, is true
\* of it up to N.
LEMMA Carries ==
  ASSUME NEW N \in Nat, NEW S, NEW c, c[0] \in S,
         \A n \in 1..N : c[n - 1] \in S => c[n] \in S
  PROVE  \A n \in 0..N : c[n] \in S
<1>. DEFINE T == {n \in Nat : n <= N => c[n] \in S}
<1>1. 0 \in T
  OBVIOUS
<1>2. ASSUME NEW n \in Nat, n \in T PROVE n + 1 \in T
  BY <1>2
<1>3. Nat \subseteq T
  <2>. HIDE DEF T
  <2>. QED  BY <1>1, <1>2, SetInduction
<1>. QED  BY <1>3

-----------------------------------------------------------------------------
(* Queue facts, for any sequence.                                          *)

LEMMA TailFacts ==
  ASSUME NEW S, NEW q \in Seq(S), q # <<>>
  PROVE  /\ Tail(q) \in Seq(S)
         /\ Len(Tail(q)) = Len(q) - 1
         /\ \A i \in 1..Len(Tail(q)) : Tail(q)[i] = q[i + 1]
         /\ Head(q) = q[1]
         /\ Head(q) \in S
         /\ Len(q) \in Nat \ {0}
  BY HeadTailProperties, LenProperties, EmptySeq

LEMMA AppendFacts ==
  ASSUME NEW S, NEW q \in Seq(S), NEW x \in S
  PROVE  /\ Append(q, x) \in Seq(S)
         /\ Len(Append(q, x)) = Len(q) + 1
         /\ \A i \in 1..Len(q) : Append(q, x)[i] = q[i]
         /\ Append(q, x)[Len(q) + 1] = x
         /\ Len(q) \in Nat
  BY AppendProperties, LenProperties

-----------------------------------------------------------------------------
(***************************************************************************)
(* A queue of write requests and what has become of each of them, as both  *)
(* bus drivers keep them in writes_ (and in the history variable fate),    *)
(* against WriteService, which knows the fates only.                       *)
(*                                                                         *)
(* Mirrors says that the queue holds just the requests that wait, oldest   *)
(* first.  The lemmas say that the four things queue_write() and the       *)
(* drivers do to the queue preserve it, and that its length and its front  *)
(* are the number and the oldest of the waiting requests.                  *)
(***************************************************************************)
WaitingOf(R, f) == {w \in R : f[w] = "queued"}

Mirrors(q, R, f) ==
  /\ \A i \in 1..Len(q) : q[i].raw \in R /\ f[q[i].raw] = "queued"
  /\ \A w \in WaitingOf(R, f) : \E i \in 1..Len(q) : q[i].raw = w
  /\ \A i, j \in 1..Len(q) : i < j => q[i].raw < q[j].raw
  /\ \A v, w \in R : v < w /\ f[v] = "none" => f[w] = "none"

\* Request w is the next to be issued.
Fresh(w, R, f) == f[w] = "none" /\ \A v \in R : v < w => f[v] # "none"

(* As many wait as the queue is long.                                      *)
LEMMA LengthCounts ==
  ASSUME NEW S, NEW q \in Seq(S), NEW R \in SUBSET Int, NEW f, Mirrors(q, R, f)
  PROVE  Cardinality(WaitingOf(R, f)) = Len(q)
<1>. DEFINE b == [i \in 1..Len(q) |-> q[i].raw]
<1>1. Len(q) \in Nat
  BY LenProperties
<1>2. b \in [1..Len(q) -> WaitingOf(R, f)]
  BY DEF Mirrors, WaitingOf
<1>3. \A i, j \in 1..Len(q) : b[i] = b[j] => i = j
  <2>. SUFFICES ASSUME NEW i \in 1..Len(q), NEW j \in 1..Len(q), i # j
                PROVE  q[i].raw # q[j].raw
    OBVIOUS
  <2>1. q[i].raw \in Int /\ q[j].raw \in Int
    BY DEF Mirrors
  <2>2. CASE i < j
    BY <2>1, <2>2 DEF Mirrors
  <2>3. CASE j < i
    BY <2>1, <2>3 DEF Mirrors
  <2>. QED  BY <1>1, <2>2, <2>3
<1>4. \A w \in WaitingOf(R, f) : \E i \in 1..Len(q) : b[i] = w
  BY DEF Mirrors
<1>5. ExistsBijection(1..Len(q), WaitingOf(R, f))
  <2>1. b \in Injection(1..Len(q), WaitingOf(R, f))
    BY <1>2, <1>3 DEF Injection, IsInjective
  <2>2. b \in Surjection(1..Len(q), WaitingOf(R, f))
    BY <1>2, <1>4 DEF Surjection
  <2>. QED  BY <2>1, <2>2 DEF ExistsBijection, Bijection
<1>. QED  BY <1>1, <1>5, FS_CountingElements

(* The front of the queue is the oldest request that waits.                *)
LEMMA FrontIsOldest ==
  ASSUME NEW S, NEW q \in Seq(S), NEW R \in SUBSET Int, NEW f, Mirrors(q, R, f),
         q # <<>>
  PROVE  /\ Head(q).raw \in WaitingOf(R, f)
         /\ \A v \in WaitingOf(R, f) : Head(q).raw <= v
<1>1. Len(q) \in Nat \ {0} /\ Head(q) = q[1]
  BY HeadTailProperties, LenProperties, EmptySeq
<1>2. 1 \in 1..Len(q)
  BY <1>1
<1>3. Head(q).raw \in WaitingOf(R, f)
  BY <1>1, <1>2 DEF Mirrors, WaitingOf
<1>4. ASSUME NEW v \in WaitingOf(R, f) PROVE Head(q).raw <= v
  <2>1. PICK i \in 1..Len(q) : q[i].raw = v
    BY DEF Mirrors
  <2>2. q[1].raw \in Int /\ v \in Int
    BY <1>2 DEF Mirrors, WaitingOf
  <2>3. CASE i = 1
    BY <1>1, <2>1, <2>2, <2>3
  <2>4. CASE i # 1
    BY <1>1, <1>2, <2>1, <2>2, <2>4 DEF Mirrors
  <2>. QED  BY <2>3, <2>4
<1>. QED  BY <1>3, <1>4

-----------------------------------------------------------------------------
(* The front leaves.                                                       *)
LEMMA PopMirrors ==
  ASSUME NEW S, NEW q \in Seq(S), q # <<>>, NEW R \in SUBSET Int,
         NEW F, NEW f \in [R -> F], Mirrors(q, R, f),
         NEW o, o # "queued", o # "none"
  PROVE  Mirrors(Tail(q), R, [f EXCEPT ![Head(q).raw] = o])
<1>. DEFINE g == [f EXCEPT ![Head(q).raw] = o]
            t == Tail(q)
<1>1. /\ Len(q) \in Nat \ {0} /\ Head(q) = q[1] /\ Len(t) = Len(q) - 1
      /\ \A i \in 1..Len(t) : t[i] = q[i + 1] /\ i + 1 \in 1..Len(q)
      /\ 1 \in 1..Len(q)
  <2>1. /\ Len(q) \in Nat \ {0} /\ Head(q) = q[1] /\ Len(t) = Len(q) - 1
        /\ \A i \in 1..Len(t) : t[i] = q[i + 1]
    BY HeadTailProperties, LenProperties, EmptySeq
  <2>. QED  BY <2>1
<1>2. q[1].raw \in R /\ q[1].raw \in Int
  BY <1>1 DEF Mirrors
<1>3. \A w \in R : g[w] = IF w = q[1].raw THEN o ELSE f[w]
  BY <1>1, <1>2
<1>. HIDE DEF g, t
<1>4. \A i \in 1..Len(t) : t[i].raw \in R /\ g[t[i].raw] = "queued"
  <2>. SUFFICES ASSUME NEW i \in 1..Len(t)
                PROVE  t[i].raw \in R /\ g[t[i].raw] = "queued"
    OBVIOUS
  <2>1. t[i] = q[i + 1] /\ i + 1 \in 1..Len(q) /\ 1 < i + 1
    BY <1>1
  <2>2. q[i + 1].raw \in R /\ f[q[i + 1].raw] = "queued" /\ q[1].raw < q[i + 1].raw
    BY <1>1, <2>1 DEF Mirrors
  <2>. QED  BY <1>2, <1>3, <2>1, <2>2
<1>5. \A w \in WaitingOf(R, g) : \E i \in 1..Len(t) : t[i].raw = w
  <2>. SUFFICES ASSUME NEW w \in WaitingOf(R, g)
                PROVE  \E i \in 1..Len(t) : t[i].raw = w
    OBVIOUS
  <2>1. w # q[1].raw /\ w \in WaitingOf(R, f)
    BY <1>3 DEF WaitingOf
  <2>2. PICK j \in 1..Len(q) : q[j].raw = w
    BY <2>1 DEF Mirrors
  <2>3. j # 1 /\ j - 1 \in 1..Len(t) /\ (j - 1) + 1 = j
    BY <1>1, <2>1, <2>2
  <2>4. t[j - 1] = q[j]
    BY <1>1, <2>3
  <2>. QED  BY <2>2, <2>3, <2>4
<1>6. \A i, j \in 1..Len(t) : i < j => t[i].raw < t[j].raw
  <2>. SUFFICES ASSUME NEW i \in 1..Len(t), NEW j \in 1..Len(t), i < j
                PROVE  t[i].raw < t[j].raw
    OBVIOUS
  <2>1. i + 1 \in 1..Len(q) /\ j + 1 \in 1..Len(q) /\ i + 1 < j + 1
    BY <1>1
  <2>. QED  BY <1>1, <2>1 DEF Mirrors
<1>7. \A v, w \in R : v < w /\ g[v] = "none" => g[w] = "none"
  <2>1. f[q[1].raw] = "queued"
    BY <1>1 DEF Mirrors
  <2>. QED  BY <1>2, <1>3, <2>1 DEF Mirrors
<1>. QED  BY <1>4, <1>5, <1>6, <1>7 DEF Mirrors, g, t

(* The next request is turned away.                                        *)
LEMMA RefuseMirrors ==
  ASSUME NEW S, NEW q \in Seq(S), NEW R \in SUBSET Int,
         NEW F, NEW f \in [R -> F], Mirrors(q, R, f),
         NEW w \in R, Fresh(w, R, f)
  PROVE  Mirrors(q, R, [f EXCEPT ![w] = "refused"])
<1>. DEFINE g == [f EXCEPT ![w] = "refused"]
<1>1. \A v \in R : g[v] = IF v = w THEN "refused" ELSE f[v]
  OBVIOUS
<1>. HIDE DEF g
<1>2. f[w] = "none" /\ \A v \in R : v < w => f[v] # "none"
  BY DEF Fresh
<1>3. \A i \in 1..Len(q) : q[i].raw \in R /\ g[q[i].raw] = "queued"
  BY <1>1, <1>2 DEF Mirrors
<1>4. WaitingOf(R, g) = WaitingOf(R, f)
  BY <1>1, <1>2 DEF WaitingOf
<1>5. \A v, u \in R : v < u /\ g[v] = "none" => g[u] = "none"
  BY <1>1, <1>2 DEF Mirrors
<1>. QED  BY <1>3, <1>4, <1>5 DEF Mirrors, g

(* The next request joins the queue.                                       *)
LEMMA PushMirrors ==
  ASSUME NEW S, NEW q \in Seq(S), NEW R \in SUBSET Int,
         NEW F, NEW f \in [R -> F], Mirrors(q, R, f),
         NEW x \in S, x.raw \in R, Fresh(x.raw, R, f)
  PROVE  Mirrors(Append(q, x), R, [f EXCEPT ![x.raw] = "queued"])
<1>. DEFINE g == [f EXCEPT ![x.raw] = "queued"]
            p == Append(q, x)
<1>1. /\ Len(q) \in Nat /\ Len(p) = Len(q) + 1
      /\ \A i \in 1..Len(q) : p[i] = q[i]
      /\ p[Len(q) + 1] = x
  BY AppendProperties, LenProperties
<1>2. \A v \in R : g[v] = IF v = x.raw THEN "queued" ELSE f[v]
  OBVIOUS
<1>. HIDE DEF g, p
<1>3. f[x.raw] = "none" /\ \A v \in R : v < x.raw => f[v] # "none"
  BY DEF Fresh
<1>4. \A i \in 1..Len(p) : i \in 1..Len(q) \/ i = Len(q) + 1
  BY <1>1
<1>5. \A i \in 1..Len(q) : /\ q[i].raw \in R /\ q[i].raw \in Int
                           /\ f[q[i].raw] = "queued" /\ q[i].raw # x.raw
  BY <1>3 DEF Mirrors
<1>6. \A i \in 1..Len(q) : q[i].raw < x.raw
  <2>. SUFFICES ASSUME NEW i \in 1..Len(q) PROVE q[i].raw < x.raw
    OBVIOUS
  <2>1. ~(x.raw < q[i].raw)
    BY <1>3, <1>5 DEF Mirrors
  <2>2. x.raw \in Int
    OBVIOUS
  <2>. QED  BY <1>5, <2>1, <2>2
<1>7. \A i \in 1..Len(p) : p[i].raw \in R /\ g[p[i].raw] = "queued"
  BY <1>1, <1>2, <1>4, <1>5
<1>8. \A w \in WaitingOf(R, g) : \E i \in 1..Len(p) : p[i].raw = w
  <2>. SUFFICES ASSUME NEW w \in WaitingOf(R, g)
                PROVE  \E i \in 1..Len(p) : p[i].raw = w
    OBVIOUS
  <2>1. CASE w = x.raw
    BY <1>1, <2>1
  <2>2. CASE w # x.raw
    <3>1. w \in WaitingOf(R, f)
      BY <1>2, <2>2 DEF WaitingOf
    <3>2. PICK i \in 1..Len(q) : q[i].raw = w
      BY <3>1 DEF Mirrors
    <3>. QED  BY <1>1, <3>2
  <2>. QED  BY <2>1, <2>2
<1>9. \A i, j \in 1..Len(p) : i < j => p[i].raw < p[j].raw
  <2>. SUFFICES ASSUME NEW i \in 1..Len(p), NEW j \in 1..Len(p), i < j
                PROVE  p[i].raw < p[j].raw
    OBVIOUS
  <2>1. i \in 1..Len(q)
    BY <1>1
  <2>2. CASE j \in 1..Len(q)
    BY <1>1, <2>1, <2>2 DEF Mirrors
  <2>3. CASE j = Len(q) + 1
    BY <1>1, <1>6, <2>1, <2>3
  <2>. QED  BY <1>4, <2>2, <2>3
<1>10. \A v, w \in R : v < w /\ g[v] = "none" => g[w] = "none"
  BY <1>2, <1>3 DEF Mirrors
<1>. QED  BY <1>7, <1>8, <1>9, <1>10 DEF Mirrors, g, p

(* The next request joins a full queue, whose front gives way.             *)
LEMMA OverflowMirrors ==
  ASSUME NEW S, NEW q \in Seq(S), q # <<>>, NEW R \in SUBSET Int,
         NEW F, NEW f \in [R -> F], "overflowed" \in F, Mirrors(q, R, f),
         NEW x \in S, x.raw \in R, Fresh(x.raw, R, f)
  PROVE  /\ Head(q).raw \in R /\ Head(q).raw # x.raw
         /\ Mirrors(Append(Tail(q), x), R,
                    [[f EXCEPT ![Head(q).raw] = "overflowed"]
                        EXCEPT ![x.raw] = "queued"])
<1>. DEFINE v == Head(q).raw
            g == [f EXCEPT ![v] = "overflowed"]
<1>1. /\ v \in R /\ f[v] = "queued" /\ f[x.raw] = "none" /\ v # x.raw
      /\ \A u \in R : u < x.raw => f[u] # "none"
  BY FrontIsOldest DEF WaitingOf, Fresh
<1>2. g \in [R -> F] /\ Mirrors(Tail(q), R, g) /\ Tail(q) \in Seq(S)
  BY PopMirrors, TailFacts
<1>. HIDE DEF v
<1>3. /\ \A u \in R : g[u] = IF u = v THEN "overflowed" ELSE f[u]
      /\ g[x.raw] = "none"
  BY <1>1
<1>. HIDE DEF g
<1>4. Fresh(x.raw, R, g)
  BY <1>1, <1>3 DEF Fresh
<1>5. Mirrors(Append(Tail(q), x), R, [g EXCEPT ![x.raw] = "queued"])
  BY <1>2, <1>4, PushMirrors
<1>. QED  BY <1>1, <1>5 DEF v, g
=============================================================================
