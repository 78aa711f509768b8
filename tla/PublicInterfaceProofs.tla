----------------------- MODULE PublicInterfaceProofs ------------------------
(***************************************************************************)
(* Proofs about what the public interface admits, rates and shares, for any *)
(* number of requests and of processes.                                    *)
(***************************************************************************)
EXTENDS MCPublicInterface, SumTheorems

\* The bounds, one by one.
LEMMA Bounds ==
    /\ MaxFills \in Nat /\ MaxWrites \in Nat /\ MaxInstalls \in Nat /\ MaxDeletes \in Nat
    /\ MaxRequests \in Nat /\ MaxReports \in Nat /\ MaxShares \in Nat /\ MaxForks \in Nat
    /\ MaxUpserts \in Nat /\ Limit \in Nat /\ Window \in Nat /\ MaxDelay \in Nat /\ MaxTime \in Nat
BY BoundsAssumption

\* An entry is forgotten, and the readers on their way with it.
LEMMA FillForgets ==
    ASSUME NEW P, NEW f \in [home : P, at : Nat, late : BOOLEAN], NEW p \in P
    PROVE  LET g == [f EXCEPT !.late = f.late \/ f.home = p]
           IN  /\ g \in [home : P, at : Nat, late : BOOLEAN] /\ g.home = f.home /\ g.at = f.at
               /\ (f.late => g.late) /\ (f.home = p => g.late)
<1> DEFINE b == f.late \/ f.home = p
<1>1. b \in BOOLEAN /\ (f.late => b) /\ (f.home = p => b)
  BY Zenon
<1> HIDE DEF b
<1> DEFINE g == [f EXCEPT !.late = b]
<1>2. g \in [home : P, at : Nat, late : BOOLEAN] /\ g.home = f.home /\ g.at = f.at /\ g.late = b
  BY <1>1
<1>3. g = [f EXCEPT !.late = f.late \/ f.home = p]
  BY DEF b
<1> HIDE DEF g
<1> QED BY <1>1, <1>2, <1>3

-----------------------------------------------------------------------------
(* Rate windows.  A bucket's key counts what the bucket has admitted, up to *)
(* the limit, and when it dies nobody can count for the bucket any more.  A *)
(* login window counts the same from its first attempt on, and the time     *)
(* of a window before it holds no more than one window.                     *)

Span(from, to) == {x \in Rate!Times : from <= x /\ x <= to}
Passed(from, to) == SumBy(admitted, Span(from, to))
Fewer(m, n) == IF m < n THEN m ELSE n

Held(b) == Passed(b * Window, b * Window + Window - 1)

PushBuckets == kind = "push" =>
    \A b \in Rate!Times :
       /\ Held(b) <= Limit
       /\ key[b] = Rate!NoKey => Held(b) = 0 \/ b * Window + 2 * Window <= now
       /\ key[b] # Rate!NoKey => /\ b * Window + 2 * Window <= key[b].dies
                                 /\ Held(b) = Fewer(key[b].count, Limit)

Start == IF key[0] = Rate!NoKey THEN now ELSE key[0].dies - Window

LoginWindow == kind = "login" =>
    /\ Start <= now
    /\ Passed(Start, now) = Fewer(key[0].count, Limit)
    /\ Passed(Start - Window + 1, Start - 1) <= Limit
    /\ \A x \in Rate!Times : Passed(x, x + Window - 1) <= 2 * Limit

RateInv ==
    /\ Rate!TypeOK
    /\ \A x \in Rate!Times : now < x => admitted[x] = 0
    /\ \A b \in Rate!Times : key[b] # Rate!NoKey => now < key[b].dies
    /\ \A t \in Tasks : at[t] # None => at[t] \in Rate!Times /\ now - MaxDelay <= at[t] /\ at[t] <= now
    /\ ~unfounded
    /\ PushBuckets /\ LoginWindow

\* The sums of the module are sums.
LEMMA RateSums == \A from, to : Rate!Between(from, to) = Passed(from, to)
BY SumDefined DEF Rate!SumFunctionOnSet, SumFunctionOnSet, FoldFunctionOnSet, Rate!FoldFunctionOnSet,
   MapThenFoldSet, Rate!MapThenFoldSet, Rate!Between, Passed, Span

\* There are only so many moments.
LEMMA SpanFinite == \A from, to : IsFiniteSet(Span(from, to)) /\ Span(from, to) \subseteq Rate!Times
<1>1. IsFiniteSet(Rate!Times)
  BY Bounds, FS_Interval DEF Rate!Times
<1>2. \A from, to : Span(from, to) \subseteq Rate!Times
  BY DEF Span
<1> QED BY <1>1, <1>2, FS_Subset

Admissions == [Rate!Times -> Nat]

\* Sums over moments: how they grow, and which contain which.
LEMMA SpanNat ==
    ASSUME NEW f \in Admissions, NEW from, NEW to
    PROVE  SumBy(f, Span(from, to)) \in Nat
BY SpanFinite, SumNat DEF Admissions

\* A span that covers another holds every moment of it.
LEMMA SpanCovers ==
    ASSUME NEW f \in Admissions, NEW a, NEW b, NEW c, NEW d,
           \A x \in Rate!Times : a <= x /\ x <= b => (c <= x /\ x <= d) \/ f[x] = 0
    PROVE  SumBy(f, Span(a, b)) <= SumBy(f, Span(c, d))
<1>1. \A x \in Span(a, b) : x \in Span(c, d) \/ f[x] = 0
  BY DEF Span
<1>2. \A x \in Span(a, b) \cup Span(c, d) : f[x] \in Nat
  BY SpanFinite DEF Admissions
<1> QED BY <1>1, <1>2, SpanFinite, SumCovers

\* A span cut in two holds the moments of both halves.
LEMMA SpanTwo ==
    ASSUME NEW f \in Admissions, NEW a, NEW b, NEW c, NEW d, NEW i, NEW j,
           \A x \in Rate!Times : a <= x /\ x <= b => (c <= x /\ x <= d) \/ (i <= x /\ x <= j) \/ f[x] = 0
    PROVE  SumBy(f, Span(a, b)) <= SumBy(f, Span(c, d)) + SumBy(f, Span(i, j))
<1>1. \A x \in Span(a, b) : x \in Span(c, d) \/ x \in Span(i, j) \/ f[x] = 0
  BY DEF Span
<1>2. \A x \in Span(a, b) \cup Span(c, d) \cup Span(i, j) : f[x] \in Nat
  BY SpanFinite DEF Admissions
<1> QED BY <1>1, <1>2, SpanFinite, SumTwo

\* What a span has admitted grows with the span.
LEMMA SpanMore ==
    ASSUME NEW f \in Admissions, NEW g \in Admissions, NEW m \in Rate!Times, NEW a, NEW b,
           g[m] = f[m] + 1, \A x \in Rate!Times : x # m => g[x] = f[x]
    PROVE  SumBy(g, Span(a, b)) = IF a <= m /\ m <= b THEN SumBy(f, Span(a, b)) + 1 ELSE SumBy(f, Span(a, b))
<1>1. m \in Span(a, b) <=> a <= m /\ m <= b
  BY DEF Span
<1>2. f[m] \in Nat /\ SumBy(f, Span(a, b)) \in Nat
  BY SpanNat DEF Admissions
<1> DEFINE s == Span(a, b)
<1>3. IsFiniteSet(s) /\ (\A x \in s : f[x] \in Int /\ g[x] \in Int) /\ \A x \in s : x # m => g[x] = f[x]
  BY SpanFinite DEF Admissions
<1> HIDE DEF s
<1>4. CASE m \in s
  <2>1. SumBy(g, s) = SumBy(f, s) - f[m] + g[m]
    BY <1>3, <1>4, SumChange
  <2>2. SumBy(g, s) = SumBy(f, s) + 1
    BY <1>2, <2>1 DEF s
  <2> QED BY <1>1, <1>4, <2>2 DEF s
<1>5. CASE m \notin s
  <2>1. \A x \in s : f[x] = g[x]
    BY <1>3, <1>5
  <2>2. SumBy(f, s) = SumBy(g, s)
    BY <1>3, <2>1, SumSame
  <2> QED BY <1>1, <1>5, <2>2 DEF s
<1> QED BY <1>4, <1>5

\* A moment lies in its bucket, and buckets do not overlap.
LEMMA BucketOf ==
    ASSUME NEW x \in Rate!Times
    PROVE  /\ x \div Window \in Rate!Times
           /\ (x \div Window) * Window <= x /\ x <= (x \div Window) * Window + Window - 1
<1> x \in Nat /\ Window \in Nat /\ 0 < Window /\ MaxTime \in Nat /\ x <= MaxTime
  BY Bounds, WindowAssumption DEF Rate!Times
<1> DEFINE d == x \div Window
<1>1. d \in Nat /\ d * Window <= x /\ x < d * Window + Window
  OBVIOUS
<1> HIDE DEF d
<1>2. d <= d * Window
  BY <1>1
<1>3. d * Window \in Nat
  BY <1>1
<1> QED BY <1>1, <1>2, <1>3 DEF Rate!Times, d

\* Two different buckets share no moment.
LEMMA BucketsApart ==
    ASSUME NEW b \in Nat, NEW c \in Nat, b < c
    PROVE  b * Window + Window <= c * Window /\ b * Window \in Nat /\ c * Window \in Nat
<1> Window \in Nat
  BY Bounds
<1> DEFINE e == c - b - 1
<1>1. e \in Nat /\ c = b + 1 + e
  OBVIOUS
<1> HIDE DEF e
<1>2. c * Window = b * Window + Window + e * Window /\ e * Window \in Nat /\ b * Window \in Nat
  BY <1>1
<1> QED BY <1>2

\* A window meets at most two buckets.
LEMMA TwoBuckets ==
    ASSUME NEW f \in Admissions,
           \A b \in Rate!Times : SumBy(f, Span(b * Window, b * Window + Window - 1)) <= Limit,
           NEW x \in Rate!Times
    PROVE  SumBy(f, Span(x, x + Window - 1)) <= 2 * Limit
<1> DEFINE b == x \div Window
           c == b + 1
           v == b * Window
           w == c * Window
<1>1. b \in Rate!Times /\ v <= x /\ x <= v + Window - 1
  BY BucketOf
<1> HIDE DEF b
<1>2. b \in Nat /\ c \in Nat /\ x \in Nat /\ Window \in Nat /\ Limit \in Nat /\ MaxTime \in Nat
  BY <1>1, Bounds DEF Rate!Times
<1>3. w = v + Window /\ v \in Nat /\ w \in Nat
  BY <1>2
<1>4. SumBy(f, Span(v, v + Window - 1)) <= Limit
  BY <1>1
<1> HIDE DEF c
<1>5. SumBy(f, Span(w, w + Window - 1)) <= Limit
  <2>1. CASE c \in Rate!Times
    BY <2>1
  <2>2. CASE c \notin Rate!Times
    <3>1. MaxTime < c
      BY <1>2, <2>2 DEF Rate!Times
    <3>2. 0 < Window
      BY WindowAssumption
    <3>3. c <= w
      BY <1>2, <3>2
    <3>4. Span(w, w + Window - 1) = {}
      BY <1>2, <1>3, <3>1, <3>3 DEF Span, Rate!Times
    <3> QED BY <1>2, <3>4, SumEmpty
  <2> QED BY <2>1, <2>2
<1> HIDE DEF v, w
<1>6. SumBy(f, Span(x, x + Window - 1))
         <= SumBy(f, Span(v, v + Window - 1)) + SumBy(f, Span(w, w + Window - 1))
  <2>1. \A y \in Rate!Times : x <= y /\ y <= x + Window - 1 =>
           (v <= y /\ y <= v + Window - 1) \/ (w <= y /\ y <= w + Window - 1) \/ f[y] = 0
    BY <1>1, <1>2, <1>3 DEF Rate!Times
  <2> QED BY <2>1, SpanTwo
<1>7. /\ SumBy(f, Span(x, x + Window - 1)) \in Nat /\ SumBy(f, Span(v, v + Window - 1)) \in Nat
      /\ SumBy(f, Span(w, w + Window - 1)) \in Nat
  BY SpanNat
<1> QED BY <1>2, <1>4, <1>5, <1>6, <1>7

\* One more admission, in the present state.
LEMMA PassedMore ==
    ASSUME admitted \in Admissions, NEW m \in Rate!Times, admitted' = [admitted EXCEPT ![m] = @ + 1]
    PROVE  \A a, b : Passed(a, b)' = IF a <= m /\ m <= b THEN Passed(a, b) + 1 ELSE Passed(a, b)
<1> SUFFICES ASSUME NEW a, NEW b
             PROVE  Passed(a, b)' = IF a <= m /\ m <= b THEN Passed(a, b) + 1 ELSE Passed(a, b)
  OBVIOUS
<1>1. admitted' \in Admissions /\ admitted'[m] = admitted[m] + 1 /\ \A x \in Rate!Times : x # m => admitted'[x] = admitted[x]
  <2>1. admitted \in [Rate!Times -> Nat]
    BY DEF Admissions
  <2>2. admitted[m] + 1 \in Nat
    BY <2>1
  <2>3. admitted' = [admitted EXCEPT ![m] = admitted[m] + 1]
    OBVIOUS
  <2>4. admitted' \in [Rate!Times -> Nat]
    BY <2>1, <2>2, <2>3
  <2> QED BY <2>1, <2>3, <2>4 DEF Admissions
<1>2. SumBy(admitted', Span(a, b)) = IF a <= m /\ m <= b THEN SumBy(admitted, Span(a, b)) + 1 ELSE SumBy(admitted, Span(a, b))
  <2> DEFINE f == admitted
             g == admitted'
  <2>1. f \in Admissions /\ g \in Admissions /\ g[m] = f[m] + 1 /\ \A x \in Rate!Times : x # m => g[x] = f[x]
    BY <1>1
  <2> HIDE DEF f, g
  <2>2. SumBy(g, Span(a, b)) = IF a <= m /\ m <= b THEN SumBy(f, Span(a, b)) + 1 ELSE SumBy(f, Span(a, b))
    BY <2>1, SpanMore
  <2> QED BY <2>2 DEF f, g
<1> QED BY <1>2 DEF Passed

\* Nothing is admitted at first.
LEMMA RateInit == Rate!Init => RateInv
<1> SUFFICES ASSUME Rate!Init PROVE RateInv
  OBVIOUS
<1> USE Bounds DEF Rate!Init
<1>1. 0 \in Rate!Times
  BY DEF Rate!Times
<1>2. admitted \in Admissions /\ \A x \in Rate!Times : admitted[x] = 0
  BY DEF Admissions
<1>3. \A from, to : Passed(from, to) = 0
  <2> SUFFICES ASSUME NEW from, NEW to PROVE SumBy(admitted, Span(from, to)) = 0
    BY DEF Passed
  <2>1. \A x \in Span(from, to) : admitted[x] = 0
    BY <1>2, SpanFinite
  <2> QED BY <2>1, SpanFinite, SumZero
<1>4. Rate!TypeOK
  <2>1. unfounded \in BOOLEAN
    BY Zenon
  <2>2. key \in [Rate!Times -> [count : Nat, dies : Nat]]
    BY DEF Rate!NoKey
  <2>3. at \in [Tasks -> Rate!Times \cup {None}]
    OBVIOUS
  <2> QED BY <1>1, <1>2, <2>1, <2>2, <2>3 DEF Rate!TypeOK, Admissions
<1>5. PushBuckets
  BY <1>3 DEF PushBuckets, Held
<1>6. LoginWindow
  BY <1>1, <1>3 DEF LoginWindow, Start, Fewer, Rate!NoKey
<1> QED BY <1>1, <1>2, <1>4, <1>5, <1>6 DEF RateInv

\* A request reads the clock, or is given up.
LEMMA RateReads ==
    ASSUME RateInv, NEW t \in Tasks, Rate!ReadClock(t) \/ Rate!Unavailable(t)
    PROVE  RateInv'
<1>1. UNCHANGED <<kind, now, key, admitted, unfounded>>
  BY DEF Rate!ReadClock, Rate!Unavailable
<1>2. PushBuckets' /\ LoginWindow'
  BY <1>1 DEF RateInv, PushBuckets, LoginWindow, Held, Passed, Start
<1>3. \A u \in Tasks : at'[u] = at[u] \/ at'[u] = now \/ at'[u] = None
  BY DEF Rate!ReadClock, Rate!Unavailable, RateInv, Rate!TypeOK
<1>4. at' \in [Tasks -> Rate!Times \cup {None}]
  BY DEF Rate!ReadClock, Rate!Unavailable, RateInv, Rate!TypeOK
<1>5. now \in Rate!Times /\ now \in Nat /\ now - MaxDelay <= now
  BY Bounds DEF RateInv, Rate!TypeOK, Rate!Times
<1>6. \A u \in Tasks : at'[u] # None => at'[u] \in Rate!Times /\ now - MaxDelay <= at'[u] /\ at'[u] <= now
  BY <1>3, <1>5 DEF RateInv
<1>7. unfounded' \in BOOLEAN /\ ~unfounded'
  BY <1>1, Zenon DEF RateInv, Rate!TypeOK
<1> QED BY <1>1, <1>2, <1>4, <1>6, <1>7 DEF RateInv, Rate!TypeOK

\* The clock goes on, and keys die.
LEMMA RateTicks ==
    ASSUME RateInv, Rate!Tick
    PROVE  RateInv'
<1> USE DEF Rate!Tick
<1>1. UNCHANGED <<kind, at, admitted, unfounded>> /\ now' = now + 1
  OBVIOUS
<1>2. now \in Nat /\ Window \in Nat /\ 0 < Window /\ Limit \in Nat /\ MaxDelay \in Nat /\ now' \in Rate!Times /\ now \in Rate!Times
  BY Bounds, WindowAssumption DEF RateInv, Rate!TypeOK, Rate!Times
<1>3. admitted \in Admissions /\ \A a, b : Passed(a, b)' = Passed(a, b) /\ Passed(a, b) \in Nat
  BY SpanNat DEF RateInv, Rate!TypeOK, Admissions, Passed
<1>4. key \in [Rate!Times -> [count : Nat, dies : Nat]]
  BY DEF RateInv, Rate!TypeOK
<1>5. \A b \in Rate!Times : key[b] # Rate!NoKey => key[b].dies \in Nat /\ key[b].count \in Nat /\ now < key[b].dies
  BY <1>4 DEF RateInv
<1>6. \A b \in Rate!Times : \/ key'[b] = Rate!NoKey /\ key[b] = Rate!NoKey
                            \/ key'[b] = Rate!NoKey /\ key[b] # Rate!NoKey /\ key[b].dies = now + 1
                            \/ key'[b] # Rate!NoKey /\ key'[b] = key[b] /\ now + 1 < key[b].dies
  <2> SUFFICES ASSUME NEW b \in Rate!Times
               PROVE  \/ key'[b] = Rate!NoKey /\ key[b] = Rate!NoKey
                      \/ key'[b] = Rate!NoKey /\ key[b] # Rate!NoKey /\ key[b].dies = now + 1
                      \/ key'[b] # Rate!NoKey /\ key'[b] = key[b] /\ now + 1 < key[b].dies
    OBVIOUS
  <2>1. key'[b] = IF key[b].dies <= now + 1 THEN Rate!NoKey ELSE key[b]
    OBVIOUS
  <2>2. Rate!NoKey.dies = 0
    BY DEF Rate!NoKey
  <2> QED BY <1>2, <1>5, <2>1, <2>2
<1> HIDE DEF Rate!Tick
<1>7. \A x \in Rate!Times : now' < x => admitted'[x] = 0
  BY <1>1, <1>2 DEF RateInv, Rate!Times
<1>8. \A u \in Tasks : at'[u] # None => at'[u] \in Rate!Times /\ now' - MaxDelay <= at'[u] /\ at'[u] <= now'
  <2> SUFFICES ASSUME NEW u \in Tasks, at[u] # None
               PROVE  at[u] \in Rate!Times /\ now' - MaxDelay <= at[u] /\ at[u] <= now'
    BY <1>1
  <2>1. at[u] \in Rate!Times /\ at[u] \in Nat /\ at[u] <= now
    BY DEF RateInv, Rate!Times
  <2>2. now - at[u] < MaxDelay
    BY DEF Rate!Tick
  <2> QED BY <1>1, <1>2, <2>1, <2>2
<1>9. key' \in [Rate!Times -> [count : Nat, dies : Nat]]
  BY <1>4, <1>2 DEF Rate!Tick, Rate!NoKey
<1>10. PushBuckets'
  <2> SUFFICES ASSUME kind = "push", NEW b \in Rate!Times
               PROVE  /\ Held(b) <= Limit
                      /\ key'[b] = Rate!NoKey => Held(b) = 0 \/ b * Window + 2 * Window <= now + 1
                      /\ key'[b] # Rate!NoKey => /\ b * Window + 2 * Window <= key'[b].dies
                                                 /\ Held(b) = Fewer(key'[b].count, Limit)
    BY <1>1, <1>3 DEF PushBuckets, Held, Fewer
  <2> DEFINE w == b * Window
  <2>1. w \in Nat
    BY <1>2 DEF Rate!Times
  <2>2. /\ Held(b) <= Limit
        /\ key[b] = Rate!NoKey => Held(b) = 0 \/ w + 2 * Window <= now
        /\ key[b] # Rate!NoKey => /\ w + 2 * Window <= key[b].dies
                                  /\ Held(b) = Fewer(key[b].count, Limit)
    BY DEF RateInv, PushBuckets
  <2> HIDE DEF w
  <2>3. /\ Held(b) <= Limit
        /\ key'[b] = Rate!NoKey => Held(b) = 0 \/ w + 2 * Window <= now + 1
        /\ key'[b] # Rate!NoKey => /\ w + 2 * Window <= key'[b].dies
                                   /\ Held(b) = Fewer(key'[b].count, Limit)
    BY <1>2, <1>5, <1>6, <2>1, <2>2
  <2> QED BY <2>3 DEF w
<1>11. LoginWindow'
  <2> SUFFICES ASSUME kind = "login"
               PROVE  /\ Start' <= now + 1
                      /\ Passed(Start', now + 1) = Fewer(key'[0].count, Limit)
                      /\ Passed(Start' - Window + 1, Start' - 1) <= Limit
                      /\ \A x \in Rate!Times : Passed(x, x + Window - 1) <= 2 * Limit
    BY <1>1, <1>3 DEF LoginWindow, Fewer
  <2>1. 0 \in Rate!Times
    BY Bounds DEF Rate!Times
  <2>2. /\ Start <= now
        /\ Passed(Start, now) = Fewer(key[0].count, Limit)
        /\ Passed(Start - Window + 1, Start - 1) <= Limit
        /\ \A x \in Rate!Times : Passed(x, x + Window - 1) <= 2 * Limit
    BY DEF RateInv, LoginWindow
  <2>3. \A x \in Rate!Times : now < x => admitted[x] = 0
    BY DEF RateInv
  <2>4. Rate!NoKey.count = 0 /\ Fewer(0, Limit) = 0
    BY <1>2 DEF Rate!NoKey, Fewer
  <2>5. Passed(now + 1, now + 1) = 0
    <3>1. \A x \in Span(now + 1, now + 1) : admitted[x] = 0
      BY <1>2, <2>3 DEF Span, Rate!Times
    <3> QED BY <3>1, SpanFinite, SumZero DEF Passed
  <2>6. CASE key'[0] = Rate!NoKey /\ key[0] = Rate!NoKey
    <3>1. Start' = now + 1 /\ Start = now
      BY <1>1, <2>6 DEF Start
    <3>2. admitted[now] = 0
      <4>1. Passed(now, now) = 0
        BY <2>2, <2>4, <2>6, <3>1
      <4>2. now \in Span(now, now)
        BY <1>2 DEF Span
      <4>3. \A x \in Span(now, now) : admitted[x] \in Nat
        BY <1>3, SpanFinite DEF Admissions
      <4>4. admitted[now] <= Passed(now, now)
        <5> DEFINE s == Span(now, now)
        <5>1. now \in s /\ IsFiniteSet(s) /\ \A x \in s : admitted[x] \in Nat
          BY <4>2, <4>3, SpanFinite
        <5> HIDE DEF s
        <5>2. admitted[now] <= SumBy(admitted, s)
          BY <5>1, SumPoint
        <5> QED BY <5>2 DEF s, Passed
      <4> QED BY <4>1, <4>2, <4>3, <4>4
    <3>3. Passed((now + 1) - Window + 1, (now + 1) - 1) <= Passed(now - Window + 1, now - 1)
      <4>1. \A x \in Rate!Times : (now + 1) - Window + 1 <= x /\ x <= (now + 1) - 1 =>
               (now - Window + 1 <= x /\ x <= now - 1) \/ admitted[x] = 0
        BY <1>2, <3>2 DEF Rate!Times
      <4> QED BY <1>3, <4>1, SpanCovers DEF Passed
    <3>4. Passed(now - Window + 1, now - 1) <= Limit
      BY <2>2, <3>1
    <3>5. Passed((now + 1) - Window + 1, (now + 1) - 1) <= Limit
      BY <1>2, <1>3, <3>3, <3>4
    <3> QED BY <1>2, <2>2, <2>4, <2>5, <2>6, <3>1, <3>5
  <2>7. CASE key'[0] = Rate!NoKey /\ key[0] # Rate!NoKey /\ key[0].dies = now + 1
    <3>1. Start' = now + 1 /\ Start = now + 1 - Window
      BY <1>1, <1>2, <2>7 DEF Start
    <3>2. Passed((now + 1) - Window + 1, (now + 1) - 1) <= Passed(Start, now)
      <4>1. \A x \in Rate!Times : (now + 1) - Window + 1 <= x /\ x <= (now + 1) - 1 =>
               (Start <= x /\ x <= now) \/ admitted[x] = 0
        BY <1>2, <3>1 DEF Rate!Times
      <4> QED BY <1>3, <4>1, SpanCovers DEF Passed
    <3>3. Fewer(key[0].count, Limit) <= Limit
      BY <1>2, <1>5, <2>1, <2>7 DEF Fewer
    <3>4. Passed((now + 1) - Window + 1, (now + 1) - 1) <= Limit
      <4>1. Passed(Start, now) <= Limit
        BY <2>2, <3>3
      <4> QED BY <1>2, <1>3, <3>2, <4>1
    <3> QED BY <1>2, <2>2, <2>4, <2>5, <2>7, <3>1, <3>4
  <2>8. CASE key'[0] # Rate!NoKey /\ key'[0] = key[0] /\ now + 1 < key[0].dies
    <3>1. Start' = Start /\ Start \in Int
      BY <1>2, <1>5, <2>1, <2>8 DEF Start
    <3>2. Passed(Start, now + 1) <= Passed(Start, now) /\ Passed(Start, now) <= Passed(Start, now + 1)
      <4>1. \A x \in Rate!Times : Start <= x /\ x <= now + 1 => (Start <= x /\ x <= now) \/ admitted[x] = 0
        BY <1>2, <2>3, <3>1 DEF Rate!Times
      <4>2. \A x \in Rate!Times : Start <= x /\ x <= now => (Start <= x /\ x <= now + 1) \/ admitted[x] = 0
        BY <1>2, <3>1 DEF Rate!Times
      <4> QED BY <1>3, <4>1, <4>2, SpanCovers DEF Passed
    <3>3. Passed(Start, now + 1) = Passed(Start, now)
      BY <1>3, <3>2
    <3> QED BY <1>2, <2>2, <2>8, <3>1, <3>3
  <2> QED BY <1>6, <2>1, <2>6, <2>7, <2>8
<1>12. unfounded' \in BOOLEAN /\ ~unfounded'
  BY <1>1, Zenon DEF RateInv, Rate!TypeOK
<1>13. Rate!TypeOK'
  BY <1>1, <1>2, <1>9, <1>12 DEF RateInv, Rate!TypeOK
<1>14. \A b \in Rate!Times : key'[b] # Rate!NoKey => now' < key'[b].dies
  BY <1>1, <1>6
<1> QED BY <1>7, <1>8, <1>10, <1>11, <1>12, <1>13, <1>14 DEF RateInv

\* What every counted request leaves, of either limit.
LEMMA RateCounts ==
    ASSUME RateInv, NEW t \in Tasks, Rate!Count(t)
    PROVE  LET b == Rate!Bucket(at[t])
               count == key[b].count + 1
               moment == IF kind = "push" THEN at[t] ELSE now
           IN  /\ at[t] \in Rate!Times /\ b \in Rate!Times /\ moment \in Rate!Times /\ moment <= now
               /\ key[b].count \in Nat /\ key[b].dies \in Nat
               /\ key'[b] = [count |-> IF count > Limit + 1 THEN Limit + 2 ELSE count, dies |-> Rate!Dies(key[b])]
               /\ \A c \in Rate!Times : c # b => key'[c] = key[c]
               /\ key' \in [Rate!Times -> [count : Nat, dies : Nat]]
               /\ key'[b] # Rate!NoKey /\ now < key'[b].dies
               /\ UNCHANGED <<kind, now>>
               /\ \A u \in Tasks : at'[u] = at[u] \/ at'[u] = None
               /\ at' \in [Tasks -> Rate!Times \cup {None}]
               /\ IF count <= Limit
                  THEN admitted' = [admitted EXCEPT ![moment] = @ + 1] /\ ~unfounded'
                  ELSE /\ unfounded' = (unfounded \/ Passed(at[t] - Window + 1, now) < Limit)
                       /\ UNCHANGED admitted
<1> DEFINE b == Rate!Bucket(at[t])
           count == key[b].count + 1
           moment == IF kind = "push" THEN at[t] ELSE now
<1>1. at[t] \in Rate!Times /\ at[t] <= now /\ now \in Rate!Times
  BY DEF RateInv, Rate!Count, Rate!TypeOK
<1>2. moment \in Rate!Times /\ moment <= now
  BY <1>1 DEF Rate!Times
<1>3. b \in Rate!Times
  <2>1. 0 \in Rate!Times
    BY Bounds DEF Rate!Times
  <2> QED BY <1>1, <2>1, BucketOf DEF Rate!Bucket
<1>4. key \in [Rate!Times -> [count : Nat, dies : Nat]]
  BY DEF RateInv, Rate!TypeOK
<1>5. key[b].count \in Nat /\ key[b].dies \in Nat /\ (key[b] # Rate!NoKey => now < key[b].dies)
  BY <1>3, <1>4 DEF RateInv
<1>6. Rate!Dies(key[b]) \in Nat /\ now < Rate!Dies(key[b])
  <2>1. now \in Nat /\ Window \in Nat /\ 0 < Window
    BY <1>1, Bounds, WindowAssumption DEF Rate!Times
  <2> HIDE DEF b
  <2>2. key[b] = key[b]
    OBVIOUS
  <2> QED BY <1>5, <2>1 DEF Rate!Dies
<1>7. Rate!Between(at[t] - Window + 1, now) = Passed(at[t] - Window + 1, now)
  BY RateSums
<1>8. /\ key' = [key EXCEPT ![b] = [count |-> IF count > Limit + 1 THEN Limit + 2 ELSE count, dies |-> Rate!Dies(key[b])]]
      /\ at' = [at EXCEPT ![t] = None]
      /\ UNCHANGED <<kind, now>>
  BY DEF Rate!Count
<1>9. IF count <= Limit
      THEN admitted' = [admitted EXCEPT ![moment] = @ + 1] /\ ~unfounded'
      ELSE /\ unfounded' = (unfounded \/ Passed(at[t] - Window + 1, now) < Limit)
           /\ UNCHANGED admitted
  BY <1>7 DEF Rate!Count, Rate!Admits, RateInv
<1> HIDE DEF b
<1>10. key' \in [Rate!Times -> [count : Nat, dies : Nat]]
  BY <1>3, <1>4, <1>5, <1>6, <1>8, Bounds
<1>11. key'[b] = [count |-> IF count > Limit + 1 THEN Limit + 2 ELSE count, dies |-> Rate!Dies(key[b])]
       /\ \A c \in Rate!Times : c # b => key'[c] = key[c]
  BY <1>3, <1>4, <1>8
<1>12. key'[b].dies = Rate!Dies(key[b])
  BY <1>11
<1>13. key'[b] # Rate!NoKey
  <2>1. Rate!NoKey.dies = 0
    BY DEF Rate!NoKey
  <2>2. now \in Nat
    BY <1>1 DEF Rate!Times
  <2> QED BY <1>6, <1>12, <2>1, <2>2
<1>14. at' \in [Tasks -> Rate!Times \cup {None}] /\ \A u \in Tasks : at'[u] = at[u] \/ at'[u] = None
  BY <1>8 DEF RateInv, Rate!TypeOK
<1> HIDE DEF count, moment
<1> QED BY <1>1, <1>2, <1>3, <1>5, <1>6, <1>8, <1>9, <1>10, <1>11, <1>12, <1>13, <1>14 DEF b, count, moment

\* A request that counts for its bucket.
LEMMA PushCounts ==
    ASSUME RateInv, kind = "push", NEW t \in Tasks, Rate!Count(t)
    PROVE  PushBuckets' /\ ~unfounded'
<1> DEFINE b == Rate!Bucket(at[t])
           n == key[b].count
           w == b * Window
<1>1. /\ at[t] \in Rate!Times /\ b \in Rate!Times
      /\ n \in Nat /\ key[b].dies \in Nat
      /\ key'[b] = [count |-> IF n + 1 > Limit + 1 THEN Limit + 2 ELSE n + 1, dies |-> Rate!Dies(key[b])]
      /\ \A c \in Rate!Times : c # b => key'[c] = key[c]
      /\ key'[b] # Rate!NoKey
      /\ UNCHANGED <<kind, now>>
      /\ IF n + 1 <= Limit
         THEN admitted' = [admitted EXCEPT ![at[t]] = @ + 1] /\ ~unfounded'
         ELSE /\ unfounded' = (unfounded \/ Passed(at[t] - Window + 1, now) < Limit)
              /\ UNCHANGED admitted
  BY RateCounts
<1>2. w <= at[t] /\ at[t] <= w + Window - 1
  BY <1>1, BucketOf DEF Rate!Bucket
<1>3. now \in Nat /\ at[t] \in Nat /\ now - MaxDelay <= at[t] /\ at[t] <= now
  BY <1>1 DEF RateInv, Rate!TypeOK, Rate!Count, Rate!Times
<1>4. Window \in Nat /\ 0 < Window /\ MaxDelay \in Nat /\ MaxDelay <= Window /\ Limit \in Nat
  BY Bounds, WindowAssumption
<1>5. key'[b].dies = now + 2 * Window
  BY <1>1 DEF Rate!Dies
<1>6. key'[b].count = IF n + 1 > Limit + 1 THEN Limit + 2 ELSE n + 1
  BY <1>1
<1>7. admitted \in Admissions
  BY DEF RateInv, Rate!TypeOK, Admissions
<1> HIDE DEF b
<1>8. w \in Nat
  BY <1>1, <1>4 DEF Rate!Times
<1>9. Held(b) \in Nat
  BY <1>7, SpanNat DEF Held, Passed
<1>10. Held(b) = Fewer(n, Limit)
  <2>1. CASE key[b] # Rate!NoKey
    BY <1>1, <2>1 DEF RateInv, PushBuckets
  <2>2. CASE key[b] = Rate!NoKey
    <3>1. n = 0
      BY <2>2 DEF Rate!NoKey
    <3>2. Held(b) = 0 \/ w + 2 * Window <= now
      BY <1>1, <2>2 DEF RateInv, PushBuckets
    <3>3. Held(b) = 0
      BY <1>2, <1>3, <1>4, <1>8, <3>2
    <3> QED BY <1>4, <3>1, <3>3 DEF Fewer
  <2> QED BY <2>1, <2>2
<1>11. ASSUME NEW c \in Rate!Times
       PROVE  /\ Held(c)' <= Limit
              /\ key'[c] = Rate!NoKey => Held(c)' = 0 \/ c * Window + 2 * Window <= now
              /\ key'[c] # Rate!NoKey => /\ c * Window + 2 * Window <= key'[c].dies
                                         /\ Held(c)' = Fewer(key'[c].count, Limit)
  <2> DEFINE v == c * Window
  <2>1. Held(c)' = IF n + 1 <= Limit /\ v <= at[t] /\ at[t] <= v + Window - 1 THEN Held(c) + 1 ELSE Held(c)
    <3>1. CASE n + 1 <= Limit
      <4>1. admitted' = [admitted EXCEPT ![at[t]] = @ + 1]
        BY <1>1, <3>1
      <4>2. \A x, y : Passed(x, y)' = IF x <= at[t] /\ at[t] <= y THEN Passed(x, y) + 1 ELSE Passed(x, y)
        BY <1>1, <1>7, <4>1, PassedMore
      <4> QED BY <3>1, <4>2 DEF Held
    <3>2. CASE ~(n + 1 <= Limit)
      <4>1. UNCHANGED admitted
        BY <1>1, <3>2
      <4> QED BY <3>2, <4>1 DEF Held, Passed
    <3> QED BY <3>1, <3>2
  <2>2. CASE c = b
    <3>1. Held(c)' = Fewer(key'[c].count, Limit) /\ Held(c)' <= Limit
      <4> HIDE DEF w, n
      <4>1. Held(c)' = IF n + 1 <= Limit THEN Held(c) + 1 ELSE Held(c)
        BY <1>2, <2>1, <2>2 DEF w
      <4>2. n \in Nat
        BY <1>1 DEF n
      <4> QED BY <1>4, <1>6, <1>9, <1>10, <2>2, <4>1, <4>2 DEF Fewer
    <3>2. w + 2 * Window <= now + 2 * Window
      BY <1>2, <1>3, <1>4, <1>8
    <3> QED BY <1>1, <1>5, <2>2, <3>1, <3>2
  <2>3. CASE c # b
    <3>1. ~(v <= at[t] /\ at[t] <= v + Window - 1)
      <4>0. b \in Nat /\ c \in Nat
        BY <1>1 DEF Rate!Times
      <4>1. CASE b < c
        <5>1. w + Window <= v /\ v \in Nat
          BY <4>0, <4>1, BucketsApart
        <5> QED BY <1>2, <1>3, <1>4, <1>8, <5>1
      <4>2. CASE c < b
        <5>1. v + Window <= w /\ v \in Nat
          BY <4>0, <4>2, BucketsApart
        <5> QED BY <1>2, <1>3, <1>4, <1>8, <5>1
      <4> QED BY <2>3, <4>0, <4>1, <4>2
    <3>2. Held(c)' = Held(c) /\ key'[c] = key[c]
      BY <1>1, <2>1, <2>3, <3>1
    <3> QED BY <3>2 DEF RateInv, PushBuckets
  <2> QED BY <2>2, <2>3
<1>12. PushBuckets'
  BY <1>1, <1>11 DEF PushBuckets
<1>13. ~unfounded'
  <2>1. CASE n + 1 <= Limit
    BY <1>1, <2>1
  <2>2. CASE ~(n + 1 <= Limit)
    <3> HIDE DEF w, n
    <3>1. Held(b) = Limit
      BY <1>1, <1>4, <1>10, <2>2 DEF Fewer, n
    <3>2. Held(b) <= Passed(at[t] - Window + 1, now)
      <4>1. \A x \in Rate!Times : w <= x /\ x <= w + Window - 1 =>
               (at[t] - Window + 1 <= x /\ x <= now) \/ admitted[x] = 0
        <5> SUFFICES ASSUME NEW x \in Rate!Times, w <= x, x <= w + Window - 1
                     PROVE  (at[t] - Window + 1 <= x /\ x <= now) \/ admitted[x] = 0
          OBVIOUS
        <5>1. now < x => admitted[x] = 0
          BY DEF RateInv
        <5> QED BY <1>2, <1>3, <1>4, <1>8, <5>1 DEF Rate!Times
      <4> QED BY <1>7, <4>1, SpanCovers DEF Held, Passed, w
    <3>3. Passed(at[t] - Window + 1, now) \in Nat
      BY <1>7, SpanNat DEF Passed
    <3>4. ~(Passed(at[t] - Window + 1, now) < Limit)
      BY <1>4, <3>1, <3>2, <3>3
    <3> QED BY <1>1, <2>2, <3>4, Zenon DEF RateInv, n
  <2> QED BY <2>1, <2>2
<1> QED BY <1>12, <1>13

\* A request that counts for the login window.
LEMMA LoginCounts ==
    ASSUME RateInv, kind = "login", NEW t \in Tasks, Rate!Count(t)
    PROVE  LoginWindow' /\ ~unfounded'
<1> DEFINE n == key[0].count
<1>1. /\ at[t] \in Rate!Times /\ 0 \in Rate!Times /\ now \in Rate!Times
      /\ n \in Nat /\ key[0].dies \in Nat
      /\ key'[0] = [count |-> IF n + 1 > Limit + 1 THEN Limit + 2 ELSE n + 1, dies |-> Rate!Dies(key[0])]
      /\ key'[0] # Rate!NoKey
      /\ UNCHANGED <<kind, now>>
      /\ IF n + 1 <= Limit
         THEN admitted' = [admitted EXCEPT ![now] = @ + 1] /\ ~unfounded'
         ELSE /\ unfounded' = (unfounded \/ Passed(at[t] - Window + 1, now) < Limit)
              /\ UNCHANGED admitted
  BY RateCounts DEF Rate!Bucket
<1>2. now \in Nat /\ at[t] \in Nat /\ at[t] <= now
  BY <1>1 DEF RateInv, Rate!Count, Rate!Times
<1>3. Window \in Nat /\ 0 < Window /\ Limit \in Nat
  BY Bounds, WindowAssumption
<1>4. admitted \in Admissions
  BY DEF RateInv, Rate!TypeOK, Admissions
<1>5. key'[0].count = IF n + 1 > Limit + 1 THEN Limit + 2 ELSE n + 1
  BY <1>1
<1>6. Start' = Start /\ Start \in Int /\ now - Window + 1 <= Start
  <2>1. key'[0].dies = IF key[0] # Rate!NoKey THEN key[0].dies ELSE now + Window
    BY <1>1 DEF Rate!Dies
  <2>2. key[0] # Rate!NoKey => now < key[0].dies
    BY <1>1 DEF RateInv
  <2> QED BY <1>1, <1>2, <1>3, <2>1, <2>2 DEF Start
<1>7. /\ Start <= now
      /\ Passed(Start, now) = Fewer(n, Limit)
      /\ Passed(Start - Window + 1, Start - 1) <= Limit
      /\ \A x \in Rate!Times : Passed(x, x + Window - 1) <= 2 * Limit
  BY DEF RateInv, LoginWindow
<1>8. \A x \in Rate!Times : now < x => admitted[x] = 0
  BY DEF RateInv
<1>9. \A x, y : Passed(x, y) \in Nat
  BY <1>4, SpanNat DEF Passed
<1> HIDE DEF n
<1>10. CASE n + 1 <= Limit
  <2>1. admitted' = [admitted EXCEPT ![now] = @ + 1] /\ ~unfounded'
    BY <1>1, <1>10
  <2>2. \A x, y : Passed(x, y)' = IF x <= now /\ now <= y THEN Passed(x, y) + 1 ELSE Passed(x, y)
    BY <1>1, <1>4, <2>1, PassedMore
  <2>3. \A x, y : Passed(x, y)' = SumBy(admitted', Span(x, y))
    BY DEF Passed
  <2>4. SumBy(admitted', Span(Start, now)) = Fewer(key'[0].count, Limit)
    <3>1. SumBy(admitted', Span(Start, now)) = Passed(Start, now) + 1
      BY <1>2, <1>6, <1>7, <2>2, <2>3
    <3> QED BY <1>1, <1>3, <1>5, <1>7, <1>10, <3>1 DEF Fewer
  <2>5. SumBy(admitted', Span(Start - Window + 1, Start - 1)) <= Limit
    BY <1>2, <1>6, <1>7, <2>2, <2>3
  <2>6. ASSUME NEW x \in Rate!Times PROVE SumBy(admitted', Span(x, x + Window - 1)) <= 2 * Limit
    <3>1. CASE ~(x <= now /\ now <= x + Window - 1)
      BY <1>7, <2>2, <2>3, <3>1
    <3>2. CASE x <= now /\ now <= x + Window - 1
      <4>1. admitted' \in Admissions
        BY <1>1, <1>4, <2>1 DEF Admissions
      <4>2. \A y \in Rate!Times : now < y => admitted'[y] = 0
        BY <1>1, <1>4, <1>8, <2>1, <1>2 DEF Admissions
      <4>3. \A y \in Rate!Times : x <= y /\ y <= x + Window - 1 =>
               (Start - Window + 1 <= y /\ y <= Start - 1) \/ (Start <= y /\ y <= now) \/ admitted'[y] = 0
        BY <1>2, <1>3, <1>6, <1>7, <2>6, <3>2, <4>2 DEF Rate!Times
      <4>4. SumBy(admitted', Span(x, x + Window - 1))
               <= SumBy(admitted', Span(Start - Window + 1, Start - 1)) + SumBy(admitted', Span(Start, now))
        BY <4>1, <4>3, SpanTwo
      <4>5. SumBy(admitted', Span(Start, now)) <= Limit
        <5>1. key'[0].count \in Nat
          BY <1>1, <1>3, <1>5
        <5> QED BY <1>3, <2>4, <5>1 DEF Fewer
      <4>6. /\ SumBy(admitted', Span(x, x + Window - 1)) \in Nat
            /\ SumBy(admitted', Span(Start - Window + 1, Start - 1)) \in Nat
            /\ SumBy(admitted', Span(Start, now)) \in Nat
        BY <4>1, SpanNat
      <4> QED BY <1>3, <2>5, <4>4, <4>5, <4>6
    <3> QED BY <3>1, <3>2
  <2>7. LoginWindow'
    BY <1>1, <1>6, <1>7, <2>4, <2>5, <2>6 DEF LoginWindow, Passed
  <2> QED BY <2>1, <2>7
<1>11. CASE ~(n + 1 <= Limit)
  <2>1. unfounded' = (unfounded \/ Passed(at[t] - Window + 1, now) < Limit) /\ UNCHANGED admitted
    BY <1>1, <1>11
  <2>2. Fewer(n, Limit) = Limit /\ Fewer(key'[0].count, Limit) = Limit
    BY <1>1, <1>3, <1>5, <1>11 DEF Fewer
  <2>3. Passed(Start, now) <= Passed(at[t] - Window + 1, now)
    <3>1. \A x \in Rate!Times : Start <= x /\ x <= now => (at[t] - Window + 1 <= x /\ x <= now) \/ admitted[x] = 0
      BY <1>2, <1>3, <1>6 DEF Rate!Times
    <3> QED BY <1>4, <3>1, SpanCovers DEF Passed
  <2>4. ~(Passed(at[t] - Window + 1, now) < Limit)
    BY <1>3, <1>7, <1>9, <2>2, <2>3
  <2>5. ~unfounded'
    BY <2>1, <2>4, Zenon DEF RateInv
  <2>6. LoginWindow'
    BY <1>1, <1>6, <1>7, <2>1, <2>2 DEF LoginWindow, Passed
  <2> QED BY <2>5, <2>6
<1> QED BY <1>10, <1>11

\* Every kind of count keeps the invariant.
LEMMA RateCount ==
    ASSUME RateInv, NEW t \in Tasks, Rate!Count(t)
    PROVE  RateInv'
<1> DEFINE b == Rate!Bucket(at[t])
           moment == IF kind = "push" THEN at[t] ELSE now
<1>1. /\ b \in Rate!Times /\ moment \in Rate!Times /\ moment <= now
      /\ \A c \in Rate!Times : c # b => key'[c] = key[c]
      /\ key' \in [Rate!Times -> [count : Nat, dies : Nat]]
      /\ now < key'[b].dies
      /\ UNCHANGED <<kind, now>>
      /\ \A u \in Tasks : at'[u] = at[u] \/ at'[u] = None
      /\ at' \in [Tasks -> Rate!Times \cup {None}]
      /\ admitted' = [admitted EXCEPT ![moment] = @ + 1] \/ UNCHANGED admitted
  BY RateCounts
<1> HIDE DEF b, moment
<1>2. kind \in {"push", "login"} /\ now \in Rate!Times /\ now \in Nat /\ admitted \in Admissions
  BY DEF RateInv, Rate!TypeOK, Rate!Times, Admissions
<1>3. ~unfounded' /\ PushBuckets' /\ LoginWindow'
  <2>1. CASE kind = "push"
    BY <1>1, <2>1, PushCounts DEF LoginWindow
  <2>2. CASE kind = "login"
    BY <1>1, <2>2, LoginCounts DEF PushBuckets
  <2> QED BY <1>2, <2>1, <2>2
<1>4. unfounded' \in BOOLEAN
  <2>2. unfounded \in BOOLEAN
    BY DEF RateInv, Rate!TypeOK
  <2>3. unfounded' = unfounded \/ unfounded' = (unfounded \/ Rate!Between(at[t] - Window + 1, now) < Limit)
    BY DEF Rate!Count
  <2> QED BY <2>2, <2>3, Zenon
<1>5. admitted' \in Admissions /\ \A x \in Rate!Times : now < x => admitted'[x] = 0
  <2>1. admitted' \in Admissions /\ \A x \in Rate!Times : x # moment => admitted'[x] = admitted[x]
    BY <1>1, <1>2 DEF Admissions
  <2> QED BY <1>1, <1>2, <2>1 DEF RateInv, Rate!Times
<1>6. \A c \in Rate!Times : key'[c] # Rate!NoKey => now < key'[c].dies
  BY <1>1 DEF RateInv
<1>7. \A u \in Tasks : at'[u] # None => at'[u] \in Rate!Times /\ now - MaxDelay <= at'[u] /\ at'[u] <= now
  BY <1>1 DEF RateInv
<1>8. Rate!TypeOK'
  BY <1>1, <1>2, <1>4, <1>5 DEF Rate!TypeOK, Admissions
<1> QED BY <1>1, <1>3, <1>5, <1>6, <1>7, <1>8 DEF RateInv

\* Every step of either limit.
LEMMA RateStep == RateInv /\ Rate!Next => RateInv'
BY RateReads, RateTicks, RateCount DEF Rate!Next

\* A step that is about something else.
LEMMA RateStutter == RateInv /\ UNCHANGED <<kind, now, key, at, admitted, unfounded>> => RateInv'
<1> SUFFICES ASSUME RateInv, UNCHANGED <<kind, now, key, at, admitted, unfounded>> PROVE RateInv'
  OBVIOUS
<1>1. unfounded' \in BOOLEAN /\ ~unfounded'
  BY Zenon DEF RateInv, Rate!TypeOK
<1> QED BY <1>1 DEF RateInv, Rate!TypeOK, PushBuckets, LoginWindow, Held, Passed, Start

\* rate_limit and check_login_limit: no bucket and no window admits too much,
\* and nobody is refused who has not used the limit.
LEMMA RateHolds == RateInv => Rate!TypeOK /\ Rate!BucketHeld /\ Rate!BurstBounded /\ Rate!RefusedWithReason
<1> SUFFICES ASSUME RateInv PROVE Rate!TypeOK /\ Rate!BucketHeld /\ Rate!BurstBounded /\ Rate!RefusedWithReason
  OBVIOUS
<1>1. admitted \in Admissions /\ kind \in {"push", "login"}
  BY DEF RateInv, Rate!TypeOK, Admissions
<1>2. kind = "push" => \A b \in Rate!Times : Passed(b * Window, b * Window + Window - 1) <= Limit
  BY DEF RateInv, PushBuckets, Held
<1>3. Rate!BucketHeld
  BY <1>2, RateSums DEF Rate!BucketHeld
<1>4. \A x \in Rate!Times : Passed(x, x + Window - 1) <= 2 * Limit
  <2>1. CASE kind = "push"
    BY <1>1, <1>2, <2>1, TwoBuckets DEF Passed
  <2>2. CASE kind = "login"
    BY <2>2 DEF RateInv, LoginWindow
  <2> QED BY <1>1, <2>1, <2>2
<1>5. Rate!BurstBounded
  BY <1>4, RateSums DEF Rate!BurstBounded
<1> QED BY <1>3, <1>5 DEF RateInv, Rate!RefusedWithReason

\* Both rate windows, in every behaviour that is about them.
THEOREM WindowsHold == Spec => []WindowsCorrect
<1> DEFINE Inv == part = "rate" => RateInv
<1>1. Init => Inv
  BY RateInit DEF Init
<1>2. Inv /\ [Next]_vars => Inv'
  <2> SUFFICES ASSUME Inv, [Next]_vars PROVE Inv'
    OBVIOUS
  <2>1. CASE UNCHANGED vars
    BY <2>1, RateStutter DEF vars
  <2>2. CASE Next
    BY <2>2, RateStep DEF Next
  <2> QED BY <2>1, <2>2
<1>3. Inv => WindowsCorrect
  BY RateHolds DEF WindowsCorrect
<1> QED BY <1>1, <1>2, <1>3, PTL DEF Spec

-----------------------------------------------------------------------------
(* Ratings.  Whoever has got past the summary row is alone until its       *)
(* commit, so what it aggregates is what it leaves; a summary once there   *)
(* stays, so a submission that lost the race for it finds it; and what a    *)
(* process has stored or will store is as new as its last refresh.          *)

Writing == {"lock", "insert", "detail", "flush", "commit"}
Alone == {"detail", "flush", "commit"}

Writes(t) == pc[t] \in Writing =>
    /\ mem[t] \in Rating!Memory
    /\ pc[t] \in Alone => holder = t
    /\ mem[t].kind = "delete" \/ mem[t].retried => summary # None /\ pc[t] # "insert"
    /\ pc[t] = "flush" /\ mem[t].kind = "rate" => mem[t].found = (rating[mem[t].user] # None)
    /\ pc[t] = "commit" => mem[t].totals = Rating!Aggregate(Rating!After(t))

Refreshes(t) == pc[t] = "refresh" => mem[t] \in Rating!Committed /\ mem[t].id <= commits

\* No reader has or holds back what is older than the last refresh.
RatingsFresh ==
    /\ \A p \in Procs : done[p] <= commits /\ Rating!Fresh(p, done[p])
    /\ \A f \in fills : f.late \/ done[f.home] <= f.at

RatingInv ==
    /\ Rating!TypeOK
    /\ Rating!SummaryMatches
    /\ Rating!NobodyRefused
    /\ holder # None => pc[holder] \in Alone
    /\ \A t \in Tasks : Writes(t)
    /\ \A t \in Tasks : Refreshes(t)
    /\ RatingsFresh

Ratings == [Users -> Rating!Row \cup {None}]

\* A count and an average, of whatever ratings there are.
LEMMA AggregateTyped == ASSUME NEW r \in Ratings PROVE Rating!Aggregate(r) \in Rating!Totals
<1> DEFINE s == Rating!Rated(r)
           f == [u \in Users |-> r[u].mark]
           c == Cardinality(s)
           a == SumBy(f, s)
<1>1. s \subseteq Users /\ \A u \in s : r[u] \in Rating!Row
  BY DEF Ratings, Rating!Rated
<1>2. IsFiniteSet(s)
  BY <1>1, BoundsAssumption, FS_Subset
<1>3. c \in Nat
  BY <1>2, FS_CardinalityType
<1>4. a \in Nat
  <2>1. \A u \in s : f[u] \in Nat
    BY <1>1 DEF Rating!Row, Marks
  <2> HIDE DEF s, f
  <2> QED BY <1>2, <2>1, SumNat
<1>5. Rating!SumOf(r) = a
  BY SumDefined DEF Rating!SumOf, Rating!SumFunctionOnSet, SumFunctionOnSet, FoldFunctionOnSet,
     Rating!FoldFunctionOnSet, MapThenFoldSet, Rating!MapThenFoldSet
<1>6. Rating!Cardinality(s) = c
  BY DEF Rating!Cardinality, Cardinality
<1>7. Rating!Aggregate(r) = [count |-> c, average |-> IF c = 0 THEN 0 ELSE (2 * a + c) \div (2 * c)]
  BY <1>5, <1>6 DEF Rating!Aggregate
<1> HIDE DEF a, c
<1>8. c # 0 => (2 * a + c) \div (2 * c) \in Nat
  <2> DEFINE x == 2 * a + c
             y == 2 * c
  <2>1. x \in Nat /\ y \in Nat /\ (c # 0 => y > 0)
    BY <1>3, <1>4
  <2> HIDE DEF x, y
  <2>2. y > 0 => x \div y \in Nat
    BY <2>1
  <2> QED BY <2>1, <2>2 DEF x, y
<1> QED BY <1>3, <1>7, <1>8 DEF Rating!Totals

\* What the type invariant says, for the proofs.
LEMMA RatingTypes ==
    RatingInv => /\ cache \in [Procs -> Rating!Entry \cup {None}] /\ fills \subseteq Rating!Fill
                 /\ rating \in Ratings /\ summary \in Rating!Totals \cup {None}
                 /\ holder \in Tasks \cup {None} /\ commits \in Nat /\ asked \in 0..MaxWrites
                 /\ done \in [Procs -> Nat] /\ pc \in [Tasks -> Rating!Steps]
                 /\ mem \in [Tasks -> Rating!Memory \cup Rating!Committed \cup {None}]
BY DEF RatingInv, Rating!TypeOK, Rating!CacheTypeOK, Ratings

\* The rows after a write are rows.
LEMMA AfterTyped == ASSUME RatingInv, NEW t \in Tasks, mem[t] \in Rating!Memory PROVE Rating!After(t) \in Ratings
<1>1. rating \in Ratings /\ commits \in Nat
  BY RatingTypes
<1>2. mem[t].user \in Users /\ mem[t].mark \in Marks
  BY DEF Rating!Memory
<1> DEFINE u == mem[t].user
           i == IF rating[u] = None THEN commits + 1 ELSE rating[u].id
           r == [mark |-> mem[t].mark, id |-> i]
<1>3. i \in Nat
  BY <1>1, <1>2 DEF Ratings, Rating!Row
<1>4. r \in Rating!Row
  BY <1>2, <1>3 DEF Rating!Row
<1>5. CASE mem[t].kind = "rate"
  <2>1. Rating!After(t) = [rating EXCEPT ![u] = r]
    BY <1>5 DEF Rating!After
  <2> HIDE DEF r
  <2> QED BY <1>1, <1>2, <1>4, <2>1 DEF Ratings
<1>6. CASE mem[t].kind # "rate"
  <2>1. Rating!After(t) = [rating EXCEPT ![u] = None] \/ Rating!After(t) = [rating EXCEPT ![u] = rating[u]]
    BY <1>6 DEF Rating!After
  <2> QED BY <1>1, <1>2, <2>1 DEF Ratings
<1> QED BY <1>5, <1>6

\* Nobody has rated at first.
LEMMA RatingInit == Rating!Init => RatingInv
<1> SUFFICES ASSUME Rating!Init PROVE RatingInv
  OBVIOUS
<1> USE DEF Rating!Init, Rating!CacheInit
<1>1. asked \in 0..MaxWrites
  BY Bounds
<1>2. Rating!TypeOK
  BY <1>1 DEF Rating!TypeOK, Rating!CacheTypeOK, Rating!Steps
<1>3. Rating!SummaryMatches
  BY DEF Rating!SummaryMatches, Rating!Rated
<1>4. RatingsFresh
  BY DEF RatingsFresh, Rating!Fresh
<1> QED BY <1>2, <1>3, <1>4 DEF RatingInv, Rating!NobodyRefused, Writes, Writing, Refreshes

\* A step of one request before its commit.
LEMMA BeforeCommit ==
    ASSUME RatingInv, NEW t \in Tasks,
           UNCHANGED <<cache, fills, rating, summary, commits, done>>, asked' \in 0..MaxWrites,
           pc' \in [Tasks -> Rating!Steps],
           mem' \in [Tasks -> Rating!Memory \cup Rating!Committed \cup {None}],
           \A u \in Tasks : u # t => pc'[u] = pc[u] /\ mem'[u] = mem[u],
           pc'[t] \in Writing, Writes(t)',
           \/ holder' = holder /\ (pc'[t] \in Alone <=> pc[t] \in Alone)
           \/ holder = None /\ holder' = t /\ pc'[t] \in Alone
    PROVE  RatingInv'
<1>1. /\ holder \in Tasks \cup {None} /\ None \notin Tasks
      /\ (holder # None => pc[holder] \in Alone) /\ \A u \in Tasks : pc[u] \in Alone => holder = u
  BY RatingTypes, AbsentAssumption DEF RatingInv, Writes, Writing, Alone
<1>2. holder' \in Tasks \cup {None} /\ (holder' # None => pc'[holder'] \in Alone)
  BY <1>1
<1>3. ASSUME NEW u \in Tasks, u # t PROVE Writes(u)' /\ Refreshes(u)' /\ pc'[u] # "refused"
  <2>1. pc'[u] = pc[u] /\ mem'[u] = mem[u] /\ Writes(u) /\ Refreshes(u)
    BY <1>3 DEF RatingInv
  <2>2. Rating!After(u)' = Rating!After(u)
    BY <2>1 DEF Rating!After
  <2>3. pc[u] \in Alone => holder' = u
    BY <1>1, <1>3
  <2>4. Writes(u)'
    BY <2>1, <2>2, <2>3 DEF Writes
  <2>5. pc[u] # "refused"
    BY DEF RatingInv, Rating!NobodyRefused
  <2> QED BY <2>1, <2>4, <2>5 DEF Refreshes
<1>4. Refreshes(t)' /\ pc'[t] # "refused"
  BY DEF Refreshes, Writing
<1>5. (\A u \in Tasks : Writes(u)') /\ (\A u \in Tasks : Refreshes(u)') /\ Rating!NobodyRefused'
  BY <1>3, <1>4 DEF Rating!NobodyRefused
<1>6. RatingsFresh' /\ Rating!SummaryMatches'
  BY DEF RatingInv, RatingsFresh, Rating!Fresh, Rating!SummaryMatches
<1>7. Rating!TypeOK'
  BY <1>2 DEF RatingInv, Rating!TypeOK, Rating!CacheTypeOK
<1> QED BY <1>2, <1>5, <1>6, <1>7 DEF RatingInv

\* A new request; who deletes has seen a rating, so there is a summary.
LEMMA RatingAsks ==
    ASSUME RatingInv, NEW t \in Tasks, NEW what \in {"rate", "delete"}, NEW u \in Users, NEW mark \in Marks,
           NEW id \in Nat, NEW p \in Procs, Rating!Ask(t, what, u, mark, id, p), what = "delete" => summary # None
    PROVE  RatingInv'
<1> DEFINE m == [kind |-> what, user |-> u, mark |-> mark, id |-> id, home |-> p,
                 retried |-> FALSE, found |-> FALSE, totals |-> [count |-> 0, average |-> 0]]
<1>1. m \in Rating!Memory /\ m.kind = what /\ ~m.retried
  BY DEF Rating!Memory, Rating!Totals
<1>2. /\ pc[t] = "idle" /\ mem' = [mem EXCEPT ![t] = m] /\ pc' = [pc EXCEPT ![t] = "lock"]
      /\ asked < MaxWrites /\ asked' = asked + 1 /\ UNCHANGED <<cache, fills, rating, summary, holder, commits, done>>
  BY DEF Rating!Ask, Rating!Goto, Rating!caches
<1> HIDE DEF m
<1>3. /\ pc \in [Tasks -> Rating!Steps] /\ mem \in [Tasks -> Rating!Memory \cup Rating!Committed \cup {None}]
      /\ asked \in 0..MaxWrites
  BY RatingTypes
<1>4. asked' \in 0..MaxWrites
  BY <1>2, <1>3, Bounds
<1>5. pc' \in [Tasks -> Rating!Steps] /\ pc'[t] = "lock"
  BY <1>2, <1>3 DEF Rating!Steps
<1>6. mem' \in [Tasks -> Rating!Memory \cup Rating!Committed \cup {None}] /\ mem'[t] = m
  BY <1>1, <1>2, <1>3
<1>7. Writes(t)'
  BY <1>1, <1>2, <1>5, <1>6 DEF Writes, Alone
<1>8. \A v \in Tasks : v # t => pc'[v] = pc[v] /\ mem'[v] = mem[v]
  BY <1>2, <1>3
<1>9. pc'[t] \in Writing /\ (pc'[t] \in Alone <=> pc[t] \in Alone)
  BY <1>2, <1>5 DEF Writing, Alone
<1> QED BY <1>2, <1>4, <1>5, <1>6, <1>7, <1>8, <1>9, BeforeCommit

\* A deletion is asked for.
LEMMA RatingDeletes ==
    ASSUME RatingInv, NEW t \in Tasks, NEW u \in Users, NEW p \in Procs, Rating!DeleteRating(t, u, p)
    PROVE  RatingInv'
<1>1. rating \in Ratings /\ rating[u] # None /\ Rating!Ask(t, "delete", u, rating[u].mark, rating[u].id, p)
  BY RatingTypes DEF Rating!DeleteRating
<1>2. rating[u].mark \in Marks /\ rating[u].id \in Nat
  BY <1>1 DEF Ratings, Rating!Row
<1>3. summary # None
  <2>1. u \in Rating!Rated(rating)
    BY <1>1 DEF Ratings, Rating!Rated
  <2> QED BY <2>1 DEF RatingInv, Rating!SummaryMatches
<1> QED BY <1>1, <1>2, <1>3, RatingAsks

\* A rating is asked for.
LEMMA RatingRates ==
    ASSUME RatingInv, NEW t \in Tasks, NEW u \in Users, NEW mark \in Marks, NEW p \in Procs,
           Rating!RatePlugin(t, u, mark, p)
    PROVE  RatingInv'
BY RatingAsks DEF Rating!RatePlugin

\* The summary row is locked, or there is none yet.
LEMMA RatingLocks == ASSUME RatingInv, NEW t \in Tasks, Rating!Lock(t) PROVE RatingInv'
<1>1. pc[t] = "lock" /\ UNCHANGED <<cache, fills, rating, summary, commits, asked, done, mem>>
  BY DEF Rating!Lock, Rating!caches, Rating!data
<1>2. /\ pc \in [Tasks -> Rating!Steps] /\ mem \in [Tasks -> Rating!Memory \cup Rating!Committed \cup {None}]
      /\ asked \in 0..MaxWrites
  BY RatingTypes
<1>3. Writes(t)
  BY DEF RatingInv
<1>4. mem[t] \in Rating!Memory
  BY <1>1, <1>3 DEF Writes, Writing
<1>5. ASSUME NEW step \in Writing, step # "commit", pc' = [pc EXCEPT ![t] = step],
             step = "insert" => summary = None, step = "flush" => mem[t].kind # "rate",
             step \in Alone => holder' = t, step \in Alone => holder = None, step \notin Alone => holder' = holder
      PROVE  RatingInv'
  <2>1. pc' \in [Tasks -> Rating!Steps] /\ pc'[t] = step /\ \A v \in Tasks : v # t => pc'[v] = pc[v]
    BY <1>2, <1>5 DEF Rating!Steps, Writing
  <2>2. Writes(t)'
    BY <1>1, <1>3, <1>4, <1>5, <2>1 DEF Writes, Writing
  <2>3. \/ holder' = holder /\ (pc'[t] \in Alone <=> pc[t] \in Alone)
        \/ holder = None /\ holder' = t /\ pc'[t] \in Alone
    BY <1>1, <1>5, <2>1 DEF Alone
  <2> QED BY <1>1, <1>2, <1>5, <2>1, <2>2, <2>3, BeforeCommit
<1>6. CASE summary = None
  <2>1. pc' = [pc EXCEPT ![t] = "insert"] /\ holder' = holder
    BY <1>6 DEF Rating!Lock, Rating!Goto
  <2> QED BY <1>5, <1>6, <2>1 DEF Writing, Alone
<1>7. CASE summary # None
  <2>1. holder = None /\ holder' = t /\ pc' = [pc EXCEPT ![t] = IF mem[t].kind = "rate" THEN "detail" ELSE "flush"]
    BY <1>7 DEF Rating!Lock, Rating!Goto
  <2>2. CASE mem[t].kind = "rate"
    BY <1>5, <2>1, <2>2 DEF Writing, Alone
  <2>3. CASE mem[t].kind # "rate"
    BY <1>5, <2>1, <2>3 DEF Writing, Alone
  <2> QED BY <2>2, <2>3
<1> QED BY <1>6, <1>7

\* The first summary row, or that of another submission.
LEMMA RatingInserts == ASSUME RatingInv, NEW t \in Tasks, Rating!Insert(t) PROVE RatingInv'
<1>1. pc[t] = "insert" /\ holder = None /\ UNCHANGED <<cache, fills, rating, summary, commits, asked, done>>
  BY DEF Rating!Insert, Rating!caches, Rating!data
<1>2. /\ pc \in [Tasks -> Rating!Steps] /\ mem \in [Tasks -> Rating!Memory \cup Rating!Committed \cup {None}]
      /\ asked \in 0..MaxWrites
  BY RatingTypes
<1>3. Writes(t)
  BY DEF RatingInv
<1>4. mem[t] \in Rating!Memory /\ ~mem[t].retried /\ mem[t].kind = "rate"
  <2>1. mem[t] \in Rating!Memory /\ ~(mem[t].kind = "delete" \/ mem[t].retried)
    BY <1>1, <1>3 DEF Writes, Writing
  <2>2. mem[t].kind \in {"rate", "delete"}
    BY <2>1 DEF Rating!Memory
  <2> QED BY <2>1, <2>2
<1>5. CASE summary = None
  <2>1. holder' = t /\ pc' = [pc EXCEPT ![t] = "detail"] /\ UNCHANGED mem
    BY <1>4, <1>5 DEF Rating!Insert, Rating!Goto
  <2>2. pc' \in [Tasks -> Rating!Steps] /\ pc'[t] = "detail" /\ \A v \in Tasks : v # t => pc'[v] = pc[v]
    BY <1>2, <2>1 DEF Rating!Steps
  <2>3. Writes(t)'
    BY <1>4, <2>1, <2>2 DEF Writes
  <2>4. pc'[t] \in Writing /\ pc'[t] \in Alone
    BY <2>2 DEF Writing, Alone
  <2> QED BY <1>1, <1>2, <2>1, <2>2, <2>3, <2>4, BeforeCommit
<1>6. CASE summary # None
  <2> DEFINE m == [mem[t] EXCEPT !.retried = TRUE]
  <2>1. mem' = [mem EXCEPT ![t] = m] /\ pc' = [pc EXCEPT ![t] = "lock"] /\ holder' = holder
    BY <1>4, <1>6 DEF Rating!Insert, Rating!Conflict, Rating!Goto
  <2>2. m \in Rating!Memory
    BY <1>4 DEF Rating!Memory
  <2> HIDE DEF m
  <2>3. pc' \in [Tasks -> Rating!Steps] /\ pc'[t] = "lock"
    BY <1>2, <2>1 DEF Rating!Steps
  <2>4. mem' \in [Tasks -> Rating!Memory \cup Rating!Committed \cup {None}] /\ mem'[t] = m
    BY <1>2, <2>1, <2>2
  <2>5. \A v \in Tasks : v # t => pc'[v] = pc[v] /\ mem'[v] = mem[v]
    BY <1>2, <2>1
  <2>6. Writes(t)'
    BY <1>1, <1>6, <2>2, <2>3, <2>4 DEF Writes, Alone
  <2>7. pc'[t] \in Writing /\ (pc'[t] \in Alone <=> pc[t] \in Alone)
    BY <1>1, <2>3 DEF Writing, Alone
  <2> QED BY <1>1, <1>2, <2>1, <2>3, <2>4, <2>5, <2>6, <2>7, BeforeCommit
<1> QED BY <1>5, <1>6

\* The detail is read, by the only writer.
LEMMA RatingReads == ASSUME RatingInv, NEW t \in Tasks, Rating!Detail(t) PROVE RatingInv'
<1>1. /\ pc[t] = "detail" /\ UNCHANGED <<cache, fills, rating, summary, commits, asked, done, holder>>
      /\ mem' = [mem EXCEPT ![t].found = rating[mem[t].user] # None] /\ pc' = [pc EXCEPT ![t] = "flush"]
  BY DEF Rating!Detail, Rating!Goto, Rating!caches, Rating!data
<1>2. /\ pc \in [Tasks -> Rating!Steps] /\ mem \in [Tasks -> Rating!Memory \cup Rating!Committed \cup {None}]
      /\ asked \in 0..MaxWrites
  BY RatingTypes
<1>3. Writes(t)
  BY DEF RatingInv
<1>4. mem[t] \in Rating!Memory
  BY <1>1, <1>3 DEF Writes, Writing
<1> DEFINE b == rating[mem[t].user] # None
<1>5. b \in BOOLEAN
  OBVIOUS
<1> HIDE DEF b
<1>6. PICK m : m = [mem[t] EXCEPT !.found = b]
  OBVIOUS
<1>7. /\ m \in Rating!Memory /\ m.found = b
      /\ m.kind = mem[t].kind /\ m.retried = mem[t].retried /\ m.user = mem[t].user
  BY <1>4, <1>5, <1>6 DEF Rating!Memory
<1>8. mem' = [mem EXCEPT ![t] = m]
  BY <1>1, <1>6 DEF b
<1>9. pc' \in [Tasks -> Rating!Steps] /\ pc'[t] = "flush"
  BY <1>1, <1>2 DEF Rating!Steps
<1>10. mem' \in [Tasks -> Rating!Memory \cup Rating!Committed \cup {None}] /\ mem'[t] = m
  BY <1>2, <1>7, <1>8
<1>11. \A v \in Tasks : v # t => pc'[v] = pc[v] /\ mem'[v] = mem[v]
  BY <1>1, <1>2, <1>8
<1>12. Writes(t)'
  <2>1. m.found = (rating'[m.user] # None)
    BY <1>1, <1>7 DEF b
  <2> QED BY <1>1, <1>3, <1>7, <1>9, <1>10, <2>1 DEF Writes, Writing, Alone
<1>13. pc'[t] \in Writing /\ (pc'[t] \in Alone <=> pc[t] \in Alone)
  BY <1>1, <1>9 DEF Writing, Alone
<1> QED BY <1>1, <1>2, <1>9, <1>10, <1>11, <1>12, <1>13, BeforeCommit

\* The aggregate of the rows as the transaction leaves them.
LEMMA RatingFlushes == ASSUME RatingInv, NEW t \in Tasks, Rating!Flush(t) PROVE RatingInv'
<1>1. pc[t] = "flush" /\ UNCHANGED <<cache, fills, rating, summary, commits, asked, done>>
  BY DEF Rating!Flush, Rating!caches, Rating!data
<1>2. /\ pc \in [Tasks -> Rating!Steps] /\ mem \in [Tasks -> Rating!Memory \cup Rating!Committed \cup {None}]
      /\ asked \in 0..MaxWrites
  BY RatingTypes
<1>3. Writes(t)
  BY DEF RatingInv
<1>4. mem[t] \in Rating!Memory /\ ~(mem[t].kind = "rate" /\ mem[t].found # (rating[mem[t].user] # None))
  BY <1>1, <1>3 DEF Writes, Writing
<1> DEFINE a == Rating!Aggregate(Rating!After(t))
<1>5. mem' = [mem EXCEPT ![t].totals = a] /\ pc' = [pc EXCEPT ![t] = "commit"] /\ holder' = holder
  BY <1>4 DEF Rating!Flush, Rating!Goto
<1>6. a \in Rating!Totals
  BY <1>4, AfterTyped, AggregateTyped
<1> HIDE DEF a
<1>7. PICK m : m = [mem[t] EXCEPT !.totals = a]
  OBVIOUS
<1>8. /\ m \in Rating!Memory /\ m.totals = a /\ m.kind = mem[t].kind /\ m.retried = mem[t].retried
      /\ m.user = mem[t].user /\ m.mark = mem[t].mark /\ m.id = mem[t].id
  BY <1>4, <1>6, <1>7 DEF Rating!Memory
<1>9. mem' = [mem EXCEPT ![t] = m]
  BY <1>5, <1>7
<1>10. pc' \in [Tasks -> Rating!Steps] /\ pc'[t] = "commit"
  BY <1>2, <1>5 DEF Rating!Steps
<1>11. mem' \in [Tasks -> Rating!Memory \cup Rating!Committed \cup {None}] /\ mem'[t] = m
  BY <1>2, <1>8, <1>9
<1>12. \A v \in Tasks : v # t => pc'[v] = pc[v] /\ mem'[v] = mem[v]
  BY <1>2, <1>5, <1>9
<1>13. Rating!After(t)' = Rating!After(t)
  BY <1>1, <1>8, <1>11 DEF Rating!After
<1>14. Writes(t)'
  BY <1>1, <1>3, <1>5, <1>8, <1>10, <1>11, <1>13 DEF Writes, Writing, Alone, a
<1>15. pc'[t] \in Writing /\ (pc'[t] \in Alone <=> pc[t] \in Alone)
  BY <1>1, <1>10 DEF Writing, Alone
<1> QED BY <1>1, <1>2, <1>5, <1>10, <1>11, <1>12, <1>14, <1>15, BeforeCommit

\* What was aggregated is committed, and nobody else is past the lock.
LEMMA RatingCommits == ASSUME RatingInv, NEW t \in Tasks, Rating!Commit(t) PROVE RatingInv'
<1>1. /\ pc[t] = "commit" /\ rating' = Rating!After(t) /\ summary' = mem[t].totals /\ commits' = commits + 1
      /\ mem' = [mem EXCEPT ![t] = [home |-> mem[t].home, id |-> commits + 1]]
      /\ holder' = IF holder = t THEN None ELSE holder
      /\ pc' = [pc EXCEPT ![t] = "refresh"] /\ UNCHANGED <<cache, fills, asked, done>>
  BY DEF Rating!Commit, Rating!Goto, Rating!caches
<1>2. /\ pc \in [Tasks -> Rating!Steps] /\ mem \in [Tasks -> Rating!Memory \cup Rating!Committed \cup {None}]
      /\ commits \in Nat /\ done \in [Procs -> Nat] /\ holder \in Tasks \cup {None}
  BY RatingTypes
<1>3. Writes(t)
  BY DEF RatingInv
<1>4. mem[t] \in Rating!Memory /\ holder = t /\ mem[t].totals = Rating!Aggregate(Rating!After(t))
  BY <1>1, <1>3 DEF Writes, Writing, Alone
<1>5. rating' \in Ratings /\ summary' \in Rating!Totals /\ summary' # None /\ summary' = Rating!Aggregate(rating')
  BY <1>1, <1>4, AfterTyped, AggregateTyped, AbsentAssumption
<1>6. Rating!SummaryMatches'
  BY <1>5 DEF Rating!SummaryMatches
<1> DEFINE m == [home |-> mem[t].home, id |-> commits + 1]
<1>7. m \in Rating!Committed /\ m.id = commits + 1
  BY <1>2, <1>4 DEF Rating!Memory, Rating!Committed
<1> HIDE DEF m
<1>8. pc' \in [Tasks -> Rating!Steps] /\ pc'[t] = "refresh"
  BY <1>1, <1>2 DEF Rating!Steps
<1>9. mem' \in [Tasks -> Rating!Memory \cup Rating!Committed \cup {None}] /\ mem'[t] = m
  BY <1>1, <1>2, <1>7 DEF m
<1>10. \A v \in Tasks : v # t => pc'[v] = pc[v] /\ mem'[v] = mem[v]
  BY <1>1, <1>2
<1>11. holder' = None /\ commits' \in Nat
  BY <1>1, <1>2, <1>4
<1>12. ASSUME NEW u \in Tasks PROVE Writes(u)' /\ Refreshes(u)' /\ pc'[u] # "refused"
  <2>1. CASE u = t
    <3>1. m.id <= commits'
      BY <1>1, <1>2, <1>7
    <3> QED BY <1>7, <1>8, <1>9, <2>1, <3>1 DEF Writes, Writing, Refreshes
  <2>2. CASE u # t
    <3>1. pc'[u] = pc[u] /\ mem'[u] = mem[u] /\ Writes(u) /\ Refreshes(u)
      BY <1>10, <2>2 DEF RatingInv
    <3>2. pc[u] # "refused"
      BY DEF RatingInv, Rating!NobodyRefused
    <3>3. pc[u] \notin Alone
      BY <1>4, <2>2, <3>1 DEF Writes, Writing, Alone
    <3>4. pc[u] # "flush" /\ pc[u] # "commit"
      BY <3>3 DEF Alone
    <3>5. Writes(u)'
      BY <1>5, <3>1, <3>3, <3>4 DEF Writes
    <3>6. Refreshes(u)'
      <4>1. pc[u] = "refresh" => mem[u].id \in Nat
        BY <3>1 DEF Refreshes, Rating!Committed
      <4> QED BY <1>1, <1>2, <3>1, <4>1 DEF Refreshes
    <3> QED BY <3>1, <3>2, <3>5, <3>6
  <2> QED BY <2>1, <2>2
<1>13. RatingsFresh'
  BY <1>1, <1>2 DEF RatingInv, RatingsFresh, Rating!Fresh
<1>14. Rating!TypeOK'
  BY <1>1, <1>5, <1>8, <1>9, <1>11 DEF RatingInv, Rating!TypeOK, Rating!CacheTypeOK, Ratings
<1> QED BY <1>6, <1>11, <1>12, <1>13, <1>14 DEF RatingInv, Rating!NobodyRefused

\* What every step that leaves the database and the requests alone must keep.
LEMMA OnlyCaches ==
    ASSUME RatingInv, UNCHANGED <<rating, summary, holder, commits, asked, pc, mem>>,
           cache' \in [Procs -> Rating!Entry \cup {None}], fills' \subseteq Rating!Fill,
           done' \in [Procs -> Nat], RatingsFresh'
    PROVE  RatingInv'
<1>1. Rating!TypeOK'
  BY DEF RatingInv, Rating!TypeOK, Rating!CacheTypeOK
<1>2. \A t \in Tasks : Writes(t)' /\ Refreshes(t)'
  BY DEF RatingInv, Writes, Refreshes, Rating!After
<1> QED BY <1>1, <1>2 DEF RatingInv, Rating!SummaryMatches, Rating!NobodyRefused

\* A reader queries, stores or finds the entry expired.
LEMMA RatingCaches ==
    ASSUME RatingInv,
           \/ \E p \in Procs : Rating!ReadSummary(p) \/ Rating!ExpireSummary(p)
           \/ \E f \in fills : Rating!StoreSummary(f)
    PROVE  RatingInv'
<1>1. /\ cache \in [Procs -> Rating!Entry \cup {None}] /\ fills \subseteq Rating!Fill
      /\ commits \in Nat /\ done \in [Procs -> Nat]
  BY RatingTypes
<1>2. /\ \A p \in Procs : done[p] <= commits /\ (cache[p] # None /\ ~cache[p].late => done[p] <= cache[p].at)
      /\ \A f \in fills : f.late \/ done[f.home] <= f.at
  BY <1>1 DEF RatingInv, RatingsFresh, Rating!Fresh, Rating!Entry
<1>3. UNCHANGED <<rating, summary, commits, asked, done, holder, pc, mem>>
  BY DEF Rating!ReadSummary, Rating!ExpireSummary, Rating!StoreSummary, Rating!data
<1>4. CASE \E p \in Procs : Rating!ReadSummary(p)
  <2>1. PICK p \in Procs : Rating!ReadSummary(p)
    BY <1>4
  <2> DEFINE g == [home |-> p, at |-> commits, late |-> FALSE]
  <2>2. fills' = fills \cup {g} /\ UNCHANGED cache
    BY <2>1 DEF Rating!ReadSummary, Rating!Query
  <2>3. g \in Rating!Fill /\ g.home = p /\ g.at = commits
    BY <1>1 DEF Rating!Fill
  <2> HIDE DEF g
  <2>4. \A f \in fills' : f.late \/ done[f.home] <= f.at
    BY <1>2, <2>2, <2>3
  <2>5. RatingsFresh'
    BY <1>2, <1>3, <2>2, <2>4 DEF RatingInv, RatingsFresh, Rating!Fresh
  <2> QED BY <1>1, <1>3, <2>2, <2>3, <2>5, OnlyCaches
<1>5. CASE \E p \in Procs : Rating!ExpireSummary(p)
  <2>1. PICK p \in Procs : cache' = [cache EXCEPT ![p] = None] /\ fills' = fills
    BY <1>5 DEF Rating!ExpireSummary, Rating!Expire
  <2>2. RatingsFresh'
    BY <1>1, <1>2, <1>3, <2>1 DEF RatingInv, RatingsFresh, Rating!Fresh
  <2> QED BY <1>1, <1>3, <2>1, <2>2, OnlyCaches
<1>6. CASE \E f \in fills : Rating!StoreSummary(f)
  <2>1. PICK f \in fills : cache' = [cache EXCEPT ![f.home] = [at |-> f.at, late |-> f.late]] /\ fills' = fills \ {f}
    BY <1>6 DEF Rating!StoreSummary, Rating!Store
  <2> DEFINE e == [at |-> f.at, late |-> f.late]
  <2>2. f.home \in Procs /\ e \in Rating!Entry /\ e.at = f.at /\ e.late = f.late /\ f.at \in Nat
    BY <1>1 DEF Rating!Fill, Rating!Entry
  <2>3. cache' = [cache EXCEPT ![f.home] = e]
    BY <2>1
  <2>4. f.late \/ done[f.home] <= f.at
    BY <1>2
  <2> HIDE DEF e
  <2>5. \A p \in Procs : Rating!Fresh(p, done[p])'
    <3> SUFFICES ASSUME NEW p \in Procs, cache'[p] # None, ~cache'[p].late PROVE cache'[p].at >= done[p]
      BY <1>3 DEF Rating!Fresh
    <3>1. CASE p = f.home
      <4>1. cache'[p] = e
        BY <1>1, <2>2, <2>3, <3>1
      <4>2. done[p] <= e.at /\ done[p] \in Nat /\ e.at \in Nat
        BY <1>1, <2>2, <2>4, <3>1, <4>1
      <4> QED BY <4>1, <4>2
    <3>2. CASE p # f.home
      BY <1>1, <2>3, <3>2 DEF RatingInv, RatingsFresh, Rating!Fresh
    <3> QED BY <3>1, <3>2
  <2>6. RatingsFresh'
    BY <1>2, <1>3, <2>1, <2>5 DEF RatingsFresh, Rating!Fresh
  <2>7. cache' \in [Procs -> Rating!Entry \cup {None}] /\ fills' \subseteq Rating!Fill
    BY <1>1, <2>1, <2>2, <2>3
  <2> QED BY <1>1, <1>3, <2>6, <2>7, OnlyCaches
<1> QED BY <1>4, <1>5, <1>6

\* The process that has written forgets what it has.
LEMMA RatingForgets == ASSUME RatingInv, NEW t \in Tasks, Rating!Refresh(t) PROVE RatingInv'
<1> DEFINE m == mem[t]
<1>1. /\ pc[t] = "refresh" /\ Rating!Forget(m.home)
      /\ done' = [done EXCEPT ![m.home] = IF done[m.home] < m.id THEN m.id ELSE done[m.home]]
      /\ pc' = [pc EXCEPT ![t] = "idle"] /\ mem' = [mem EXCEPT ![t] = None]
      /\ UNCHANGED <<rating, summary, holder, commits, asked>>
  BY DEF Rating!Refresh, Rating!Goto
<1>2. /\ pc \in [Tasks -> Rating!Steps] /\ mem \in [Tasks -> Rating!Memory \cup Rating!Committed \cup {None}]
      /\ commits \in Nat /\ done \in [Procs -> Nat] /\ holder \in Tasks \cup {None}
      /\ cache \in [Procs -> Rating!Entry \cup {None}] /\ fills \subseteq Rating!Fill
  BY RatingTypes
<1>3. m \in Rating!Committed /\ m.id <= commits /\ m.home \in Procs /\ m.id \in Nat
  BY <1>1 DEF RatingInv, Refreshes, Rating!Committed
<1>4. /\ cache' = [cache EXCEPT ![m.home] = None]
      /\ fills' = {[f EXCEPT !.late = f.late \/ f.home = m.home] : f \in fills}
  BY <1>1 DEF Rating!Forget
<1> HIDE DEF m
<1>5. \A p \in Procs : done[p] <= commits /\ Rating!Fresh(p, done[p])
  BY DEF RatingInv, RatingsFresh
<1>6. done' \in [Procs -> Nat] /\ done'[m.home] <= commits /\ \A p \in Procs : p # m.home => done'[p] = done[p]
  BY <1>1, <1>2, <1>3, <1>5
<1>7. fills' \subseteq Rating!Fill /\ \A g \in fills' : g.late \/ done'[g.home] <= g.at
  <2> SUFFICES ASSUME NEW f \in fills
               PROVE  LET g == [f EXCEPT !.late = f.late \/ f.home = m.home]
                      IN  g \in Rating!Fill /\ (g.late \/ done'[g.home] <= g.at)
    BY <1>4
  <2>1. f \in Rating!Fill /\ (f.late \/ done[f.home] <= f.at) /\ f.home \in Procs
    BY <1>2 DEF RatingInv, RatingsFresh, Rating!Fill
  <2> DEFINE g == [f EXCEPT !.late = f.late \/ f.home = m.home]
  <2>2. g \in Rating!Fill /\ g.home = f.home /\ g.at = f.at /\ (f.late => g.late) /\ (f.home = m.home => g.late)
    BY <1>3, <2>1, FillForgets DEF Rating!Fill
  <2> HIDE DEF g
  <2>3. g.late \/ done'[g.home] <= g.at
    BY <1>6, <2>1, <2>2
  <2> QED BY <2>2, <2>3 DEF g
<1>8. \A p \in Procs : done'[p] <= commits' /\ Rating!Fresh(p, done[p])'
  <2> SUFFICES ASSUME NEW p \in Procs
               PROVE  done'[p] <= commits' /\ (cache'[p] # None /\ ~cache'[p].late => cache'[p].at >= done'[p])
    BY DEF Rating!Fresh
  <2>1. CASE p = m.home
    BY <1>1, <1>2, <1>4, <1>6, <2>1
  <2>2. CASE p # m.home
    BY <1>1, <1>2, <1>4, <1>5, <1>6, <2>2 DEF Rating!Fresh
  <2> QED BY <2>1, <2>2
<1>9. RatingsFresh'
  BY <1>7, <1>8 DEF RatingsFresh
<1>10. cache' \in [Procs -> Rating!Entry \cup {None}]
  BY <1>2, <1>4
<1>11. pc' \in [Tasks -> Rating!Steps] /\ pc'[t] = "idle"
  BY <1>1, <1>2 DEF Rating!Steps
<1>12. mem' \in [Tasks -> Rating!Memory \cup Rating!Committed \cup {None}]
  BY <1>1, <1>2
<1>13. ASSUME NEW u \in Tasks PROVE Writes(u)' /\ Refreshes(u)' /\ pc'[u] # "refused"
  <2>1. CASE u = t
    BY <1>11, <2>1 DEF Writes, Writing, Refreshes
  <2>2. CASE u # t
    <3>1. pc'[u] = pc[u] /\ mem'[u] = mem[u] /\ Writes(u) /\ Refreshes(u)
      BY <1>1, <1>2, <2>2 DEF RatingInv
    <3>2. pc[u] # "refused"
      BY DEF RatingInv, Rating!NobodyRefused
    <3>3. Rating!After(u)' = Rating!After(u)
      <4>1. rating' = rating /\ commits' = commits /\ mem'[u] = mem[u]
        BY <1>1, <3>1
      <4> QED BY <4>1, Zenon DEF Rating!After
    <3> QED BY <1>1, <3>1, <3>2, <3>3 DEF Writes, Refreshes
  <2> QED BY <2>1, <2>2
<1>14. holder' # None => pc'[holder'] \in Alone
  <2>1. holder # None => pc[holder] \in Alone
    BY DEF RatingInv
  <2>2. holder # t
    BY <1>1, <2>1, AbsentAssumption DEF Alone
  <2> QED BY <1>1, <1>2, <2>1, <2>2
<1>15. Rating!TypeOK'
  BY <1>1, <1>6, <1>7, <1>10, <1>11, <1>12 DEF RatingInv, Rating!TypeOK, Rating!CacheTypeOK
<1>16. Rating!SummaryMatches'
  BY <1>1 DEF RatingInv, Rating!SummaryMatches
<1> QED BY <1>9, <1>13, <1>14, <1>15, <1>16 DEF RatingInv, Rating!NobodyRefused

\* A process dies with its requests and its memory.
LEMMA RatingCrashes == ASSUME RatingInv, NEW p \in Procs, Rating!Crash(p) PROVE RatingInv'
<1> DEFINE own(t) == mem[t] # None /\ mem[t].home = p
<1>1. /\ cache' = [cache EXCEPT ![p] = None] /\ fills' = {f \in fills : f.home # p}
      /\ holder' = IF holder # None /\ own(holder) THEN None ELSE holder
      /\ pc' = [t \in Tasks |-> IF own(t) THEN "idle" ELSE pc[t]]
      /\ mem' = [t \in Tasks |-> IF own(t) THEN None ELSE mem[t]]
      /\ UNCHANGED <<rating, summary, commits, asked, done>>
  BY DEF Rating!Crash, Rating!Vanish, Rating!data
<1>2. /\ pc \in [Tasks -> Rating!Steps] /\ mem \in [Tasks -> Rating!Memory \cup Rating!Committed \cup {None}]
      /\ holder \in Tasks \cup {None} /\ cache \in [Procs -> Rating!Entry \cup {None}] /\ fills \subseteq Rating!Fill
  BY RatingTypes
<1>3. \A t \in Tasks : \/ own(t) /\ pc'[t] = "idle" /\ mem'[t] = None
                       \/ ~own(t) /\ pc'[t] = pc[t] /\ mem'[t] = mem[t]
  BY <1>1
<1> HIDE DEF own
<1>4. ASSUME NEW u \in Tasks PROVE Writes(u)' /\ Refreshes(u)' /\ pc'[u] # "refused"
  <2>1. CASE own(u)
    BY <1>3, <2>1 DEF Writes, Writing, Refreshes
  <2>2. CASE ~own(u)
    <3>1. pc'[u] = pc[u] /\ mem'[u] = mem[u] /\ Writes(u) /\ Refreshes(u)
      BY <1>3, <2>2 DEF RatingInv
    <3>2. pc[u] # "refused"
      BY DEF RatingInv, Rating!NobodyRefused
    <3>3. Rating!After(u)' = Rating!After(u)
      BY <1>1, <3>1 DEF Rating!After
    <3>4. holder = u => holder' = u
      BY <1>1, <2>2
    <3> QED BY <1>1, <3>1, <3>2, <3>3, <3>4 DEF Writes, Refreshes
  <2> QED BY <2>1, <2>2
<1>5. holder' \in Tasks \cup {None} /\ (holder' # None => pc'[holder'] \in Alone)
  <2>1. holder # None => pc[holder] \in Alone
    BY DEF RatingInv
  <2>2. holder' # None => holder' = holder /\ ~own(holder)
    BY <1>1
  <2> QED BY <1>1, <1>2, <1>3, <2>1, <2>2
<1>6. pc' \in [Tasks -> Rating!Steps] /\ mem' \in [Tasks -> Rating!Memory \cup Rating!Committed \cup {None}]
  BY <1>1, <1>2 DEF Rating!Steps
<1>7. cache' \in [Procs -> Rating!Entry \cup {None}] /\ fills' \subseteq Rating!Fill
  BY <1>1, <1>2
<1>8. RatingsFresh'
  BY <1>1, <1>2 DEF RatingInv, RatingsFresh, Rating!Fresh
<1>9. Rating!TypeOK'
  BY <1>1, <1>5, <1>6, <1>7 DEF RatingInv, Rating!TypeOK, Rating!CacheTypeOK
<1>10. Rating!SummaryMatches'
  BY <1>1 DEF RatingInv, Rating!SummaryMatches
<1> QED BY <1>4, <1>5, <1>8, <1>9, <1>10 DEF RatingInv, Rating!NobodyRefused

\* Every step, and a step that is about something else.
LEMMA RatingStep == RatingInv /\ Rating!Next => RatingInv'
BY RatingRates, RatingDeletes, RatingLocks, RatingInserts, RatingReads, RatingFlushes, RatingCommits,
   RatingForgets, RatingCaches, RatingCrashes DEF Rating!Next

\* A step of another component changes nothing here.
LEMMA RatingStutter ==
    RatingInv /\ UNCHANGED <<cache, fills, rating, summary, holder, commits, asked, done, pc, mem>> => RatingInv'
<1> SUFFICES ASSUME RatingInv, UNCHANGED <<cache, fills, rating, summary, holder, commits, asked, done, pc, mem>>
             PROVE  RatingInv'
  OBVIOUS
<1>1. RatingsFresh' /\ done' \in [Procs -> Nat]
  BY RatingTypes DEF RatingInv, RatingsFresh, Rating!Fresh
<1>2. cache' \in [Procs -> Rating!Entry \cup {None}] /\ fills' \subseteq Rating!Fill
  BY RatingTypes
<1> QED BY <1>1, <1>2, OnlyCaches

\* rate_plugin and the administrator's deletion: the summary is the aggregate of
\* the ratings, no submission is refused, and no process serves what is older
\* than its own last write.
THEOREM RatingsHold == Spec => []RatingsCorrect
<1> DEFINE Inv == part = "rating" => RatingInv
<1>1. Init => Inv
  BY RatingInit DEF Init
<1>2. Inv /\ [Next]_vars => Inv'
  <2> SUFFICES ASSUME Inv, [Next]_vars PROVE Inv'
    OBVIOUS
  <2>1. CASE UNCHANGED vars
    BY <2>1, RatingStutter DEF vars
  <2>2. CASE Next
    BY <2>2, RatingStep DEF Next
  <2> QED BY <2>1, <2>2
<1>3. Inv => RatingsCorrect
  BY DEF RatingInv, RatingsCorrect, RatingsFresh, Rating!RefreshedAfterRating
<1> QED BY <1>1, <1>2, <1>3, PTL DEF Spec

-----------------------------------------------------------------------------
(* Shares.  The look-up of a creation still holds at its insert when no    *)
(* other creation is on its way.  The ids beyond PostgreSQL's last one are  *)
(* free as long as the database draws them, so the share a deletion has     *)
(* looked up is the one it deletes; SQLite's next id is free as well, but   *)
(* need not be new.  Nobody draws more ids than were asked for, and no row  *)
(* lies further up than the ids that payloads choose and those drawn.       *)

ShareHolds(t) ==
    /\ pc[t] \in {"read", "insert", "delete", "refresh", "clear"} => mem[t] \in Share!Memory
    /\ pc[t] = "idle" => mem[t] = None
    /\ pc[t] = "refused" => chosen
    /\ pc[t] = "insert" => mem[t].kind = "create"
    /\ pc[t] = "delete" => mem[t].kind = "delete" /\ mem[t].id \in Share!Ids
    /\ pc[t] \in {"read", "insert"} /\ mem[t].kind = "create" =>
           mem[t].id \in Share!Chosen \cup {0} /\ (chosen \/ mem[t].id = 0)
    /\ pc[t] = "read" /\ mem[t].kind = "delete" => mem[t].id \in Share!Ids
    /\ pc[t] \in {"refresh", "clear"} => mem[t].id \in Share!Ids /\ mem[t].at <= commits
    /\ pc[t] = "delete" /\ ~chosen /\ dialect = "postgresql" =>
           mem[t].id <= drawn /\ (share[mem[t].id] # None => share[mem[t].id].uid = mem[t].uid)
    /\ pc[t] = "insert" /\ ~raced => ~Share!Taken(t)

Creates(t) == mem[t] # None /\ mem[t].kind = "create"
Creating == {t \in Tasks : pc[t] \in {"read", "insert"} /\ mem[t].kind = "create"}

CreatesAlone == ~raced => \A t, o \in Tasks : Creates(t) /\ Creates(o) => t = o
BeyondIsFree ==
    /\ ~chosen /\ dialect = "postgresql" => \A i \in Share!Ids : i > drawn => share[i] = None
    /\ \A i \in Share!Ids : share[i] # None => i <= MaxShares + drawn

\* No listing that is stored or on its way is older than the last change.
SharesFresh ==
    /\ \A p \in OneProc : done[p] <= commits /\ Share!Fresh(p, done[p])
    /\ \A f \in fills : f.late \/ done[f.home] <= f.at

ShareInv ==
    /\ Share!TypeOK
    /\ Share!OneShareAlone
    /\ \A t \in Tasks : ShareHolds(t)
    /\ CreatesAlone
    /\ BeyondIsFree
    /\ drawn + Cardinality(Creating) <= asked
    /\ SharesFresh

\* What the type invariant says, for the proofs.
LEMMA ShareTypes ==
    ShareInv => /\ cache \in [OneProc -> Share!Entry \cup {None}] /\ fills \subseteq Share!Fill
                /\ table \in {"subscribe", "workflow"} /\ dialect \in {"sqlite", "postgresql"} /\ share \in [Share!Ids -> Share!Share \cup {None}]
                /\ drawn \in Nat /\ asked \in Nat /\ drawn <= MaxShares /\ asked <= MaxShares
                /\ commits \in Nat /\ done \in [OneProc -> Nat] /\ raced \in BOOLEAN /\ chosen \in BOOLEAN
                /\ pc \in [Tasks -> {"idle", "read", "insert", "delete", "refresh", "clear", "refused"}]
                /\ mem \in [Tasks -> Share!Memory \cup {None}]
BY Bounds DEF ShareInv, Share!TypeOK, Share!CacheTypeOK

\* The invariant, from its parts.
LEMMA ShareParts ==
    ASSUME cache \in [OneProc -> Share!Entry \cup {None}], fills \subseteq Share!Fill,
           table \in {"subscribe", "workflow"}, dialect \in {"sqlite", "postgresql"}, share \in [Share!Ids -> Share!Share \cup {None}],
           drawn \in 0..MaxShares, asked \in 0..MaxShares,
           commits \in Nat, done \in [OneProc -> Nat], raced \in BOOLEAN, chosen \in BOOLEAN,
           pc \in [Tasks -> {"idle", "read", "insert", "delete", "refresh", "clear", "refused"}],
           mem \in [Tasks -> Share!Memory \cup {None}],
           Share!OneShareAlone, \A t \in Tasks : ShareHolds(t), CreatesAlone, BeyondIsFree,
           drawn + Cardinality(Creating) <= asked, SharesFresh
    PROVE  ShareInv
BY DEF ShareInv, Share!TypeOK, Share!CacheTypeOK

\* Before anybody shares.
LEMMA ShareInit == Share!Init => ShareInv
<1> SUFFICES ASSUME Share!Init PROVE ShareInv
  OBVIOUS
<1> USE DEF Share!Init, Share!CacheInit
<1>1. 0 \in 0..MaxShares
  BY Bounds
<1>2. Creating = {} /\ Cardinality(Creating) = 0
  <2>1. Creating = {}
    BY DEF Creating
  <2> QED BY <2>1, FS_EmptySet
<1>3. Share!TypeOK
  BY <1>1 DEF Share!TypeOK, Share!CacheTypeOK
<1>4. SharesFresh
  BY DEF SharesFresh, Share!Fresh
<1>5. \A t \in Tasks : ShareHolds(t)
  BY DEF ShareHolds
<1>6. Share!OneShareAlone /\ CreatesAlone /\ BeyondIsFree
  BY DEF Share!OneShareAlone, Share!Present, CreatesAlone, Creates, BeyondIsFree
<1>7. drawn + Cardinality(Creating) <= asked
  BY <1>2
<1> QED BY <1>3, <1>4, <1>5, <1>6, <1>7 DEF ShareInv

\* How many creations are on their way after a step of one request.
LEMMA CreatingCount ==
    ASSUME NEW t \in Tasks, \A u \in Tasks : u # t => pc'[u] = pc[u] /\ mem'[u] = mem[u]
    PROVE  /\ Cardinality(Creating) \in Nat /\ Cardinality(Creating') \in Nat
           /\ t \in Creating /\ t \notin Creating' => Cardinality(Creating') = Cardinality(Creating) - 1
           /\ (t \in Creating <=> t \in Creating') => Cardinality(Creating') = Cardinality(Creating)
           /\ t \notin Creating /\ t \in Creating' => Cardinality(Creating') = Cardinality(Creating) + 1
<1>1. Creating \subseteq Tasks /\ Creating' \subseteq Tasks /\ \A u \in Tasks : u # t => (u \in Creating <=> u \in Creating')
  BY DEF Creating
<1>2. IsFiniteSet(Creating) /\ IsFiniteSet(Creating')
  BY <1>1, BoundsAssumption, FS_Subset
<1>3. Cardinality(Creating) \in Nat /\ Cardinality(Creating') \in Nat
  BY <1>2, FS_CardinalityType
<1>4. CASE t \in Creating /\ t \notin Creating'
  <2>1. Creating' = Creating \ {t}
    BY <1>1, <1>4
  <2> QED BY <1>2, <1>3, <1>4, <2>1, FS_RemoveElement
<1>5. CASE t \in Creating <=> t \in Creating'
  <2>1. Creating' = Creating
    BY <1>1, <1>5
  <2> QED BY <1>3, <1>5, <2>1
<1>6. CASE t \notin Creating /\ t \in Creating'
  <2>1. Creating' = Creating \cup {t}
    BY <1>1, <1>6
  <2> QED BY <1>2, <1>3, <1>6, <2>1, FS_AddElement
<1> QED BY <1>4, <1>5, <1>6

\* What a request knows survives the steps of the others.
LEMMA ShareKept ==
    ASSUME ShareInv, NEW u \in Tasks, pc'[u] = pc[u], mem'[u] = mem[u],
           commits' \in Nat, commits <= commits', drawn' \in Nat, drawn <= drawn', chosen => chosen', raced => raced',
           UNCHANGED dialect,
           ~chosen' /\ dialect = "postgresql" => \A i \in Share!Ids : i <= drawn /\ share'[i] # None =>
                           share[i] # None /\ share'[i].uid = share[i].uid,
           ~raced' /\ pc[u] = "insert" =>
               \A i \in Share!Ids : share'[i] # None => share[i] # None /\ share'[i].title = share[i].title
    PROVE  ShareHolds(u)'
<1>1. ShareHolds(u) /\ commits \in Nat /\ drawn \in Nat
  BY ShareTypes DEF ShareInv
<1>2. mem[u] \in Share!Memory => mem[u].id \in Nat /\ mem[u].at \in Nat
  BY DEF Share!Memory
<1>3. pc[u] = "insert" /\ ~raced' => ~Share!Taken(u)'
  BY <1>1 DEF ShareHolds, Share!Taken, Share!Present
<1>4. pc[u] = "delete" /\ ~chosen' /\ dialect' = "postgresql" =>
          mem[u].id <= drawn' /\ (share'[mem[u].id] # None => share'[mem[u].id].uid = mem[u].uid)
  BY <1>1, <1>2 DEF ShareHolds
<1>5. pc[u] \in {"refresh", "clear"} => mem[u].id \in Share!Ids /\ mem[u].at <= commits'
  BY <1>1, <1>2 DEF ShareHolds
<1> QED BY <1>1, <1>3, <1>4, <1>5 DEF ShareHolds

\* A step of a request that changes no row.
LEMMA ShareGoes ==
    ASSUME ShareInv, NEW t \in Tasks, UNCHANGED <<cache, fills, table, dialect, share, drawn, commits, done>>,
           asked' \in 0..MaxShares, asked <= asked', raced' \in BOOLEAN, chosen' \in BOOLEAN,
           raced => raced', chosen => chosen',
           pc' \in [Tasks -> {"idle", "read", "insert", "delete", "refresh", "clear", "refused"}],
           mem' \in [Tasks -> Share!Memory \cup {None}],
           \A u \in Tasks : u # t => pc'[u] = pc[u] /\ mem'[u] = mem[u],
           ShareHolds(t)', Creates(t)' /\ ~Creates(t) => raced' \/ \A u \in Tasks : ~Creates(u),
           t \in Creating' /\ t \notin Creating => asked' = asked + 1
    PROVE  ShareInv'
<1>1. drawn \in Nat /\ drawn <= MaxShares /\ asked \in Nat /\ commits \in Nat
  BY ShareTypes
<1>2. ASSUME NEW u \in Tasks, u # t PROVE ShareHolds(u)'
  BY <1>1, <1>2, ShareKept
<1>3. CreatesAlone'
  <2> SUFFICES ASSUME ~raced', NEW v \in Tasks, NEW o \in Tasks, Creates(v)', Creates(o)' PROVE v = o
    BY DEF CreatesAlone
  <2>1. ~raced /\ \A w \in Tasks : w # t => (Creates(w)' <=> Creates(w))
    BY DEF Creates
  <2>2. \A w, x \in Tasks : Creates(w) /\ Creates(x) => w = x
    BY <2>1 DEF ShareInv, CreatesAlone
  <2>3. Creates(t)' /\ ~Creates(t) => \A u \in Tasks : ~Creates(u)
    OBVIOUS
  <2>4. CASE Creates(t) \/ ~Creates(t)'
    BY <2>1, <2>2, <2>4
  <2>5. CASE Creates(t)' /\ ~Creates(t)
    BY <2>1, <2>3, <2>5
  <2> QED BY <2>4, <2>5
<1>4. BeyondIsFree' /\ Share!OneShareAlone' /\ SharesFresh'
  BY DEF ShareInv, BeyondIsFree, Share!OneShareAlone, Share!Present, SharesFresh, Share!Fresh
<1>5. drawn' + Cardinality(Creating') <= asked'
  <2> DEFINE c == Cardinality(Creating)
             d == Cardinality(Creating')
  <2>1. /\ c \in Nat /\ d \in Nat /\ (t \in Creating /\ t \notin Creating' => d = c - 1)
        /\ ((t \in Creating <=> t \in Creating') => d = c)
        /\ (t \notin Creating /\ t \in Creating' => d = c + 1)
    BY CreatingCount
  <2>2. drawn + c <= asked
    BY DEF ShareInv
  <2> HIDE DEF c, d
  <2>3. d <= c \/ (d = c + 1 /\ asked' = asked + 1)
    BY <2>1
  <2>4. drawn' + d <= asked'
    BY <1>1, <2>1, <2>2, <2>3
  <2> QED BY <2>4 DEF d
<1>6. /\ cache' \in [OneProc -> Share!Entry \cup {None}] /\ fills' \subseteq Share!Fill
      /\ table' \in {"subscribe", "workflow"} /\ dialect' \in {"sqlite", "postgresql"} /\ share' \in [Share!Ids -> Share!Share \cup {None}]
      /\ drawn' \in 0..MaxShares /\ commits' \in Nat /\ done' \in [OneProc -> Nat]
  BY <1>1, ShareTypes
<1>7. Share!TypeOK'
  BY <1>6 DEF Share!TypeOK, Share!CacheTypeOK
<1> QED BY <1>2, <1>3, <1>4, <1>5, <1>7 DEF ShareInv

\* A creation or a deletion is asked for.
LEMMA ShareCreates ==
    ASSUME ShareInv, NEW t \in Tasks, NEW title \in Titles, NEW uid \in Users, NEW p \in OneProc,
           NEW id \in Share!Chosen \cup {0}, Share!CreateShare(t, title, uid, p, id)
    PROVE  ShareInv'
<1> DEFINE m == [kind |-> "create", title |-> title, uid |-> uid, home |-> p, id |-> id, at |-> 0]
           other == \E o \in Tasks : mem[o] # None /\ mem[o].kind = "create"
<1>1. /\ asked < MaxShares /\ asked' = asked + 1 /\ raced' = (raced \/ other) /\ chosen' = (chosen \/ id # 0)
      /\ pc[t] = "idle" /\ mem' = [mem EXCEPT ![t] = m] /\ pc' = [pc EXCEPT ![t] = "read"]
      /\ UNCHANGED <<cache, fills, table, dialect, share, drawn, commits, done>>
  BY DEF Share!CreateShare, Share!Ask, Share!Goto, Share!caches, Share!rows, Share!tables
<1>2. m \in Share!Memory /\ m.kind = "create" /\ m.id = id
  BY Bounds DEF Share!Memory, Share!Chosen
<1> HIDE DEF m
<1>3. other <=> \E o \in Tasks : Creates(o)
  BY DEF Creates
<1>4. raced' \in BOOLEAN /\ (raced => raced') /\ (other => raced')
  <2>1. raced \in BOOLEAN /\ other \in BOOLEAN
    BY ShareTypes
  <2> HIDE DEF other
  <2> QED BY <1>1, <2>1, Zenon
<1>5. chosen' \in BOOLEAN /\ (chosen => chosen') /\ (id # 0 => chosen')
  <2>1. chosen \in BOOLEAN /\ (id # 0) \in BOOLEAN
    BY ShareTypes
  <2> QED BY <1>1, <2>1, Zenon
<1> HIDE DEF other
<1>6. asked' \in 0..MaxShares /\ asked <= asked'
  BY <1>1, ShareTypes, Bounds
<1>7. /\ pc' \in [Tasks -> {"idle", "read", "insert", "delete", "refresh", "clear", "refused"}]
      /\ mem' \in [Tasks -> Share!Memory \cup {None}] /\ pc'[t] = "read" /\ mem'[t] = m
      /\ \A u \in Tasks : u # t => pc'[u] = pc[u] /\ mem'[u] = mem[u]
  BY <1>1, <1>2, ShareTypes
<1>8. ShareHolds(t)'
  <2>1. chosen' \/ id = 0
    BY <1>5
  <2> QED BY <1>2, <1>7, <2>1 DEF ShareHolds
<1>9. raced' \/ \A u \in Tasks : ~Creates(u)
  BY <1>3, <1>4
<1> QED BY <1>1, <1>4, <1>5, <1>6, <1>7, <1>8, <1>9, ShareGoes

\* A deletion is asked for.
LEMMA ShareDeletes ==
    ASSUME ShareInv, NEW t \in Tasks, NEW i \in Share!Ids, NEW uid \in Users, NEW p \in OneProc,
           Share!DeleteShare(t, i, uid, p)
    PROVE  ShareInv'
<1>1. PICK title \in Titles : Share!Ask(t, "delete", title, uid, p, i)
  BY DEF Share!DeleteShare
<1> DEFINE m == [kind |-> "delete", title |-> title, uid |-> uid, home |-> p, id |-> i, at |-> 0]
<1>2. /\ pc[t] = "idle" /\ mem' = [mem EXCEPT ![t] = m] /\ pc' = [pc EXCEPT ![t] = "read"]
      /\ UNCHANGED <<cache, fills, table, dialect, share, drawn, commits, done, asked, raced, chosen>>
  BY <1>1 DEF Share!DeleteShare, Share!Ask, Share!Goto, Share!caches, Share!rows, Share!tables, Share!history
<1>3. m \in Share!Memory /\ m.kind = "delete" /\ m.id = i
  BY Bounds DEF Share!Memory, Share!Ids
<1> HIDE DEF m
<1>4. /\ pc' \in [Tasks -> {"idle", "read", "insert", "delete", "refresh", "clear", "refused"}]
      /\ mem' \in [Tasks -> Share!Memory \cup {None}] /\ pc'[t] = "read" /\ mem'[t] = m
      /\ \A u \in Tasks : u # t => pc'[u] = pc[u] /\ mem'[u] = mem[u]
  BY <1>2, <1>3, ShareTypes
<1>5. asked' \in 0..MaxShares /\ asked <= asked' /\ raced' \in BOOLEAN /\ chosen' \in BOOLEAN
  BY <1>2, ShareTypes
<1>6. ShareHolds(t)'
  BY <1>3, <1>4 DEF ShareHolds
<1>7. ~Creates(t)' /\ t \notin Creating'
  BY <1>3, <1>4 DEF Creates, Creating
<1> QED BY <1>2, <1>4, <1>5, <1>6, <1>7, ShareGoes

\* The look-ups, and what an answer with a code leaves.
LEMMA ShareReads == ASSUME ShareInv, NEW t \in Tasks, Share!Read(t) PROVE ShareInv'
<1>1. pc[t] = "read" /\ UNCHANGED <<cache, fills, table, dialect, share, drawn, commits, done, asked, raced, chosen>>
  BY DEF Share!Read, Share!caches, Share!rows, Share!tables, Share!history
<1>2. ShareHolds(t) /\ mem[t] \in Share!Memory
  BY <1>1 DEF ShareInv, ShareHolds
<1>3. asked' \in 0..MaxShares /\ asked <= asked' /\ raced' \in BOOLEAN /\ chosen' \in BOOLEAN
  BY <1>1, ShareTypes
<1>4. CASE mem[t].kind = "create" /\ ~Share!Taken(t)
  <2>1. pc' = [pc EXCEPT ![t] = "insert"] /\ mem' = mem
    BY <1>4 DEF Share!Read, Share!Goto
  <2>2. /\ pc' \in [Tasks -> {"idle", "read", "insert", "delete", "refresh", "clear", "refused"}]
        /\ mem' \in [Tasks -> Share!Memory \cup {None}] /\ pc'[t] = "insert" /\ mem'[t] = mem[t]
        /\ \A u \in Tasks : u # t => pc'[u] = pc[u] /\ mem'[u] = mem[u]
    BY <2>1, ShareTypes
  <2>3. ~Share!Taken(t)'
    BY <1>1, <1>4, <2>2 DEF Share!Taken, Share!Present
  <2>4. ShareHolds(t)'
    BY <1>1, <1>2, <1>4, <2>2, <2>3 DEF ShareHolds
  <2>5. (Creates(t)' => Creates(t)) /\ t \in Creating
    BY <1>1, <1>4, <2>2 DEF Creates, Creating
  <2> QED BY <1>1, <1>3, <2>2, <2>4, <2>5, ShareGoes
<1>5. CASE mem[t].kind = "delete" /\ Share!Own(t)
  <2>1. pc' = [pc EXCEPT ![t] = "delete"] /\ mem' = mem
    BY <1>5 DEF Share!Read, Share!Goto
  <2>2. /\ pc' \in [Tasks -> {"idle", "read", "insert", "delete", "refresh", "clear", "refused"}]
        /\ mem' \in [Tasks -> Share!Memory \cup {None}] /\ pc'[t] = "delete" /\ mem'[t] = mem[t]
        /\ \A u \in Tasks : u # t => pc'[u] = pc[u] /\ mem'[u] = mem[u]
    BY <2>1, ShareTypes
  <2>3. ~chosen /\ dialect = "postgresql" => mem[t].id <= drawn
    <3>1. mem[t].id \in Share!Ids /\ share[mem[t].id] # None
      BY <1>1, <1>2, <1>5 DEF ShareHolds, Share!Own
    <3>2. ~chosen /\ dialect = "postgresql" => ~(mem[t].id > drawn)
      BY <3>1 DEF ShareInv, BeyondIsFree
    <3> QED BY <3>1, <3>2, ShareTypes, Bounds DEF Share!Ids
  <2>4. ShareHolds(t)'
    BY <1>1, <1>2, <1>5, <2>2, <2>3 DEF ShareHolds, Share!Own
  <2>5. (Creates(t)' => Creates(t)) /\ t \notin Creating'
    BY <1>1, <2>2 DEF Creates, Creating
  <2> QED BY <1>1, <1>3, <2>2, <2>4, <2>5, ShareGoes
<1>6. CASE Share!Drop(t)
  <2>1. pc' = [pc EXCEPT ![t] = "idle"] /\ mem' = [mem EXCEPT ![t] = None]
    BY <1>6 DEF Share!Drop, Share!Goto
  <2>2. /\ pc' \in [Tasks -> {"idle", "read", "insert", "delete", "refresh", "clear", "refused"}]
        /\ mem' \in [Tasks -> Share!Memory \cup {None}] /\ pc'[t] = "idle" /\ mem'[t] = None
        /\ \A u \in Tasks : u # t => pc'[u] = pc[u] /\ mem'[u] = mem[u]
    BY <2>1, ShareTypes
  <2>3. ShareHolds(t)'
    BY <2>2 DEF ShareHolds
  <2>4. ~Creates(t)' /\ t \notin Creating'
    BY <2>2 DEF Creates, Creating
  <2> QED BY <1>1, <1>3, <2>2, <2>3, <2>4, ShareGoes
<1> QED BY <1>4, <1>5, <1>6 DEF Share!Read

\* db.refresh finds the row or not.
LEMMA ShareRefreshes == ASSUME ShareInv, NEW t \in Tasks, Share!Refresh(t) PROVE ShareInv'
<1>1. pc[t] = "refresh" /\ UNCHANGED <<cache, fills, table, dialect, share, drawn, commits, done, asked, raced, chosen>>
  BY DEF Share!Refresh, Share!caches, Share!rows, Share!tables, Share!history
<1>2. ShareHolds(t)
  BY DEF ShareInv
<1>3. asked' \in 0..MaxShares /\ asked <= asked' /\ raced' \in BOOLEAN /\ chosen' \in BOOLEAN
  BY <1>1, ShareTypes
<1>4. \/ pc' = [pc EXCEPT ![t] = "clear"] /\ mem' = mem
      \/ pc' = [pc EXCEPT ![t] = "idle"] /\ mem' = [mem EXCEPT ![t] = None]
  BY DEF Share!Refresh, Share!Goto, Share!Drop
<1>5. /\ pc' \in [Tasks -> {"idle", "read", "insert", "delete", "refresh", "clear", "refused"}]
      /\ mem' \in [Tasks -> Share!Memory \cup {None}]
      /\ \A u \in Tasks : u # t => pc'[u] = pc[u] /\ mem'[u] = mem[u]
      /\ \/ pc'[t] = "clear" /\ mem'[t] = mem[t]
         \/ pc'[t] = "idle" /\ mem'[t] = None
  BY <1>4, ShareTypes
<1>6. ShareHolds(t)'
  BY <1>1, <1>2, <1>5 DEF ShareHolds
<1>7. (Creates(t)' => Creates(t)) /\ t \notin Creating'
  BY <1>5 DEF Creates, Creating
<1> QED BY <1>1, <1>3, <1>5, <1>6, <1>7, ShareGoes

\* A share that is gone, or one that is used once more.
LEMMA ShareLeaves ==
    ASSUME ShareInv, NEW i \in Share!Ids, NEW s \in Share!Share \cup {None}, share' = [share EXCEPT ![i] = s],
           s # None => share[i] # None /\ s.uid = share[i].uid /\ s.title = share[i].title,
           UNCHANGED <<cache, fills, table, dialect, drawn, commits, done, asked, raced, chosen, pc, mem>>
    PROVE  ShareInv'
<1>1. share \in [Share!Ids -> Share!Share \cup {None}] /\ commits \in Nat /\ drawn \in Nat
  BY ShareTypes
<1>2. \A j \in Share!Ids : share'[j] # None =>
          share[j] # None /\ share'[j].uid = share[j].uid /\ share'[j].title = share[j].title
  BY <1>1
<1>3. ASSUME NEW u \in Tasks PROVE ShareHolds(u)'
  BY <1>1, <1>2, <1>3, ShareKept
<1>4. Share!OneShareAlone'
  BY <1>2 DEF ShareInv, Share!OneShareAlone, Share!Present
<1>5. BeyondIsFree'
  BY <1>2 DEF ShareInv, BeyondIsFree
<1>6. CreatesAlone' /\ SharesFresh' /\ drawn' + Cardinality(Creating') <= asked'
  BY DEF ShareInv, CreatesAlone, Creates, SharesFresh, Share!Fresh, Creating
<1>7. share' \in [Share!Ids -> Share!Share \cup {None}]
  BY <1>1
<1>8. Share!TypeOK'
  BY <1>7 DEF ShareInv, Share!TypeOK, Share!CacheTypeOK
<1> QED BY <1>3, <1>4, <1>5, <1>6, <1>8 DEF ShareInv

\* The cleanup removes a share.
LEMMA ShareRemoved == ASSUME ShareInv, NEW i \in Share!Ids, Share!Remove(i) PROVE ShareInv'
<1>1. /\ share' = [share EXCEPT ![i] = None]
      /\ UNCHANGED <<cache, fills, table, dialect, drawn, commits, done, asked, raced, chosen, pc, mem>>
  BY DEF Share!Remove, Share!caches, Share!tables, Share!history
<1> QED BY <1>1, ShareLeaves

\* A share that is forked keeps its owner.
LEMMA ShareForked == ASSUME ShareInv, NEW i \in Share!Ids, Share!ForkShare(i) PROVE ShareInv'
<1>1. /\ share' = [share EXCEPT ![i].count = share[i].count + 1] /\ share[i] # None
      /\ UNCHANGED <<cache, fills, table, dialect, drawn, commits, done, asked, raced, chosen, pc, mem>>
  BY DEF Share!ForkShare, Share!caches, Share!tables, Share!history
<1>2. share[i] \in Share!Share
  BY <1>1, ShareTypes
<1> DEFINE n == share[i].count + 1
<1>3. n \in Nat
  BY <1>2 DEF Share!Share
<1> HIDE DEF n
<1>4. PICK s : s = [share[i] EXCEPT !.count = n]
  OBVIOUS
<1>5. s \in Share!Share /\ s.uid = share[i].uid /\ s.title = share[i].title
  BY <1>2, <1>3, <1>4 DEF Share!Share
<1>6. share' = [share EXCEPT ![i] = s]
  BY <1>1, <1>4 DEF n
<1> QED BY <1>1, <1>5, <1>6, ShareLeaves

\* The database draws an id that nobody has, PostgreSQL one that is new as long
\* as no payload has brought its own.
LEMMA NextIdFree ==
    ASSUME ShareInv, drawn + 1 <= MaxShares
    PROVE  /\ Share!NextId \in Share!Ids /\ Share!NextId \in Nat /\ Share!NextId <= MaxShares + (drawn + 1)
           /\ ~chosen => share[Share!NextId] = None
           /\ dialect = "postgresql" => Share!NextId = drawn + 1
<1>1. drawn \in Nat /\ MaxShares \in Nat /\ dialect \in {"sqlite", "postgresql"} /\ BeyondIsFree
  BY ShareTypes, Bounds DEF ShareInv
<1>2. CASE dialect = "postgresql"
  <2>1. Share!NextId = drawn + 1
    BY <1>2 DEF Share!NextId
  <2> QED BY <1>1, <1>2, <2>1 DEF Share!Ids, BeyondIsFree
<1>3. CASE dialect = "sqlite"
  <2> DEFINE S == Share!Present \cup {0}
             x == Share!Max(S)
  <2>1. Share!NextId = x + 1
    BY <1>3 DEF Share!NextId
  <2>2. S \in SUBSET (0..(MaxShares + drawn)) /\ S # {} /\ MaxShares + drawn \in Nat
    BY <1>1 DEF Share!Present, Share!Ids, BeyondIsFree
  <2>3. x \in S /\ \A y \in S : x >= y
    <3> HIDE DEF S
    <3>1. \E z \in S : \A y \in S : z >= y
      BY <2>2, Greatest
    <3> QED BY <3>1 DEF Share!Max
  <2>4. x \in 0..(MaxShares + drawn) /\ \A y \in Share!Present : x >= y
    BY <2>2, <2>3
  <2> HIDE DEF x, S
  <2>5. x + 1 \in Share!Ids /\ x + 1 \in Nat /\ x + 1 <= MaxShares + (drawn + 1)
    BY <1>1, <2>4 DEF Share!Ids
  <2>6. x + 1 \notin Share!Present
    BY <2>4
  <2> QED BY <1>3, <2>1, <2>5, <2>6 DEF Share!Present
<1> QED BY <1>1, <1>2, <1>3

\* The insert takes an id nobody has, unless a payload brought one.
LEMMA ShareInserts == ASSUME ShareInv, NEW t \in Tasks, Share!Insert(t) PROVE ShareInv'
<1> DEFINE m == mem[t]
           id == IF m.id = 0 THEN Share!NextId ELSE m.id
           n == IF table = "subscribe" THEN 1 ELSE 0
           r == [title |-> m.title, uid |-> m.uid, count |-> n]
           c == Cardinality(Creating)
           d == Cardinality(Creating')
<1>1. /\ pc[t] = "insert" /\ drawn' = IF m.id = 0 THEN drawn + 1 ELSE drawn
      /\ \/ /\ share[id] = None /\ share' = [share EXCEPT ![id] = r] /\ commits' = commits + 1
            /\ mem' = [mem EXCEPT ![t].id = id, ![t].at = commits + 1] /\ pc' = [pc EXCEPT ![t] = "refresh"]
         \/ share[id] # None /\ pc' = [pc EXCEPT ![t] = "refused"] /\ UNCHANGED <<share, commits, mem>>
      /\ UNCHANGED <<cache, fills, table, dialect, done, asked, raced, chosen>>
  BY DEF Share!Insert, Share!Goto, Share!FirstCount, Share!caches, Share!tables, Share!history
<1>2. /\ ShareHolds(t) /\ m \in Share!Memory /\ m.kind = "create" /\ m.id \in Share!Chosen \cup {0} /\ (chosen \/ m.id = 0)
      /\ m.title \in Titles /\ m.uid \in Users
  BY <1>1 DEF ShareInv, ShareHolds, Share!Memory
<1>3. t \in Creating
  BY <1>1, <1>2 DEF Creating
<1> HIDE DEF m
<1>4. drawn \in Nat /\ asked \in Nat /\ asked <= MaxShares /\ commits \in Nat /\ MaxShares \in Nat
  BY ShareTypes, Bounds
<1>5. c \in Nat /\ c >= 1 /\ drawn + c <= asked
  <2>1. Creating \subseteq Tasks /\ IsFiniteSet(Creating)
    <3>1. Creating \subseteq Tasks
      BY DEF Creating
    <3> QED BY <3>1, BoundsAssumption, FS_Subset
  <2>2. c \in Nat /\ c # 0
    BY <1>3, <2>1, FS_CardinalityType, FS_EmptySet
  <2> QED
    BY <2>2 DEF ShareInv
<1>6. drawn + 1 <= MaxShares /\ drawn' \in 0..MaxShares /\ drawn' <= drawn + 1 /\ drawn <= drawn'
  <2> HIDE DEF c
  <2>1. drawn + 1 <= MaxShares
    BY <1>4, <1>5
  <2> QED BY <1>1, <1>4, <2>1
<1>7. /\ id \in Share!Ids /\ id \in Nat /\ id <= MaxShares + drawn'
      /\ ~chosen => share[id] = None
      /\ ~chosen /\ dialect = "postgresql" => id > drawn /\ id = drawn'
  <2>1. CASE m.id = 0
    <3>1. drawn' = drawn + 1 /\ id = Share!NextId
      BY <1>1, <2>1
    <3> HIDE DEF id
    <3> QED BY <1>4, <1>6, <3>1, NextIdFree
  <2>2. CASE m.id # 0
    <3>1. id = m.id /\ m.id \in 1..MaxShares /\ chosen
      BY <1>2, <2>2 DEF Share!Chosen
    <3> HIDE DEF id
    <3> QED BY <1>4, <1>6, <3>1 DEF Share!Ids
  <2> QED BY <2>1, <2>2
<1> HIDE DEF id
<1>8. r \in Share!Share /\ r.title = m.title
  BY <1>2 DEF Share!Share
<1>9. /\ pc' \in [Tasks -> {"idle", "read", "insert", "delete", "refresh", "clear", "refused"}]
      /\ mem' \in [Tasks -> Share!Memory \cup {None}] /\ commits' \in Nat /\ commits <= commits'
      /\ \A u \in Tasks : u # t => pc'[u] = pc[u] /\ mem'[u] = mem[u]
      /\ \/ pc'[t] = "refresh" /\ mem'[t] \in Share!Memory /\ mem'[t].id = id /\ mem'[t].at <= commits'
            /\ mem'[t].kind = "create"
         \/ chosen /\ pc'[t] = "refused" /\ mem'[t] = m
  <2>1. CASE share[id] # None /\ pc' = [pc EXCEPT ![t] = "refused"] /\ UNCHANGED <<share, commits, mem>>
    BY <1>4, <1>7, <2>1, ShareTypes DEF m
  <2>2. CASE /\ share[id] = None /\ commits' = commits + 1
             /\ mem' = [mem EXCEPT ![t].id = id, ![t].at = commits + 1] /\ pc' = [pc EXCEPT ![t] = "refresh"]
    <3> DEFINE w == commits + 1
    <3>1. w \in Nat /\ w = commits'
      BY <1>4, <2>2
    <3>2. mem' = [mem EXCEPT ![t].id = id, ![t].at = w]
      BY <2>2
    <3> HIDE DEF w
    <3>3. PICK e : e = [m EXCEPT !.id = id, !.at = w]
      OBVIOUS
    <3>4. e \in Share!Memory /\ e.id = id /\ e.at = w /\ e.kind = "create"
      <4>1. m \in Share!Memory /\ m.kind = "create" /\ id \in Nat /\ w \in Nat
        BY <1>2, <1>7, <3>1
      <4> QED BY ONLY <3>3, <4>1 DEF Share!Memory
    <3>5. mem' = [mem EXCEPT ![t] = e]
      BY <3>2, <3>3, ShareTypes DEF m
    <3>6. mem' \in [Tasks -> Share!Memory \cup {None}] /\ mem'[t] = e /\ \A u \in Tasks : u # t => mem'[u] = mem[u]
      BY <3>4, <3>5, ShareTypes
    <3>7. /\ pc' \in [Tasks -> {"idle", "read", "insert", "delete", "refresh", "clear", "refused"}]
          /\ pc'[t] = "refresh" /\ \A u \in Tasks : u # t => pc'[u] = pc[u]
      BY <2>2, ShareTypes
    <3>8. commits' \in Nat /\ commits <= commits' /\ e.at <= commits'
      BY <1>4, <2>2, <3>1, <3>4
    <3> QED BY <3>4, <3>6, <3>7, <3>8
  <2> QED BY <1>1, <2>1, <2>2
<1>10. /\ share' \in [Share!Ids -> Share!Share \cup {None}]
       /\ \A i \in Share!Ids : share'[i] # None => share'[i] = share[i] \/ (i = id /\ share'[i].title = m.title)
  <2> HIDE DEF r
  <2>1. CASE share' = [share EXCEPT ![id] = r]
    BY <1>7, <1>8, <2>1, ShareTypes
  <2>2. CASE share' = share
    BY <2>2, ShareTypes
  <2> QED BY <1>1, <2>1, <2>2
<1>11. ASSUME NEW u \in Tasks, u # t PROVE ShareHolds(u)'
  <2>1. ~chosen' /\ dialect = "postgresql" => \A i \in Share!Ids : i <= drawn /\ share'[i] # None =>
                        share[i] # None /\ share'[i].uid = share[i].uid
    <3> SUFFICES ASSUME ~chosen, dialect = "postgresql", NEW i \in Share!Ids, i <= drawn, share'[i] # None
                 PROVE  share[i] # None /\ share'[i].uid = share[i].uid
      BY <1>1
    <3>1. i # id
      BY <1>4, <1>6, <1>7
    <3> QED BY <1>10, <3>1
  <2>2. ~raced' => pc[u] # "insert"
    <3>1. Creates(t)
      BY <1>2, AbsentAssumption DEF Creates, m
    <3>2. pc[u] = "insert" => Creates(u)
      BY AbsentAssumption DEF ShareInv, ShareHolds, Creates
    <3> QED BY <1>1, <1>11, <3>1, <3>2 DEF ShareInv, CreatesAlone
  <2>3. pc'[u] = pc[u] /\ mem'[u] = mem[u] /\ commits' \in Nat /\ commits <= commits'
    BY <1>9, <1>11
  <2>4. drawn' \in Nat /\ drawn <= drawn' /\ (chosen => chosen') /\ (raced => raced') /\ UNCHANGED dialect
    BY <1>1, <1>4, <1>6
  <2> HIDE DEF m
  <2> QED BY <1>11, <2>1, <2>2, <2>3, <2>4, ShareKept
<1>12. ShareHolds(t)'
  BY <1>1, <1>7, <1>9 DEF ShareHolds, m
<1>13. Share!OneShareAlone'
  <2> SUFFICES ASSUME ~raced', NEW i \in Share!Ids, NEW j \in Share!Ids, share'[i] # None, share'[j] # None,
                      share'[i].title = share'[j].title
               PROVE  i = j
    BY DEF Share!OneShareAlone, Share!Present
  <2>1. \A k \in Share!Ids : share[k] # None => share[k].title # m.title
    BY <1>1, <1>2 DEF ShareHolds, Share!Taken, Share!Present, m
  <2>2. share'[i] = share[i] /\ share'[j] = share[j] => i = j
    BY <1>1 DEF ShareInv, Share!OneShareAlone, Share!Present
  <2> QED BY <1>10, <2>1, <2>2
<1>14. CreatesAlone'
  BY <1>1, <1>2, <1>9, AbsentAssumption DEF ShareInv, CreatesAlone, Creates, m
<1>15. BeyondIsFree'
  <2>1. ASSUME ~chosen', dialect' = "postgresql", NEW i \in Share!Ids, i > drawn', share'[i] # None PROVE FALSE
    <3>1. i # id /\ i > drawn
      BY <1>1, <1>4, <1>6, <1>7, <2>1, Bounds DEF Share!Ids
    <3> QED BY <1>1, <1>10, <2>1, <3>1 DEF ShareInv, BeyondIsFree
  <2>2. ASSUME NEW i \in Share!Ids, share'[i] # None PROVE i <= MaxShares + drawn'
    <3>1. CASE i = id
      BY <1>7, <3>1
    <3>2. CASE i # id
      <4>1. i <= MaxShares + drawn /\ i \in Nat
        BY <1>10, <2>2, <3>2, <1>4 DEF ShareInv, BeyondIsFree, Share!Ids
      <4>2. drawn \in Nat /\ drawn' \in Nat /\ MaxShares \in Nat /\ drawn <= drawn'
        BY <1>4, <1>6
      <4>3. \A b, x, y, k \in Nat : k <= b + x /\ x <= y => k <= b + y
        OBVIOUS
      <4> QED BY <4>1, <4>2, <4>3, Zenon
    <3> QED BY <3>1, <3>2
  <2> QED BY <2>1, <2>2 DEF BeyondIsFree
<1>16. drawn' + Cardinality(Creating') <= asked'
  <2>1. t \notin Creating'
    BY <1>9 DEF Creating
  <2>2. d \in Nat /\ d = c - 1
    BY <1>3, <1>9, <2>1, CreatingCount
  <2> HIDE DEF c, d
  <2>3. drawn' + d <= asked'
    BY <1>1, <1>4, <1>5, <1>6, <2>2
  <2> QED BY <2>3 DEF d
<1>17. SharesFresh'
  BY <1>1, ShareTypes DEF ShareInv, SharesFresh, Share!Fresh
<1>18. Share!TypeOK'
  BY <1>1, <1>6, <1>9, <1>10 DEF ShareInv, Share!TypeOK, Share!CacheTypeOK
<1> QED BY <1>11, <1>12, <1>13, <1>14, <1>15, <1>16, <1>17, <1>18 DEF ShareInv

\* The deletion and its commit, whatever is left of the row.
LEMMA ShareDeleted == ASSUME ShareInv, NEW t \in Tasks, Share!Delete(t) PROVE ShareInv'
<1> DEFINE m == mem[t]
           w == commits + 1
<1>1. /\ pc[t] = "delete" /\ share' = [share EXCEPT ![m.id] = None] /\ commits' = w
      /\ mem' = [mem EXCEPT ![t].at = w] /\ pc' = [pc EXCEPT ![t] = "clear"]
      /\ UNCHANGED <<cache, fills, table, dialect, drawn, done, asked, raced, chosen>>
  BY DEF Share!Delete, Share!Goto, Share!caches, Share!tables, Share!history
<1>2. m \in Share!Memory /\ m.kind = "delete" /\ m.id \in Share!Ids
  BY <1>1 DEF ShareInv, ShareHolds
<1>3. w \in Nat /\ commits <= w /\ drawn \in Nat /\ commits \in Nat
  BY ShareTypes
<1> HIDE DEF w
<1>4. PICK e : e = [m EXCEPT !.at = w]
  OBVIOUS
<1>5. e \in Share!Memory /\ e.id = m.id /\ e.at = w /\ e.kind = "delete"
  BY <1>2, <1>3, <1>4 DEF Share!Memory
<1>6. mem' = [mem EXCEPT ![t] = e]
  BY <1>1, <1>4, ShareTypes
<1>7. /\ pc' \in [Tasks -> {"idle", "read", "insert", "delete", "refresh", "clear", "refused"}]
      /\ mem' \in [Tasks -> Share!Memory \cup {None}] /\ pc'[t] = "clear" /\ mem'[t] = e
      /\ \A u \in Tasks : u # t => pc'[u] = pc[u] /\ mem'[u] = mem[u]
  BY <1>1, <1>5, <1>6, ShareTypes
<1>8. /\ share' \in [Share!Ids -> Share!Share \cup {None}]
      /\ \A i \in Share!Ids : share'[i] # None => share'[i] = share[i]
  BY <1>1, <1>2, ShareTypes
<1>9. ASSUME NEW u \in Tasks PROVE ShareHolds(u)'
  <2>1. CASE u = t
    <3>1. e.at <= commits'
      BY <1>1, <1>3, <1>5
    <3> QED BY <1>2, <1>5, <1>7, <2>1, <3>1 DEF ShareHolds
  <2>2. CASE u # t
    <3>1. pc'[u] = pc[u] /\ mem'[u] = mem[u] /\ commits' \in Nat /\ commits <= commits' /\ drawn' \in Nat /\ drawn <= drawn'
      BY <1>1, <1>3, <1>7, <1>9, <2>2
    <3>2. (chosen => chosen') /\ (raced => raced') /\ UNCHANGED dialect
      BY <1>1
    <3>3. \A i \in Share!Ids : share'[i] # None =>
              share[i] # None /\ share'[i].uid = share[i].uid /\ share'[i].title = share[i].title
      BY <1>8
    <3> QED BY <1>9, <3>1, <3>2, <3>3, ShareKept
  <2> QED BY <2>1, <2>2
<1>10. Share!OneShareAlone'
  BY <1>1, <1>8 DEF ShareInv, Share!OneShareAlone, Share!Present
<1>11. BeyondIsFree'
  BY <1>1, <1>8 DEF ShareInv, BeyondIsFree
<1>12. CreatesAlone'
  <2>1. \A u \in Tasks : Creates(u)' => Creates(u)
    BY <1>5, <1>7 DEF Creates
  <2> QED BY <1>1, <2>1 DEF ShareInv, CreatesAlone
<1>13. drawn' + Cardinality(Creating') <= asked'
  <2>1. Creating' = Creating
    BY <1>1, <1>7 DEF Creating
  <2> QED BY <1>1, <2>1 DEF ShareInv
<1>14. SharesFresh'
  BY <1>1, ShareTypes DEF w, ShareInv, SharesFresh, Share!Fresh
<1>15. Share!TypeOK'
  BY <1>1, <1>3, <1>7, <1>8 DEF ShareInv, Share!TypeOK, Share!CacheTypeOK
<1> QED BY <1>9, <1>10, <1>11, <1>12, <1>13, <1>14, <1>15 DEF ShareInv

\* A step of the readers.
LEMMA ShareOnlyCaches ==
    ASSUME ShareInv, UNCHANGED <<table, dialect, share, drawn, commits, done, asked, raced, chosen, pc, mem>>,
           cache' \in [OneProc -> Share!Entry \cup {None}], fills' \subseteq Share!Fill, SharesFresh'
    PROVE  ShareInv'
<1>1. Share!TypeOK'
  BY DEF ShareInv, Share!TypeOK, Share!CacheTypeOK
<1>2. \A t \in Tasks : ShareHolds(t)'
  BY DEF ShareInv, ShareHolds, Share!Taken, Share!Present
<1>3. Share!OneShareAlone' /\ CreatesAlone' /\ BeyondIsFree' /\ drawn' + Cardinality(Creating') <= asked'
  BY DEF ShareInv, Share!OneShareAlone, Share!Present, CreatesAlone, Creates, BeyondIsFree, Creating
<1> QED BY <1>1, <1>2, <1>3 DEF ShareInv

\* A listing is read, stored or lost.
LEMMA ShareCaches ==
    ASSUME ShareInv,
           \/ \E p \in OneProc : Share!GetShares(p) \/ Share!ExpireShares(p)
           \/ \E f \in fills : Share!StoreShares(f)
    PROVE  ShareInv'
<1>1. /\ cache \in [OneProc -> Share!Entry \cup {None}] /\ fills \subseteq Share!Fill
      /\ commits \in Nat /\ done \in [OneProc -> Nat]
  BY ShareTypes
<1>2. /\ \A p \in OneProc : done[p] <= commits /\ (cache[p] # None /\ ~cache[p].late => done[p] <= cache[p].at)
      /\ \A f \in fills : f.late \/ done[f.home] <= f.at
  BY <1>1 DEF ShareInv, SharesFresh, Share!Fresh, Share!Entry
<1>3. UNCHANGED <<table, dialect, share, drawn, commits, done, asked, raced, chosen, pc, mem>>
  BY DEF Share!GetShares, Share!ExpireShares, Share!StoreShares, Share!rows, Share!tables, Share!history
<1>4. CASE \E p \in OneProc : Share!GetShares(p)
  <2>1. PICK p \in OneProc : Share!GetShares(p)
    BY <1>4
  <2> DEFINE g == [home |-> p, at |-> commits, late |-> FALSE]
  <2>2. fills' = fills \cup {g} /\ UNCHANGED cache
    BY <2>1 DEF Share!GetShares, Share!Query
  <2>3. g \in Share!Fill /\ g.home = p /\ g.at = commits
    BY <1>1 DEF Share!Fill
  <2> HIDE DEF g
  <2>4. \A f \in fills' : f.late \/ done[f.home] <= f.at
    BY <1>2, <2>2, <2>3
  <2>5. SharesFresh'
    BY <1>2, <1>3, <2>2, <2>4 DEF ShareInv, SharesFresh, Share!Fresh
  <2>6. cache' \in [OneProc -> Share!Entry \cup {None}] /\ fills' \subseteq Share!Fill
    BY <1>1, <2>2, <2>3
  <2> QED BY <1>3, <2>5, <2>6, ShareOnlyCaches
<1>5. CASE \E p \in OneProc : Share!ExpireShares(p)
  <2>1. PICK p \in OneProc : cache' = [cache EXCEPT ![p] = None] /\ fills' = fills
    BY <1>5 DEF Share!ExpireShares, Share!Expire
  <2>2. SharesFresh'
    BY <1>1, <1>2, <1>3, <2>1 DEF ShareInv, SharesFresh, Share!Fresh
  <2>3. cache' \in [OneProc -> Share!Entry \cup {None}] /\ fills' \subseteq Share!Fill
    BY <1>1, <2>1
  <2> QED BY <1>3, <2>2, <2>3, ShareOnlyCaches
<1>6. CASE \E f \in fills : Share!StoreShares(f)
  <2>1. PICK f \in fills : cache' = [cache EXCEPT ![f.home] = [at |-> f.at, late |-> f.late]] /\ fills' = fills \ {f}
    BY <1>6 DEF Share!StoreShares, Share!Store
  <2> DEFINE e == [at |-> f.at, late |-> f.late]
  <2>2. f.home \in OneProc /\ e \in Share!Entry /\ e.at = f.at /\ e.late = f.late /\ f.at \in Nat
    BY <1>1 DEF Share!Fill, Share!Entry
  <2>3. cache' = [cache EXCEPT ![f.home] = e]
    BY <2>1
  <2>4. f.late \/ done[f.home] <= f.at
    BY <1>2
  <2> HIDE DEF e
  <2>5. \A p \in OneProc : Share!Fresh(p, done[p])'
    <3> SUFFICES ASSUME NEW p \in OneProc, cache'[p] # None, ~cache'[p].late PROVE cache'[p].at >= done[p]
      BY <1>3 DEF Share!Fresh
    <3>1. CASE p = f.home
      <4>1. cache'[p] = e
        BY <1>1, <2>2, <2>3, <3>1
      <4>2. done[p] <= e.at /\ done[p] \in Nat /\ e.at \in Nat
        BY <1>1, <2>2, <2>4, <3>1, <4>1
      <4> QED BY <4>1, <4>2
    <3>2. CASE p # f.home
      BY <1>1, <2>3, <3>2 DEF ShareInv, SharesFresh, Share!Fresh
    <3> QED BY <3>1, <3>2
  <2>6. SharesFresh'
    BY <1>2, <1>3, <2>1, <2>5 DEF SharesFresh, Share!Fresh
  <2>7. cache' \in [OneProc -> Share!Entry \cup {None}] /\ fills' \subseteq Share!Fill
    BY <1>1, <2>1, <2>2, <2>3
  <2> QED BY <1>3, <2>6, <2>7, ShareOnlyCaches
<1> QED BY <1>4, <1>5, <1>6

\* The process that has changed the shares forgets its listing.
LEMMA ShareClears == ASSUME ShareInv, NEW t \in Tasks, Share!ClearCache(t) PROVE ShareInv'
<1> DEFINE m == mem[t]
<1>1. /\ pc[t] = "clear" /\ Share!Forget(m.home)
      /\ done' = [done EXCEPT ![m.home] = IF done[m.home] < m.at THEN m.at ELSE done[m.home]]
      /\ pc' = [pc EXCEPT ![t] = "idle"] /\ mem' = [mem EXCEPT ![t] = None]
      /\ UNCHANGED <<table, dialect, share, drawn, commits, asked, raced, chosen>>
  BY DEF Share!ClearCache, Share!Drop, Share!Goto, Share!rows, Share!tables, Share!history
<1>2. /\ commits \in Nat /\ done \in [OneProc -> Nat] /\ drawn \in Nat
      /\ cache \in [OneProc -> Share!Entry \cup {None}] /\ fills \subseteq Share!Fill
  BY ShareTypes
<1>3. m \in Share!Memory /\ m.at <= commits /\ m.home \in OneProc /\ m.at \in Nat
  BY <1>1 DEF ShareInv, ShareHolds, Share!Memory
<1>4. /\ cache' = [cache EXCEPT ![m.home] = None]
      /\ fills' = {[f EXCEPT !.late = f.late \/ f.home = m.home] : f \in fills}
  BY <1>1 DEF Share!Forget
<1> HIDE DEF m
<1>5. \A p \in OneProc : done[p] <= commits /\ Share!Fresh(p, done[p])
  BY DEF ShareInv, SharesFresh
<1>6. done' \in [OneProc -> Nat] /\ done'[m.home] <= commits /\ \A p \in OneProc : p # m.home => done'[p] = done[p]
  BY <1>1, <1>2, <1>3, <1>5
<1>7. fills' \subseteq Share!Fill /\ \A g \in fills' : g.late \/ done'[g.home] <= g.at
  <2> SUFFICES ASSUME NEW f \in fills
               PROVE  LET g == [f EXCEPT !.late = f.late \/ f.home = m.home]
                      IN  g \in Share!Fill /\ (g.late \/ done'[g.home] <= g.at)
    BY <1>4
  <2>1. f \in Share!Fill /\ (f.late \/ done[f.home] <= f.at) /\ f.home \in OneProc
    BY <1>2 DEF ShareInv, SharesFresh, Share!Fill
  <2> DEFINE g == [f EXCEPT !.late = f.late \/ f.home = m.home]
  <2>2. g \in Share!Fill /\ g.home = f.home /\ g.at = f.at /\ (f.late => g.late) /\ (f.home = m.home => g.late)
    BY <1>3, <2>1, FillForgets DEF Share!Fill
  <2> HIDE DEF g
  <2>3. g.late \/ done'[g.home] <= g.at
    BY <1>6, <2>1, <2>2
  <2> QED BY <2>2, <2>3 DEF g
<1>8. \A p \in OneProc : done'[p] <= commits' /\ Share!Fresh(p, done[p])'
  <2> SUFFICES ASSUME NEW p \in OneProc
               PROVE  done'[p] <= commits' /\ (cache'[p] # None /\ ~cache'[p].late => cache'[p].at >= done'[p])
    BY DEF Share!Fresh
  <2>1. CASE p = m.home
    BY <1>1, <1>2, <1>4, <1>6, <2>1
  <2>2. CASE p # m.home
    BY <1>1, <1>2, <1>4, <1>5, <1>6, <2>2 DEF Share!Fresh
  <2> QED BY <2>1, <2>2
<1>9. SharesFresh'
  BY <1>7, <1>8 DEF SharesFresh
<1>10. /\ cache' \in [OneProc -> Share!Entry \cup {None}]
       /\ pc' \in [Tasks -> {"idle", "read", "insert", "delete", "refresh", "clear", "refused"}]
       /\ mem' \in [Tasks -> Share!Memory \cup {None}] /\ pc'[t] = "idle" /\ mem'[t] = None
       /\ \A u \in Tasks : u # t => pc'[u] = pc[u] /\ mem'[u] = mem[u]
  BY <1>1, <1>4, ShareTypes
<1>11. ASSUME NEW u \in Tasks PROVE ShareHolds(u)'
  <2>1. CASE u = t
    BY <1>10, <2>1 DEF ShareHolds
  <2>2. CASE u # t
    <3>1. /\ pc'[u] = pc[u] /\ mem'[u] = mem[u] /\ commits' \in Nat /\ commits <= commits'
          /\ drawn' \in Nat /\ drawn <= drawn' /\ (chosen => chosen') /\ (raced => raced') /\ UNCHANGED <<dialect, share>>
      BY <1>1, <1>2, <1>10, <1>11, <2>2
    <3> QED BY <1>11, <3>1, ShareKept
  <2> QED BY <2>1, <2>2
<1>12. Share!OneShareAlone' /\ BeyondIsFree'
  BY <1>1 DEF ShareInv, Share!OneShareAlone, Share!Present, BeyondIsFree
<1>13. CreatesAlone'
  BY <1>1, <1>10 DEF ShareInv, CreatesAlone, Creates
<1>14. drawn' + Cardinality(Creating') <= asked'
  <2>1. Creating' = Creating
    BY <1>1, <1>10 DEF Creating
  <2> QED BY <1>1, <2>1 DEF ShareInv
<1>15. Share!TypeOK'
  BY <1>1, <1>6, <1>7, <1>10 DEF ShareInv, Share!TypeOK, Share!CacheTypeOK
<1> QED BY <1>9, <1>11, <1>12, <1>13, <1>14, <1>15 DEF ShareInv

\* Every step, and a step that is about something else.
LEMMA ShareStep == ShareInv /\ Share!Next => ShareInv'
BY ShareCreates, ShareDeletes, ShareReads, ShareInserts, ShareRefreshes, ShareDeleted, ShareClears,
   ShareRemoved, ShareForked, ShareCaches DEF Share!Next

\* A step of another component changes nothing here.
LEMMA ShareStutter ==
    ShareInv /\ UNCHANGED <<cache, fills, table, dialect, share, drawn, commits, done, asked, raced, chosen, pc, mem>> => ShareInv'
<1> SUFFICES ASSUME ShareInv, UNCHANGED <<cache, fills, table, dialect, share, drawn, commits, done, asked, raced, chosen, pc, mem>>
             PROVE  ShareInv'
  OBVIOUS
<1>1. SharesFresh'
  BY DEF ShareInv, SharesFresh, Share!Fresh
<1>2. cache' \in [OneProc -> Share!Entry \cup {None}] /\ fills' \subseteq Share!Fill
  BY ShareTypes
<1> QED BY <1>1, <1>2, ShareOnlyCaches

\* The invariant of the part of the behaviours that is about shares.
LEMMA SharesKept == Spec => [](part = "shares" => ShareInv)
<1> DEFINE Inv == part = "shares" => ShareInv
<1>1. Init => Inv
  BY ShareInit DEF Init
<1>2. Inv /\ [Next]_vars => Inv'
  <2> SUFFICES ASSUME Inv, [Next]_vars PROVE Inv'
    OBVIOUS
  <2>1. CASE UNCHANGED vars
    BY <2>1, ShareStutter DEF vars
  <2>2. CASE Next
    BY <2>2, ShareStep DEF Next
  <2> QED BY <2>1, <2>2
<1> QED BY <1>1, <1>2, PTL DEF Spec

\* create_share, delete_share, fork_share: a title is shared once unless two
\* creations overlap, ids collide only when payloads bring them, and who has
\* changed the shares lists nothing older.
THEOREM SharesHold == Spec => []SharesCorrect
<1>1. (part = "shares" => ShareInv) => SharesCorrect
  <2> SUFFICES ASSUME ShareInv PROVE Share!TypeOK /\ Share!OneShareAlone /\ Share!IdsFit /\ Share!ListedAfterChange
    BY DEF SharesCorrect
  <2> QED BY DEF ShareInv, ShareHolds, SharesFresh, Share!IdsFit, Share!ListedAfterChange
<1> QED BY <1>1, SharesKept, PTL

\* A row that a request deletes is the one it looked up: by the invariant its
\* owner has not changed since, because PostgreSQL gives no id twice.
LEMMA DeletionOwned ==
    (part = "shares" => ShareInv) /\ [Next]_vars => [part = "shares" /\ dialect = "postgresql" /\ ~chosen => Share!OwnDeletion]_vars
<1> SUFFICES ASSUME ShareInv, dialect = "postgresql", ~chosen, NEW t \in Tasks, NEW i \in Share!Ids, Share!Delete(t),
                    share[i] # None, share'[i] = None
             PROVE  share[i].uid = mem[t].uid
  BY DEF Share!OwnDeletion
<1>1. pc[t] = "delete" /\ share' = [share EXCEPT ![mem[t].id] = None]
  BY DEF Share!Delete
<1>2. i = mem[t].id
  BY <1>1, ShareTypes
<1> QED BY <1>1, <1>2 DEF ShareInv, ShareHolds

\* delete_share, on PostgreSQL: what a request deletes is the share of its own
\* installation, although the row is looked up in one step and deleted in another.
\* On SQLite it need not be: OnlyOwnersDelete is violated there.
THEOREM OwnersDelete == Spec => [][part = "shares" /\ dialect = "postgresql" /\ ~chosen => Share!OwnDeletion]_vars
  BY DeletionOwned, SharesKept, PTL DEF Spec

-----------------------------------------------------------------------------
(* Recognition.  The text of a record says which key it belongs to: folding *)
(* what is folded changes nothing, so neither a merge nor a rewrite moves a *)
(* record to another key, whichever request writes last.  A medium that was *)
(* reported has a readable record until it is deleted, for a rewrite puts   *)
(* back an earlier record of the same medium and never removes one.         *)

F(text) == Recognition!Folded(text)
Kind(type) == Recognition!NormalizeMediaType(type)
Year(year) == Recognition!NormalizeYear(year)
Season(type, season) == Recognition!NormalizeSeason(type, season)
Music(type, music) == Recognition!NormalizeMusicType(type, music)
KeyOf(m) == Recognition!BuildCacheKey(m)
FormerKeyOf(m) == Recognition!BuildLegacyMusicCacheKey(m)
Normal(m) == Recognition!NormalizeMedium(m)
MediumOf(k) == Recognition!OldMedium(k)

Spelt == Texts \cup DOMAIN Folds \cup {None}

\* Folding twice is folding once.
LEMMA FoldedTwice ==
    /\ \A text : F(F(text)) = F(text) /\ F(text) # None
    /\ F(None) = "" /\ F("") = "" /\ F("recording") = "recording"
    /\ \A text \in Spelt : F(text) \in Texts
<1>1. None \notin Texts /\ None \notin DOMAIN Folds
  BY TextsAssumption
<1>2. \A text \in DOMAIN Folds : Folds[text] \in Texts /\ Folds[text] \notin DOMAIN Folds
  BY DEF Folds, Texts
<1>3. "" \notin DOMAIN Folds /\ "recording" \notin DOMAIN Folds /\ "" \in Texts
  BY DEF Folds, Texts
<1>4. \A text : F(text) # None
  BY <1>1, <1>2, <1>3 DEF F, Recognition!Folded
<1>5. \A text : F(F(text)) = F(text)
  BY <1>1, <1>2, <1>3 DEF F, Recognition!Folded
<1>6. F(None) = "" /\ F("") = "" /\ F("recording") = "recording"
  BY <1>1, <1>3 DEF F, Recognition!Folded, Texts
<1>7. \A text \in Spelt : F(text) \in Texts
  BY <1>2, <1>3 DEF F, Recognition!Folded, Spelt
<1> QED BY <1>4, <1>5, <1>6, <1>7

\* So are the other normal forms.
LEMMA FormsTwice ==
    /\ \A type : /\ Kind(type) \in {"movie", "tv", "music", None}
                 /\ Kind(Kind(type)) = Kind(type)
    /\ \A year : Year(Year(year)) = Year(year)
    /\ \A type, season : Season(Kind(type), Season(type, season)) = Season(type, season)
    /\ \A type, music : /\ Music(type, music) \in {"recording", "album", "artist", None}
                        /\ Kind(type) # "music" => Music(type, music) = None
                        /\ Music(type, music) # None \/ Kind(type) # "music" =>
                              Music(Kind(type), Music(type, music)) = Music(type, music)
<1>1. /\ "movie" # None /\ "tv" # None /\ "music" # None /\ "recording" # None /\ "album" # None
      /\ "artist" # None /\ "" # None
  BY TextsAssumption DEF Texts
<1>2. None # 1 /\ None \notin Nat
  BY AbsentAssumption
<1>3. \A type : /\ Kind(type) \in {"movie", "tv", "music", None}
                /\ Kind(Kind(type)) = Kind(type) /\ (Kind(type) # None => Kind(type) = F(type))
  <2>1. \A type : Kind(type) = IF F(type) \in {"movie", "tv", "music"} THEN F(type) ELSE None
    BY DEF Kind, Recognition!NormalizeMediaType, F
  <2> QED BY <1>1, <2>1, FoldedTwice
<1>4. \A year : Year(Year(year)) = Year(year)
  <2>1. \A year : Year(year) = IF F(year) = "" THEN None ELSE F(year)
    BY DEF Year, Recognition!NormalizeYear, F
  <2> QED BY <1>1, <2>1, FoldedTwice
<1>5. \A type, season : Season(Kind(type), Season(type, season)) = Season(type, season)
  <2>1. \A type, season : Season(type, season) = IF Kind(type) = "tv" /\ season \in Nat THEN season ELSE None
    BY DEF Season, Recognition!NormalizeSeason, Kind
  <2> QED BY <1>2, <1>3, <2>1
<1>6. \A type, music : Music(type, music) =
         IF Kind(type) # "music" THEN None ELSE IF music \in {None, ""} THEN "recording"
         ELSE IF F(music) \in {"recording", "album", "artist"} THEN F(music) ELSE None
  BY DEF Music, Recognition!NormalizeMusicType, Kind, F
<1>7. ASSUME NEW type, NEW music
      PROVE  /\ Music(type, music) \in {"recording", "album", "artist", None}
             /\ Kind(type) # "music" => Music(type, music) = None
  BY <1>6
<1>8. ASSUME NEW type, NEW music, Music(type, music) # None \/ Kind(type) # "music"
      PROVE  Music(Kind(type), Music(type, music)) = Music(type, music)
  <2>1. CASE Kind(type) # "music"
    <3>1. Music(type, music) = None /\ Kind(Kind(type)) # "music"
      BY <1>3, <1>7, <2>1
    <3> QED BY <3>1, <1>7
  <2>2. CASE Kind(type) = "music" /\ Music(type, music) # None
    <3>1. Music(type, music) \in {"recording", "album", "artist"}
      BY <1>7, <2>2
    <3>2. F(Music(type, music)) = Music(type, music)
      BY <1>6, <2>2, FoldedTwice
    <3>3. Kind(Kind(type)) = "music"
      BY <1>3, <2>2
    <3> QED BY <1>1, <1>6, <3>1, <3>2, <3>3
  <2> QED BY <1>8, <2>1, <2>2
<1> QED BY <1>3, <1>4, <1>5, <1>7, <1>8

\* A key, field by field; and its normal form.
LEMMA KeyFields ==
    ASSUME NEW m
    PROVE  /\ KeyOf(m) = IF F(m.keyword) = "" \/ Kind(m.type) = None \/ (Kind(m.type) = "music" /\ Music(m.type, m.music) = None)
                         THEN None
                         ELSE <<F(m.keyword), Kind(m.type), Year(m.year), Season(Kind(m.type), m.season), Music(m.type, m.music)>>
           /\ Normal(m) = [keyword |-> m.keyword, type |-> Kind(m.type), year |-> Year(m.year),
                           season |-> Season(m.type, m.season), music |-> Music(m.type, m.music)]
BY DEF KeyOf, Recognition!BuildCacheKey, Normal, Recognition!NormalizeMedium, F, Kind, Year, Season, Music

\* The kind of a medium is all that its season depends on.
LEMMA SeasonOfKind == \A type, season : Season(Kind(type), season) = Season(type, season)
<1>1. \A type, season : Season(type, season) = IF Kind(type) = "tv" /\ season \in Nat THEN season ELSE None
  BY DEF Season, Recognition!NormalizeSeason, Kind
<1> QED BY <1>1, FormsTwice

\* Normalising a medium leaves it under its key.
LEMMA NormalKeeps ==
    ASSUME NEW m, KeyOf(m) # None
    PROVE  KeyOf(Normal(m)) = KeyOf(m)
<1> DEFINE n == Normal(m)
<1>0. n = [keyword |-> m.keyword, type |-> Kind(m.type), year |-> Year(m.year),
           season |-> Season(m.type, m.season), music |-> Music(m.type, m.music)]
  BY KeyFields
<1> HIDE DEF n
<1>1. /\ n.keyword = m.keyword /\ n.type = Kind(m.type) /\ n.year = Year(m.year)
      /\ n.season = Season(m.type, m.season) /\ n.music = Music(m.type, m.music)
  BY <1>0
<1>2. ~(F(m.keyword) = "" \/ Kind(m.type) = None \/ (Kind(m.type) = "music" /\ Music(m.type, m.music) = None))
  BY KeyFields
<1>3. Kind(n.type) = Kind(m.type) /\ Year(n.year) = Year(m.year)
  BY <1>1, FormsTwice
<1>4. Season(Kind(n.type), n.season) = Season(Kind(m.type), m.season)
  BY <1>1, FormsTwice, SeasonOfKind
<1>5. Music(n.type, n.music) = Music(m.type, m.music)
  <2>1. \A type, music : Music(type, music) # None \/ Kind(type) # "music" =>
            Music(Kind(type), Music(type, music)) = Music(type, music)
    BY ONLY FormsTwice, Zenon
  <2>2. Music(m.type, m.music) # None \/ Kind(m.type) # "music"
    BY <1>2
  <2> QED BY <1>1, <2>1, <2>2
<1>6. KeyOf(n) = KeyOf(m)
  BY <1>1, <1>2, <1>3, <1>4, <1>5, KeyFields
<1> QED BY <1>6 DEF n

\* What is kept about a medium has that form, and its key is one.
LEMMA NormalTyped ==
    ASSUME NEW m, m.keyword \in Texts, m.year \in Spelt, m.season \in {1, None}, Kind(m.type) # None
    PROVE  Normal(m) \in Described /\ (KeyOf(m) # None => KeyOf(m) \in Keys)
<1>1. Kind(m.type) \in Texts /\ Music(m.type, m.music) \in Texts \cup {None}
  BY FormsTwice DEF Texts
<1>2. F(m.keyword) \in Texts /\ Year(m.year) \in Texts \cup {None}
  BY FoldedTwice DEF Year, Recognition!NormalizeYear, F, Spelt
<1>3. Season(m.type, m.season) \in {1, None} /\ Season(Kind(m.type), m.season) \in {1, None}
  BY DEF Season, Recognition!NormalizeSeason
<1>4. Normal(m) \in Described
  <2>1. Normal(m) = [keyword |-> m.keyword, type |-> Kind(m.type), year |-> Year(m.year),
                     season |-> Season(m.type, m.season), music |-> Music(m.type, m.music)]
    BY KeyFields
  <2> QED BY <1>1, <1>2, <1>3, <2>1 DEF Described
<1>5. KeyOf(m) # None => KeyOf(m) \in Keys
  <2>1. KeyOf(m) # None =>
          KeyOf(m) = <<F(m.keyword), Kind(m.type), Year(m.year), Season(Kind(m.type), m.season), Music(m.type, m.music)>>
    BY KeyFields
  <2> QED BY <1>1, <1>2, <1>3, <2>1 DEF Keys
<1> QED BY <1>4, <1>5

\* What a key says of the records under it: the keys of the former scheme have
\* no kind of music, and their records say that they are recordings.
Former(k) == k[2] = "music" /\ k[5] = None
Says(k) == IF Former(k) THEN <<k[1], k[2], k[3], None, "recording">> ELSE k

\* A record under k: it says what k says, and only a former key has former records.
Under(k) == {i \in Items : KeyOf(i.medium) = Says(k) /\ (i.id = "legacy" => Former(k))}

\* The keys that requests about media reach.
Reaches(media, keys) ==
    /\ keys \subseteq Keys
    /\ \A m \in media : /\ m.keyword \in Texts /\ m.year \in Spelt /\ m.season \in {1, None}
                         /\ \A n \in {m, Normal(m)} : KeyOf(n) # None => KeyOf(n) \in keys /\ ~Former(KeyOf(n))
    /\ \A k \in keys : /\ MediumOf(k) \in Described /\ KeyOf(MediumOf(k)) = Says(k) /\ Says(k) # None
                       /\ ~Former(k) /\ k[5] = "recording" =>
                             FormerKeyOf(MediumOf(k)) \in keys /\ Says(FormerKeyOf(MediumOf(k))) = k

TheSong(music) == <<"the song", "music", None, None, music>>
TheShow == <<"the song", "tv", "1999", 1, None>>

\* What the texts of the media say.
LEMMA TextsSay ==
    /\ \A text \in {"The Song", " The  Song", "the song"} : F(text) = "the song"
    /\ \A type \in {"Music ", "music"} : Kind(type) = "music"
    /\ \A type \in {"TV", "tv"} : Kind(type) = "tv"
    /\ Year(None) = None /\ Year(" ") = None /\ Year(" 1999") = "1999" /\ Year("1999") = "1999"
    /\ \A type : Kind(type) = "music" =>
          /\ Music(type, None) = "recording" /\ Music(type, "recording") = "recording"
          /\ Music(type, "Album") = "album" /\ Music(type, "album") = "album" /\ Music(type, "x") = None
    /\ \A type, season : /\ Kind(type) = "music" => Season(type, season) = None
                         /\ Kind(type) = "tv" => Season(type, 1) = 1 /\ Music(type, season) = None
<1>1. \A text \in Texts : None # text
  BY TextsAssumption
<1>2. /\ \A text \in {"The Song", " The  Song", "the song"} : F(text) = "the song"
      /\ F("Music ") = "music" /\ F("music") = "music" /\ F("TV") = "tv" /\ F("tv") = "tv"
      /\ F(None) = "" /\ F(" ") = "" /\ F(" 1999") = "1999" /\ F("1999") = "1999"
      /\ F("recording") = "recording" /\ F("album") = "album" /\ F("Album") = "album" /\ F("x") = "x"
  <2>1. /\ Folds["The Song"] = "the song" /\ Folds[" The  Song"] = "the song" /\ Folds["Music "] = "music"
        /\ Folds["TV"] = "tv" /\ Folds["Album"] = "album" /\ Folds[" "] = "" /\ Folds[" 1999"] = "1999"
        /\ DOMAIN Folds = {"The Song", " The  Song", "Music ", "TV", "Album", " ", " 1999"}
    BY DEF Folds
  <2>2. None \notin DOMAIN Folds /\ None # "the song" /\ None # "music" /\ None # "tv" /\ None # "1999"
        /\ None # "recording" /\ None # "album" /\ None # "x"
    BY TextsAssumption DEF Texts
  <2>3. \A text : F(text) = IF text = None THEN "" ELSE IF text \in DOMAIN Folds THEN Folds[text] ELSE text
    BY DEF F, Recognition!Folded
  <2>4. F("The Song") = "the song" /\ F(" The  Song") = "the song" /\ F("the song") = "the song"
    BY <2>1, <2>2, <2>3
  <2>5. F("Music ") = "music" /\ F("music") = "music" /\ F("TV") = "tv" /\ F("tv") = "tv"
    BY <2>1, <2>2, <2>3
  <2>6. F(None) = "" /\ F(" ") = "" /\ F(" 1999") = "1999" /\ F("1999") = "1999"
    BY <2>1, <2>2, <2>3
  <2>7. F("recording") = "recording" /\ F("album") = "album" /\ F("Album") = "album" /\ F("x") = "x"
    BY <2>1, <2>2, <2>3
  <2> QED BY <2>4, <2>5, <2>6, <2>7
<1>3. \A type : Kind(type) = IF F(type) \in {"movie", "tv", "music"} THEN F(type) ELSE None
  BY DEF Kind, Recognition!NormalizeMediaType, F
<1>4. \A year : Year(year) = IF F(year) = "" THEN None ELSE F(year)
  BY DEF Year, Recognition!NormalizeYear, F
<1>5. \A type, music : Music(type, music) =
         IF Kind(type) # "music" THEN None ELSE IF music \in {None, ""} THEN "recording"
         ELSE IF F(music) \in {"recording", "album", "artist"} THEN F(music) ELSE None
  BY DEF Music, Recognition!NormalizeMusicType, Kind, F
<1>6. \A type, season : Season(type, season) = IF Kind(type) = "tv" /\ season \in Nat THEN season ELSE None
  BY DEF Season, Recognition!NormalizeSeason, Kind
<1>7. None # "Album"
  BY TextsAssumption DEF Folds
<1>8. \A type : Kind(type) = "music" =>
          /\ Music(type, None) = "recording" /\ Music(type, "recording") = "recording"
          /\ Music(type, "Album") = "album" /\ Music(type, "album") = "album" /\ Music(type, "x") = None
  BY <1>1, <1>2, <1>5, <1>7 DEF Texts
<1>9. /\ \A type \in {"Music ", "music"} : Kind(type) = "music"
      /\ \A type \in {"TV", "tv"} : Kind(type) = "tv"
  BY <1>2, <1>3
<1>10. Year(None) = None /\ Year(" ") = None /\ Year(" 1999") = "1999" /\ Year("1999") = "1999"
  BY <1>2, <1>4
<1>11. \A type, season : /\ Kind(type) = "music" => Season(type, season) = None
                         /\ Kind(type) = "tv" => Season(type, 1) = 1 /\ Music(type, season) = None
  BY <1>5, <1>6
<1> QED BY <1>2, <1>8, <1>9, <1>10, <1>11

\* The key and the former key of a song, and the key of the series.
LEMMA SongKeys ==
    ASSUME NEW m, F(m.keyword) = "the song", Kind(m.type) = "music", Year(m.year) = None
    PROVE  /\ KeyOf(m) = IF Music(m.type, m.music) = None THEN None ELSE TheSong(Music(m.type, m.music))
           /\ FormerKeyOf(m) = TheSong(None)
<1>1. "the song" # "" /\ None # "music" /\ Kind("music") = "music"
  BY TextsAssumption, TextsSay DEF Texts
<1>2. Season("music", m.season) = None
  BY <1>1, TextsSay
<1>3. KeyOf(m) = IF Music(m.type, m.music) = None THEN None ELSE TheSong(Music(m.type, m.music))
  BY <1>1, <1>2, KeyFields DEF TheSong
<1>4. FormerKeyOf(m) = TheSong(None)
  BY DEF FormerKeyOf, Recognition!BuildLegacyMusicCacheKey, F, Year, TheSong
<1> QED BY <1>3, <1>4

\* The key of the series.
LEMMA ShowKey ==
    ASSUME NEW m, F(m.keyword) = "the song", Kind(m.type) = "tv", Year(m.year) = "1999", m.season = 1
    PROVE  KeyOf(m) = TheShow
<1>1. "the song" # "" /\ None # "tv" /\ Kind("tv") = "tv"
  BY TextsAssumption, TextsSay DEF Texts
<1>2. Season("tv", 1) = 1 /\ Music(m.type, m.music) = None
  BY <1>1, TextsSay
<1> QED BY <1>1, <1>2, KeyFields DEF TheShow

\* The module about the series computes the same.
LEMMA SeriesAlike ==
    /\ \A m : Series!BuildCacheKey(m) = Recognition!BuildCacheKey(m)
    /\ \A m : Series!BuildLegacyMusicCacheKey(m) = Recognition!BuildLegacyMusicCacheKey(m)
    /\ \A m : Series!NormalizeMedium(m) = Recognition!NormalizeMedium(m)
    /\ \A k : Series!OldMedium(k) = Recognition!OldMedium(k)
    /\ \A type : Series!NormalizeMediaType(type) = Recognition!NormalizeMediaType(type)
<1>1. \A x : Series!Folded(x) = Recognition!Folded(x)
  BY DEF Series!Folded, Recognition!Folded
<1>2. \A x : Series!NormalizeYear(x) = Recognition!NormalizeYear(x)
  BY <1>1 DEF Series!NormalizeYear, Recognition!NormalizeYear
<1>3. \A x : Series!NormalizeMediaType(x) = Recognition!NormalizeMediaType(x)
  BY <1>1 DEF Series!NormalizeMediaType, Recognition!NormalizeMediaType
<1>4. \A x, y : Series!NormalizeSeason(x, y) = Recognition!NormalizeSeason(x, y)
  BY <1>3 DEF Series!NormalizeSeason, Recognition!NormalizeSeason
<1>5. \A x, y : Series!NormalizeMusicType(x, y) = Recognition!NormalizeMusicType(x, y)
  BY <1>1, <1>3 DEF Series!NormalizeMusicType, Recognition!NormalizeMusicType
<1>6. \A m : Series!BuildCacheKey(m) = Recognition!BuildCacheKey(m)
  BY <1>1, <1>2, <1>3, <1>4, <1>5 DEF Series!BuildCacheKey, Recognition!BuildCacheKey
<1>7. \A m : Series!BuildLegacyMusicCacheKey(m) = Recognition!BuildLegacyMusicCacheKey(m)
  BY <1>1, <1>2 DEF Series!BuildLegacyMusicCacheKey, Recognition!BuildLegacyMusicCacheKey
<1>8. \A m : Series!NormalizeMedium(m) = Recognition!NormalizeMedium(m)
  BY <1>2, <1>3, <1>4, <1>5 DEF Series!NormalizeMedium, Recognition!NormalizeMedium
<1>9. \A k : Series!OldMedium(k) = Recognition!OldMedium(k)
  BY DEF Series!OldMedium, Recognition!OldMedium
<1> QED BY <1>3, <1>6, <1>7, <1>8, <1>9

\* The keys of the music that is asked for, and of the series.
LEMMA KeysReached ==
    /\ Recognition!Exact = {TheSong("recording"), TheSong("album")}
    /\ Recognition!Legacy = {TheSong(None)}
    /\ Series!Exact = {TheShow} /\ Series!Legacy = {}
    /\ Reaches(Media, {TheSong("recording"), TheSong("album"), TheSong(None)})
    /\ Reaches(TheSeries, {TheShow})
<1> DEFINE a == About("The Song", "Music ", None, None, None)
           b == About(" The  Song", "music", " ", 1, "Album")
           c == About("The Song", "music", None, None, "x")
           d == About("The Song", "TV", " 1999", 1, None)
           Songs == {TheSong("recording"), TheSong("album"), TheSong(None)}
<1>1. Media = {a, b, c} /\ TheSeries = {d}
  BY DEF Media, TheSeries
<1>2. /\ a.keyword = "The Song" /\ a.type = "Music " /\ a.year = None /\ a.season = None /\ a.music = None
      /\ b.keyword = " The  Song" /\ b.type = "music" /\ b.year = " " /\ b.season = 1 /\ b.music = "Album"
      /\ c.keyword = "The Song" /\ c.type = "music" /\ c.year = None /\ c.season = None /\ c.music = "x"
      /\ d.keyword = "The Song" /\ d.type = "TV" /\ d.year = " 1999" /\ d.season = 1 /\ d.music = None
  BY DEF About
<1> HIDE DEF a, b, c, d
<1>3. "recording" # None /\ "album" # None /\ "music" # None /\ "tv" # None
  BY TextsAssumption DEF Texts
<1>4. \A m \in {a, b, c} : F(m.keyword) = "the song" /\ Kind(m.type) = "music" /\ Year(m.year) = None
  BY <1>2, TextsSay
<1>5. F(d.keyword) = "the song" /\ Kind(d.type) = "tv" /\ Year(d.year) = "1999"
  BY <1>2, TextsSay
<1>6. /\ Music(a.type, a.music) = "recording" /\ Music(b.type, b.music) = "album"
      /\ Music(c.type, c.music) = None
  BY ZenonT(30), <1>2, <1>4, TextsSay
<1>7. /\ KeyOf(a) = TheSong("recording") /\ KeyOf(b) = TheSong("album") /\ KeyOf(c) = None
      /\ KeyOf(d) = TheShow
  BY <1>2, <1>3, <1>4, <1>5, <1>6, SongKeys, ShowKey
<1>8. \A m \in {a, b, c} : FormerKeyOf(m) = TheSong(None)
  BY <1>4, SongKeys
\* Every key is one, and the record of an old request says so.
<1>9. /\ Songs \subseteq Keys /\ TheShow \in Keys
  <2>1. \A x \in {"recording", "album", None} : TheSong(x) \in Keys
    <3>1. \A x \in {"recording", "album", None} : x \in Texts \cup {None}
      BY DEF Texts
    <3>2. "the song" \in Texts /\ "music" \in Texts /\ None \in {1, None} /\ None \in Texts \cup {None}
      BY DEF Texts
    <3> QED BY <3>1, <3>2 DEF TheSong, Keys
  <2>2. TheShow \in Keys
    <3>1. "the song" \in Texts /\ "tv" \in Texts /\ "1999" \in Texts /\ None \in Texts \cup {None}
      BY DEF Texts
    <3> QED BY <3>1 DEF TheShow, Keys
  <2> QED BY <2>1, <2>2
<1>10. None \notin Songs /\ None # TheShow
  BY <1>9, TextsAssumption
<1>11. /\ TheSong(None) # TheSong("recording") /\ TheSong(None) # TheSong("album")
       /\ Former(TheSong(None)) /\ ~Former(TheSong("recording")) /\ ~Former(TheSong("album")) /\ ~Former(TheShow)
       /\ Says(TheSong(None)) = TheSong("recording")
       /\ Says(TheSong("recording")) = TheSong("recording") /\ Says(TheSong("album")) = TheSong("album")
       /\ Says(TheShow) = TheShow
  BY <1>3 DEF TheSong, TheShow, Former, Says
\* What the record of an old request says.
<1>12. ASSUME NEW x \in {"recording", "album", None}
       PROVE  /\ MediumOf(TheSong(x)) \in Described
              /\ KeyOf(MediumOf(TheSong(x))) = TheSong(IF x = None THEN "recording" ELSE x)
              /\ FormerKeyOf(MediumOf(TheSong(x))) = TheSong(None)
  <2> DEFINE m == MediumOf(TheSong(x))
  <2>1. m = About("the song", "music", None, None, x)
    BY DEF MediumOf, Recognition!OldMedium, TheSong, About
  <2> HIDE DEF m
  <2>2. m.keyword = "the song" /\ m.type = "music" /\ m.year = None /\ m.music = x
    BY <2>1 DEF About
  <2>3. F(m.keyword) = "the song" /\ Kind(m.type) = "music" /\ Year(m.year) = None
    BY <2>2, TextsSay
  <2>4. Music(m.type, m.music) = IF x = None THEN "recording" ELSE x
    BY <1>3, <2>2, <2>3, TextsSay
  <2>5. m \in Described
    BY <2>1 DEF About, Described, Texts
  <2>6. KeyOf(m) = TheSong(IF x = None THEN "recording" ELSE x) /\ FormerKeyOf(m) = TheSong(None)
    BY <1>3, <2>3, <2>4, SongKeys
  <2> QED BY <2>5, <2>6 DEF m
<1>13. MediumOf(TheShow) \in Described /\ KeyOf(MediumOf(TheShow)) = TheShow
  <2> DEFINE m == MediumOf(TheShow)
  <2>1. m = About("the song", "tv", "1999", 1, None)
    BY DEF MediumOf, Recognition!OldMedium, TheShow, About
  <2> HIDE DEF m
  <2>2. m.keyword = "the song" /\ m.type = "tv" /\ m.year = "1999" /\ m.season = 1
    BY <2>1 DEF About
  <2>3. F(m.keyword) = "the song" /\ Kind(m.type) = "tv" /\ Year(m.year) = "1999"
    BY <2>2, TextsSay
  <2>4. m \in Described
    BY <2>1 DEF About, Described, Texts
  <2>5. KeyOf(m) = TheShow
    BY <2>2, <2>3, ShowKey
  <2> QED BY <2>4, <2>5 DEF m
\* The normal form of the third medium, which has no kind of music, is a recording's.
<1>14. /\ KeyOf(Normal(a)) = TheSong("recording") /\ KeyOf(Normal(b)) = TheSong("album")
       /\ KeyOf(Normal(d)) = TheShow
  BY <1>7, <1>10, NormalKeeps
<1>15. KeyOf(Normal(c)) = TheSong("recording")
  <2> DEFINE m == Normal(c)
  <2>0. m = [keyword |-> c.keyword, type |-> Kind(c.type), year |-> Year(c.year),
             season |-> Season(c.type, c.season), music |-> Music(c.type, c.music)]
    BY KeyFields
  <2> HIDE DEF m
  <2>1. m.keyword = c.keyword /\ m.type = Kind(c.type) /\ m.year = Year(c.year) /\ m.music = Music(c.type, c.music)
    BY <2>0
  <2>2. m.keyword = "The Song" /\ m.type = "music" /\ m.year = None /\ m.music = None
    BY <1>2, <1>4, <1>6, <2>1
  <2>3. F(m.keyword) = "the song" /\ Kind(m.type) = "music" /\ Year(m.year) = None
    BY <2>2, TextsSay
  <2>4. Music(m.type, m.music) = "recording"
    BY <2>2, <2>3, TextsSay
  <2>5. KeyOf(m) = TheSong("recording")
    BY <1>3, <2>3, <2>4, SongKeys
  <2> QED BY <2>5 DEF m
<1>16. Recognition!Exact = {TheSong("recording"), TheSong("album")}
  <2>1. Recognition!Exact = {KeyOf(m) : m \in Media} \ {None}
    BY DEF Recognition!Exact, KeyOf
  <2> HIDE DEF Songs
  <2>2. {KeyOf(m) : m \in {a, b, c}} = {TheSong("recording"), TheSong("album"), None}
    BY <1>7
  <2>3. TheSong("recording") # None /\ TheSong("album") # None
    BY <1>10 DEF Songs
  <2> QED BY <1>1, <2>1, <2>2, <2>3
<1>17. Recognition!Legacy = {TheSong(None)}
  <2>1. Recognition!Legacy = {FormerKeyOf(m) : m \in {x \in Media : Kind(x.type) = "music"}}
    BY DEF Recognition!Legacy, FormerKeyOf, Kind
  <2>2. {x \in Media : Kind(x.type) = "music"} = {a, b, c}
    BY <1>1, <1>4
  <2> QED BY <1>8, <2>1, <2>2
<1>18. Series!Exact = {TheShow} /\ Series!Legacy = {}
  <2>1. Series!Exact = {KeyOf(m) : m \in TheSeries} \ {None}
    BY SeriesAlike DEF Series!Exact, KeyOf
  <2>2. Series!Legacy = {FormerKeyOf(m) : m \in {x \in TheSeries : Kind(x.type) = "music"}}
    BY SeriesAlike DEF Series!Legacy, FormerKeyOf, Kind
  <2>3. {x \in TheSeries : Kind(x.type) = "music"} = {}
    BY <1>1, <1>5
  <2>4. {KeyOf(m) : m \in TheSeries} = {TheShow}
    BY <1>1, <1>7
  <2> QED BY <1>10, <2>1, <2>2, <2>3, <2>4
<1>19. Reaches(Media, Songs)
  <2>1. \A m \in Media : m.keyword \in Texts /\ m.year \in Spelt /\ m.season \in {1, None}
    BY <1>1, <1>2 DEF Texts, Spelt, Folds
  <2>2. ASSUME NEW m \in Media, NEW n \in {m, Normal(m)}, KeyOf(n) # None
        PROVE  KeyOf(n) \in Songs /\ ~Former(KeyOf(n))
    <3>1. KeyOf(n) = TheSong("recording") \/ KeyOf(n) = TheSong("album")
      BY <1>1, <1>7, <1>14, <1>15, <2>2
    <3> QED BY <1>11, <3>1
  <2>3. ASSUME NEW k \in Songs
        PROVE  /\ MediumOf(k) \in Described /\ KeyOf(MediumOf(k)) = Says(k) /\ Says(k) # None
               /\ ~Former(k) /\ k[5] = "recording" =>
                     FormerKeyOf(MediumOf(k)) \in Songs /\ Says(FormerKeyOf(MediumOf(k))) = k
    <3>1. PICK x \in {"recording", "album", None} : k = TheSong(x)
      OBVIOUS
    <3>2. MediumOf(k) \in Described /\ KeyOf(MediumOf(k)) = Says(k) /\ FormerKeyOf(MediumOf(k)) = TheSong(None)
      BY <1>3, <1>11, <1>12, <3>1
    <3>3. Says(k) # None
      BY <1>10, <1>11, <3>1
    <3>4. k[5] = "recording" => k = TheSong("recording")
      BY <3>1 DEF TheSong
    <3> QED BY <1>11, <3>2, <3>3, <3>4
  <2> HIDE DEF Songs
  <2> QED BY <1>9, <2>1, <2>2, <2>3 DEF Reaches
<1>20. Reaches(TheSeries, {TheShow})
  <2>1. \A m \in TheSeries : m.keyword \in Texts /\ m.year \in Spelt /\ m.season \in {1, None}
    BY <1>1, <1>2 DEF Texts, Spelt, Folds
  <2>2. \A m \in TheSeries : \A n \in {m, Normal(m)} : KeyOf(n) = TheShow
    BY <1>1, <1>7, <1>14
  <2>3. TheShow[5] # "recording"
    BY <1>3 DEF TheShow
  <2> QED BY <1>9, <1>10, <1>11, <1>13, <2>1, <2>2, <2>3 DEF Reaches
<1> QED BY <1>16, <1>17, <1>18, <1>19, <1>20

-----------------------------------------------------------------------------
(* The invariant, for the keys that are reached.                            *)

RecSteps == {"idle", "get", "rewrite", "set", "delete", "confirm"}
Reqs(keys) ==
    [op : {"none", "query", "upsert", "delete"}, key : keys \cup {None}, asked : keys \cup {None},
     item : Items \cup {None}, known : BOOLEAN]

\* What is true of a task at step s for request r, that has read record g and
\* has last answered a, when n are the ids that were reported.
Fits(keys, s, r, g, a, n) ==
    /\ s \in {"get", "rewrite"} =>
          r.op \in {"query", "upsert"} /\ r.key \in keys /\ r.asked \in keys /\ ~Former(r.asked) /\ Says(r.key) = r.asked
    /\ s \in {"get", "rewrite", "set"} /\ r.op = "upsert" =>
          r.key \in keys /\ ~Former(r.key) /\ r.item \in Under(r.key) /\ r.item.id \in Ids
    /\ s = "set" => r.op = "upsert" /\ g \in Under(r.key) \cup {None}
    /\ s = "rewrite" => g \in Under(r.key)
    /\ s = "delete" => r.key \in keys
    /\ s \in {"delete", "confirm"} => r.op = "delete"
    /\ r.known => r.op = "query"
    /\ s \in {"get", "rewrite"} /\ r.known => r.key = r.asked /\ n[r.asked] # None
    /\ s = "idle" /\ r.op = "query" => /\ a # None => KeyOf(a.medium) = r.asked
                                       /\ r.known => a # None /\ a.id # "legacy"

\* Records lie under their keys, and what was reported is there.
Kept(keys) ==
    \A k \in keys : /\ store[k] \in Under(k) \cup {None, Unreadable}
                    /\ newest[k] # None => store[k] \in Under(k) /\ store[k].id # "legacy" /\ ~Former(k)

\* The deletions that are on record and may still be confirmed.
Owing == {t \in Tasks : pc[t] \in {"delete", "confirm"}}
Traced == audit \in [requested : Nat, confirmed : Nat] /\ audit.confirmed + Cardinality(Owing) <= audit.requested

RecTypes(keys) ==
    /\ store \in [keys -> Items \cup {None, Unreadable}] /\ newest \in [keys -> Ids \cup {None}]
    /\ pc \in [Tasks -> RecSteps] /\ req \in [Tasks -> Reqs(keys)]
    /\ got \in [Tasks -> Items \cup {None}] /\ served \in [Tasks -> Items \cup {None}]
    /\ upserts \in 0..MaxUpserts /\ deletes \in 0..MaxDeletes

TaskFits(keys, t) == Fits(keys, pc[t], req[t], got[t], served[t], newest)
RecInv(keys) == RecTypes(keys) /\ Kept(keys) /\ Traced /\ \A t \in Tasks : TaskFits(keys, t)

\* How many deletions may be confirmed after a step of one task.
LEMMA OwingCount ==
    ASSUME NEW t \in Tasks, \A u \in Tasks : u # t => pc'[u] = pc[u]
    PROVE  /\ Cardinality(Owing) \in Nat /\ Cardinality(Owing') \in Nat
           /\ t \in Owing => Cardinality(Owing) >= 1
           /\ t \in Owing /\ t \notin Owing' => Cardinality(Owing') = Cardinality(Owing) - 1
           /\ (t \in Owing <=> t \in Owing') => Cardinality(Owing') = Cardinality(Owing)
           /\ t \notin Owing /\ t \in Owing' => Cardinality(Owing') = Cardinality(Owing) + 1
<1>1. Owing \subseteq Tasks /\ Owing' \subseteq Tasks /\ \A u \in Tasks : u # t => (u \in Owing <=> u \in Owing')
  BY DEF Owing
<1>2. IsFiniteSet(Owing) /\ IsFiniteSet(Owing')
  BY <1>1, BoundsAssumption, FS_Subset
<1>3. Cardinality(Owing) \in Nat /\ Cardinality(Owing') \in Nat /\ (t \in Owing => Cardinality(Owing) # 0)
  BY <1>2, FS_CardinalityType, FS_EmptySet
<1>4. CASE t \in Owing /\ t \notin Owing'
  <2>1. Owing' = Owing \ {t}
    BY <1>1, <1>4
  <2> QED BY <1>2, <1>3, <1>4, <2>1, FS_RemoveElement
<1>5. CASE t \in Owing <=> t \in Owing'
  <2>1. Owing' = Owing
    BY <1>1, <1>5
  <2> QED BY <1>3, <1>5, <2>1
<1>6. CASE t \notin Owing /\ t \in Owing'
  <2>1. Owing' = Owing \cup {t}
    BY <1>1, <1>6
  <2> QED BY <1>2, <1>3, <1>6, <2>1, FS_AddElement
<1> QED BY <1>4, <1>5, <1>6

\* What _normalize_item_dict makes of a record is a record under the same key.
LEMMA NormalItem ==
    ASSUME NEW media, NEW keys, Reaches(media, keys), NEW k \in keys,
           NEW i, i \in Under(k) \cup {None, Unreadable}
    PROVE  /\ i \in Under(k) => Recognition!NormalizeItem(i) \in Under(k) /\ Recognition!NormalizeItem(i).id = i.id
           /\ i \notin Under(k) => Recognition!NormalizeItem(i) = None
<1>1. CASE i \in Under(k)
  <2> DEFINE m == i.medium
             r == Recognition!NormalizeItem(i)
  <2>1. i \in Items /\ KeyOf(m) = Says(k) /\ (i.id = "legacy" => Former(k)) /\ Says(k) # None
    BY <1>1 DEF Under, Reaches
  <2>2. m \in Described /\ i.id \in Ids \cup {"old", "legacy"} /\ i.title \in Titles \cup {None}
    BY <2>1 DEF Items
  <2>3. i # None /\ i # Unreadable
    BY <2>1, TextsAssumption
  <2>4. r = [medium |-> Normal(m), id |-> i.id, title |-> i.title, complete |-> TRUE]
    BY <2>1, <2>3 DEF Recognition!NormalizeItem, KeyOf, Normal, Recognition!Record
  <2>5. m.keyword \in Texts /\ m.year \in Spelt /\ m.season \in {1, None} /\ Kind(m.type) # None
    BY <2>1, <2>2, KeyFields DEF Described, Spelt
  <2>6. Normal(m) \in Described /\ KeyOf(Normal(m)) = Says(k)
    BY <2>1, <2>5, NormalTyped, NormalKeeps
  <2> HIDE DEF m, r
  <2>7. r \in Items /\ r.medium = Normal(m) /\ r.id = i.id
    BY <2>2, <2>4, <2>6 DEF Items
  <2>8. r \in Under(k)
    BY <2>1, <2>6, <2>7 DEF Under
  <2> QED BY <1>1, <2>7, <2>8 DEF r
<1>2. CASE i \notin Under(k)
  <2>1. i \in {None, Unreadable}
    BY <1>2
  <2> QED BY <1>2, <2>1 DEF Recognition!NormalizeItem
<1> QED BY <1>1, <1>2

\* A step of one task, for the others.
Others(t) == \A u \in Tasks \ {t} : pc'[u] = pc[u] /\ req'[u] = req[u] /\ got'[u] = got[u] /\ served'[u] = served[u]

\* The others stay as they are, so the invariant is about the task that moves.
LEMMA OneTask ==
    ASSUME NEW keys, RecInv(keys), NEW t \in Tasks, Others(t), TaskFits(keys, t)',
           RecTypes(keys)', Kept(keys)', Traced',
           \A k \in keys : newest[k] # None => newest'[k] # None
    PROVE  RecInv(keys)'
<1>1. ASSUME NEW u \in Tasks, u # t PROVE TaskFits(keys, u)'
  <2>1. pc'[u] = pc[u] /\ req'[u] = req[u] /\ got'[u] = got[u] /\ served'[u] = served[u]
    BY <1>1 DEF Others
  <2>2. Fits(keys, pc[u], req[u], got[u], served[u], newest)
    BY DEF RecInv, TaskFits
  <2> QED BY <2>1, <2>2 DEF TaskFits, Fits
<1> QED BY <1>1 DEF RecInv

\* A step that touches no deletion owes as much as before.
LEMMA OwesSame ==
    ASSUME Traced, NEW t \in Tasks, Others(t), pc[t] \notin {"delete", "confirm"}, pc'[t] \notin {"delete", "confirm"},
           audit' = audit
    PROVE  Traced'
<1>1. Cardinality(Owing') = Cardinality(Owing)
  BY OwingCount DEF Others, Owing
<1> QED BY <1>1 DEF Traced

\* A request arrives, with the key that it asks for.
LEMMA Arrives ==
    ASSUME NEW keys, RecInv(keys), NEW t \in Tasks, NEW op \in {"query", "upsert"}, NEW k \in keys,
           NEW i \in Items \cup {None}, NEW known \in BOOLEAN,
           Recognition!Begin(t, op, k, k, i, known), pc' = [pc EXCEPT ![t] = "get"],
           UNCHANGED <<store, newest, deletes, audit>>, upserts' \in 0..MaxUpserts,
           ~Former(k), op = "upsert" => i \in Under(k) /\ i.id \in Ids,
           known => op = "query" /\ newest[k] # None
    PROVE  RecInv(keys)'
<1>1. RecTypes(keys) /\ Kept(keys) /\ Traced
  BY DEF RecInv
<1> DEFINE r == [op |-> op, key |-> k, asked |-> k, item |-> i, known |-> known]
<1>2. r \in Reqs(keys) /\ r.op = op /\ r.key = k /\ r.asked = k /\ r.item = i /\ r.known = known
  BY DEF Reqs
<1>3. /\ pc[t] = "idle" /\ req' = [req EXCEPT ![t] = r] /\ got' = [got EXCEPT ![t] = None]
      /\ served' = [served EXCEPT ![t] = None]
  BY DEF Recognition!Begin
<1> HIDE DEF r
<1>4. RecTypes(keys)'
  BY <1>1, <1>2, <1>3 DEF RecTypes, RecSteps
<1>5. /\ Others(t) /\ pc'[t] = "get" /\ req'[t] = r
  BY <1>1, <1>3 DEF RecTypes, Others
<1>6. Traced'
  BY <1>1, <1>3, <1>5, OwesSame
<1>7. Kept(keys)'
  BY <1>1 DEF Kept
<1>8. Says(k) = k
  BY DEF Says
<1>9. TaskFits(keys, t)'
  BY <1>2, <1>5, <1>8 DEF TaskFits, Fits
<1> QED BY <1>4, <1>5, <1>6, <1>7, <1>9, OneTask

\* A query, and a report, of a medium.
LEMMA RecArrives ==
    ASSUME NEW media, NEW keys, Reaches(media, keys), RecInv(keys), NEW t \in Tasks, NEW m \in media,
           \/ Recognition!Query(t, m)
           \/ \E id \in Ids, title \in Titles : Recognition!Upsert(t, m, id, title)
    PROVE  RecInv(keys)'
<1>1. CASE Recognition!Query(t, m)
  <2> DEFINE k == KeyOf(m)
             known == newest[k] # None
  <2>1. k \in keys /\ ~Former(k)
    BY <1>1 DEF Recognition!Query, Reaches, KeyOf
  <2>2. /\ Recognition!Begin(t, "query", k, k, None, known) /\ pc' = [pc EXCEPT ![t] = "get"]
        /\ UNCHANGED <<store, newest, deletes, audit>> /\ upserts' = upserts
    BY <1>1 DEF Recognition!Query, Recognition!Goto, KeyOf
  <2>3. upserts' \in 0..MaxUpserts
    BY <2>2 DEF RecInv, RecTypes
  <2>4. known \in BOOLEAN /\ (known => newest[k] # None)
    BY Zenon
  <2> HIDE DEF k, known
  <2> QED BY <2>1, <2>2, <2>3, <2>4, Arrives
<1>2. ASSUME NEW id \in Ids, NEW title \in Titles, Recognition!Upsert(t, m, id, title) PROVE RecInv(keys)'
  <2> DEFINE n == Normal(m)
             i == [medium |-> n, id |-> id, title |-> title, complete |-> TRUE]
             k == KeyOf(n)
  <2>1. /\ k # None /\ upserts < MaxUpserts /\ upserts' = upserts + 1
        /\ Recognition!Begin(t, "upsert", k, k, i, FALSE) /\ pc' = [pc EXCEPT ![t] = "get"]
        /\ UNCHANGED <<store, newest, deletes, audit>>
    BY <1>2 DEF Recognition!Upsert, Recognition!Goto, Recognition!Record, KeyOf, Normal
  <2>2. k \in keys /\ ~Former(k) /\ m.keyword \in Texts /\ m.year \in Spelt /\ m.season \in {1, None}
    BY <2>1 DEF Reaches
  <2>3. Kind(m.type) # None
    <3>1. n = [keyword |-> m.keyword, type |-> Kind(m.type), year |-> Year(m.year),
               season |-> Season(m.type, m.season), music |-> Music(m.type, m.music)]
      BY KeyFields
    <3>2. n.type = Kind(m.type)
      BY <3>1
    <3> HIDE DEF n
    <3>3. Kind(n.type) # None
      BY <2>1, KeyFields
    <3> QED BY <3>2, <3>3, FormsTwice
  <2>4. n \in Described
    BY <2>2, <2>3, NormalTyped
  <2>5. i.medium = n /\ i.id = id
    OBVIOUS
  <2>6. i \in Items /\ id # "legacy"
    BY <2>4 DEF Items, Ids
  <2>7. Says(k) = k
    BY <2>2 DEF Says
  <2>8. i \in Under(k)
    BY <2>5, <2>6, <2>7 DEF Under
  <2>9. upserts' \in 0..MaxUpserts
    BY <2>1, Bounds DEF RecInv, RecTypes
  <2> HIDE DEF n, i, k
  <2> QED BY <2>1, <2>2, <2>5, <2>6, <2>8, <2>9, Arrives
<1> QED BY <1>1, <1>2

\* A deletion is asked for.
LEMMA RecAsks ==
    ASSUME NEW keys, RecInv(keys), NEW t \in Tasks, NEW k \in DOMAIN store, Recognition!RequestDelete(t, k)
    PROVE  RecInv(keys)'
<1>1. RecTypes(keys) /\ Kept(keys) /\ Traced
  BY DEF RecInv
<1>2. k \in keys
  BY <1>1 DEF RecTypes
<1> DEFINE r == [op |-> "delete", key |-> k, asked |-> k, item |-> None, known |-> FALSE]
<1>3. r \in Reqs(keys) /\ r.op = "delete" /\ r.key = k /\ r.known = FALSE
  BY <1>2 DEF Reqs
<1>4. /\ pc[t] = "idle" /\ req' = [req EXCEPT ![t] = r] /\ got' = [got EXCEPT ![t] = None]
      /\ served' = [served EXCEPT ![t] = None] /\ pc' = [pc EXCEPT ![t] = "delete"]
      /\ deletes < MaxDeletes /\ deletes' = deletes + 1 /\ UNCHANGED <<store, newest, upserts>>
      /\ audit' = [audit EXCEPT !.requested = audit.requested + 1]
  BY DEF Recognition!RequestDelete, Recognition!Begin, Recognition!Goto
<1> HIDE DEF r
<1>5. RecTypes(keys)'
  <2>1. deletes' \in 0..MaxDeletes
    BY <1>1, <1>4, Bounds DEF RecTypes
  <2> QED BY <1>1, <1>3, <1>4, <2>1 DEF RecTypes, RecSteps
<1>6. /\ Others(t) /\ pc'[t] = "delete" /\ req'[t] = r
  BY <1>1, <1>4 DEF RecTypes, Others
<1>7. Traced'
  <2>1. /\ Cardinality(Owing') = Cardinality(Owing) + 1 /\ Cardinality(Owing) \in Nat
    BY <1>4, <1>6, OwingCount DEF Others, Owing
  <2>2. /\ audit' \in [requested : Nat, confirmed : Nat] /\ audit'.confirmed = audit.confirmed
        /\ audit'.requested = audit.requested + 1
    BY <1>1, <1>4 DEF Traced
  <2> QED BY <1>1, <2>1, <2>2 DEF Traced
<1>8. Kept(keys)'
  BY <1>1, <1>4 DEF Kept
<1>9. TaskFits(keys, t)'
  BY <1>2, <1>3, <1>6 DEF TaskFits, Fits
<1> QED BY <1>4, <1>5, <1>6, <1>7, <1>8, <1>9, OneTask

\* _get_item returns a record of the key that was read: a report keeps it, a
\* query answers with it or falls back on the former key.
LEMMA ItemReturns ==
    ASSUME NEW media, NEW keys, Reaches(media, keys), RecInv(keys), NEW t \in Tasks, NEW i \in Items \cup {None},
           Recognition!Returned(t, i), pc[t] \in {"get", "rewrite"}, i # None => i \in Under(req[t].key),
           pc[t] = "rewrite" => i # None,
           req[t].known => i # None /\ i.id # "legacy"
    PROVE  /\ pc' \in [Tasks -> RecSteps] /\ req' \in [Tasks -> Reqs(keys)]
           /\ got' \in [Tasks -> Items \cup {None}] /\ served' \in [Tasks -> Items \cup {None}]
           /\ Others(t) /\ pc'[t] \in {"get", "set", "idle"}
           /\ Fits(keys, pc'[t], req'[t], got'[t], served'[t], newest)
<1>1. RecTypes(keys)
  BY DEF RecInv
<1> DEFINE r == req[t]
<1>2. r \in Reqs(keys) /\ Fits(keys, pc[t], r, got[t], served[t], newest)
  BY <1>1 DEF RecInv, TaskFits, RecTypes
<1>3. CASE r.op = "upsert"
  <2>1. pc' = [pc EXCEPT ![t] = "set"] /\ got' = [got EXCEPT ![t] = i] /\ UNCHANGED <<req, served>>
    BY <1>3 DEF Recognition!Returned, Recognition!Goto
  <2>2. pc'[t] = "set" /\ req'[t] = r /\ got'[t] = i /\ Others(t)
    BY <1>1, <2>1 DEF RecTypes, Others
  <2>3. i \in Under(r.key) \cup {None}
    OBVIOUS
  <2> HIDE DEF r
  <2>4. Fits(keys, pc'[t], req'[t], got'[t], served'[t], newest)
    BY <1>2, <1>3, <2>2, <2>3 DEF Fits
  <2> QED BY <1>1, <2>1, <2>2, <2>4 DEF RecTypes, RecSteps
<1>4. CASE r.op # "upsert" /\ i = None /\ Recognition!Fallback(t)
  <2> DEFINE f == FormerKeyOf(MediumOf(r.asked))
             q == [r EXCEPT !.key = f]
  <2>1. req' = [req EXCEPT ![t].key = f] /\ UNCHANGED <<pc, got, served>>
    BY <1>4 DEF Recognition!Returned, FormerKeyOf, MediumOf
  <2>2. r.op = "query" /\ r.asked[5] = "recording"
    BY <1>4 DEF Recognition!Fallback
  <2>3. pc[t] = "get" /\ ~r.known
    BY <1>4
  <2>4. r.asked \in keys /\ ~Former(r.asked)
    BY <1>2, <2>3 DEF Fits
  <2>5. f \in keys /\ Says(f) = r.asked
    BY <2>2, <2>4 DEF Reaches
  <2>6. req'[t] = q /\ req' = [req EXCEPT ![t] = q]
    BY <1>1, <2>1 DEF RecTypes
  <2> HIDE DEF f
  <2>7. q \in Reqs(keys) /\ q.op = r.op /\ q.key = f /\ q.asked = r.asked /\ q.item = r.item /\ q.known = r.known
    BY <1>2, <2>5 DEF Reqs
  <2> HIDE DEF q
  <2>8. Others(t) /\ req' \in [Tasks -> Reqs(keys)]
    BY <1>1, <2>1, <2>6, <2>7 DEF RecTypes, Others
  <2> HIDE DEF r
  <2>9. Fits(keys, pc'[t], req'[t], got'[t], served'[t], newest)
    BY <1>2, <2>1, <2>2, <2>3, <2>4, <2>5, <2>6, <2>7 DEF Fits
  <2> QED BY <1>1, <2>1, <2>3, <2>8, <2>9 DEF RecTypes
<1>5. CASE r.op # "upsert" /\ ~(i = None /\ Recognition!Fallback(t))
  <2>1. /\ pc' = [pc EXCEPT ![t] = "idle"] /\ served' = [served EXCEPT ![t] = i]
        /\ got' = [got EXCEPT ![t] = None] /\ req' = req
    BY <1>5 DEF Recognition!Returned, Recognition!Goto
  <2>2. pc'[t] = "idle" /\ req'[t] = r /\ served'[t] = i /\ Others(t)
    BY <1>1, <2>1 DEF RecTypes, Others
  <2>3. i # None => KeyOf(i.medium) = r.asked
    BY <1>2 DEF Under, Fits
  <2>4. r.known => i # None /\ i.id # "legacy" /\ r.op = "query"
    BY <1>2 DEF Fits
  <2> HIDE DEF r
  <2>5. Fits(keys, pc'[t], req'[t], got'[t], served'[t], newest)
    BY <2>2, <2>3, <2>4 DEF Fits
  <2> QED BY <1>1, <2>1, <2>2, <2>5 DEF RecTypes, RecSteps
<1> QED BY <1>3, <1>4, <1>5

\* A record is read, and is in the present form or will be rewritten.
LEMMA RecReads ==
    ASSUME NEW media, NEW keys, Reaches(media, keys), RecInv(keys), NEW t \in Tasks, Recognition!Get(t)
    PROVE  RecInv(keys)'
<1>1. RecTypes(keys) /\ Kept(keys) /\ Traced
  BY DEF RecInv
<1> DEFINE k == req[t].key
           i == Recognition!NormalizeItem(store[k])
<1>2. /\ pc[t] = "get" /\ UNCHANGED <<store, newest, upserts, deletes, audit>>
      /\ \/ Recognition!Returned(t, i)
         \/ /\ i # None /\ pc' = [pc EXCEPT ![t] = "rewrite"] /\ got' = [got EXCEPT ![t] = i]
            /\ UNCHANGED <<req, served>>
  BY DEF Recognition!Get, Recognition!Goto
<1>3. TaskFits(keys, t) /\ req[t] \in Reqs(keys)
  BY <1>1 DEF RecInv, RecTypes
<1>4. k \in keys /\ (req[t].known => newest[k] # None)
  BY <1>2, <1>3 DEF TaskFits, Fits
<1>5. store[k] \in Under(k) \cup {None, Unreadable}
  BY <1>1, <1>4 DEF Kept
<1>6. i \in Under(k) \cup {None} /\ (store[k] \in Under(k) => i # None /\ i.id = store[k].id)
  <2>1. CASE store[k] \in Under(k)
    <3>1. i \in Under(k) /\ i.id = store[k].id
      BY <1>4, <1>5, <2>1, NormalItem
    <3>2. i # None
      BY <3>1, TextsAssumption DEF Under
    <3> QED BY <3>1, <3>2
  <2>2. CASE store[k] \notin Under(k)
    BY <1>4, <1>5, <2>2, NormalItem
  <2> QED BY <2>1, <2>2
<1>7. req[t].known => i # None /\ i.id # "legacy"
  BY <1>1, <1>4, <1>6 DEF Kept
<1>8. i \in Items \cup {None}
  BY <1>6 DEF Under
<1> HIDE DEF i
<1>9. CASE Recognition!Returned(t, i)
  <2>1. i # None => i \in Under(req[t].key)
    BY <1>6
  <2>2. pc[t] = "rewrite" => i # None
    BY <1>2
  <2>3. pc[t] \in {"get", "rewrite"}
    BY <1>2
  <2> HIDE DEF k
  <2>4. /\ pc' \in [Tasks -> RecSteps] /\ req' \in [Tasks -> Reqs(keys)]
        /\ got' \in [Tasks -> Items \cup {None}] /\ served' \in [Tasks -> Items \cup {None}]
        /\ Others(t) /\ pc'[t] \in {"get", "set", "idle"}
        /\ Fits(keys, pc'[t], req'[t], got'[t], served'[t], newest)
    BY <1>7, <1>8, <1>9, <2>1, <2>2, <2>3, ItemReturns
  <2>5. RecTypes(keys)' /\ Kept(keys)'
    BY <1>1, <1>2, <2>4 DEF RecTypes, Kept
  <2>6. Traced'
    BY <1>1, <1>2, <2>4, OwesSame
  <2>7. TaskFits(keys, t)'
    BY <1>2, <2>4 DEF TaskFits
  <2> QED BY <1>2, <2>4, <2>5, <2>6, <2>7, OneTask
<1>10. CASE /\ i # None /\ pc' = [pc EXCEPT ![t] = "rewrite"] /\ got' = [got EXCEPT ![t] = i]
            /\ UNCHANGED <<req, served>>
  <2>1. Others(t) /\ pc'[t] = "rewrite" /\ got'[t] = i /\ req'[t] = req[t] /\ served'[t] = served[t]
    BY <1>1, <1>10 DEF RecTypes, Others
  <2>2. RecTypes(keys)' /\ Kept(keys)'
    BY <1>1, <1>2, <1>8, <1>10 DEF RecTypes, Kept, RecSteps
  <2>3. Traced'
    BY <1>1, <1>2, <2>1, OwesSame
  <2>4. i \in Under(req[t].key)
    BY <1>6, <1>10
  <2>5. TaskFits(keys, t)'
    BY <1>2, <1>3, <2>1, <2>4 DEF TaskFits, Fits
  <2> QED BY <1>2, <2>1, <2>2, <2>3, <2>5, OneTask
<1> QED BY <1>2, <1>9, <1>10

\* A record is written under a key that it lies under.
LEMMA RecWritten ==
    ASSUME NEW keys, RecTypes(keys), Kept(keys), NEW k \in keys, NEW i \in Under(k),
           store' = [store EXCEPT ![k] = i], newest' = newest \/ (newest' = [newest EXCEPT ![k] = i.id] /\ i.id \in Ids),
           newest'[k] # None => i.id # "legacy" /\ ~Former(k)
    PROVE  /\ Kept(keys)' /\ store' \in [keys -> Items \cup {None, Unreadable}] /\ newest' \in [keys -> Ids \cup {None}]
           /\ \A j \in keys : newest[j] # None => newest'[j] # None
<1>1. i \in Items
  BY DEF Under
<1>2. store' \in [keys -> Items \cup {None, Unreadable}] /\ newest' \in [keys -> Ids \cup {None}]
  BY <1>1 DEF RecTypes
<1>3. /\ store'[k] = i /\ \A j \in keys : j # k => store'[j] = store[j] /\ newest'[j] = newest[j]
  BY DEF RecTypes
<1>4. ASSUME NEW j \in keys
      PROVE  /\ store'[j] \in Under(j) \cup {None, Unreadable}
             /\ newest'[j] # None => store'[j] \in Under(j) /\ store'[j].id # "legacy" /\ ~Former(j)
  <2>1. CASE j = k
    BY <1>3, <2>1
  <2>2. CASE j # k
    BY <1>3, <2>2 DEF Kept
  <2> QED BY <2>1, <2>2
<1>5. \A j \in keys : newest[j] # None => newest'[j] # None
  <2>1. newest[k] # None => newest'[k] # None
    BY TextsAssumption DEF RecTypes
  <2> QED BY <1>3, <2>1
<1> QED BY <1>2, <1>4, <1>5 DEF Kept

\* The rewrite puts back what was read, in the present form.
LEMMA RecRewrites ==
    ASSUME NEW media, NEW keys, Reaches(media, keys), RecInv(keys), NEW t \in Tasks, Recognition!Rewrite(t)
    PROVE  RecInv(keys)'
<1>1. RecTypes(keys) /\ Kept(keys) /\ Traced
  BY DEF RecInv
<1> DEFINE k == req[t].key
           i == got[t]
<1>2. /\ pc[t] = "rewrite" /\ UNCHANGED <<newest, upserts, deletes, audit>>
      /\ store' = [store EXCEPT ![k] = i] /\ Recognition!Returned(t, i)
  BY DEF Recognition!Rewrite
<1>3. TaskFits(keys, t) /\ req[t] \in Reqs(keys)
  BY <1>1 DEF RecInv, RecTypes
<1>4. k \in keys /\ i \in Under(k) /\ (req[t].known => newest[k] # None)
  BY <1>2, <1>3 DEF TaskFits, Fits
<1>5. i \in Items \cup {None} /\ i # None
  BY <1>4, TextsAssumption DEF Under
<1>6. newest[k] # None => i.id # "legacy" /\ ~Former(k)
  BY <1>1, <1>4 DEF Kept, Under
<1> HIDE DEF k, i
<1>7. /\ Kept(keys)' /\ store' \in [keys -> Items \cup {None, Unreadable}]
      /\ \A j \in keys : newest[j] # None => newest'[j] # None
  BY <1>1, <1>2, <1>4, <1>6, RecWritten
<1>8. /\ i \in Under(req[t].key) /\ pc[t] \in {"get", "rewrite"}
      /\ (req[t].known => i # None /\ i.id # "legacy")
  BY <1>2, <1>4, <1>5, <1>6 DEF k
<1>9. /\ pc' \in [Tasks -> RecSteps] /\ req' \in [Tasks -> Reqs(keys)]
      /\ got' \in [Tasks -> Items \cup {None}] /\ served' \in [Tasks -> Items \cup {None}]
      /\ Others(t) /\ pc'[t] \in {"get", "set", "idle"}
      /\ Fits(keys, pc'[t], req'[t], got'[t], served'[t], newest)
  BY <1>2, <1>5, <1>8, ItemReturns
<1>10. RecTypes(keys)'
  BY <1>1, <1>2, <1>7, <1>9 DEF RecTypes
<1>11. Traced'
  BY <1>1, <1>2, <1>9, OwesSame
<1>12. TaskFits(keys, t)'
  BY <1>2, <1>9 DEF TaskFits
<1> QED BY <1>7, <1>9, <1>10, <1>11, <1>12, OneTask

\* A report is merged into what was read.
LEMMA RecMerges ==
    ASSUME NEW keys, RecInv(keys), NEW t \in Tasks, Recognition!Set(t)
    PROVE  RecInv(keys)'
<1>1. RecTypes(keys) /\ Kept(keys) /\ Traced
  BY DEF RecInv
<1> DEFINE r == req[t]
           k == r.key
           i == r.item
           g == got[t]
           j == Recognition!Merge(g, i)
<1>2. /\ pc[t] = "set" /\ UNCHANGED <<served, upserts, deletes, audit>>
      /\ store' = [store EXCEPT ![k] = j] /\ newest' = [newest EXCEPT ![k] = i.id]
      /\ pc' = [pc EXCEPT ![t] = "idle"] /\ req' = [req EXCEPT ![t] = Recognition!NoRequest]
      /\ got' = [got EXCEPT ![t] = None]
  BY DEF Recognition!Set, Recognition!Goto
<1>3. TaskFits(keys, t) /\ r \in Reqs(keys)
  BY <1>1 DEF RecInv, RecTypes
<1>4. k \in keys /\ ~Former(k) /\ i \in Under(k) /\ i.id \in Ids /\ g \in Under(k) \cup {None}
  BY <1>2, <1>3 DEF TaskFits, Fits
<1>5. j \in Items /\ j.medium = i.medium /\ j.id = i.id
  <2>1. i \in Items
    BY <1>4 DEF Under
  <2>2. g # None => g.title \in Titles \cup {None}
    BY <1>4 DEF Under, Items
  <2> HIDE DEF i, g
  <2>3. CASE g = None
    BY <2>1, <2>3 DEF Recognition!Merge, Items
  <2>4. CASE g # None
    BY <2>1, <2>2, <2>4 DEF Recognition!Merge, Items
  <2> QED BY <2>3, <2>4
<1> HIDE DEF r, k, i, g, j
<1>6. j \in Under(k) /\ j.id \in Ids /\ j.id # "legacy" /\ newest' = [newest EXCEPT ![k] = j.id]
  BY <1>2, <1>4, <1>5 DEF Under, Ids
<1>7. newest'[k] # None => j.id # "legacy" /\ ~Former(k)
  BY <1>4, <1>6
<1>8. /\ Kept(keys)' /\ store' \in [keys -> Items \cup {None, Unreadable}] /\ newest' \in [keys -> Ids \cup {None}]
      /\ \A l \in keys : newest[l] # None => newest'[l] # None
  BY <1>1, <1>2, <1>4, <1>6, <1>7, RecWritten
<1>9. /\ Recognition!NoRequest \in Reqs(keys) /\ Recognition!NoRequest.op = "none"
      /\ Recognition!NoRequest.known = FALSE
  BY DEF Recognition!NoRequest, Reqs
<1>10. RecTypes(keys)'
  BY <1>1, <1>2, <1>8, <1>9 DEF RecTypes, RecSteps
<1>11. Others(t) /\ pc'[t] = "idle" /\ req'[t] = Recognition!NoRequest
  BY <1>1, <1>2 DEF RecTypes, Others
<1>12. Traced'
  BY <1>1, <1>2, <1>11, OwesSame
<1>13. TaskFits(keys, t)'
  BY <1>9, <1>11 DEF TaskFits, Fits
<1> QED BY <1>8, <1>10, <1>11, <1>12, <1>13, OneTask

\* A record is deleted, and no query that is under way counts on it any more.
LEMMA RecDeletes ==
    ASSUME NEW keys, RecInv(keys), NEW t \in Tasks, Recognition!Delete(t)
    PROVE  RecInv(keys)'
<1>1. RecTypes(keys) /\ Kept(keys) /\ Traced
  BY DEF RecInv
<1> DEFINE k == req[t].key
           step == IF store[k] = None THEN "idle" ELSE "confirm"
<1>2. /\ pc[t] = "delete" /\ UNCHANGED <<got, served, upserts, deletes, audit>>
      /\ pc' = [pc EXCEPT ![t] = step] /\ store' = [store EXCEPT ![k] = None] /\ newest' = [newest EXCEPT ![k] = None]
      /\ req' = [u \in Tasks |-> IF req[u].key = k \/ req[u].asked = k THEN [req[u] EXCEPT !.known = FALSE] ELSE req[u]]
  BY DEF Recognition!Delete, Recognition!Goto
<1>3. TaskFits(keys, t) /\ req[t] \in Reqs(keys)
  BY <1>1 DEF RecInv, RecTypes
<1>4. k \in keys /\ req[t].op = "delete" /\ step \in {"idle", "confirm"}
  BY <1>2, <1>3 DEF TaskFits, Fits
<1> HIDE DEF k, step
<1>5. ASSUME NEW u \in Tasks
      PROVE  /\ req'[u] \in Reqs(keys) /\ req'[u].op = req[u].op /\ req'[u].key = req[u].key
             /\ req'[u].asked = req[u].asked /\ req'[u].item = req[u].item
             /\ req'[u].known => req[u].known /\ req[u].asked # k
  <2> DEFINE r == req[u]
             q == [r EXCEPT !.known = FALSE]
  <2>1. r \in Reqs(keys)
    BY <1>1 DEF RecTypes
  <2>2. req'[u] = IF r.key = k \/ r.asked = k THEN q ELSE r
    BY <1>2
  <2> HIDE DEF r
  <2>3. q \in Reqs(keys) /\ q.op = r.op /\ q.key = r.key /\ q.asked = r.asked /\ q.item = r.item /\ q.known = FALSE
    BY <2>1 DEF Reqs
  <2> HIDE DEF q
  <2>4. CASE r.key = k \/ r.asked = k
    BY <2>2, <2>3, <2>4 DEF r
  <2>5. CASE ~(r.key = k \/ r.asked = k)
    BY <2>1, <2>2, <2>5 DEF r
  <2> QED BY <2>4, <2>5
<1>6. req' \in [Tasks -> Reqs(keys)]
  BY <1>2, <1>5
<1>7. RecTypes(keys)'
  BY <1>1, <1>2, <1>4, <1>6 DEF RecTypes, RecSteps
<1>8. Kept(keys)'
  BY <1>1, <1>2, <1>4 DEF Kept, RecTypes
<1>9. Traced'
  <2>1. \A u \in Tasks : u # t => pc'[u] = pc[u]
    BY <1>1, <1>2 DEF RecTypes
  <2>2. pc'[t] = step /\ t \in Owing
    BY <1>1, <1>2 DEF RecTypes, Owing
  <2>3. Cardinality(Owing') <= Cardinality(Owing) /\ Cardinality(Owing') \in Nat /\ Cardinality(Owing) \in Nat
    BY <2>1, <2>2, OwingCount
  <2> QED BY <1>1, <1>2, <2>3 DEF Traced
<1>10. ASSUME NEW u \in Tasks PROVE TaskFits(keys, u)'
  <2>1. got'[u] = got[u] /\ served'[u] = served[u] /\ Fits(keys, pc[u], req[u], got[u], served[u], newest)
    BY <1>2 DEF RecInv, TaskFits
  <2>2. CASE u = t
    <3>1. pc'[u] = step /\ req'[u].op = "delete" /\ ~req'[u].known
      <4>1. ~req[t].known
        BY <1>3, <1>4 DEF TaskFits, Fits
      <4>2. pc'[t] = step
        BY <1>1, <1>2 DEF RecTypes
      <4>3. req'[u].op = "delete"
        BY <1>4, <1>5, <2>2
      <4>4. ~req'[u].known
        BY <1>5, <2>2, <4>1, Zenon
      <4> QED BY <2>2, <4>2, <4>3, <4>4
    <3> QED BY <1>4, <3>1 DEF TaskFits, Fits
  <2>3. CASE u # t
    <3>1. pc'[u] = pc[u]
      BY <1>1, <1>2, <2>3 DEF RecTypes
    <3>2. req[u].asked \in keys /\ req[u].asked # k => newest'[req[u].asked] = newest[req[u].asked]
      BY <1>1, <1>2 DEF RecTypes
    <3> QED BY <1>5, <2>1, <3>1, <3>2 DEF TaskFits, Fits
  <2> QED BY <2>2, <2>3
<1> QED BY <1>7, <1>8, <1>9, <1>10 DEF RecInv

\* The deletion is confirmed, or the second commit fails.
LEMMA RecConfirms ==
    ASSUME NEW keys, RecInv(keys), NEW t \in Tasks, Recognition!Confirm(t)
    PROVE  RecInv(keys)'
<1>1. RecTypes(keys) /\ Kept(keys) /\ Traced
  BY DEF RecInv
<1>2. /\ pc[t] = "confirm" /\ UNCHANGED <<store, newest, req, got, served, upserts, deletes>>
      /\ pc' = [pc EXCEPT ![t] = "idle"]
      /\ audit' = [audit EXCEPT !.confirmed = audit.confirmed + 1] \/ audit' = audit
  BY DEF Recognition!Confirm, Recognition!Goto
<1>3. Others(t) /\ pc'[t] = "idle"
  BY <1>1, <1>2 DEF RecTypes, Others
<1>4. RecTypes(keys)' /\ Kept(keys)'
  BY <1>1, <1>2 DEF RecTypes, RecSteps, Kept
<1>5. Traced'
  <2>1. /\ Cardinality(Owing') = Cardinality(Owing) - 1
        /\ Cardinality(Owing') \in Nat /\ Cardinality(Owing) \in Nat
    BY <1>2, <1>3, OwingCount DEF Others, Owing
  <2>2. /\ audit' \in [requested : Nat, confirmed : Nat] /\ audit'.requested = audit.requested
        /\ audit'.confirmed <= audit.confirmed + 1
    BY <1>1, <1>2 DEF Traced
  <2> QED BY <1>1, <2>1, <2>2 DEF Traced
<1>6. TaskFits(keys, t)'
  <2>1. TaskFits(keys, t)
    BY DEF RecInv
  <2> QED BY <1>2, <1>3, <2>1 DEF TaskFits, Fits
<1> QED BY <1>2, <1>3, <1>4, <1>5, <1>6, OneTask

\* Where the records start from: those of the former scheme, and old ones.
LEMMA RecInit ==
    ASSUME NEW media, NEW exact, NEW legacy, Reaches(media, exact \cup legacy),
           \A k \in legacy : Former(k), \A k \in exact : ~Former(k),
           \E stale \in {None, Unreadable, "old"} :
              store = [k \in exact \cup legacy |->
                          IF k \in legacy THEN Recognition!Record(MediumOf(k), "legacy", None, FALSE)
                          ELSE IF stale = "old" THEN Recognition!Record(MediumOf(k), "old", None, FALSE)
                          ELSE stale],
           newest = [k \in exact \cup legacy |-> None],
           pc = [t \in Tasks |-> "idle"], req = [t \in Tasks |-> Recognition!NoRequest],
           got = [t \in Tasks |-> None], served = [t \in Tasks |-> None],
           upserts = 0, deletes = 0, audit = [requested |-> 0, confirmed |-> 0]
    PROVE  RecInv(exact \cup legacy)
<1> DEFINE keys == exact \cup legacy
<1>1. ASSUME NEW k \in keys, NEW id \in {"legacy", "old"}, id = "legacy" => Former(k)
      PROVE  Recognition!Record(MediumOf(k), id, None, FALSE) \in Under(k)
  <2> DEFINE i == [medium |-> MediumOf(k), id |-> id, title |-> None, complete |-> FALSE]
  <2>1. MediumOf(k) \in Described /\ KeyOf(MediumOf(k)) = Says(k)
    BY DEF Reaches
  <2>2. i \in Items /\ i.medium = MediumOf(k) /\ i.id = id
    BY <2>1 DEF Items
  <2>3. i = Recognition!Record(MediumOf(k), id, None, FALSE)
    BY DEF Recognition!Record
  <2> HIDE DEF i
  <2>4. i \in Under(k)
    BY <1>1, <2>1, <2>2 DEF Under
  <2> QED BY <2>3, <2>4
<1>2. /\ DOMAIN store = keys /\ store = [k \in keys |-> store[k]]
      /\ \A k \in keys : store[k] \in Under(k) \cup {None, Unreadable}
  <2>1. PICK stale \in {None, Unreadable, "old"} :
           store = [k \in keys |-> IF k \in legacy THEN Recognition!Record(MediumOf(k), "legacy", None, FALSE)
                                   ELSE IF stale = "old" THEN Recognition!Record(MediumOf(k), "old", None, FALSE)
                                   ELSE stale]
    OBVIOUS
  <2>2. ASSUME NEW k \in keys PROVE store[k] \in Under(k) \cup {None, Unreadable}
    <3>1. CASE k \in legacy
      BY <1>1, <2>1, <3>1
    <3>2. CASE k \notin legacy /\ stale = "old"
      BY <1>1, <2>1, <3>2
    <3>3. CASE k \notin legacy /\ stale # "old"
      BY <2>1, <3>3
    <3> QED BY <3>1, <3>2, <3>3
  <2> HIDE DEF keys
  <2> QED BY <2>1, <2>2
<1>3. store \in [keys -> Items \cup {None, Unreadable}]
  BY <1>2 DEF Under
<1>4. /\ Recognition!NoRequest \in Reqs(keys) /\ Recognition!NoRequest.op = "none"
      /\ Recognition!NoRequest.known = FALSE
  BY DEF Recognition!NoRequest, Reqs
<1>5. \A k \in keys : newest[k] = None
  OBVIOUS
<1> HIDE DEF keys
<1>6. RecTypes(keys)
  <2>1. newest \in [keys -> Ids \cup {None}]
    BY DEF keys
  <2>2. upserts \in 0..MaxUpserts /\ deletes \in 0..MaxDeletes
    BY Bounds
  <2>3. /\ pc \in [Tasks -> RecSteps] /\ req \in [Tasks -> Reqs(keys)]
        /\ got \in [Tasks -> Items \cup {None}] /\ served \in [Tasks -> Items \cup {None}]
    BY <1>4 DEF RecSteps
  <2> QED BY <1>3, <2>1, <2>2, <2>3 DEF RecTypes
<1>7. Kept(keys)
  BY <1>2, <1>5 DEF Kept
<1>8. Traced
  <2>1. Owing = {}
    BY DEF Owing
  <2> QED BY <2>1, FS_EmptySet DEF Traced
<1>9. \A t \in Tasks : TaskFits(keys, t)
  BY <1>4 DEF TaskFits, Fits
<1> QED BY <1>6, <1>7, <1>8, <1>9 DEF RecInv, keys

\* A step of a task, in which some media are asked for.
RecStep(media) ==
    \E t \in Tasks :
       \/ \E m \in media : Recognition!Query(t, m)
                          \/ \E id \in Ids, title \in Titles : Recognition!Upsert(t, m, id, title)
       \/ \E k \in DOMAIN store : Recognition!RequestDelete(t, k)
       \/ Recognition!Get(t) \/ Recognition!Rewrite(t) \/ Recognition!Set(t) \/ Recognition!Delete(t)
       \/ Recognition!Confirm(t)

\* The invariant is inductive.
LEMMA RecKept ==
    ASSUME NEW media, NEW keys, Reaches(media, keys), RecInv(keys), RecStep(media)
    PROVE  RecInv(keys)'
BY RecArrives, RecAsks, RecReads, RecRewrites, RecMerges, RecDeletes, RecConfirms DEF RecStep

\* A step of another component changes nothing here.
LEMMA RecStutter ==
    ASSUME NEW keys, RecInv(keys), UNCHANGED <<store, newest, pc, req, got, served, upserts, deletes, audit>>
    PROVE  RecInv(keys)'
<1>1. Owing' = Owing
  BY DEF Owing
<1> QED BY <1>1 DEF RecInv, RecTypes, Kept, Traced, TaskFits

\* What the invariant says of the properties.
LEMMA RecFits ==
    ASSUME NEW keys, RecInv(keys)
    PROVE  Recognition!TypeOK /\ Recognition!KnownIsServed /\ Recognition!AnswerFits
<1>1. RecTypes(keys)
  BY DEF RecInv
<1>2. \A i \in Items : Recognition!IsRecord(i)
  BY DEF Items, Recognition!IsRecord, Recognition!Record
<1>3. Recognition!TypeOK
  <2>1. DOMAIN store = keys /\ \A k \in keys : store[k] \in {None, Unreadable} \/ Recognition!IsRecord(store[k])
    BY <1>1, <1>2 DEF RecTypes
  <2>2. \A k \in keys : newest[k] \in Ids \cup {None}
    BY <1>1 DEF RecTypes
  <2>3. pc \in [Tasks -> {"idle", "get", "rewrite", "set", "delete", "confirm"}]
    BY <1>1 DEF RecTypes, RecSteps
  <2>4. \A t \in Tasks : \A i \in {got[t], served[t]} : i = None \/ Recognition!IsRecord(i)
    BY <1>1, <1>2 DEF RecTypes
  <2>5. \A t \in Tasks : req[t].key \in keys \cup {None}
    BY <1>1 DEF RecTypes, Reqs
  <2>6. upserts \in 0..MaxUpserts /\ deletes \in 0..MaxDeletes
    BY <1>1 DEF RecTypes
  <2> QED BY <2>1, <2>2, <2>3, <2>4, <2>5, <2>6 DEF Recognition!TypeOK
<1>4. Recognition!KnownIsServed /\ Recognition!AnswerFits
  BY DEF RecInv, TaskFits, Fits, Recognition!KnownIsServed, Recognition!AnswerFits, Recognition!Answered, KeyOf
<1> QED BY <1>3, <1>4

\* A deletion has its intent on record before it takes place.
LEMMA RecTraced ==
    ASSUME NEW media, NEW keys, Reaches(media, keys), RecInv(keys), RecStep(media)
    PROVE  Recognition!TracedDeletion
<1>1. RecTypes(keys) /\ Kept(keys) /\ Traced
  BY DEF RecInv
<1>2. audit.requested \in Nat /\ audit.confirmed \in Nat /\ audit.confirmed + Cardinality(Owing) <= audit.requested
  BY <1>1 DEF Traced
<1>3. Cardinality(Owing) \in Nat /\ \A t \in Owing : Cardinality(Owing) >= 1
  <2>1. IsFiniteSet(Owing)
    BY BoundsAssumption, FS_Subset DEF Owing
  <2> QED BY <2>1, FS_CardinalityType, FS_EmptySet
<1>4. PICK t \in Tasks :
       \/ \E m \in media : Recognition!Query(t, m)
                          \/ \E id \in Ids, title \in Titles : Recognition!Upsert(t, m, id, title)
       \/ \E k \in DOMAIN store : Recognition!RequestDelete(t, k)
       \/ Recognition!Get(t) \/ Recognition!Rewrite(t) \/ Recognition!Set(t) \/ Recognition!Delete(t)
       \/ Recognition!Confirm(t)
  BY DEF RecStep
<1>5. CASE Recognition!Delete(t)
  <2>1. t \in Owing /\ audit' = audit
    BY <1>5 DEF Recognition!Delete, Owing
  <2> QED BY <1>2, <1>3, <2>1 DEF Recognition!TracedDeletion
<1>6. CASE Recognition!Confirm(t)
  <2>1. t \in Owing /\ store' = store
    BY <1>6 DEF Recognition!Confirm, Owing
  <2>2. audit'.confirmed <= audit.confirmed + 1
    <3>1. audit' = [audit EXCEPT !.confirmed = audit.confirmed + 1] \/ audit' = audit
      BY <1>6 DEF Recognition!Confirm
    <3> QED BY <1>1, <3>1 DEF Traced
  <2>3. audit'.confirmed <= audit.requested
    <3>1. audit'.confirmed \in Nat
      <4>1. RecInv(keys)'
        BY RecKept
      <4> QED BY <4>1 DEF RecInv, Traced
    <3> QED BY <1>2, <1>3, <2>1, <2>2, <3>1
  <2> QED BY <2>1, <2>3 DEF Recognition!TracedDeletion
<1>7. CASE Recognition!Rewrite(t) \/ Recognition!Set(t)
  <2>1. TaskFits(keys, t)
    BY DEF RecInv
  <2>2. PICK k, i : store' = [store EXCEPT ![k] = i] /\ k \in keys /\ i # None /\ audit' = audit
    <3>1. CASE Recognition!Rewrite(t)
      <4>1. /\ pc[t] = "rewrite" /\ store' = [store EXCEPT ![req[t].key] = got[t]] /\ audit' = audit
        BY <3>1 DEF Recognition!Rewrite
      <4>2. req[t].key \in keys /\ got[t] \in Under(req[t].key)
        BY <2>1, <4>1 DEF TaskFits, Fits
      <4>3. got[t] # None
        BY <4>2, TextsAssumption DEF Under
      <4> QED BY <4>1, <4>2, <4>3
    <3>2. CASE Recognition!Set(t)
      <4> DEFINE i == Recognition!Merge(got[t], req[t].item)
      <4>1. pc[t] = "set" /\ store' = [store EXCEPT ![req[t].key] = i] /\ audit' = audit
        BY <3>2 DEF Recognition!Set
      <4>2. req[t].key \in keys
        BY <2>1, <4>1 DEF TaskFits, Fits
      <4>3. i # None
        <5>1. RecInv(keys)'
          BY RecKept
        <5>2. newest' = [newest EXCEPT ![req[t].key] = req[t].item.id] /\ req[t].item.id \in Ids
          BY <2>1, <3>2, <4>1 DEF Recognition!Set, TaskFits, Fits
        <5>3. newest'[req[t].key] # None
          BY <1>1, <4>2, <5>2, TextsAssumption DEF RecTypes
        <5>4. \A k \in keys : newest'[k] # None => store'[k] \in Items
          BY <5>1 DEF RecInv, Kept, Under
        <5>5. store'[req[t].key] \in Items
          BY <4>2, <5>3, <5>4
        <5>6. store'[req[t].key] = i
          BY <1>1, <4>1, <4>2 DEF RecTypes
        <5> QED BY <5>5, <5>6, TextsAssumption
      <4> QED BY <4>1, <4>2, <4>3
    <3> QED BY <1>7, <3>1, <3>2
  <2>3. \A k2 \in DOMAIN store : store[k2] # None => store'[k2] # None
    BY <1>1, <2>2 DEF RecTypes
  <2>4. audit'.confirmed <= audit.requested
    BY <1>2, <1>3, <2>2
  <2> QED BY <2>3, <2>4 DEF Recognition!TracedDeletion
<1>8. CASE \/ \E m \in media : Recognition!Query(t, m)
                               \/ \E id \in Ids, title \in Titles : Recognition!Upsert(t, m, id, title)
           \/ \E k \in DOMAIN store : Recognition!RequestDelete(t, k)
           \/ Recognition!Get(t)
  <2>1. store' = store
    BY <1>8 DEF Recognition!Query, Recognition!Upsert, Recognition!RequestDelete, Recognition!Get
  <2>2. audit' = audit \/ audit' = [audit EXCEPT !.requested = audit.requested + 1]
    BY <1>8 DEF Recognition!Query, Recognition!Upsert, Recognition!RequestDelete, Recognition!Get
  <2>3. audit'.confirmed = audit.confirmed
    BY <1>1, <2>2 DEF Traced
  <2>4. audit'.confirmed <= audit.requested
    BY <1>2, <1>3, <2>3
  <2> QED BY <2>1, <2>4 DEF Recognition!TracedDeletion
<1> QED BY <1>4, <1>5, <1>6, <1>7, <1>8

\* The steps of the series are those of recognition.
LEMMA SeriesSteps ==
    ASSUME NEW t
    PROVE  /\ \A m : Series!Query(t, m) => Recognition!Query(t, m)
           /\ \A m, id, title : Series!Upsert(t, m, id, title) => Recognition!Upsert(t, m, id, title)
           /\ \A k : Series!RequestDelete(t, k) => Recognition!RequestDelete(t, k)
           /\ Series!Get(t) => Recognition!Get(t)
           /\ Series!Rewrite(t) => Recognition!Rewrite(t)
           /\ Series!Set(t) => Recognition!Set(t)
           /\ Series!Delete(t) => Recognition!Delete(t)
           /\ Series!Confirm(t) => Recognition!Confirm(t)
<1>1. \A s : Series!Goto(t, s) <=> Recognition!Goto(t, s)
  BY DEF Series!Goto, Recognition!Goto
<1>2. \A op, k, a, i, known : Series!Begin(t, op, k, a, i, known) <=> Recognition!Begin(t, op, k, a, i, known)
  BY DEF Series!Begin, Recognition!Begin
<1>3. \A m, id, title, c : Series!Record(m, id, title, c) = Recognition!Record(m, id, title, c)
  BY DEF Series!Record, Recognition!Record
<1>4. \A m : Series!Query(t, m) => Recognition!Query(t, m)
  BY <1>1, <1>2, SeriesAlike DEF Series!Query, Recognition!Query
<1>5. \A m, id, title : Series!Upsert(t, m, id, title) => Recognition!Upsert(t, m, id, title)
  BY ZenonT(30), <1>1, <1>2, <1>3, SeriesAlike DEF Series!Upsert, Recognition!Upsert
<1>6. \A k : Series!RequestDelete(t, k) => Recognition!RequestDelete(t, k)
  BY <1>1, <1>2 DEF Series!RequestDelete, Recognition!RequestDelete
<1>7. \A i : Series!NormalizeItem(i) = Recognition!NormalizeItem(i)
  BY <1>3, SeriesAlike DEF Series!NormalizeItem, Recognition!NormalizeItem
<1>8. \A i : Series!Returned(t, i) <=> Recognition!Returned(t, i)
  <2>1. Series!Fallback(t) <=> Recognition!Fallback(t)
    BY DEF Series!Fallback, Recognition!Fallback
  <2> QED BY <1>1, <2>1, SeriesAlike DEF Series!Returned, Recognition!Returned
<1>9. Series!Get(t) => Recognition!Get(t)
  BY <1>1, <1>7, <1>8 DEF Series!Get, Recognition!Get
<1>10. Series!Rewrite(t) => Recognition!Rewrite(t)
  BY <1>8 DEF Series!Rewrite, Recognition!Rewrite
<1>11. Series!Set(t) => Recognition!Set(t)
  <2>1. \A g, i : Series!Merge(g, i) = Recognition!Merge(g, i)
    BY DEF Series!Merge, Recognition!Merge
  <2>2. Series!NoRequest = Recognition!NoRequest
    BY DEF Series!NoRequest, Recognition!NoRequest
  <2> QED BY <1>1, <2>1, <2>2 DEF Series!Set, Recognition!Set
<1>12. (Series!Delete(t) => Recognition!Delete(t)) /\ (Series!Confirm(t) => Recognition!Confirm(t))
  BY <1>1 DEF Series!Delete, Recognition!Delete, Series!Confirm, Recognition!Confirm
<1> QED BY <1>4, <1>5, <1>6, <1>9, <1>10, <1>11, <1>12

\* Both parts of the interface that recognise start with the invariant and step so.
LEMMA RecBegins ==
    /\ Recognition!Init => RecInv({TheSong("recording"), TheSong("album"), TheSong(None)})
    /\ Series!Init => RecInv({TheShow})
    /\ Recognition!Next => RecStep(Media)
    /\ Series!Next => RecStep(TheSeries)
<1>1. /\ Recognition!Exact = {TheSong("recording"), TheSong("album")} /\ Recognition!Legacy = {TheSong(None)}
      /\ Series!Exact = {TheShow} /\ Series!Legacy = {}
      /\ Reaches(Media, {TheSong("recording"), TheSong("album"), TheSong(None)}) /\ Reaches(TheSeries, {TheShow})
  BY KeysReached
<1>2. /\ Former(TheSong(None)) /\ ~Former(TheSong("recording")) /\ ~Former(TheSong("album")) /\ ~Former(TheShow)
  <2>1. "recording" # None /\ "album" # None
    BY TextsAssumption DEF Texts
  <2> QED BY <2>1 DEF TheSong, TheShow, Former
<1>3. Recognition!Init => RecInv({TheSong("recording"), TheSong("album"), TheSong(None)})
  <2> SUFFICES ASSUME Recognition!Init PROVE RecInv({TheSong("recording"), TheSong("album"), TheSong(None)})
    OBVIOUS
  <2> DEFINE exact == Recognition!Exact
             legacy == Recognition!Legacy
  <2>1. exact \cup legacy = {TheSong("recording"), TheSong("album"), TheSong(None)}
    BY <1>1
  <2>2. (\A k \in legacy : Former(k)) /\ (\A k \in exact : ~Former(k)) /\ Reaches(Media, exact \cup legacy)
    BY <1>1, <1>2, <2>1
  <2>3. /\ \E stale \in {None, Unreadable, "old"} :
              store = [k \in exact \cup legacy |->
                          IF k \in legacy THEN Recognition!Record(MediumOf(k), "legacy", None, FALSE)
                          ELSE IF stale = "old" THEN Recognition!Record(MediumOf(k), "old", None, FALSE)
                          ELSE stale]
        /\ newest = [k \in exact \cup legacy |-> None]
        /\ pc = [t \in Tasks |-> "idle"] /\ req = [t \in Tasks |-> Recognition!NoRequest]
        /\ got = [t \in Tasks |-> None] /\ served = [t \in Tasks |-> None]
        /\ upserts = 0 /\ deletes = 0 /\ audit = [requested |-> 0, confirmed |-> 0]
    BY DEF Recognition!Init, MediumOf
  <2> HIDE DEF exact, legacy
  <2>4. RecInv(exact \cup legacy)
    BY <2>2, <2>3, RecInit
  <2> QED BY <2>1, <2>4
<1>4. Series!Init => RecInv({TheShow})
  <2> SUFFICES ASSUME Series!Init PROVE RecInv({TheShow})
    OBVIOUS
  <2> DEFINE exact == Series!Exact
             legacy == Series!Legacy
  <2>1. exact \cup legacy = {TheShow}
    BY <1>1
  <2>2. (\A k \in legacy : Former(k)) /\ (\A k \in exact : ~Former(k)) /\ Reaches(TheSeries, exact \cup legacy)
    BY <1>1, <1>2, <2>1
  <2>3. /\ \E stale \in {None, Unreadable, "old"} :
              store = [k \in exact \cup legacy |->
                          IF k \in legacy THEN Recognition!Record(MediumOf(k), "legacy", None, FALSE)
                          ELSE IF stale = "old" THEN Recognition!Record(MediumOf(k), "old", None, FALSE)
                          ELSE stale]
        /\ newest = [k \in exact \cup legacy |-> None]
        /\ pc = [t \in Tasks |-> "idle"] /\ req = [t \in Tasks |-> Recognition!NoRequest]
        /\ got = [t \in Tasks |-> None] /\ served = [t \in Tasks |-> None]
        /\ upserts = 0 /\ deletes = 0 /\ audit = [requested |-> 0, confirmed |-> 0]
    BY DEF Series!Init, MediumOf, Series!OldMedium, Recognition!OldMedium, Series!Record, Recognition!Record,
           Series!NoRequest, Recognition!NoRequest
  <2> HIDE DEF exact, legacy
  <2>4. RecInv(exact \cup legacy)
    BY <2>2, <2>3, RecInit
  <2> QED BY <2>1, <2>4
<1>5. Recognition!Next => RecStep(Media)
  BY DEF Recognition!Next, RecStep
<1>6. Series!Next => RecStep(TheSeries)
  BY SeriesSteps DEF Series!Next, RecStep
<1> QED BY <1>3, <1>4, <1>5, <1>6

\* What the part about the series has to show is the same as well.
LEMMA SeriesSays ==
    /\ Series!TypeOK <=> Recognition!TypeOK
    /\ Series!KnownIsServed <=> Recognition!KnownIsServed
    /\ Series!AnswerFits <=> Recognition!AnswerFits
    /\ Series!TracedDeletion <=> Recognition!TracedDeletion
<1>1. \A i : Series!IsRecord(i) <=> Recognition!IsRecord(i)
  BY DEF Series!IsRecord, Recognition!IsRecord, Series!Record, Recognition!Record
<1>2. Series!TypeOK <=> Recognition!TypeOK
  BY <1>1 DEF Series!TypeOK, Recognition!TypeOK
<1>3. \A t : Series!Answered(t) <=> Recognition!Answered(t)
  BY DEF Series!Answered, Recognition!Answered
<1>4. /\ Series!KnownIsServed <=> Recognition!KnownIsServed
      /\ Series!AnswerFits <=> Recognition!AnswerFits
  BY <1>3, SeriesAlike DEF Series!KnownIsServed, Recognition!KnownIsServed, Series!AnswerFits, Recognition!AnswerFits
<1>5. Series!TracedDeletion <=> Recognition!TracedDeletion
  BY DEF Series!TracedDeletion, Recognition!TracedDeletion
<1> QED BY <1>2, <1>4, <1>5

\* The invariant of whichever part recognises.
RecognitionInv ==
    /\ part = "recognition" => RecInv({TheSong("recording"), TheSong("album"), TheSong(None)})
    /\ part = "series" => RecInv({TheShow})

\* The two parts of the interface that recognise keep their invariant.
LEMMA RecognitionKept == Spec => []RecognitionInv
<1>1. Init => RecognitionInv
  BY RecBegins DEF Init, RecognitionInv
<1>2. RecognitionInv /\ [Next]_vars => RecognitionInv'
  <2> SUFFICES ASSUME RecognitionInv, [Next]_vars PROVE RecognitionInv'
    OBVIOUS
  <2>1. part' = part
    BY DEF Next, vars
  <2>2. CASE part = "recognition"
    <3>1. Recognition!Next \/ UNCHANGED <<store, newest, pc, req, got, served, upserts, deletes, audit>>
      BY <2>2 DEF Next, vars
    <3>2. RecInv({TheSong("recording"), TheSong("album"), TheSong(None)})'
      BY <2>2, <3>1, KeysReached, RecBegins, RecKept, RecStutter DEF RecognitionInv
    <3> QED BY <2>1, <2>2, <3>2 DEF RecognitionInv
  <2>3. CASE part = "series"
    <3>1. Series!Next \/ UNCHANGED <<store, newest, pc, req, got, served, upserts, deletes, audit>>
      BY <2>3 DEF Next, vars
    <3>2. RecInv({TheShow})'
      BY <2>3, <3>1, KeysReached, RecBegins, RecKept, RecStutter DEF RecognitionInv
    <3> QED BY <2>1, <2>3, <3>2 DEF RecognitionInv
  <2>4. CASE part # "recognition" /\ part # "series"
    BY <2>1, <2>4 DEF RecognitionInv
  <2> QED BY <2>2, <2>3, <2>4
<1> QED BY <1>1, <1>2, PTL DEF Spec

\* A medium that was reported before a query began is found by it, in every
\* spelling of its fields and under its own key, whatever requests run at once;
\* and an answer is about what was asked.
THEOREM RecognitionHolds == Spec => []RecognitionCorrect
<1>1. RecognitionInv => RecognitionCorrect
  BY RecFits, SeriesSays DEF RecognitionInv, RecognitionCorrect
<1> QED BY <1>1, RecognitionKept, PTL

\* delete_share and delete_recognition: what a user's request deletes is the
\* user's own share as long as PostgreSQL draws the ids; a deletion in Redis has
\* its intent on record, and no deletion is confirmed that was not asked for.
THEOREM DeletionsHold == Spec => DeletionsEntitled
<1>1. RecognitionInv /\ [Next]_vars =>
         [/\ part = "recognition" => Recognition!TracedDeletion
          /\ part = "series" => Series!TracedDeletion]_vars
  <2> SUFFICES ASSUME RecognitionInv, Next, ~UNCHANGED vars
               PROVE  /\ part = "recognition" => Recognition!TracedDeletion
                      /\ part = "series" => Series!TracedDeletion
    OBVIOUS
  <2>1. CASE part = "recognition"
    <3>1. RecStep(Media)
      BY <2>1, RecBegins DEF Next
    <3> QED BY <2>1, <3>1, KeysReached, RecTraced DEF RecognitionInv
  <2>2. CASE part = "series"
    <3>1. RecStep(TheSeries)
      BY <2>2, RecBegins DEF Next
    <3> QED BY <2>2, <3>1, KeysReached, RecTraced, SeriesSays DEF RecognitionInv
  <2> QED BY <2>1, <2>2
<1>2. (part = "shares" => ShareInv) /\ RecognitionInv /\ [Next]_vars =>
         [/\ part = "shares" /\ dialect = "postgresql" /\ ~chosen => Share!OwnDeletion
          /\ part = "recognition" => Recognition!TracedDeletion
          /\ part = "series" => Series!TracedDeletion]_vars
  <2> SUFFICES ASSUME part = "shares" => ShareInv, RecognitionInv, [Next]_vars, ~UNCHANGED vars
               PROVE  /\ part = "shares" /\ dialect = "postgresql" /\ ~chosen => Share!OwnDeletion
                      /\ part = "recognition" => Recognition!TracedDeletion
                      /\ part = "series" => Series!TracedDeletion
    OBVIOUS
  <2>1. part = "shares" /\ dialect = "postgresql" /\ ~chosen => Share!OwnDeletion
    BY DeletionOwned
  <2>2. (part = "recognition" => Recognition!TracedDeletion) /\ (part = "series" => Series!TracedDeletion)
    BY <1>1
  <2> QED BY <2>1, <2>2
<1> QED BY <1>2, SharesKept, RecognitionKept, PTL DEF Spec, DeletionsEntitled
=============================================================================
