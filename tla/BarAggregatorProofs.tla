------------------------ MODULE BarAggregatorProofs ------------------------
(***************************************************************************)
(* Proofs about the aggregator of BarAggregator for any strategies, widths *)
(* of the timeframes, gaps, replays and restarts: which source bars a bar  *)
(* of a longer timeframe is made of, the order of the bars in a buffer,    *)
(* and the chart made of the buffers and a backfill.  The folds (a start   *)
(* pushes a whole backfill, which was aggregated minute by minute) go by   *)
(* least counterexample, NoFirstException, in place of induction.          *)
(***************************************************************************)
EXTENDS BarAggregator, FiniteSetTheorems, SequenceTheorems, WellFoundedInduction, TLAPS

-----------------------------------------------------------------------------
(* Intervals                                                               *)

\* Dividing leaves a rest.
LEMMA DivisionHasRest ==
  ASSUME NEW n \in Nat, NEW m \in Nat, m > 0
  PROVE  \E q \in Nat : n = (m * q) + (n % m) /\ n % m \in 0 .. (m - 1)
<1>1. n = (m * (n \div m)) + (n % m)
  OBVIOUS
<1>2. n % m \in 0 .. (m - 1)
  OBVIOUS
<1>3. n \div m \in Nat
  OBVIOUS
<1> QED BY <1>1, <1>2, <1>3

\* What a multiple leaves.
LEMMA MultipleHasNoRest ==
  ASSUME NEW q \in Nat, NEW m \in Nat, m > 0
  PROVE  (m * q) % m = 0
<1> DEFINE n == m * q
<1>1. n \in Nat
  OBVIOUS
<1> HIDE DEF n
<1>2. PICK p \in Nat : n = (m * p) + (n % m) /\ n % m \in 0 .. (m - 1)
  BY <1>1, DivisionHasRest
<1>3. n = m * q
  BY DEF n
<1> DEFINE r == n % m
<1>4. r \in 0 .. (m - 1) /\ r = m * (q - p)
  BY <1>2, <1>3
<1> HIDE DEF r
<1>5. q - p >= 1 => m * (q - p) >= m
  OBVIOUS
<1>6. q - p <= -1 => m * (q - p) <= -m
  OBVIOUS
<1>7. r = 0
  BY <1>4, <1>5, <1>6
<1> QED BY <1>7 DEF r, n

\* Between two multiples of a number is at least that number.
LEMMA MultiplesAreApart ==
  ASSUME NEW m \in Nat, m > 0, NEW a \in Int, NEW b \in Int, m * a < m * b
  PROVE  (m * a) + m <= m * b
<1>1. a < b
  OBVIOUS
<1>2. a + 1 <= b
  BY <1>1
<1>3. m * (a + 1) <= m * b
  BY <1>2
<1> QED BY <1>3

\* A source bar of width w that closes at "at" opens an interval of width v at "start".
Opens(w, v, at, start) ==
  /\ w \in Nat /\ w > 0 /\ v \in Nat /\ v > 0 /\ v % w = 0
  /\ at \in Nat /\ at > 0 /\ at % w = 0
  /\ start = (at - w) - ((at - w) % v)

\* The interval a source bar is of: it starts before the bar closes and ends no earlier,
\* and is the only one of its timeframe that does.
LEMMA OpenedInterval ==
  ASSUME NEW w, NEW v, NEW at, NEW start, Opens(w, v, at, start)
  PROVE  /\ start \in Nat /\ start < at /\ at <= start + v /\ start % v = 0
         /\ \A s \in Nat : s % v = 0 /\ s < at /\ at <= s + v => s = start
<1> USE DEF Opens
<1>1. PICK m \in Nat : at = w * m
  BY DivisionHasRest
<1>2. PICK k \in Nat : v = w * k
  BY DivisionHasRest
<1>3. at - w \in Nat
  <2>1. w * 0 < w * m
    BY <1>1
  <2>2. (w * 0) + w <= w * m
    BY <2>1, MultiplesAreApart
  <2> QED BY <1>1, <2>2
<1> DEFINE x == at - w
           r == x % v
<1>4. PICK q \in Nat : x = (v * q) + r /\ r \in 0 .. (v - 1)
  BY <1>3, DivisionHasRest
<1> HIDE DEF r
<1>5. start = v * q
  BY <1>4 DEF r
<1>6. start \in Nat
  BY <1>5
<1>7. start < at
  BY <1>4, <1>5
<1>8. at <= start + v
  <2>1. x < (v * q) + v
    BY <1>4
  <2>2. w * (m - 1) < w * (k * (q + 1))
    <3>1. w * (m - 1) = x
      BY <1>1
    <3>2. w * (k * (q + 1)) = (v * q) + v
      BY <1>2
    <3> QED BY <2>1, <3>1, <3>2
  <2>3. k * (q + 1) \in Int /\ m - 1 \in Int
    OBVIOUS
  <2>4. (w * (m - 1)) + w <= w * (k * (q + 1))
    BY <2>2, <2>3, MultiplesAreApart
  <2>5. w * (k * (q + 1)) = (v * q) + v /\ (w * (m - 1)) + w = at
    BY <1>1, <1>2
  <2> QED BY <1>5, <2>4, <2>5
<1>9. start % v = 0
  BY <1>5, MultipleHasNoRest
<1>10. ASSUME NEW s \in Nat, s % v = 0, s < at, at <= s + v
       PROVE  s = start
  <2>1. PICK p \in Nat : s = v * p
    BY <1>10, DivisionHasRest
  <2>2. ~(v * p < v * q)
    <3>1. SUFFICES ASSUME v * p < v * q PROVE FALSE
      OBVIOUS
    <3>2. (v * p) + v <= v * q
      BY <3>1, MultiplesAreApart
    <3> QED BY <1>5, <1>7, <1>10, <2>1, <3>2
  <2>3. ~(v * q < v * p)
    <3>1. SUFFICES ASSUME v * q < v * p PROVE FALSE
      OBVIOUS
    <3>2. (v * q) + v <= v * p
      BY <3>1, MultiplesAreApart
    <3> QED BY <1>5, <1>8, <1>10, <2>1, <3>2
  <2> QED BY <1>5, <2>1, <2>2, <2>3
<1> QED BY <1>6, <1>7, <1>8, <1>9, <1>10

-----------------------------------------------------------------------------
(* What a source bar completes                                             *)

\* The elements of the sequence made of a set of at most one.
LEMMA SequenceOfFew ==
  ASSUME NEW S, S = {} \/ \E x : S = {x}
  PROVE  SetToSeq(S) \in Seq(S) /\ ToSet(SetToSeq(S)) = S
<1>1. CASE S = {}
  <2>1. Cardinality(S) = 0
    BY <1>1, FS_EmptySet
  <2> DEFINE f == [i \in 1 .. 0 |-> 0]
             g == SetToSeq(S)
  <2>2. f \in [1 .. 0 -> S] /\ IsInjective(f)
    BY DEF IsInjective
  <2>3. g \in [1 .. 0 -> S]
    BY <2>1, <2>2 DEF SetToSeq
  <2> HIDE DEF g, f
  <2>4. g \in Seq(S)
    BY <2>3, SeqDef
  <2>5. DOMAIN g = {}
    BY <2>3
  <2> QED BY <1>1, <2>4, <2>5 DEF ToSet, g
<1>2. ASSUME NEW x, S = {x}
      PROVE  SetToSeq(S) \in Seq(S) /\ ToSet(SetToSeq(S)) = S
  <2>1. Cardinality(S) = 1
    BY <1>2, FS_Singleton
  <2> DEFINE f == [i \in 1 .. 1 |-> x]
             g == SetToSeq(S)
  <2>2. f \in [1 .. 1 -> S] /\ IsInjective(f)
    BY <1>2 DEF IsInjective
  <2>3. g \in [1 .. 1 -> S]
    BY <2>1, <2>2 DEF SetToSeq
  <2> HIDE DEF g, f
  <2>4. g \in Seq(S)
    <3>1. \E n \in Nat : g \in [1 .. n -> S]
      BY <2>3
    <3> QED BY <3>1, SeqDef
  <2>5. DOMAIN g = {1} /\ g[1] = x
    BY <1>2, <2>3
  <2>6. ToSet(g) = S
    BY <1>2, <2>5 DEF ToSet
  <2> QED BY <2>4, <2>6 DEF g
<1> QED BY <1>1, <1>2

\* What a source bar completes: the window of another interval, and what it closes.
Completes(window, source, target, id, set) ==
  set = Replaced(window, source, target, id)
          \cup (IF Closes(source, target, id) THEN {Joined(window, source, target, id)} ELSE {})

\* The sequence it completes has just that.
LEMMA CompletedBars ==
  ASSUME NEW window, window = {} \/ \E w : window = {w}, NEW source, NEW target, NEW id,
         NEW set, set = ToSet(Completed(window, source, target, id))
  PROVE  Completes(window, source, target, id, set)
<1> DEFINE R == Replaced(window, source, target, id)
           J == Joined(window, source, target, id)
           a == SetToSeq(R)
           b == IF Closes(source, target, id) THEN <<J>> ELSE <<>>
           B == IF Closes(source, target, id) THEN {J} ELSE {}
<1>1. R = {} \/ \E x : R = {x}
  BY DEF Replaced
<1>2. a \in Seq(R) /\ ToSet(a) = R
  BY <1>1, SequenceOfFew
<1>3. b \in Seq(B) /\ ToSet(b) = B
  <2> HIDE DEF J
  <2>1. CASE Closes(source, target, id)
    <3>1. b = <<J>> /\ B = {J}
      BY <2>1
    <3> HIDE DEF b, B
    <3>2. b \in Seq(B) /\ DOMAIN b = {1} /\ b[1] = J
      BY <3>1
    <3> QED BY <3>1, <3>2 DEF ToSet
  <2>2. CASE ~Closes(source, target, id)
    <3>1. b = <<>> /\ B = {}
      BY <2>2
    <3> HIDE DEF b, B
    <3>2. b \in Seq(B) /\ DOMAIN b = {}
      BY <3>1
    <3> QED BY <3>1, <3>2 DEF ToSet
  <2> QED BY <2>1, <2>2
<1>4. Completed(window, source, target, id) = a \o b
  BY DEF Completed
<1> HIDE DEF R, J, a, b, B
<1>5. ToSet(a \o b) = ToSet(a) \cup ToSet(b)
  <2>1. a \in Seq(R \cup B) /\ b \in Seq(R \cup B)
    BY <1>2, <1>3
  <2>2. Len(a) \in Nat /\ Len(b) \in Nat /\ DOMAIN a = 1 .. Len(a) /\ DOMAIN b = 1 .. Len(b)
    BY <2>1
  <2>3. /\ DOMAIN (a \o b) = 1 .. (Len(a) + Len(b))
        /\ \A i \in 1 .. Len(a) : (a \o b)[i] = a[i]
        /\ \A i \in 1 .. Len(b) : (a \o b)[Len(a) + i] = b[i]
    BY <2>1
  <2>4. ASSUME NEW x \in ToSet(a \o b) PROVE x \in ToSet(a) \cup ToSet(b)
    <3>1. PICK i \in 1 .. (Len(a) + Len(b)) : x = (a \o b)[i]
      BY <2>3, <2>4 DEF ToSet
    <3>2. CASE i <= Len(a)
      BY <2>2, <2>3, <3>1, <3>2 DEF ToSet
    <3>3. CASE i > Len(a)
      <4>1. (i - Len(a)) \in 1 .. Len(b) /\ Len(a) + (i - Len(a)) = i
        BY <2>2, <3>1, <3>3
      <4> QED BY <2>2, <2>3, <3>1, <4>1 DEF ToSet
    <3> QED BY <2>2, <3>1, <3>2, <3>3
  <2>5. ASSUME NEW x \in ToSet(a) PROVE x \in ToSet(a \o b)
    <3>1. PICK i \in 1 .. Len(a) : x = a[i]
      BY <2>2, <2>5 DEF ToSet
    <3>2. i \in 1 .. (Len(a) + Len(b))
      BY <2>2, <3>1
    <3> QED BY <2>3, <3>1, <3>2 DEF ToSet
  <2>6. ASSUME NEW x \in ToSet(b) PROVE x \in ToSet(a \o b)
    <3>1. PICK i \in 1 .. Len(b) : x = b[i]
      BY <2>2, <2>6 DEF ToSet
    <3>2. Len(a) + i \in 1 .. (Len(a) + Len(b))
      BY <2>2, <3>1
    <3> QED BY <2>3, <3>1, <3>2 DEF ToSet
  <2> QED BY <2>4, <2>5, <2>6
<1> QED BY <1>2, <1>3, <1>4, <1>5 DEF R, J, B, Completes

-----------------------------------------------------------------------------
(* The types of the aggregator's state                                     *)

\* A source interval, its multiples, and the timeframes a strategy's bars are grouped to.
LEMMA Widths ==
  ASSUME strategy \in Strategies
  PROVE  /\ Source \in Timeframes
         /\ Required # {} /\ Required \subseteq Timeframes
         /\ \A tf \in Timeframes : Width[tf] \in Nat /\ Width[tf] > 0
         /\ \A tf \in Required : strategy.bars_required[tf] \in Nat
         /\ \A tf \in Targets : tf \in Timeframes /\ tf # Source /\ Width[tf] % Width[Source] = 0
<1>1. IsStrategy(strategy)
  BY StrategiesAssumption
<1>2. Source \in Timeframes /\ (Source = "1s" \/ (Source = "1m" /\ "1s" \notin strategy.timeframes))
  BY DEF Source, SourceOf, Timeframes
<1>3. Required # {} /\ Required \subseteq Timeframes
  BY <1>1 DEF Required, IsStrategy
<1>4. \A tf \in Timeframes : Width[tf] \in Nat /\ Width[tf] > 0
  BY WidthAssumption
<1>5. \A tf \in Required : strategy.bars_required[tf] \in Nat
  BY <1>1 DEF Required, IsStrategy
<1>6. Width["5m"] % Width["1s"] = 0
  <2> DEFINE a == Width["1s"]
             b == Width["1m"]
             c == Width["5m"]
  <2>1. a \in Nat /\ a > 0 /\ b \in Nat /\ b > 0 /\ c \in Nat /\ c > 0
    BY <1>4 DEF Timeframes
  <2>2. b % a = 0 /\ c % b = 0
    BY WidthAssumption
  <2> HIDE DEF a, b, c
  <2>3. PICK m \in Nat : b = (a * m) + (b % a)
    BY <2>1, DivisionHasRest
  <2>4. PICK n \in Nat : c = (b * n) + (c % b)
    BY <2>1, DivisionHasRest
  <2>5. b = a * m /\ c = b * n
    BY <2>1, <2>2, <2>3, <2>4
  <2>6. c = a * (m * n) /\ m * n \in Nat
    BY <2>1, <2>5
  <2>7. (a * (m * n)) % a = 0
    BY <2>1, <2>6, MultipleHasNoRest
  <2>8. c % a = 0
    BY <2>6, <2>7
  <2> QED BY <2>8 DEF a, c
<1>7. ASSUME NEW tf \in Targets
      PROVE  tf \in Timeframes /\ tf # Source /\ Width[tf] % Width[Source] = 0
  <2>1. tf \in strategy.timeframes /\ tf # Source
    BY DEF Targets, TargetsOf, Source
  <2>2. tf \in Timeframes
    BY <1>1, <2>1 DEF IsStrategy
  <2>3. (Source = "1s" /\ tf = "1m") \/ (Source = "1s" /\ tf = "5m") \/ (Source = "1m" /\ tf = "5m")
    BY <1>2, <2>1, <2>2 DEF Timeframes
  <2> QED BY <1>6, <2>1, <2>2, <2>3, WidthAssumption
<1> QED BY <1>2, <1>3, <1>4, <1>5, <1>7

\* The greatest of two numbers.
LEMMA GreaterOfTwo ==
  ASSUME NEW a \in Int, NEW b \in Int
  PROVE  Max({a, b}) \in {a, b} /\ Max({a, b}) >= a /\ Max({a, b}) >= b
<1>1. \E x \in {a, b} : \A y \in {a, b} : x >= y
  OBVIOUS
<1> QED BY <1>1 DEF Max

\* The least of the numbers of some timeframes.
LEMMA LeastOfTimeframes ==
  ASSUME NEW S \in (SUBSET Timeframes) \ {{}}, NEW f \in [S -> Int]
  PROVE  /\ Min({f[tf] : tf \in S}) \in {f[tf] : tf \in S}
         /\ \A t \in S : Min({f[tf] : tf \in S}) <= f[t]
<1> DEFINE F == {f[tf] : tf \in S}
<1>1. \E x \in F : \A y \in F : x <= y
  <2>1. SUFFICES \E t \in S : \A u \in S : f[t] <= f[u]
    OBVIOUS
  <2>2. S \subseteq {"1s", "1m", "5m"} /\ S # {}
    BY DEF Timeframes
  <2> QED BY <2>2
<1> HIDE DEF F
<1>2. Min(F) \in F /\ \A y \in F : Min(F) <= y
  BY <1>1 DEF Min
<1> QED BY <1>2 DEF F

\* A replay begins no later than the service was configured.
LEMMA ReplayBegins ==
  ASSUME strategy \in Strategies
  PROVE  ReplayFrom \in 0 .. Configured
<1> DEFINE Window(tf) == Max({strategy.bars_required[tf] * Width[tf], MinReplay})
           from(tf) == AlignWindowStart(Configured, tf) - Window(tf)
<1>1. ASSUME NEW tf \in Required PROVE from(tf) \in Int /\ from(tf) <= Configured
  <2> DEFINE b == strategy.bars_required[tf]
             w == Width[tf]
  <2>1. b \in Nat /\ w \in Nat /\ w > 0
    BY Widths
  <2> HIDE DEF b, w
  <2>2. b * w \in Nat
    BY <2>1
  <2>3. MinReplay \in Nat /\ Configured \in Nat
    BY TimesAssumption
  <2>4. Max({b * w, MinReplay}) \in Nat
    BY <2>2, <2>3, GreaterOfTwo
  <2>5. Configured % w \in Nat
    BY <2>1, <2>3
  <2> QED BY <2>3, <2>4, <2>5 DEF AlignWindowStart, b, w
<1> DEFINE f == [tf \in Required |-> from(tf)]
           least == Min({f[tf] : tf \in Required})
<1>2. least \in {f[tf] : tf \in Required}
  <2>1. f \in [Required -> Int]
    BY <1>1
  <2> HIDE DEF f
  <2>2. Required \in (SUBSET Timeframes) \ {{}}
    BY Widths
  <2> QED BY <2>1, <2>2, LeastOfTimeframes
<1>3. least \in Int /\ least <= Configured
  BY <1>1, <1>2
<1>4. ReplayFrom = Max({0, least})
  <2>1. {f[tf] : tf \in Required} = {from(tf) : tf \in Required}
    OBVIOUS
  <2> QED BY <2>1 DEF ReplayFrom
<1> HIDE DEF least
<1>5. Max({0, least}) \in {0, least} /\ Max({0, least}) >= 0
  BY <1>3, GreaterOfTwo
<1>6. Configured \in Nat
  BY TimesAssumption
<1> QED BY <1>3, <1>4, <1>5, <1>6

\* The state of the aggregator: at most one window per timeframe is in progress, and the
\* source bars are of the starts so far, the last start's no later than the clock.
StateInv ==
  /\ strategy \in Strategies
  /\ stream \in 0 .. MaxStreams
  /\ clock \in 0 .. LastTime /\ now \in 0 .. LastTime
  /\ \A tf \in Timeframes : windows[tf] = {} \/ \E w : windows[tf] = {w}
  /\ fed \subseteq (1 .. stream) \X (1 .. LastTime)
  /\ \A id \in fed : id[2] % Width[Source] = 0 /\ (id[1] = stream => id[2] <= clock)

\* The state is typed, whatever is started and recorded.
LEMMA StateHolds == Spec => []StateInv
<1>1. Init => StateInv
  <2> SUFFICES ASSUME Init PROVE StateInv
    OBVIOUS
  <2>1. Configured \in 0 .. LastTime /\ MaxStreams \in Nat
    BY TimesAssumption, BoundsAssumption
  <2>2. strategy \in Strategies /\ stream \in 0 .. MaxStreams /\ fed = {}
    BY <2>1 DEF Init
  <2>3. clock \in 0 .. LastTime /\ now \in 0 .. LastTime
    BY <2>1, TimesAssumption DEF Init
  <2>4. \A tf \in Timeframes : windows[tf] = {}
    BY DEF Init
  <2> QED BY <2>2, <2>3, <2>4 DEF StateInv
<1>2. StateInv /\ [Next]_vars => StateInv'
  <2> SUFFICES ASSUME StateInv, [Next]_vars PROVE StateInv'
    OBVIOUS
  <2> USE DEF StateInv
  <2>1. LastTime \in Nat /\ MaxStreams \in Nat /\ Configured \in 0 .. LastTime
    BY TimesAssumption, BoundsAssumption
  <2>2. CASE StartWarmup
    <3>1. /\ stream < MaxStreams /\ stream' = stream + 1 /\ clock' = ReplayFrom
          /\ strategy' = strategy /\ windows' = windows /\ now' = now /\ fed' = fed
      BY <2>2 DEF StartWarmup
    <3>2. Source' = Source
      BY <3>1 DEF Source
    <3>3. ReplayFrom \in 0 .. LastTime
      BY <2>1, ReplayBegins
    <3>4. stream' \in 0 .. MaxStreams
      BY <2>1, <3>1
    <3>5. fed' \subseteq (1 .. stream') \X (1 .. LastTime)
      BY <2>1, <3>1
    <3>6. ASSUME NEW id \in fed'
          PROVE  id[2] % Width[Source'] = 0 /\ (id[1] = stream' => id[2] <= clock')
      <4>1. id \in fed /\ id[1] \in 1 .. stream
        BY <3>1, <3>6
      <4> QED BY <3>1, <3>2, <4>1
    <3> QED BY <3>1, <3>3, <3>4, <3>5, <3>6
  <2>3. ASSUME NEW at \in 1 .. LastTime, RecordBar(at) PROVE StateInv'
    <3>1. /\ stream > 0 /\ at > clock /\ at % Width[Source] = 0
          /\ fed' = fed \cup {<<stream, at>>} /\ clock' = at /\ now' = Max({now, at})
          /\ strategy' = strategy /\ stream' = stream
      BY <2>3 DEF RecordBar
    <3>2. Source' = Source
      BY <3>1 DEF Source
    <3>3. now' \in {now, at}
      <4>1. now \in Int /\ at \in Int
        BY <2>1
      <4> QED BY <3>1, <4>1, GreaterOfTwo
    <3>4. ASSUME NEW tf \in Timeframes PROVE windows'[tf] = {} \/ \E w : windows'[tf] = {w}
      <4>1. windows' = [t \in Timeframes |->
              IF t \in Targets THEN WindowAfter(windows[t], Source, t, <<stream, at>>) ELSE {}]
        BY <2>3 DEF RecordBar
      <4>2. windows'[tf] = {} \/ windows'[tf] = WindowAfter(windows[tf], Source, tf, <<stream, at>>)
        BY <4>1
      <4> QED BY <4>2 DEF WindowAfter
    <3>5. fed' \subseteq (1 .. stream') \X (1 .. LastTime)
      BY <3>1
    <3>6. ASSUME NEW id \in fed'
          PROVE  id[2] % Width[Source'] = 0 /\ (id[1] = stream' => id[2] <= clock')
      <4>1. CASE id = <<stream, at>>
        BY <3>1, <3>2, <4>1
      <4>2. CASE id \in fed
        <5>1. id[2] \in 1 .. LastTime
          BY <4>2
        <5> QED BY <3>1, <3>2, <4>2, <5>1
      <4> QED BY <3>1, <3>6, <4>1, <4>2
    <3> QED BY <3>1, <3>3, <3>4, <3>5, <3>6
  <2>4. CASE UNCHANGED vars
    BY <2>4 DEF vars, Source
  <2> QED BY <2>2, <2>3, <2>4 DEF Next
<1> QED BY <1>1, <1>2, PTL DEF Spec

-----------------------------------------------------------------------------
(* The bars made of the source bars                                        *)

Bars == [start : Nat, of : Seq(Nat \X Nat)]

\* One source bar was delivered before another.
Before(a, b) == a[1] < b[1] \/ (a[1] = b[1] /\ a[2] < b[2])

Indices(h) == 1 .. Len(h.of)

\* A bar is made of source bars of its interval, in the order they came.
BarInv(tf, h) ==
  /\ h \in Bars /\ Len(h.of) > 0
  /\ \A i \in Indices(h) : h.of[i] \in fed /\ Opened(h.of[i], Source, tf) = h.start
  /\ \A i, j \in Indices(h) : i < j => Before(h.of[i], h.of[j])

\* It has all of them that the streams it is made from delivered.
Complete(tf, h) ==
  \A i \in Indices(h) : \A id \in fed :
    id[1] = h.of[i][1] /\ Opened(id, Source, tf) = h.start => \E j \in Indices(h) : h.of[j] = id

\* A window in progress has the newest source bar, which does not close it.
Newest(tf, w) ==
  /\ w.of[Len(w.of)][2] < ClosedAt(w, tf)
  /\ \A id \in fed : id = w.of[Len(w.of)] \/ Before(id, w.of[Len(w.of)])

\* No source bar is in two bars, or twice in one.
Apart(g, h) == \A i \in Indices(h) : \A j \in Indices(g) : g.of[j] = h.of[i] => g = h /\ j = i

\* A bar of source bars from before a start and after it.
Mixed(h, s) == \E i, j \in Indices(h) : h.of[i][1] < s /\ h.of[j][1] = s

BarsInv(tf) ==
  /\ \A h \in Holders(tf) : BarInv(tf, h)
  /\ windows[tf] \cap emitted[tf] = {}
  /\ \A id \in fed : \E h \in Holders(tf) : \E i \in Indices(h) : h.of[i] = id
  /\ \A g, h \in Holders(tf) : Apart(g, h)
  /\ \A h \in Holders(tf) : Complete(tf, h)
  /\ \A w \in windows[tf] : Newest(tf, w)
  /\ \A h \in emitted[tf] : \A i \in Indices(h) :
       h.of[i][1] = stream => ClosedAt(h, tf) <= clock
  /\ \A s \in 1 .. stream : \A g, h \in Holders(tf) : Mixed(g, s) /\ Mixed(h, s) => g = h

-----------------------------------------------------------------------------
(* One source bar more                                                     *)

Same(tf, id) == {w \in windows[tf] : w.start = Opened(id, Source, tf)}
Joining(tf, id) == Joined(windows[tf], Source, tf, id)
Kept(tf, id) == emitted[tf] \cup Replaced(windows[tf], Source, tf, id)

\* What a source bar does to the bars of a timeframe: the bar it joins takes the place of
\* the window it was, if it was one, and all others are kept.
LEMMA BarsMove ==
  ASSUME StateInv, NEW tf \in Targets, NEW at, RecordBar(at), NEW id, id = <<stream, at>>
  PROVE  /\ Holders(tf) = Kept(tf, id) \cup Same(tf, id)
         /\ Holders(tf)' = Kept(tf, id) \cup {Joining(tf, id)}
         /\ Closes(Source, tf, id) =>
              windows'[tf] = {} /\ emitted'[tf] = Kept(tf, id) \cup {Joining(tf, id)}
         /\ ~Closes(Source, tf, id) =>
              windows'[tf] = {Joining(tf, id)} /\ emitted'[tf] = Kept(tf, id)
         /\ fed' = fed \cup {id} /\ stream' = stream /\ clock' = at
         /\ Source' = Source /\ Targets' = Targets
<1>1. tf \in Timeframes
  BY Widths DEF StateInv
<1>2. windows[tf] = {} \/ \E w : windows[tf] = {w}
  BY <1>1 DEF StateInv
<1>3. /\ windows'[tf] = WindowAfter(windows[tf], Source, tf, id)
      /\ emitted'[tf] = emitted[tf] \cup ToSet(Completed(windows[tf], Source, tf, id))
      /\ fed' = fed \cup {id} /\ stream' = stream /\ clock' = at /\ strategy' = strategy
  BY <1>1 DEF RecordBar
<1>4. Holders(tf) = Kept(tf, id) \cup Same(tf, id)
  BY DEF Holders, Kept, Same, Replaced
<1>5. ToSet(Completed(windows[tf], Source, tf, id))
        = Replaced(windows[tf], Source, tf, id)
            \cup (IF Closes(Source, tf, id) THEN {Joining(tf, id)} ELSE {})
  <2>1. PICK window, source : window = windows[tf] /\ source = Source
    OBVIOUS
  <2>2. window = {} \/ \E w : window = {w}
    BY <1>2, <2>1
  <2>3. PICK set : set = ToSet(Completed(window, source, tf, id))
    OBVIOUS
  <2>4. Completes(window, source, tf, id, set)
    BY <2>2, <2>3, CompletedBars
  <2> QED BY <2>1, <2>3, <2>4 DEF Joining, Completes
<1>6. Closes(Source, tf, id) =>
        windows'[tf] = {} /\ emitted'[tf] = Kept(tf, id) \cup {Joining(tf, id)}
  BY <1>3, <1>5 DEF WindowAfter, Kept
<1>7. ~Closes(Source, tf, id) =>
        windows'[tf] = {Joining(tf, id)} /\ emitted'[tf] = Kept(tf, id)
  BY <1>3, <1>5 DEF WindowAfter, Kept, Joining
<1>8. Holders(tf)' = Kept(tf, id) \cup {Joining(tf, id)}
  BY <1>6, <1>7 DEF Holders
<1>9. Source' = Source /\ Targets' = Targets
  BY <1>3 DEF Source, Targets
<1> QED BY <1>3, <1>4, <1>6, <1>7, <1>8, <1>9

\* The source bar is the newest, and opens the interval that ends no earlier than it closes.
LEMMA SourceBarIsNewest ==
  ASSUME StateInv, NEW tf \in Targets, NEW at \in 1 .. LastTime, RecordBar(at),
         NEW id, id = <<stream, at>>
  PROVE  /\ id \in Nat \X Nat /\ id[1] = stream /\ id[2] = at
         /\ \A e \in fed : Before(e, id)
         /\ id \notin fed
         /\ Opened(id, Source, tf) \in Nat
         /\ at <= Opened(id, Source, tf) + Width[tf]
         /\ \A s \in Nat : s % Width[tf] = 0 /\ s < at /\ at <= s + Width[tf]
                             => s = Opened(id, Source, tf)
         /\ Closes(Source, tf, id) <=> at >= Opened(id, Source, tf) + Width[tf]
<1>1. at > clock /\ at % Width[Source] = 0 /\ stream > 0
  BY DEF RecordBar
<1>2. stream \in Nat /\ clock \in Nat /\ at \in Nat /\ at > 0
  BY TimesAssumption, BoundsAssumption DEF StateInv
<1>3. id \in Nat \X Nat /\ id[1] = stream /\ id[2] = at
  BY <1>2
<1>4. ASSUME NEW e \in fed PROVE Before(e, id) /\ e # id
  <2>1. e[1] \in 1 .. stream /\ e[2] \in Nat /\ (e[1] = stream => e[2] <= clock)
    BY <1>2, TimesAssumption DEF StateInv
  <2> QED BY <1>1, <1>2, <1>3, <2>1 DEF Before
<1>5. /\ Width[Source] \in Nat /\ Width[Source] > 0 /\ Width[tf] \in Nat /\ Width[tf] > 0
      /\ Width[tf] % Width[Source] = 0
  BY Widths DEF StateInv
<1>6. Opened(id, Source, tf) = (at - Width[Source]) - ((at - Width[Source]) % Width[tf])
  BY <1>3 DEF Opened, AlignWindowStart
<1>7. /\ Opened(id, Source, tf) \in Nat /\ at <= Opened(id, Source, tf) + Width[tf]
      /\ \A s \in Nat : s % Width[tf] = 0 /\ s < at /\ at <= s + Width[tf]
                          => s = Opened(id, Source, tf)
  <2> DEFINE w == Width[Source]
             v == Width[tf]
             start == Opened(id, Source, tf)
  <2>1. Opens(w, v, at, start)
    BY <1>1, <1>2, <1>5, <1>6 DEF Opens
  <2> HIDE DEF w, v, start
  <2>2. /\ start \in Nat /\ at <= start + v
        /\ \A s \in Nat : s % v = 0 /\ s < at /\ at <= s + v => s = start
    BY <1>2, <2>1, OpenedInterval
  <2> QED BY <2>2 DEF start, v
<1> QED BY <1>3, <1>4, <1>7 DEF Closes

\* A source bar opens one interval of a timeframe: it starts before the bar closes, ends
\* no earlier, and no other does.
LEMMA FedInterval ==
  ASSUME StateInv, NEW tf \in Targets, NEW id \in fed
  PROVE  /\ id \in Nat \X Nat /\ id[1] \in 1 .. stream
         /\ Opened(id, Source, tf) \in Nat /\ Opened(id, Source, tf) < id[2]
         /\ id[2] <= Opened(id, Source, tf) + Width[tf]
         /\ Opened(id, Source, tf) % Width[tf] = 0
         /\ \A s \in Nat : s % Width[tf] = 0 /\ s < id[2] /\ id[2] <= s + Width[tf]
                             => s = Opened(id, Source, tf)
<1>1. /\ id[1] \in 1 .. stream /\ id[2] \in Nat /\ id[2] > 0 /\ id[2] % Width[Source] = 0
      /\ id = <<id[1], id[2]>>
  BY TimesAssumption DEF StateInv
<1>2. stream \in Nat
  BY BoundsAssumption DEF StateInv
<1>3. id \in Nat \X Nat
  BY <1>1, <1>2
<1>4. /\ Width[Source] \in Nat /\ Width[Source] > 0 /\ Width[tf] \in Nat /\ Width[tf] > 0
      /\ Width[tf] % Width[Source] = 0
  BY Widths DEF StateInv
<1>5. Opened(id, Source, tf) = (id[2] - Width[Source]) - ((id[2] - Width[Source]) % Width[tf])
  BY DEF Opened, AlignWindowStart
<1> DEFINE w == Width[Source]
           v == Width[tf]
           t == id[2]
           start == Opened(id, Source, tf)
<1>6. Opens(w, v, t, start)
  BY <1>1, <1>4, <1>5 DEF Opens
<1> HIDE DEF w, v, t, start
<1>7. /\ start \in Nat /\ start < t /\ t <= start + v /\ start % v = 0
      /\ \A s \in Nat : s % v = 0 /\ s < t /\ t <= s + v => s = start
  BY <1>6, OpenedInterval
<1> QED BY <1>1, <1>3, <1>7 DEF w, v, t, start

\* What an element put at the end of a sequence makes.
LEMMA AppendedSequence ==
  ASSUME NEW A, NEW q \in Seq(A), NEW e \in A
  PROVE  /\ Append(q, e) \in Seq(A) /\ Len(Append(q, e)) = Len(q) + 1 /\ Len(q) \in Nat
         /\ \A i \in 1 .. Len(q) : Append(q, e)[i] = q[i]
         /\ Append(q, e)[Len(q) + 1] = e
OBVIOUS

\* A bar is the window in progress with the source bar at its end, or the source bar alone,
\* and no bar that is kept.
Joins(tf, id, n) ==
  /\ n \in Bars /\ n.start = Opened(id, Source, tf)
  /\ Len(n.of) \in Nat /\ Len(n.of) > 0 /\ n.of[Len(n.of)] = id
  /\ \A w \in Same(tf, id) :
       Len(n.of) = Len(w.of) + 1 /\ \A i \in Indices(w) : n.of[i] = w.of[i]
  /\ \A i \in Indices(n) :
       i = Len(n.of) \/ \E w \in Same(tf, id) : i \in Indices(w) /\ n.of[i] = w.of[i]
  /\ \A h \in Kept(tf, id) : h # n

\* Such is the bar that a source bar joins.
LEMMA JoiningBar ==
  ASSUME StateInv, NEW tf \in Targets, BarsInv(tf), NEW at \in 1 .. LastTime, RecordBar(at),
         NEW id, id = <<stream, at>>, NEW n, n = Joining(tf, id)
  PROVE  Joins(tf, id, n)
<1> DEFINE st == Opened(id, Source, tf)
<1>1. id \in Nat \X Nat /\ st \in Nat /\ id \notin fed
  BY SourceBarIsNewest
<1>2. tf \in Timeframes
  BY Widths DEF StateInv
<1>3. Same(tf, id) = {} \/ \E w : Same(tf, id) = {w}
  BY <1>2 DEF StateInv, Same
<1>4. ASSUME Same(tf, id) = {}
      PROVE  n = [start |-> st, of |-> <<id>>]
  BY <1>4 DEF Joining, Joined, Same
<1>5. ASSUME NEW w, Same(tf, id) = {w}
      PROVE  n = [w EXCEPT !.of = Append(@, id)] /\ w \in Bars /\ w.start = st
  <2>1. w \in windows[tf] /\ w.start = st
    BY <1>5 DEF Same
  <2>2. w \in Bars
    BY <2>1 DEF BarsInv, BarInv, Holders
  <2>3. (CHOOSE x \in Same(tf, id) : TRUE) = w
    BY <1>5
  <2>4. n = [w EXCEPT !.of = Append(@, id)]
    BY <1>5, <2>3 DEF Joining, Joined, Same
  <2> QED BY <2>1, <2>2, <2>4
<1> HIDE DEF st
<1>6. /\ n \in Bars /\ n.start = st
      /\ Len(n.of) \in Nat /\ Len(n.of) > 0 /\ n.of[Len(n.of)] = id
      /\ \A w \in Same(tf, id) :
           Len(n.of) = Len(w.of) + 1 /\ \A i \in Indices(w) : n.of[i] = w.of[i]
      /\ \A i \in Indices(n) :
           i = Len(n.of) \/ \E w \in Same(tf, id) : i \in Indices(w) /\ n.of[i] = w.of[i]
  <2>1. CASE Same(tf, id) = {}
    <3>1. n = [start |-> st, of |-> <<id>>]
      BY <1>4, <2>1
    <3>2. n.start = st /\ n.of = <<id>>
      BY <3>1
    <3>3. Len(n.of) = 1 /\ n.of[1] = id
      BY <3>2
    <3>4. \A i \in Indices(n) : i = 1
      <4> DEFINE k == Len(n.of)
      <4>1. k = 1 /\ Indices(n) = 1 .. k
        BY <3>3 DEF Indices
      <4> HIDE DEF k
      <4> QED BY <4>1
    <3>5. <<id>> \in Seq(Nat \X Nat)
      <4> DEFINE P == Nat \X Nat
      <4>1. id \in P
        BY <1>1
      <4> HIDE DEF P
      <4>2. <<id>> \in Seq(P)
        BY <4>1
      <4> QED BY <4>2 DEF P
    <3>6. n \in Bars
      BY <1>1, <3>1, <3>5 DEF Bars
    <3> QED BY <2>1, <3>2, <3>3, <3>4, <3>6
  <2>2. ASSUME NEW w, Same(tf, id) = {w}
        PROVE  /\ n \in Bars /\ n.start = st
               /\ Len(n.of) \in Nat /\ Len(n.of) > 0 /\ n.of[Len(n.of)] = id
               /\ \A x \in Same(tf, id) :
                    Len(n.of) = Len(x.of) + 1 /\ \A i \in Indices(x) : n.of[i] = x.of[i]
               /\ \A i \in Indices(n) : i = Len(n.of)
                    \/ \E x \in Same(tf, id) : i \in Indices(x) /\ n.of[i] = x.of[i]
    <3>1. n = [w EXCEPT !.of = Append(@, id)] /\ w \in Bars /\ w.start = st
      BY <1>5, <2>2
    <3>2. n.start = st /\ n.of = Append(w.of, id) /\ w.of \in Seq(Nat \X Nat)
      BY <3>1 DEF Bars
    <3>3. /\ n.of \in Seq(Nat \X Nat) /\ Len(n.of) = Len(w.of) + 1 /\ Len(w.of) \in Nat
          /\ \A i \in 1 .. Len(w.of) : n.of[i] = w.of[i]
          /\ n.of[Len(w.of) + 1] = id
      <4> DEFINE P == Nat \X Nat
                 q == w.of
                 m == n.of
      <4>1. q \in Seq(P) /\ id \in P /\ m = Append(q, id)
        BY <1>1, <3>2
      <4> HIDE DEF P, q, m
      <4>2. /\ m \in Seq(P) /\ Len(m) = Len(q) + 1 /\ Len(q) \in Nat
            /\ \A i \in 1 .. Len(q) : m[i] = q[i]
            /\ m[Len(q) + 1] = id
        BY <4>1, AppendedSequence
      <4> QED BY <4>2 DEF P, q, m
    <3>4. n \in Bars
      BY <3>1, <3>2, <3>3 DEF Bars
    <3>5. ASSUME NEW i \in Indices(n) PROVE i = Len(n.of) \/ (i \in Indices(w) /\ n.of[i] = w.of[i])
      <4> DEFINE a == Len(n.of)
                 b == Len(w.of)
      <4>1. a = b + 1 /\ b \in Nat /\ i \in 1 .. a
        BY <3>3, <3>5 DEF Indices
      <4> HIDE DEF a, b
      <4>2. i = a \/ i \in 1 .. b
        BY <4>1
      <4> QED BY <3>3, <4>2 DEF Indices, a, b
    <3>6. \A i \in Indices(w) : n.of[i] = w.of[i]
      BY <3>3 DEF Indices
    <3>7. Len(n.of) \in Nat /\ Len(n.of) > 0 /\ n.of[Len(n.of)] = id
      <4> DEFINE a == Len(n.of)
                 b == Len(w.of)
      <4>1. a = b + 1 /\ b \in Nat /\ n.of[b + 1] = id
        BY <3>3
      <4> HIDE DEF a, b
      <4>2. a \in Nat /\ a > 0 /\ n.of[a] = id
        BY <4>1
      <4> QED BY <4>2 DEF a
    <3>8. ASSUME NEW x \in Same(tf, id)
          PROVE  Len(n.of) = Len(x.of) + 1 /\ \A i \in Indices(x) : n.of[i] = x.of[i]
      BY <2>2, <3>3, <3>6, <3>8
    <3>9. n.start = st
      BY <3>2
    <3> QED BY <2>2, <3>4, <3>5, <3>7, <3>8, <3>9
  <2> QED BY <1>3, <2>1, <2>2
<1>7. ASSUME NEW h \in Kept(tf, id) PROVE h # n
  <2>1. h \in Holders(tf)
    BY <1>7 DEF Kept, Holders, Replaced
  <2>2. \A i \in Indices(h) : h.of[i] \in fed
    BY <2>1 DEF BarsInv, BarInv
  <2>3. Len(n.of) \in Indices(n)
    BY <1>6 DEF Indices
  <2> QED BY <1>1, <1>6, <2>2, <2>3
<1> QED BY <1>6, <1>7 DEF st, Joins

\* Where one source bar more is recorded, the bars stay what they are made of.
LEMMA RecordKeepsBars ==
  ASSUME StateInv, NEW tf \in Targets, BarsInv(tf), NEW at \in 1 .. LastTime, RecordBar(at)
  PROVE  BarsInv(tf)'
<1>1. PICK id : id = <<stream, at>>
  OBVIOUS
<1>2. PICK n : n = Joining(tf, id)
  OBVIOUS
<1>3. PICK K : K = Kept(tf, id)
  OBVIOUS
<1>4. PICK S : S = Same(tf, id)
  OBVIOUS
<1>5. PICK st : st = Opened(id, Source, tf)
  OBVIOUS
<1>6. PICK v : v = Width[tf]
  OBVIOUS
<1>7. /\ Holders(tf) = K \cup S /\ Holders(tf)' = K \cup {n}
      /\ Closes(Source, tf, id) => windows'[tf] = {} /\ emitted'[tf] = K \cup {n}
      /\ ~Closes(Source, tf, id) => windows'[tf] = {n} /\ emitted'[tf] = K
      /\ fed' = fed \cup {id} /\ stream' = stream /\ clock' = at /\ Source' = Source
  BY <1>1, <1>2, <1>3, <1>4, BarsMove
<1>8. /\ id \in Nat \X Nat /\ id[1] = stream /\ id[2] = at
      /\ \A e \in fed : Before(e, id)
      /\ id \notin fed
      /\ st \in Nat /\ at <= st + v
      /\ \A s \in Nat : s % v = 0 /\ s < at /\ at <= s + v => s = st
      /\ Closes(Source, tf, id) <=> at >= st + v
  BY <1>1, <1>5, <1>6, SourceBarIsNewest
<1>9. /\ n \in Bars /\ n.start = st
      /\ Len(n.of) \in Nat /\ Len(n.of) > 0 /\ n.of[Len(n.of)] = id
      /\ \A w \in S : Len(n.of) = Len(w.of) + 1 /\ \A i \in Indices(w) : n.of[i] = w.of[i]
      /\ \A i \in Indices(n) :
           i = Len(n.of) \/ \E w \in S : i \in Indices(w) /\ n.of[i] = w.of[i]
      /\ \A h \in K : h # n
  <2>1. Joins(tf, id, n)
    BY <1>1, <1>2, JoiningBar
  <2> QED BY <1>3, <1>4, <1>5, <2>1 DEF Joins
<1>10. /\ at \in Nat /\ at > clock /\ clock \in Nat /\ stream \in Nat /\ v \in Nat /\ v > 0
       /\ \A e \in fed :
            e \in Nat \X Nat /\ e[1] \in 1 .. stream /\ (e[1] = stream => e[2] <= clock)
  <2>1. at \in Nat /\ at > clock /\ clock \in Nat /\ stream \in Nat
    BY TimesAssumption, BoundsAssumption DEF StateInv, RecordBar
  <2>2. v \in Nat /\ v > 0
    BY <1>6, Widths DEF StateInv
  <2>3. \A e \in fed : e \in Nat \X Nat /\ e[1] \in 1 .. stream
    BY FedInterval
  <2>4. \A e \in fed : e[1] = stream => e[2] <= clock
    BY DEF StateInv
  <2> QED BY <2>1, <2>2, <2>3, <2>4
<1>11. /\ S \subseteq windows[tf] /\ \A w \in S : w.start = st
       /\ \A a, b \in S : a = b
       /\ \A h \in K : h \in emitted[tf] \/ (h \in windows[tf] /\ h.start # st)
       /\ K \cap S = {}
  <2>1. tf \in Timeframes
    BY Widths DEF StateInv
  <2>2. windows[tf] = {} \/ \E w : windows[tf] = {w}
    BY <2>1 DEF StateInv
  <2>3. windows[tf] \cap emitted[tf] = {}
    BY DEF BarsInv
  <2> QED BY <1>3, <1>4, <1>5, <2>2, <2>3 DEF Same, Kept, Replaced
<1>12. \A h \in K \cup S : BarInv(tf, h) /\ Complete(tf, h)
  BY <1>7 DEF BarsInv
<1>13. Len(n.of) \in Indices(n) /\ \A w \in S : Indices(w) \subseteq Indices(n)
  <2>1. Len(n.of) \in Indices(n)
    BY <1>9 DEF Indices
  <2>2. ASSUME NEW w \in S PROVE Indices(w) \subseteq Indices(n)
    <3>1. Len(n.of) = Len(w.of) + 1 /\ Len(n.of) \in Nat
      BY <1>9
    <3>2. w.of \in Seq(Nat \X Nat)
      BY <1>12 DEF BarInv, Bars
    <3>3. Len(w.of) \in Nat
      BY <3>2, LenProperties
    <3> DEFINE a == Len(n.of)
               b == Len(w.of)
    <3> HIDE DEF a, b
    <3>4. a = b + 1 /\ b \in Nat
      BY <3>1, <3>3 DEF a, b
    <3>5. 1 .. b \subseteq 1 .. a
      BY <3>4
    <3> QED BY <3>5 DEF Indices, a, b
  <2> QED BY <2>1, <2>2
\* The bars that are kept have nothing of the interval in this stream.
<1>14. ASSUME NEW h \in K, NEW i \in Indices(h), h.of[i][1] = stream PROVE h.start # st
  <2>1. CASE h \in emitted[tf]
    <3>1. ClosedAt(h, tf) <= clock
      BY <1>14, <2>1 DEF BarsInv
    <3>2. h.start + v <= clock
      BY <1>6, <3>1 DEF ClosedAt
    <3> QED BY <1>8, <1>10, <3>2
  <2>2. CASE h \in windows[tf] /\ h.start # st
    BY <2>2
  <2> QED BY <1>11, <2>1, <2>2
<1>15. ASSUME NEW h \in K \cup {n} PROVE BarInv(tf, h)'
  <2>1. CASE h \in K
    BY <1>7, <1>12, <2>1 DEF BarInv
  <2>2. CASE h = n
    <3>1. ASSUME NEW i \in Indices(n)
          PROVE  n.of[i] \in fed' /\ Opened(n.of[i], Source, tf) = n.start
      <4>1. CASE i = Len(n.of)
        BY <1>5, <1>7, <1>9, <4>1
      <4>2. ASSUME NEW w \in S, i \in Indices(w), n.of[i] = w.of[i]
            PROVE  n.of[i] \in fed' /\ Opened(n.of[i], Source, tf) = n.start
        BY <1>7, <1>9, <1>11, <1>12, <4>2 DEF BarInv
      <4> QED BY <1>9, <4>1, <4>2
    <3>2. ASSUME NEW i \in Indices(n), NEW j \in Indices(n), i < j
          PROVE  Before(n.of[i], n.of[j])
      <4>1. i # Len(n.of)
        BY <1>9, <3>2 DEF Indices
      <4>2. PICK w \in S : i \in Indices(w) /\ n.of[i] = w.of[i]
        BY <1>9, <4>1
      <4>3. CASE j = Len(n.of)
        <5>1. n.of[i] \in fed
          BY <1>12, <4>2 DEF BarInv
        <5> QED BY <1>8, <1>9, <4>3, <5>1
      <4>4. CASE j # Len(n.of)
        <5>1. j \in Indices(w) /\ n.of[j] = w.of[j]
          BY <1>9, <1>11, <4>2, <4>4
        <5> QED BY <1>12, <3>2, <4>2, <5>1 DEF BarInv
      <4> QED BY <4>3, <4>4
    <3>3. \A i \in Indices(n) : n.of[i] \in fed' /\ Opened(n.of[i], Source', tf) = n.start
      BY <1>7, <3>1
    <3> QED BY <1>9, <2>2, <3>2, <3>3 DEF BarInv
  <2> QED BY <2>1, <2>2
<1>16. windows'[tf] \cap emitted'[tf] = {}
  BY <1>7, <1>9
<1>17. ASSUME NEW e \in fed' PROVE \E h \in K \cup {n} : \E i \in Indices(h) : h.of[i] = e
  <2>1. CASE e = id
    BY <1>9, <1>13, <2>1
  <2>2. CASE e \in fed
    <3>1. PICK h \in K \cup S : \E i \in Indices(h) : h.of[i] = e
      BY <1>7, <2>2 DEF BarsInv
    <3>2. CASE h \in S
      BY <1>9, <1>13, <3>1, <3>2
    <3> QED BY <3>1, <3>2
  <2> QED BY <1>7, <2>1, <2>2
<1>18. \A g, h \in K \cup S : Apart(g, h)
  BY <1>7 DEF BarsInv
<1>19. ASSUME NEW h \in K, NEW i \in Indices(h), NEW j \in Indices(n) PROVE n.of[j] # h.of[i]
  <2>1. h.of[i] \in fed
    BY <1>12 DEF BarInv
  <2>2. CASE j = Len(n.of)
    BY <1>8, <1>9, <2>1, <2>2
  <2>3. ASSUME NEW w \in S, j \in Indices(w), n.of[j] = w.of[j] PROVE n.of[j] # h.of[i]
    <3>1. Apart(w, h) /\ w # h
      BY <1>11, <1>18
    <3> QED BY <2>3, <3>1 DEF Apart
  <2> QED BY <1>9, <2>2, <2>3
<1>20. Apart(n, n)
  <2> SUFFICES ASSUME NEW i \in Indices(n), NEW j \in Indices(n), n.of[j] = n.of[i]
               PROVE  j = i
    BY DEF Apart
  <2>1. n.of[i] \in Nat \X Nat
    <3>1. n.of \in Seq(Nat \X Nat) /\ i \in 1 .. Len(n.of)
      BY <1>9 DEF Bars, Indices
    <3> QED BY <3>1, ElementOfSeq
  <2>2. ~Before(n.of[i], n.of[i])
    BY <2>1 DEF Before
  <2>3. BarInv(tf, n)'
    BY <1>15
  <2>4. ~(i < j) /\ ~(j < i)
    BY <2>2, <2>3 DEF BarInv
  <2> QED BY <2>4 DEF Indices
<1>21. ASSUME NEW g \in K \cup {n}, NEW h \in K \cup {n} PROVE Apart(g, h)
  <2>1. CASE g \in K /\ h \in K
    BY <1>18, <2>1
  <2>2. CASE g = n /\ h = n
    BY <1>20, <2>2
  <2>3. CASE g = n /\ h \in K
    BY <1>19, <2>3 DEF Apart
  <2>4. CASE g \in K /\ h = n
    BY <1>19, <2>4 DEF Apart
  <2> QED BY <2>1, <2>2, <2>3, <2>4
<1>22. ASSUME NEW h \in K \cup {n} PROVE Complete(tf, h)'
  <2> SUFFICES ASSUME NEW i \in Indices(h), NEW e \in fed',
                      e[1] = h.of[i][1], Opened(e, Source, tf) = h.start
               PROVE  \E j \in Indices(h) : h.of[j] = e
    BY <1>7 DEF Complete
  <2>1. CASE h \in K /\ e \in fed
    BY <1>12, <2>1 DEF Complete
  <2>2. CASE h \in K /\ e = id
    BY <1>5, <1>8, <1>14, <2>2
  <2>3. CASE h = n /\ e = id
    BY <1>9, <1>13, <2>3
  <2>4. CASE h = n /\ e \in fed /\ e[1] = stream
    <3>1. PICK g \in K \cup S : \E k \in Indices(g) : g.of[k] = e
      BY <1>7, <2>4 DEF BarsInv
    <3>2. PICK k \in Indices(g) : g.of[k] = e
      BY <3>1
    <3>3. g.start = st
      BY <1>9, <1>12, <2>4, <3>2 DEF BarInv
    <3>4. g \in S
      BY <1>14, <2>4, <3>2, <3>3
    <3> QED BY <1>9, <1>13, <2>4, <3>2, <3>4
  <2>5. CASE h = n /\ e \in fed /\ e[1] # stream
    <3>1. PICK w \in S : i \in Indices(w) /\ n.of[i] = w.of[i]
      BY <1>8, <1>9, <2>5
    <3>2. \E j \in Indices(w) : w.of[j] = e
      BY <1>9, <1>11, <1>12, <2>5, <3>1 DEF Complete
    <3> QED BY <1>9, <1>13, <2>5, <3>2
  <2> QED BY <1>7, <2>1, <2>2, <2>3, <2>4, <2>5
<1>23. ASSUME NEW w \in windows'[tf] PROVE Newest(tf, w)'
  <2>1. ~Closes(Source, tf, id) /\ w = n
    BY <1>7, <1>23
  <2>2. at < st + v
    BY <1>8, <1>10, <2>1
  <2>3. n.of[Len(n.of)][2] < ClosedAt(n, tf)
    BY <1>6, <1>8, <1>9, <2>2 DEF ClosedAt
  <2>4. \A e \in fed' : e = n.of[Len(n.of)] \/ Before(e, n.of[Len(n.of)])
    BY <1>7, <1>8, <1>9
  <2> QED BY <2>1, <2>3, <2>4 DEF Newest
<1>24. ASSUME NEW h \in emitted'[tf], NEW i \in Indices(h), h.of[i][1] = stream'
       PROVE  ClosedAt(h, tf) <= clock'
  <2>1. SUFFICES h.start + v <= at
    BY <1>6, <1>7 DEF ClosedAt
  <2>2. CASE h = n
    <3>1. Closes(Source, tf, id)
      BY <1>7, <1>9, <1>24, <2>2
    <3> QED BY <1>8, <1>9, <2>2, <3>1
  <2>3. CASE h \in emitted[tf]
    <3>1. ClosedAt(h, tf) <= clock
      BY <1>7, <1>24, <2>3 DEF BarsInv
    <3>2. h \in Bars
      BY <2>3, <1>7, <1>12 DEF BarInv, Holders
    <3>3. h.start + v <= clock /\ h.start \in Nat
      BY <1>6, <3>1, <3>2 DEF ClosedAt, Bars
    <3> QED BY <1>10, <3>3
  <2>4. CASE h \in windows[tf] /\ h \in K /\ h.start # st
    <3>1. h \in Bars /\ h.of[i] \in fed /\ Opened(h.of[i], Source, tf) = h.start
      BY <1>12, <1>24, <2>4 DEF BarInv
    <3>2. h.start \in Nat /\ h.start < h.of[i][2] /\ h.start % v = 0
      BY <1>6, <3>1, FedInterval
    <3>3. h.of[i][2] <= clock /\ h.of[i][2] \in Nat
      BY <1>7, <1>10, <1>24, <3>1
    <3>4. h.start < at
      BY <1>10, <3>2, <3>3
    <3>5. ~(at <= h.start + v)
      BY <1>8, <2>4, <3>2, <3>4
    <3> QED BY <1>10, <3>2, <3>5
  <2> QED BY <1>7, <1>11, <1>24, <2>2, <2>3, <2>4
\* A bar that stays has no part in the mixing of the one that grows.
<1>25. ASSUME NEW s \in 1 .. stream, NEW h \in K, Mixed(n, s), Mixed(h, s) PROVE FALSE
  <2>1. PICK i \in Indices(n), j \in Indices(n) : n.of[i][1] < s /\ n.of[j][1] = s
    BY <1>25 DEF Mixed
  <2>2. i # Len(n.of)
    BY <1>8, <1>9, <1>10, <2>1
  <2>3. PICK w \in S : i \in Indices(w) /\ n.of[i] = w.of[i]
    BY <1>9, <2>2
  <2>4. Mixed(w, s)
    <3>1. CASE j # Len(n.of)
      <4>1. j \in Indices(w) /\ n.of[j] = w.of[j]
        BY <1>9, <1>11, <2>3, <3>1
      <4> QED BY <2>1, <2>3, <4>1 DEF Mixed
    <3>2. CASE j = Len(n.of)
      <4>1. s = stream
        BY <1>8, <1>9, <2>1, <3>2
      <4>2. PICK k \in Indices(h) : h.of[k][1] = s
        BY <1>25 DEF Mixed
      <4> DEFINE last == w.of[Len(w.of)]
      <4>3. h.of[k] \in fed /\ (h.of[k] = last \/ Before(h.of[k], last))
        BY <1>11, <1>12, <2>3 DEF BarsInv, BarInv, Newest
      <4>4. Len(w.of) \in Indices(w)
        <5>1. w.of \in Seq(Nat \X Nat) /\ Len(w.of) > 0
          BY <1>12 DEF BarInv, Bars
        <5>2. Len(w.of) \in Nat
          BY <5>1, LenProperties
        <5> QED BY <5>1, <5>2 DEF Indices
      <4>5. last \in fed
        BY <1>12, <4>4 DEF BarInv
      <4>6. last[1] = s
        BY <1>10, <4>1, <4>2, <4>3, <4>5 DEF Before
      <4> QED BY <2>1, <2>3, <4>4, <4>6 DEF Mixed
    <3> QED BY <3>1, <3>2
  <2>5. w = h
    BY <1>7, <1>25, <2>4 DEF BarsInv
  <2> QED BY <1>11, <2>5
<1>26. ASSUME NEW s \in 1 .. stream', NEW g \in K \cup {n}, NEW h \in K \cup {n},
              Mixed(g, s), Mixed(h, s)
       PROVE  g = h
  <2>1. CASE g \in K /\ h \in K
    BY <1>7, <1>26, <2>1 DEF BarsInv
  <2>2. CASE g = n /\ h \in K
    BY <1>7, <1>25, <1>26, <2>2
  <2>3. CASE g \in K /\ h = n
    BY <1>7, <1>25, <1>26, <2>3
  <2> QED BY <2>1, <2>2, <2>3
<1> QED
  BY <1>7, <1>15, <1>16, <1>17, <1>21, <1>22, <1>23, <1>24, <1>26 DEF BarsInv

\* A start, which replays source bars of a stream of its own, leaves the bars as they are.
LEMMA StartKeepsBars ==
  ASSUME StateInv, NEW tf \in Targets, BarsInv(tf), StartWarmup
  PROVE  BarsInv(tf)'
<1>1. /\ stream' = stream + 1 /\ strategy' = strategy /\ windows' = windows /\ fed' = fed
      /\ emitted' = emitted
  BY DEF StartWarmup
<1>2. Source' = Source /\ Holders(tf)' = Holders(tf)
  BY <1>1 DEF Source, Holders
<1>3. stream \in Nat
  BY BoundsAssumption DEF StateInv
<1>4. ASSUME NEW h \in Holders(tf), NEW i \in Indices(h) PROVE h.of[i][1] \in 1 .. stream
  <2>1. h.of[i] \in fed
    BY DEF BarsInv, BarInv
  <2> QED BY <2>1, FedInterval
<1>5. ASSUME NEW h \in Holders(tf), Mixed(h, stream + 1) PROVE FALSE
  BY <1>3, <1>4, <1>5 DEF Mixed
<1>6. ASSUME NEW h \in Holders(tf)
      PROVE  BarInv(tf, h)' /\ Complete(tf, h)'
  BY <1>1, <1>2 DEF BarsInv, BarInv, Complete
<1>7. ASSUME NEW w \in windows[tf] PROVE Newest(tf, w)'
  BY <1>1 DEF BarsInv, Newest
<1>8. ASSUME NEW h \in emitted[tf], NEW i \in Indices(h) PROVE h.of[i][1] # stream'
  BY <1>1, <1>3, <1>4 DEF Holders
<1>9. ASSUME NEW s \in 1 .. stream', NEW g \in Holders(tf), NEW h \in Holders(tf),
             Mixed(g, s), Mixed(h, s)
      PROVE  g = h
  <2>1. s \in 1 .. stream \/ s = stream + 1
    BY <1>1, <1>3, <1>9
  <2> QED BY <1>5, <1>9, <2>1 DEF BarsInv
<1>10. /\ windows[tf] \cap emitted[tf] = {}
       /\ \A id \in fed : \E h \in Holders(tf) : \E i \in Indices(h) : h.of[i] = id
       /\ \A g, h \in Holders(tf) : Apart(g, h)
  BY DEF BarsInv
<1> QED BY <1>1, <1>2, <1>6, <1>7, <1>8, <1>9, <1>10 DEF BarsInv

\* The bars of every timeframe, at all times.
LEMMA BarsHold == Spec => [](StateInv /\ \A tf \in Targets : BarsInv(tf))
<1> DEFINE Inv == \A tf \in Targets : BarsInv(tf)
<1>1. Init => Inv
  <2> SUFFICES ASSUME Init, NEW tf \in Targets PROVE BarsInv(tf)
    OBVIOUS
  <2>1. tf \in Timeframes
    BY Widths DEF Init
  <2>2. windows[tf] = {} /\ emitted[tf] = {} /\ fed = {} /\ Holders(tf) = {}
    BY <2>1 DEF Init, Holders
  <2> QED BY <2>2 DEF BarsInv
<1>2. StateInv /\ Inv /\ [Next]_vars => Inv'
  <2> SUFFICES ASSUME StateInv, Inv, [Next]_vars, NEW tf \in Targets' PROVE BarsInv(tf)'
    OBVIOUS
  <2>1. strategy' = strategy
    BY DEF Next, StartWarmup, RecordBar, vars
  <2>2. tf \in Targets /\ BarsInv(tf)
    BY <2>1 DEF Targets
  <2>3. CASE StartWarmup
    BY <2>2, <2>3, StartKeepsBars
  <2>4. ASSUME NEW at \in 1 .. LastTime, RecordBar(at) PROVE BarsInv(tf)'
    BY <2>2, <2>4, RecordKeepsBars
  <2>5. CASE UNCHANGED vars
    BY <2>2, <2>5 DEF vars, BarsInv, BarInv, Complete, Newest, Holders, Source
  <2> QED BY <2>3, <2>4, <2>5 DEF Next
<1> HIDE DEF Inv
<1>3. Spec => []Inv
  BY <1>1, <1>2, StateHolds, PTL DEF Spec
<1>4. Spec => [](StateInv /\ Inv)
  BY <1>3, StateHolds, PTL
<1> QED BY <1>4 DEF Inv

\* The elements of a bar are those at its indices.
LEMMA ElementsOfBar ==
  ASSUME NEW tf, NEW h, BarInv(tf, h)
  PROVE  DOMAIN h.of = Indices(h) /\ ToSet(h.of) = {h.of[i] : i \in Indices(h)}
<1>1. h.of \in Seq(Nat \X Nat)
  BY DEF BarInv, Bars
<1>2. DOMAIN h.of = Indices(h)
  BY <1>1, LenProperties DEF Indices
<1> QED BY <1>2 DEF ToSet

\* Whatever gaps, replays and restarts there are, each source bar goes into one bar of
\* each target timeframe, once, and the bar is either in progress or out.
THEOREM SourceBarsHavePlaces == Spec => []EachBarInOnePlace
<1>1. StateInv /\ (\A tf \in Targets : BarsInv(tf)) => EachBarInOnePlace
  <2> SUFFICES ASSUME StateInv, \A tf \in Targets : BarsInv(tf) PROVE EachBarInOnePlace
    OBVIOUS
  <2>1. BarsTypeOK
    <3>1. ASSUME NEW tf \in Timeframes PROVE Cardinality(windows[tf]) <= 1
      <4>1. CASE windows[tf] = {}
        BY <4>1, FS_EmptySet
      <4>2. ASSUME NEW w, windows[tf] = {w} PROVE Cardinality(windows[tf]) <= 1
        <5>1. Cardinality({w}) = 1
          BY FS_Singleton
        <5> QED BY <4>2, <5>1
      <4> QED BY <4>1, <4>2 DEF StateInv
    <3>2. fed \subseteq (1 .. MaxStreams) \X (1 .. LastTime)
      <4>1. 1 .. stream \subseteq 1 .. MaxStreams
        BY BoundsAssumption DEF StateInv
      <4> QED BY <4>1 DEF StateInv
    <3> QED BY <3>1, <3>2 DEF StateInv, BarsTypeOK
  <2>2. ASSUME NEW tf \in Targets
        PROVE  /\ windows[tf] \cap emitted[tf] = {}
               /\ \A id \in fed : \E h \in Holders(tf) : id \in ToSet(h.of)
               /\ \A h \in Holders(tf) : \A i \in DOMAIN h.of :
                    /\ h.of[i] \in fed
                    /\ \A g \in Holders(tf) : \A j \in DOMAIN g.of :
                         g.of[j] = h.of[i] => g = h /\ j = i
    <3>1. BarsInv(tf)
      OBVIOUS
    <3>2. \A h \in Holders(tf) : BarInv(tf, h)
      BY <3>1 DEF BarsInv
    <3>3. \A h \in Holders(tf) :
            DOMAIN h.of = Indices(h) /\ ToSet(h.of) = {h.of[i] : i \in Indices(h)}
      BY <3>2, ElementsOfBar
    <3>4. ASSUME NEW id \in fed PROVE \E h \in Holders(tf) : id \in ToSet(h.of)
      BY <3>1, <3>3 DEF BarsInv
    <3>5. ASSUME NEW h \in Holders(tf), NEW i \in DOMAIN h.of
          PROVE  /\ h.of[i] \in fed
                 /\ \A g \in Holders(tf) : \A j \in DOMAIN g.of :
                      g.of[j] = h.of[i] => g = h /\ j = i
      BY <3>1, <3>2, <3>3 DEF BarsInv, BarInv, Apart
    <3> QED BY <3>1, <3>4, <3>5 DEF BarsInv
  <2> QED BY <2>1, <2>2 DEF EachBarInOnePlace
<1> QED BY <1>1, BarsHold, PTL

\* A bar of a longer timeframe has all source bars of its interval that the streams it is
\* made from delivered, in the order of their times, and no other; and none is held back.
THEOREM BarsAreWholeIntervals == Spec => []BarsGroupByWindow
<1>1. StateInv /\ (\A tf \in Targets : BarsInv(tf)) => BarsGroupByWindow
  <2> SUFFICES ASSUME StateInv, \A tf \in Targets : BarsInv(tf),
                      NEW tf \in Targets, NEW h \in Holders(tf)
               PROVE  /\ \A i \in DOMAIN h.of :
                           {id \in fed : id[1] = h.of[i][1] /\ h.start < id[2]
                                           /\ id[2] <= ClosedAt(h, tf)}
                             = {id \in ToSet(h.of) : id[1] = h.of[i][1]}
                      /\ \A i, j \in DOMAIN h.of :
                           i < j /\ h.of[i][1] = h.of[j][1] => h.of[i][2] < h.of[j][2]
                      /\ h \in windows[tf] =>
                           \A id \in fed : id[1] = Last(h.of)[1] => id[2] < ClosedAt(h, tf)
    BY DEF BarsGroupByWindow
  <2>1. BarsInv(tf)
    OBVIOUS
  <2>2. BarInv(tf, h) /\ Complete(tf, h)
    BY <2>1 DEF BarsInv
  <2>3. DOMAIN h.of = Indices(h) /\ ToSet(h.of) = {h.of[i] : i \in Indices(h)}
    BY <2>2, ElementsOfBar
  <2>4. /\ \A i \in Indices(h) : h.of[i] \in fed /\ Opened(h.of[i], Source, tf) = h.start
        /\ Len(h.of) \in Indices(h) /\ h.start \in Nat
    <3>1. h.of \in Seq(Nat \X Nat) /\ Len(h.of) > 0
      BY <2>2 DEF BarInv, Bars
    <3>2. Len(h.of) \in Nat
      BY <3>1, LenProperties
    <3> QED BY <2>2, <3>1, <3>2 DEF BarInv, Bars, Indices
  <2>5. h.start % Width[tf] = 0
    BY <2>4, FedInterval
  <2>6. ASSUME NEW i \in Indices(h), NEW id \in fed, id[1] = h.of[i][1],
               h.start < id[2], id[2] <= ClosedAt(h, tf)
        PROVE  id \in ToSet(h.of)
    <3>1. h.start = Opened(id, Source, tf)
      BY <2>4, <2>5, <2>6, FedInterval DEF ClosedAt
    <3> QED BY <2>2, <2>3, <2>6, <3>1 DEF Complete
  <2>7. ASSUME NEW id \in ToSet(h.of)
        PROVE  id \in fed /\ h.start < id[2] /\ id[2] <= ClosedAt(h, tf)
    <3>1. id \in fed /\ Opened(id, Source, tf) = h.start
      BY <2>3, <2>4
    <3> QED BY <3>1, FedInterval DEF ClosedAt
  <2>8. ASSUME NEW i \in DOMAIN h.of
        PROVE  {id \in fed : id[1] = h.of[i][1] /\ h.start < id[2] /\ id[2] <= ClosedAt(h, tf)}
                 = {id \in ToSet(h.of) : id[1] = h.of[i][1]}
    BY <2>3, <2>6, <2>7
  <2>9. ASSUME NEW i \in DOMAIN h.of, NEW j \in DOMAIN h.of, i < j, h.of[i][1] = h.of[j][1]
        PROVE  h.of[i][2] < h.of[j][2]
    <3>1. Before(h.of[i], h.of[j]) /\ h.of[i][1] \in Nat
      BY <2>2, <2>3, <2>4, <2>9, FedInterval DEF BarInv
    <3> QED BY <2>9, <3>1 DEF Before
  <2>10. ASSUME h \in windows[tf], NEW id \in fed, id[1] = Last(h.of)[1]
         PROVE  id[2] < ClosedAt(h, tf)
    <3> DEFINE last == h.of[Len(h.of)]
    <3>1. last[2] < ClosedAt(h, tf) /\ (id = last \/ Before(id, last))
      BY <2>1, <2>10 DEF BarsInv, Newest
    <3>2. id[1] = last[1]
      BY <2>10 DEF Last
    <3>3. last \in fed
      BY <2>4
    <3>4. last \in Nat \X Nat /\ id \in Nat \X Nat
      BY <3>3, FedInterval
    <3>5. ClosedAt(h, tf) \in Nat
      BY <2>4, Widths DEF ClosedAt, StateInv
    <3> HIDE DEF last
    <3> QED BY <3>1, <3>2, <3>4, <3>5 DEF Before
  <2> QED BY <2>8, <2>9, <2>10
<1> QED BY <1>1, BarsHold, PTL

\* The windows survive a restart, which replays: one bar at most of each timeframe is made
\* of source bars from before a start and after it.
THEOREM OneBarIsMixed == Spec => []RestartMixesOneBar
<1>1. StateInv /\ (\A tf \in Targets : BarsInv(tf)) => RestartMixesOneBar
  <2> SUFFICES ASSUME StateInv, \A tf \in Targets : BarsInv(tf),
                      NEW tf \in Targets, NEW s \in 1 .. stream,
                      NEW g \in Holders(tf), NEW h \in Holders(tf),
                      \E i, j \in DOMAIN g.of : g.of[i][1] < s /\ g.of[j][1] = s,
                      \E i, j \in DOMAIN h.of : h.of[i][1] < s /\ h.of[j][1] = s
               PROVE  g = h
    BY DEF RestartMixesOneBar
  <2>1. BarsInv(tf)
    OBVIOUS
  <2>2. BarInv(tf, g) /\ BarInv(tf, h)
    BY <2>1 DEF BarsInv
  <2>3. DOMAIN g.of = Indices(g) /\ DOMAIN h.of = Indices(h)
    BY <2>2, ElementsOfBar
  <2>4. Mixed(g, s) /\ Mixed(h, s)
    BY <2>3 DEF Mixed
  <2> QED BY <2>1, <2>4 DEF BarsInv
<1> QED BY <1>1, BarsHold, PTL

-----------------------------------------------------------------------------
(* Folds                                                                   *)

\* A set of naturals that is not empty has a least element.
LEMMA LeastExists ==
  ASSUME NEW S \in SUBSET Nat, S # {}
  PROVE  \E p \in S : \A q \in S : p <= q
<1>1. PICK p \in S : \A q \in S : ~(<<q, p>> \in OpToRel(<, Nat))
  BY NatLessThanWellFounded, WFMin
<1>2. \A q \in S : ~(q < p)
  BY <1>1 DEF OpToRel
<1> QED BY <1>2

\* What holds at first and from one number to the next has no first exception: the form
\* in which the proofs below go by induction.
LEMMA NoFirstException ==
  ASSUME NEW S \in SUBSET Nat, 0 \in S, NEW n \in Nat,
         \A k \in 1 .. n : (k - 1) \in S => k \in S
  PROVE  \A k \in 0 .. n : k \in S
<1> SUFFICES ASSUME NEW j \in 0 .. n, j \notin S PROVE FALSE
  OBVIOUS
<1> DEFINE X == {k \in 0 .. n : k \notin S}
<1>1. PICK p \in X : \A q \in X : p <= q
  <2>1. X \in SUBSET Nat /\ X # {}
    OBVIOUS
  <2> HIDE DEF X
  <2> QED BY <2>1, LeastExists
<1>2. p # 0
  BY <1>1
<1>3. p \in 1 .. n /\ (p - 1) \in 0 .. n /\ ~(p <= p - 1)
  BY <1>1, <1>2
<1>4. (p - 1) \in S
  BY <1>1, <1>3
<1> QED BY <1>1, <1>3, <1>4

\* The greatest of the first numbers, and of a part of them.
LEMMA GreatestIndex ==
  ASSUME NEW k \in Nat, k > 0
  PROVE  /\ Max(1 .. k) = k /\ (1 .. k) \ {k} = 1 .. (k - 1)
         /\ \A s \in SUBSET (1 .. k) : k \in s => Max(s) = k /\ s \ {k} \in SUBSET (1 .. (k - 1))
<1>1. ASSUME NEW s \in SUBSET (1 .. k), k \in s
      PROVE  Max(s) = k /\ s \ {k} \in SUBSET (1 .. (k - 1))
  <2>1. k \in s /\ \A y \in s : y \in Nat /\ k >= y
    BY <1>1
  <2>2. \E x \in s : \A y \in s : x >= y
    BY <2>1
  <2>3. Max(s) \in s /\ \A y \in s : Max(s) >= y
    BY <2>2 DEF Max
  <2>4. Max(s) = k
    <3> DEFINE m == Max(s)
    <3>1. m \in Nat /\ m <= k /\ m >= k
      BY <2>1, <2>3
    <3> HIDE DEF m
    <3>2. m = k
      BY <3>1
    <3> QED BY <3>2 DEF m
  <2>5. s \ {k} \in SUBSET (1 .. (k - 1))
    OBVIOUS
  <2> QED BY <2>4, <2>5
<1>2. (1 .. k) \ {k} = 1 .. (k - 1)
  OBVIOUS
<1> QED BY <1>1, <1>2

\* The function that a fold over the first n numbers is made of: of a set of them, it is
\* the step for the greatest from what it is of the others.
IsFold(g, n, T, base, op) ==
  /\ g \in [SUBSET (1 .. n) -> T]
  /\ \A s \in SUBSET (1 .. n) :
       g[s] = IF s = {} THEN base ELSE op[<<g[s \ {Max(s)}], Max(s)>>]

\* It exists, if each step stays in a set T.
LEMMA FoldExists ==
  ASSUME NEW n \in Nat, NEW T, NEW base \in T, NEW op \in [T \X (1 .. n) -> T]
  PROVE  \E g : IsFold(g, n, T, base, op)
<1> DEFINE Steps(g, k) ==
             \A s \in SUBSET (1 .. k) :
               g[s] = IF s = {} THEN base ELSE op[<<g[s \ {Max(s)}], Max(s)>>]
           S == {k \in 0 .. n : \E g \in [SUBSET (1 .. k) -> T] : Steps(g, k)}
<1>1. 0 \in S
  <2> DEFINE g == [s \in SUBSET (1 .. 0) |-> base]
  <2>1. g \in [SUBSET (1 .. 0) -> T]
    OBVIOUS
  <2>2. Steps(g, 0)
    <3>1. \A s \in SUBSET (1 .. 0) : s = {}
      OBVIOUS
    <3> QED BY <3>1
  <2>3. 0 \in 0 .. n
    OBVIOUS
  <2> HIDE DEF g, Steps
  <2> QED BY <2>1, <2>2, <2>3
<1>2. ASSUME NEW k \in 1 .. n, (k - 1) \in S PROVE k \in S
  <2>1. PICK f \in [SUBSET (1 .. (k - 1)) -> T] : Steps(f, k - 1)
    BY <1>2
  <2> DEFINE g == [s \in SUBSET (1 .. k) |-> IF k \in s THEN op[<<f[s \ {k}], k>>] ELSE f[s]]
  <2>2. k \in Nat /\ k > 0
    OBVIOUS
  <2>3. ASSUME NEW s \in SUBSET (1 .. k)
        PROVE  /\ g[s] \in T
               /\ g[s] = IF s = {} THEN base ELSE op[<<g[s \ {Max(s)}], Max(s)>>]
    <3>1. CASE k \in s
      <4>1. Max(s) = k /\ s \ {k} \in SUBSET (1 .. (k - 1)) /\ k \notin s \ {k}
        BY <2>2, <3>1, GreatestIndex
      <4>2. s \ {k} \in SUBSET (1 .. k)
        OBVIOUS
      <4>3. g[s] = op[<<f[s \ {k}], k>>] /\ g[s \ {k}] = f[s \ {k}]
        BY <3>1, <4>1, <4>2
      <4>4. f[s \ {k}] \in T
        BY <2>1, <4>1
      <4>5. op[<<f[s \ {k}], k>>] \in T
        BY <4>4
      <4> HIDE DEF g
      <4> QED BY <3>1, <4>1, <4>3, <4>5
    <3>2. CASE k \notin s
      <4>1. s \in SUBSET (1 .. (k - 1))
        BY <3>2
      <4>2. g[s] = f[s]
        BY <3>2
      <4>3. f[s] \in T /\ f[s] = IF s = {} THEN base ELSE op[<<f[s \ {Max(s)}], Max(s)>>]
        BY <2>1, <4>1
      <4>4. g[s \ {Max(s)}] = f[s \ {Max(s)}]
        <5>1. s \ {Max(s)} \in SUBSET (1 .. k) /\ k \notin s \ {Max(s)}
          BY <3>2
        <5> QED BY <5>1
      <4> HIDE DEF g
      <4> QED BY <4>2, <4>3, <4>4
    <3> QED BY <3>1, <3>2
  <2>4. g \in [SUBSET (1 .. k) -> T]
    <3>1. \A s \in SUBSET (1 .. k) : g[s] \in T
      BY <2>3
    <3> QED BY <3>1
  <2> HIDE DEF g
  <2>5. Steps(g, k)
    BY <2>3
  <2>6. k \in 0 .. n
    OBVIOUS
  <2> HIDE DEF Steps
  <2> QED BY <2>4, <2>5, <2>6
<1>3. S \in SUBSET Nat
  OBVIOUS
<1> HIDE DEF S
<1>4. n \in S
  BY <1>1, <1>2, <1>3, NoFirstException
<1> QED BY <1>4 DEF S, IsFold

\* A set of the first n numbers that is not empty has a greatest.
LEMMA GreatestExists ==
  ASSUME NEW n \in Nat, NEW s \in SUBSET (1 .. n), s # {}
  PROVE  Max(s) \in s
<1> DEFINE Bounds == {k \in 0 .. n : \A x \in s : x <= k}
<1>1. PICK p \in Bounds : \A q \in Bounds : p <= q
  <2>1. n \in Bounds /\ Bounds \in SUBSET Nat
    OBVIOUS
  <2> HIDE DEF Bounds
  <2> QED BY <2>1, LeastExists
<1>2. p \in s
  <2> SUFFICES ASSUME p \notin s PROVE FALSE
    OBVIOUS
  <2>1. PICK x \in s : TRUE
    OBVIOUS
  <2>2. \A y \in s : y <= p - 1
    BY <1>1
  <2>3. p - 1 \in Bounds
    BY <1>1, <2>1, <2>2
  <2> QED BY <1>1, <2>3
<1>3. \A y \in s : p >= y
  BY <1>1
<1> QED BY <1>2, <1>3 DEF Max

-----------------------------------------------------------------------------
(* Rolling buffers                                                         *)

\* What a buffer of the bars of a set may be.
BuffersOf(A, tf) == {q \in Seq(A) : Len(q) <= Capacity(tf)}

\* The capacity of a buffer is at least one.
LEMMA CapacityIsPositive ==
  ASSUME strategy \in Strategies, NEW tf \in Required
  PROVE  Capacity(tf) \in Nat /\ Capacity(tf) >= 1
<1> DEFINE a == strategy.bars_required[tf]
           b == ChartWindow \div Width[tf]
<1>1. a \in Nat
  BY Widths
<1>2. b \in Nat
  <2> DEFINE w == Width[tf]
  <2>1. w \in Nat /\ w > 0 /\ ChartWindow \in Nat
    BY Widths, TimesAssumption
  <2> HIDE DEF w
  <2> QED BY <2>1 DEF w
<1> HIDE DEF a, b
<1>3. \E x \in {a, b, 1} : \A y \in {a, b, 1} : x >= y
  BY <1>1, <1>2
<1>4. Max({a, b, 1}) \in {a, b, 1} /\ \A y \in {a, b, 1} : Max({a, b, 1}) >= y
  BY <1>3 DEF Max
<1>5. Max({a, b, 1}) \in Nat /\ Max({a, b, 1}) >= 1
  BY <1>1, <1>2, <1>4
<1> QED BY <1>5 DEF Capacity, a, b

\* A push puts the bar last and drops at most the first one.
LEMMA PushKeeps ==
  ASSUME NEW tf, Capacity(tf) \in Nat, Capacity(tf) >= 1,
         NEW A, NEW buffer \in BuffersOf(A, tf), NEW bar \in A, NEW after,
         after = Push(buffer, bar, tf)
  PROVE  /\ after \in BuffersOf(A, tf)
         /\ Len(after) \in Nat /\ Len(after) > 0 /\ after[Len(after)] = bar
         /\ \E d \in {0, 1} : /\ Len(buffer) = Len(after) - 1 + d
                              /\ \A i \in 1 .. (Len(after) - 1) : after[i] = buffer[i + d]
<1> DEFINE kept == IF Len(buffer) = Capacity(tf) THEN Tail(buffer) ELSE buffer
<1>1. buffer \in Seq(A) /\ Len(buffer) \in Nat /\ Len(buffer) <= Capacity(tf)
  BY LenProperties DEF BuffersOf
<1>2. after = Append(kept, bar)
  BY DEF Push
<1>3. /\ kept \in Seq(A)
      /\ \E d \in {0, 1} : /\ Len(buffer) = Len(kept) + d
                           /\ \A i \in 1 .. Len(kept) : kept[i] = buffer[i + d]
      /\ Len(kept) + 1 <= Capacity(tf)
  <2>1. CASE Len(buffer) = Capacity(tf)
    <3>1. kept = Tail(buffer)
      BY <2>1
    <3>2. buffer # <<>>
      BY <1>1, <2>1
    <3>3. /\ Tail(buffer) \in Seq(A) /\ Len(Tail(buffer)) = Len(buffer) - 1
          /\ \A i \in 1 .. Len(Tail(buffer)) : Tail(buffer)[i] = buffer[i + 1]
      BY <1>1, <3>2, HeadTailProperties
    <3> HIDE DEF kept
    <3> QED BY <1>1, <2>1, <3>1, <3>3
  <2>2. CASE Len(buffer) # Capacity(tf)
    <3>1. kept = buffer
      BY <2>2
    <3> HIDE DEF kept
    <3>2. Len(kept) + 1 <= Capacity(tf)
      BY <1>1, <2>2, <3>1
    <3>3. Len(buffer) = Len(kept) + 0 /\ \A i \in 1 .. Len(kept) : kept[i] = buffer[i + 0]
      BY <1>1, <3>1
    <3> QED BY <1>1, <3>1, <3>2, <3>3
  <2> QED BY <2>1, <2>2
<1> HIDE DEF kept
<1>4. /\ after \in Seq(A) /\ Len(after) = Len(kept) + 1 /\ Len(kept) \in Nat
      /\ \A i \in 1 .. Len(kept) : after[i] = kept[i]
      /\ after[Len(kept) + 1] = bar
  BY <1>2, <1>3, AppendedSequence
<1>5. after \in BuffersOf(A, tf) /\ Len(after) \in Nat /\ Len(after) > 0 /\ after[Len(after)] = bar
  <2> DEFINE n == Len(after)
             m == Len(kept)
  <2>1. n = m + 1 /\ m \in Nat /\ m + 1 <= Capacity(tf) /\ after[m + 1] = bar
    BY <1>3, <1>4
  <2> HIDE DEF n, m
  <2>2. n \in Nat /\ n > 0 /\ n <= Capacity(tf) /\ after[n] = bar
    BY <2>1
  <2> QED BY <1>4, <2>2 DEF n, BuffersOf
<1>6. PICK d \in {0, 1} : /\ Len(buffer) = Len(kept) + d
                          /\ \A i \in 1 .. Len(kept) : kept[i] = buffer[i + d]
  BY <1>3
<1>7. Len(kept) = Len(after) - 1
  BY <1>4
<1>8. Len(buffer) = Len(after) - 1 + d
  BY <1>6, <1>7
<1>9. \A i \in 1 .. (Len(after) - 1) : after[i] = buffer[i + d]
  BY <1>4, <1>6, <1>7
<1> QED BY <1>5, <1>8, <1>9

\* The function that FoldLeft makes of the pushes.
PushFold(buffer, bars, tf) ==
  CHOOSE g : g = [s \in SUBSET (DOMAIN bars) |->
                    IF s = {} THEN buffer ELSE Push(g[s \ {Max(s)}], bars[Max(s)], tf)]

\* Pushing a sequence is pushing its bars one after the other.
LEMMA PushAllUnrolls ==
  ASSUME NEW tf, Capacity(tf) \in Nat, Capacity(tf) >= 1,
         NEW A, NEW buffer \in BuffersOf(A, tf), NEW bars \in Seq(A)
  PROVE  \E g : /\ PushAll(buffer, bars, tf) = g[1 .. Len(bars)]
                /\ g[1 .. 0] = buffer
                /\ \A k \in 1 .. Len(bars) : g[1 .. k] = Push(g[1 .. (k - 1)], bars[k], tf)
<1>1. PICK n : n = Len(bars)
  OBVIOUS
<1>2. n \in Nat /\ DOMAIN bars = 1 .. n /\ \A i \in 1 .. n : bars[i] \in A
  BY <1>1, LenProperties, ElementOfSeq
<1>3. PICK T : T = BuffersOf(A, tf)
  OBVIOUS
<1> DEFINE op == [p \in T \X (1 .. n) |-> Push(p[1], bars[p[2]], tf)]
           Body(g, s) == IF s = {} THEN buffer ELSE Push(g[s \ {Max(s)}], bars[Max(s)], tf)
<1>4. op \in [T \X (1 .. n) -> T]
  <2>1. ASSUME NEW p \in T \X (1 .. n) PROVE Push(p[1], bars[p[2]], tf) \in T
    <3>1. p[1] \in BuffersOf(A, tf) /\ bars[p[2]] \in A
      BY <1>2, <1>3
    <3> QED BY <1>3, <3>1, PushKeeps
  <2> QED BY <2>1
<1>5. PICK g \in [SUBSET (1 .. n) -> T] : \A s \in SUBSET (1 .. n) :
        g[s] = IF s = {} THEN buffer ELSE op[<<g[s \ {Max(s)}], Max(s)>>]
  <2>1. n \in Nat /\ buffer \in T
    BY <1>2, <1>3
  <2> HIDE DEF op
  <2>2. PICK g : IsFold(g, n, T, buffer, op)
    BY <1>4, <2>1, FoldExists
  <2> QED BY <2>2 DEF IsFold
<1>6. ASSUME NEW s \in SUBSET (1 .. n) PROVE g[s] = Body(g, s)
  <2>1. CASE s = {}
    BY <1>5, <2>1
  <2>2. CASE s # {}
    <3>1. Max(s) \in 1 .. n /\ s \ {Max(s)} \in SUBSET (1 .. n)
      BY <1>2, <2>2, GreatestExists
    <3>2. g[s \ {Max(s)}] \in T
      BY <1>5, <3>1
    <3>3. op[<<g[s \ {Max(s)}], Max(s)>>] = Push(g[s \ {Max(s)}], bars[Max(s)], tf)
      BY <3>1, <3>2
    <3>4. g[s] = op[<<g[s \ {Max(s)}], Max(s)>>]
      BY <1>5, <2>2
    <3> QED BY <2>2, <3>3, <3>4
  <2> QED BY <2>1, <2>2
<1>7. g = [s \in SUBSET (DOMAIN bars) |-> Body(g, s)]
  <2> HIDE DEF Body
  <2> QED BY <1>2, <1>5, <1>6
<1>8. PICK f : f = PushFold(buffer, bars, tf)
  OBVIOUS
<1>9. f = [s \in SUBSET (DOMAIN bars) |-> Body(f, s)]
  BY <1>7, <1>8 DEF PushFold
<1>10. PushAll(buffer, bars, tf) = f[DOMAIN bars]
  BY <1>8 DEF PushAll, FoldLeft, MapThenFoldSet, PushFold
<1>11. f[1 .. 0] = buffer
  <2>1. 1 .. 0 = {} /\ {} \in SUBSET (DOMAIN bars)
    OBVIOUS
  <2>2. f[{}] = Body(f, {})
    <3> HIDE DEF Body
    <3> QED BY <1>9, <2>1
  <2> QED BY <2>1, <2>2
<1>12. ASSUME NEW k \in 1 .. n PROVE f[1 .. k] = Push(f[1 .. (k - 1)], bars[k], tf)
  <2>1. 1 .. k \in SUBSET (DOMAIN bars) /\ 1 .. k # {}
    BY <1>2
  <2>2. Max(1 .. k) = k /\ (1 .. k) \ {k} = 1 .. (k - 1)
    BY GreatestIndex
  <2>3. f[1 .. k] = Body(f, 1 .. k)
    <3> HIDE DEF Body
    <3> QED BY <1>9, <2>1
  <2> QED BY <2>1, <2>2, <2>3
<1> QED BY <1>1, <1>2, <1>10, <1>11, <1>12

\* However many bars are pushed, a buffer keeps to its bars and its capacity.
LEMMA PushAllKeeps ==
  ASSUME NEW tf, Capacity(tf) \in Nat, Capacity(tf) >= 1,
         NEW A, NEW buffer \in BuffersOf(A, tf), NEW bars \in Seq(A)
  PROVE  PushAll(buffer, bars, tf) \in BuffersOf(A, tf)
<1>1. PICK g : /\ PushAll(buffer, bars, tf) = g[1 .. Len(bars)]
               /\ g[1 .. 0] = buffer
               /\ \A k \in 1 .. Len(bars) : g[1 .. k] = Push(g[1 .. (k - 1)], bars[k], tf)
  BY PushAllUnrolls
<1>2. Len(bars) \in Nat /\ \A i \in 1 .. Len(bars) : bars[i] \in A
  BY LenProperties, ElementOfSeq
<1> DEFINE S == {k \in Nat : g[1 .. k] \in BuffersOf(A, tf)}
<1>3. 0 \in S
  BY <1>1
<1>4. ASSUME NEW k \in 1 .. Len(bars), (k - 1) \in S PROVE k \in S
  <2>1. g[1 .. (k - 1)] \in BuffersOf(A, tf) /\ bars[k] \in A
    BY <1>2, <1>4
  <2>2. Push(g[1 .. (k - 1)], bars[k], tf) \in BuffersOf(A, tf)
    BY <2>1, PushKeeps
  <2>3. k \in Nat
    BY <1>2
  <2> QED BY <1>1, <2>2, <2>3
<1>5. S \in SUBSET Nat
  OBVIOUS
<1>6. Len(bars) \in S
  <2> HIDE DEF S
  <2>1. \A k \in 0 .. Len(bars) : k \in S
    BY <1>2, <1>3, <1>4, <1>5, NoFirstException
  <2> QED BY <1>2, <2>1
<1> QED BY <1>1, <1>6

\* What none, one and two bars make of a buffer.
LEMMA PushAllFew ==
  ASSUME NEW tf, Capacity(tf) \in Nat, Capacity(tf) >= 1,
         NEW A, NEW buffer \in BuffersOf(A, tf), NEW bars \in Seq(A)
  PROVE  /\ Len(bars) = 0 => PushAll(buffer, bars, tf) = buffer
         /\ Len(bars) = 1 => PushAll(buffer, bars, tf) = Push(buffer, bars[1], tf)
         /\ Len(bars) = 2 =>
              PushAll(buffer, bars, tf) = Push(Push(buffer, bars[1], tf), bars[2], tf)
<1>1. PICK g : /\ PushAll(buffer, bars, tf) = g[1 .. Len(bars)]
               /\ g[1 .. 0] = buffer
               /\ \A k \in 1 .. Len(bars) : g[1 .. k] = Push(g[1 .. (k - 1)], bars[k], tf)
  BY PushAllUnrolls
<1>2. CASE Len(bars) = 0
  BY <1>1, <1>2
<1>3. CASE Len(bars) = 1
  <2>1. 1 \in 1 .. Len(bars) /\ 1 - 1 = 0
    BY <1>3
  <2> QED BY <1>1, <1>3, <2>1
<1>4. CASE Len(bars) = 2
  <2>1. 1 \in 1 .. Len(bars) /\ 2 \in 1 .. Len(bars) /\ 1 - 1 = 0 /\ 2 - 1 = 1
    BY <1>4
  <2> QED BY <1>1, <1>4, <2>1
<1> QED BY <1>2, <1>3, <1>4

-----------------------------------------------------------------------------
(* The backfill                                                            *)

\* Its source bars, and the bars it is made of.
HistoryIds == {0} \X Nat
HistoryBars ==
  {h \in [start : Int, of : Seq(HistoryIds)] : Len(h.of) > 0}

\* A bar of source bars of the backfill is one of its bars.
LEMMA BarOfHistory ==
  ASSUME NEW start \in Int, NEW of \in Seq(HistoryIds), Len(of) > 0
  PROVE  [start |-> start, of |-> of] \in HistoryBars
<1> DEFINE h == [start |-> start, of |-> of]
<1>1. h.of = of /\ h \in [start : Int, of : Seq(HistoryIds)]
  OBVIOUS
<1> HIDE DEF h
<1>2. h \in HistoryBars
  BY <1>1 DEF HistoryBars
<1> QED BY <1>2 DEF h

\* A source bar alone makes a sequence of them.
LEMMA OneOfHistory ==
  ASSUME NEW id \in HistoryIds
  PROVE  <<id>> \in Seq(HistoryIds) /\ Len(<<id>>) > 0
OBVIOUS

\* The end of a sequence is made of its elements.
LEMMA TakeLastKeeps ==
  ASSUME NEW A, NEW seq \in Seq(A), NEW count \in Int
  PROVE  TakeLast(seq, count) \in Seq(A)
<1> DEFINE m == Max({1, Len(seq) - count + 1})
<1>1. Len(seq) \in Nat
  BY LenProperties
<1>2. m \in Int /\ m >= 1
  <2> DEFINE a == 1
             b == Len(seq) - count + 1
  <2>1. a \in Int /\ b \in Int
    BY <1>1
  <2>2. m = Max({a, b})
    OBVIOUS
  <2> HIDE DEF a, b, m
  <2>3. m \in {a, b} /\ m >= a
    BY <2>1, <2>2, GreaterOfTwo
  <2> QED BY <2>1, <2>3 DEF a
<1>3. TakeLast(seq, count) = SubSeq(seq, m, Len(seq))
  BY DEF TakeLast
<1> HIDE DEF m
<1>4. \A i \in m .. Len(seq) : seq[i] \in A
  <2>1. \A i \in m .. Len(seq) : i \in 1 .. Len(seq)
    BY <1>1, <1>2
  <2> QED BY <2>1, ElementOfSeq
<1>5. SubSeq(seq, m, Len(seq)) \in Seq(A)
  BY <1>1, <1>2, <1>4, SubSeqProperties
<1> QED BY <1>3, <1>5

\* What is fetched are source bars of the backfill.
LEMMA FetchedIds ==
  ASSUME NEW tf \in Timeframes, NEW from \in Nat, NEW last \in Nat
  PROVE  Fetched(tf, from, last) \in Seq(HistoryIds)
<1> DEFINE w == Width[tf]
           n == (last - from) \div w
           s == [i \in 1 .. n |-> <<0, from + i * w>>]
<1>1. w \in Nat /\ w > 0
  BY WidthAssumption
<1>2. Fetched(tf, from, last) = s
  BY DEF Fetched
<1> HIDE DEF w
<1>3. n \in Int
  BY <1>1
<1> HIDE DEF n
<1>4. ASSUME NEW i \in 1 .. n PROVE <<0, from + i * w>> \in HistoryIds
  <2>1. i * w \in Nat
    BY <1>1, <1>3
  <2> QED BY <2>1 DEF HistoryIds
<1>5. \E k \in Nat : 1 .. n = 1 .. k
  BY <1>3
<1>6. PICK k \in Nat : 1 .. n = 1 .. k
  BY <1>5
<1>7. s \in [1 .. k -> HistoryIds]
  BY <1>4, <1>6
<1> HIDE DEF s
<1>8. s \in Seq(HistoryIds)
  BY <1>7, SeqDef
<1> QED BY <1>2, <1>8

\* A source bar of the backfill is a bar of it.
LEMMA SinglesAreBars ==
  ASSUME NEW tf \in Timeframes, NEW ids \in Seq(HistoryIds)
  PROVE  [i \in 1 .. Len(ids) |-> AsBar(ids[i], tf)] \in Seq(HistoryBars)
<1>1. ASSUME NEW id \in HistoryIds PROVE AsBar(id, tf) \in HistoryBars
  <2>1. id[2] \in Nat /\ Width[tf] \in Nat
    BY WidthAssumption DEF HistoryIds
  <2>2. id[2] - Width[tf] \in Int
    BY <2>1
  <2> QED BY <2>2, OneOfHistory, BarOfHistory DEF AsBar
<1>2. Len(ids) \in Nat /\ \A i \in 1 .. Len(ids) : ids[i] \in HistoryIds
  BY LenProperties, ElementOfSeq
<1> DEFINE s == [i \in 1 .. Len(ids) |-> AsBar(ids[i], tf)]
<1>3. s \in [1 .. Len(ids) -> HistoryBars]
  BY <1>1, <1>2
<1> HIDE DEF s
<1>4. s \in Seq(HistoryBars)
  BY <1>2, <1>3, SeqDef
<1> QED BY <1>4 DEF s

\* What a source bar of a backfill makes of a window is a bar of it, of its own interval.
LEMMA JoinedOfHistory ==
  ASSUME NEW window \in SUBSET HistoryBars, NEW id \in HistoryIds, NEW target,
         Opened(id, "1m", target) \in Int
  PROVE  LET J == Joined(window, "1m", target, id)
         IN  J \in HistoryBars /\ J.start = Opened(id, "1m", target)
<1> DEFINE J == Joined(window, "1m", target, id)
           st == Opened(id, "1m", target)
           same == {w \in window : w.start = st}
<1>1. st \in Int
  OBVIOUS
<1>2. CASE same = {}
  <2>1. J = [start |-> st, of |-> <<id>>]
    BY <1>2 DEF Joined
  <2> HIDE DEF J, st
  <2>2. PICK h : h = [start |-> st, of |-> <<id>>]
    OBVIOUS
  <2>3. h.start = st
    BY <2>2
  <2>4. h \in HistoryBars
    <3>1. <<id>> \in Seq(HistoryIds) /\ Len(<<id>>) > 0
      BY OneOfHistory
    <3> QED BY <1>1, <2>2, <3>1, BarOfHistory
  <2>5. J \in HistoryBars /\ J.start = st
    BY <2>1, <2>2, <2>3, <2>4
  <2> QED BY <2>5 DEF J, st
<1>3. CASE same # {}
  <2>1. PICK w \in same : (CHOOSE y \in same : TRUE) = w
    BY <1>3
  <2>2. w \in HistoryBars /\ w.start = st /\ J = [w EXCEPT !.of = Append(@, id)]
    BY <1>3, <2>1 DEF Joined
  <2>3. w.of \in Seq(HistoryIds) /\ w.start \in Int
    BY <2>2 DEF HistoryBars
  <2> DEFINE q == Append(w.of, id)
  <2>4. q \in Seq(HistoryIds) /\ Len(q) > 0
    <3>1. q \in Seq(HistoryIds) /\ Len(q) = Len(w.of) + 1 /\ Len(w.of) \in Nat
      BY <2>3, AppendedSequence
    <3> HIDE DEF q
    <3> QED BY <3>1
  <2>5. J = [start |-> w.start, of |-> q]
    BY <2>2 DEF HistoryBars
  <2> HIDE DEF J, q, st
  <2>6. PICK h : h = [start |-> w.start, of |-> q]
    OBVIOUS
  <2>7. h.start = st
    BY <2>2, <2>6
  <2>8. h \in HistoryBars
    BY <2>3, <2>4, <2>6, BarOfHistory
  <2>9. J \in HistoryBars /\ J.start = st
    BY <2>5, <2>6, <2>7, <2>8
  <2> QED BY <2>9 DEF J, st
<1> QED BY <1>2, <1>3

\* What the aggregation of a backfill has after some of its source bars.
Aggregates == [window : {W \in SUBSET HistoryBars : W = {} \/ \E w : W = {w}},
               completed : Seq(HistoryBars)]

AggregateStep(done, id, target) ==
  [window |-> WindowAfter(done.window, "1m", target, id),
   completed |-> done.completed \o Completed(done.window, "1m", target, id)]

\* One more leaves it that.
LEMMA AggregateKeeps ==
  ASSUME NEW done \in Aggregates, NEW id \in HistoryIds, NEW target \in Timeframes
  PROVE  AggregateStep(done, id, target) \in Aggregates
<1> DEFINE window == done.window
           J == Joined(window, "1m", target, id)
           R == Replaced(window, "1m", target, id)
           st == Opened(id, "1m", target)
<1>1. /\ window \in SUBSET HistoryBars /\ (window = {} \/ \E w : window = {w})
      /\ done.completed \in Seq(HistoryBars)
  BY DEF Aggregates
<1>2. st \in Int
  <2> DEFINE v == Width[target]
             x == id[2] - Width["1m"]
  <2>1. v \in Nat /\ v > 0 /\ x \in Int
    BY WidthAssumption DEF HistoryIds, Timeframes
  <2>2. st = x - (x % v)
    BY DEF Opened, AlignWindowStart
  <2> HIDE DEF v, x, st
  <2> QED BY <2>1, <2>2
<1>3. J \in HistoryBars
  <2> HIDE DEF st
  <2> QED BY <1>1, <1>2, JoinedOfHistory DEF st
<1>4. R \subseteq HistoryBars /\ (R = {} \/ \E w : R = {w})
  BY <1>1 DEF Replaced
<1>5. SetToSeq(R) \in Seq(HistoryBars)
  <2> HIDE DEF R
  <2>1. SetToSeq(R) \in Seq(R)
    BY <1>4, SequenceOfFew
  <2> QED BY <1>4, <2>1, SeqMonotonic
<1> DEFINE tail == IF Closes("1m", target, id) THEN <<J>> ELSE <<>>
<1>6. tail \in Seq(HistoryBars)
  <2> HIDE DEF J
  <2>1. <<J>> \in Seq(HistoryBars)
    BY <1>3
  <2>2. <<>> \in Seq(HistoryBars)
    OBVIOUS
  <2> QED BY <2>1, <2>2
<1>7. Completed(window, "1m", target, id) = SetToSeq(R) \o tail
  BY DEF Completed
<1>8. WindowAfter(window, "1m", target, id)
        \in {W \in SUBSET HistoryBars : W = {} \/ \E w : W = {w}}
  <2>1. WindowAfter(window, "1m", target, id) = {} \/ WindowAfter(window, "1m", target, id) = {J}
    BY DEF WindowAfter
  <2> HIDE DEF J, window
  <2> QED BY <1>3, <2>1
<1> HIDE DEF R, tail
<1>9. done.completed \o Completed(window, "1m", target, id) \in Seq(HistoryBars)
  <2>1. SetToSeq(R) \o tail \in Seq(HistoryBars)
    BY <1>5, <1>6, ConcatProperties
  <2> QED BY <1>1, <1>7, <2>1, ConcatProperties
<1> QED BY <1>8, <1>9 DEF AggregateStep, Aggregates

NoAggregate == [window |-> {}, completed |-> <<>>]

\* The function that FoldLeft makes of the steps.
AggregateFold(minutes, target) ==
  CHOOSE g : g = [s \in SUBSET (DOMAIN minutes) |->
                    IF s = {} THEN NoAggregate
                    ELSE AggregateStep(g[s \ {Max(s)}], minutes[Max(s)], target)]

\* The aggregation of a backfill, source bar by source bar.
IsAggregation(run, minutes, target) ==
  /\ run \in [0 .. Len(minutes) -> Aggregates] /\ run[0] = NoAggregate
  /\ \A k \in 1 .. Len(minutes) : run[k] = AggregateStep(run[k - 1], minutes[k], target)
  /\ Aggregated(minutes, target)
       = run[Len(minutes)].completed \o SetToSeq(run[Len(minutes)].window)

\* The fold is one.
LEMMA AggregateUnrolls ==
  ASSUME NEW minutes \in Seq(HistoryIds), NEW target \in Timeframes
  PROVE  \E run : IsAggregation(run, minutes, target)
<1>1. PICK n : n = Len(minutes)
  OBVIOUS
<1>2. n \in Nat /\ DOMAIN minutes = 1 .. n /\ \A i \in 1 .. n : minutes[i] \in HistoryIds
  BY <1>1, LenProperties, ElementOfSeq
<1> DEFINE op == [p \in Aggregates \X (1 .. n) |-> AggregateStep(p[1], minutes[p[2]], target)]
           Body(g, s) == IF s = {} THEN NoAggregate
                         ELSE AggregateStep(g[s \ {Max(s)}], minutes[Max(s)], target)
<1>3. NoAggregate \in Aggregates
  BY DEF NoAggregate, Aggregates
<1>4. op \in [Aggregates \X (1 .. n) -> Aggregates]
  <2>1. ASSUME NEW p \in Aggregates \X (1 .. n)
        PROVE  AggregateStep(p[1], minutes[p[2]], target) \in Aggregates
    <3>1. p[1] \in Aggregates /\ minutes[p[2]] \in HistoryIds
      BY <1>2
    <3> QED BY <3>1, AggregateKeeps
  <2> QED BY <2>1
<1>5. PICK g \in [SUBSET (1 .. n) -> Aggregates] : \A s \in SUBSET (1 .. n) :
        g[s] = IF s = {} THEN NoAggregate ELSE op[<<g[s \ {Max(s)}], Max(s)>>]
  <2> HIDE DEF op
  <2>1. PICK g : IsFold(g, n, Aggregates, NoAggregate, op)
    BY <1>2, <1>3, <1>4, FoldExists
  <2> QED BY <2>1 DEF IsFold
<1>6. ASSUME NEW s \in SUBSET (1 .. n) PROVE g[s] = Body(g, s)
  <2>1. CASE s = {}
    BY <1>5, <2>1
  <2>2. CASE s # {}
    <3>1. Max(s) \in 1 .. n /\ s \ {Max(s)} \in SUBSET (1 .. n)
      BY <1>2, <2>2, GreatestExists
    <3>2. g[s \ {Max(s)}] \in Aggregates
      BY <1>5, <3>1
    <3>3. op[<<g[s \ {Max(s)}], Max(s)>>] = AggregateStep(g[s \ {Max(s)}], minutes[Max(s)], target)
      BY <3>1, <3>2
    <3>4. g[s] = op[<<g[s \ {Max(s)}], Max(s)>>]
      BY <1>5, <2>2
    <3> QED BY <2>2, <3>3, <3>4
  <2> QED BY <2>1, <2>2
<1>7. g = [s \in SUBSET (DOMAIN minutes) |-> Body(g, s)]
  <2> HIDE DEF Body
  <2> QED BY <1>2, <1>5, <1>6
<1>8. PICK f : f = AggregateFold(minutes, target)
  OBVIOUS
<1>9. f = [s \in SUBSET (DOMAIN minutes) |-> Body(f, s)]
  BY <1>7, <1>8 DEF AggregateFold
<1>10. Aggregated(minutes, target)
         = f[DOMAIN minutes].completed \o SetToSeq(f[DOMAIN minutes].window)
  BY <1>8 DEF Aggregated, FoldLeft, MapThenFoldSet, AggregateFold, AggregateStep, NoAggregate
<1>11. f[1 .. 0] = NoAggregate
  <2>1. 1 .. 0 = {} /\ {} \in SUBSET (DOMAIN minutes)
    OBVIOUS
  <2>2. f[{}] = Body(f, {})
    <3> HIDE DEF Body
    <3> QED BY <1>9, <2>1
  <2> QED BY <2>1, <2>2
<1>12. ASSUME NEW k \in 1 .. n
       PROVE  f[1 .. k] = AggregateStep(f[1 .. (k - 1)], minutes[k], target)
  <2>1. 1 .. k \in SUBSET (DOMAIN minutes) /\ 1 .. k # {}
    BY <1>2
  <2>2. Max(1 .. k) = k /\ (1 .. k) \ {k} = 1 .. (k - 1)
    BY GreatestIndex
  <2>3. f[1 .. k] = Body(f, 1 .. k)
    <3> HIDE DEF Body
    <3> QED BY <1>9, <2>1
  <2> QED BY <2>1, <2>2, <2>3
<1> DEFINE S == {k \in Nat : k <= n => f[1 .. k] \in Aggregates}
<1>13. 0 \in S
  BY <1>3, <1>11
<1>14. ASSUME NEW k \in 1 .. n, (k - 1) \in S PROVE k \in S
  <2>1. f[1 .. (k - 1)] \in Aggregates
    BY <1>2, <1>14
  <2>2. f[1 .. k] \in Aggregates
    BY <1>2, <1>12, <2>1, AggregateKeeps
  <2> QED BY <2>2
<1>15. \A k \in 0 .. n : f[1 .. k] \in Aggregates
  <2>1. S \in SUBSET Nat
    OBVIOUS
  <2>2. \A k \in 0 .. n : k \in S
    <3> HIDE DEF S
    <3> QED BY <1>2, <1>13, <1>14, <2>1, NoFirstException
  <2> QED BY <2>2
<1> DEFINE run == [k \in 0 .. n |-> f[1 .. k]]
<1>16. run \in [0 .. n -> Aggregates] /\ run[0] = NoAggregate /\ run[n] = f[1 .. n]
  BY <1>2, <1>11, <1>15
<1>17. \A k \in 1 .. n : run[k] = AggregateStep(run[k - 1], minutes[k], target)
  <2> SUFFICES ASSUME NEW k \in 1 .. n PROVE run[k] = AggregateStep(run[k - 1], minutes[k], target)
    OBVIOUS
  <2>1. run[k] = f[1 .. k] /\ run[k - 1] = f[1 .. (k - 1)]
    BY <1>2
  <2> QED BY <1>12, <2>1
<1> HIDE DEF run
<1>18. IsAggregation(run, minutes, target)
  BY <1>1, <1>2, <1>10, <1>16, <1>17 DEF IsAggregation
<1> QED BY <1>18

\* What aggregation makes of a backfill are bars of it.
LEMMA AggregatedBars ==
  ASSUME NEW minutes \in Seq(HistoryIds), NEW target \in Timeframes
  PROVE  Aggregated(minutes, target) \in Seq(HistoryBars)
<1>1. PICK run : IsAggregation(run, minutes, target)
  BY AggregateUnrolls
<1>2. PICK done : done = run[Len(minutes)]
  OBVIOUS
<1>3. /\ done \in Aggregates
      /\ Aggregated(minutes, target) = done.completed \o SetToSeq(done.window)
  <2>1. Len(minutes) \in 0 .. Len(minutes)
    BY LenProperties
  <2> QED BY <1>1, <1>2, <2>1 DEF IsAggregation
<1>4. /\ done.completed \in Seq(HistoryBars)
      /\ done.window \subseteq HistoryBars /\ (done.window = {} \/ \E w : done.window = {w})
  BY <1>3 DEF Aggregates
<1>5. SetToSeq(done.window) \in Seq(HistoryBars)
  <2>1. SetToSeq(done.window) \in Seq(done.window)
    BY <1>4, SequenceOfFew
  <2> QED BY <1>4, <2>1, SeqMonotonic
<1>6. done.completed \o SetToSeq(done.window) \in Seq(HistoryBars)
  BY <1>4, <1>5, ConcatProperties
<1> QED BY <1>3, <1>6

\* How many bars of a timeframe a backfill keeps, and where its seconds begin.
LEMMA BackfillBounds ==
  ASSUME NEW last \in Nat
  PROVE  /\ \A t \in Timeframes : BarTarget(t) \in Int
         /\ Max({0, last - ChartWindow + Width["1m"] - Width["1s"]}) \in Nat
<1> DEFINE from == Max({0, last - ChartWindow + Width["1m"] - Width["1s"]})
<1>1. "1s" \in Timeframes /\ "1m" \in Timeframes /\ "5m" \in Timeframes
  BY DEF Timeframes
<1>2. ASSUME NEW t \in Timeframes PROVE BarTarget(t) \in Int
  <2> DEFINE w == Width[t]
             q == ChartWindow \div w
             one == 1
  <2>1. w \in Nat /\ w > 0 /\ ChartWindow \in Nat
    BY WidthAssumption, TimesAssumption
  <2> HIDE DEF w
  <2>2. q \in Int /\ one \in Int
    BY <2>1
  <2>3. BarTarget(t) = Max({q, one})
    BY DEF BarTarget, w
  <2> HIDE DEF q, one
  <2> QED BY <2>2, <2>3, GreaterOfTwo
<1>3. from \in Nat
  <2> DEFINE b == last - ChartWindow + Width["1m"] - Width["1s"]
             zero == 0
  <2>1. b \in Int /\ zero \in Int
    BY <1>1, WidthAssumption, TimesAssumption
  <2>2. from = Max({zero, b})
    OBVIOUS
  <2> HIDE DEF b, zero, from
  <2>3. from \in {zero, b} /\ from >= zero
    BY <2>1, <2>2, GreaterOfTwo
  <2> QED BY <2>1, <2>3 DEF zero
<1> QED BY <1>2, <1>3

\* A backfill is made of bars of history, in every timeframe.
LEMMA BackfillBars ==
  ASSUME NEW last \in Nat, NEW tf \in Timeframes
  PROVE  Backfill(last)[tf] \in Seq(HistoryBars) /\ NoBars[tf] \in Seq(HistoryBars)
<1> DEFINE minutes == TakeLast(Fetched("1m", 0, last), BarTarget("1m"))
           from == Max({0, last - ChartWindow + Width["1m"] - Width["1s"]})
           seconds == Fetched("1s", from, last)
           Singles(ids, t) == [i \in 1 .. Len(ids) |-> AsBar(ids[i], t)]
<1>1. "1s" \in Timeframes /\ "1m" \in Timeframes /\ "5m" \in Timeframes
  BY DEF Timeframes
<1>2. \A t \in Timeframes : BarTarget(t) \in Int
  BY BackfillBounds
<1>3. from \in Nat
  BY BackfillBounds
<1> HIDE DEF from
<1>4. minutes \in Seq(HistoryIds)
  BY <1>1, <1>2, FetchedIds, TakeLastKeeps
<1>5. TakeLast(seconds, BarTarget("1s")) \in Seq(HistoryIds)
  BY <1>1, <1>2, <1>3, FetchedIds, TakeLastKeeps
<1>6. <<>> \in Seq(HistoryBars)
  OBVIOUS
<1>7. NoBars[tf] \in Seq(HistoryBars)
  BY <1>6 DEF NoBars
<1> HIDE DEF minutes, seconds
<1> DEFINE fives == TakeLast(Aggregated(minutes, "5m"), BarTarget("5m"))
           ones == TakeLast(seconds, BarTarget("1s"))
<1>8. fives \in Seq(HistoryBars)
  BY <1>1, <1>2, <1>4, AggregatedBars, TakeLastKeeps
<1>9. Singles(ones, "1s") \in Seq(HistoryBars)
  <2> HIDE DEF ones
  <2> QED BY <1>1, <1>5, SinglesAreBars DEF ones
<1>10. Singles(minutes, "1m") \in Seq(HistoryBars)
  BY <1>1, <1>4, SinglesAreBars
<1>11. Backfill(last)[tf] \in {Singles(ones, "1s"), Singles(minutes, "1m"), fives, <<>>}
  BY DEF Backfill, minutes, seconds, from
<1> HIDE DEF ones, fives, Singles
<1> QED BY <1>6, <1>7, <1>8, <1>9, <1>10, <1>11

-----------------------------------------------------------------------------
(* The order of a buffer                                                   *)

\* Bars of any source, the bars one stream alone made, and a buffer where of those only
\* a neighbour is out of order.
AnyBars == [start : Int, of : Seq(Nat \X Nat)]

Whole(h, s) == \A k \in Indices(h) : h.of[k][1] = s

Follows(a, b, tf, s, next) ==
  Whole(a, s) /\ Whole(b, s) =>
    a.start < b.start \/ (next /\ a.of = <<<<s, ClosedAt(a, tf)>>>> /\ a.start # b.start)

InSeries(q, tf, s) ==
  \A i \in 1 .. Len(q) : \A j \in i + 1 .. Len(q) : Follows(q[i], q[j], tf, s, j = i + 1)

\* What is in a set is in a greater one, and so with its buffers.
LEMMA MoreBuffers ==
  ASSUME NEW A, NEW B, A \subseteq B, NEW tf, NEW q \in BuffersOf(A, tf)
  PROVE  q \in BuffersOf(B, tf)
<1>1. q \in Seq(A) /\ Len(q) <= Capacity(tf)
  BY DEF BuffersOf
<1>2. q \in Seq(B)
  BY <1>1, SeqMonotonic
<1> QED BY <1>1, <1>2 DEF BuffersOf

\* A bar that follows those of a buffer is pushed in its place.
LEMMA PushedInSeries ==
  ASSUME NEW tf, Capacity(tf) \in Nat, Capacity(tf) >= 1, NEW s,
         NEW A, NEW q \in BuffersOf(A, tf), InSeries(q, tf, s), NEW bar \in A,
         \A i \in 1 .. Len(q) : Follows(q[i], bar, tf, s, i = Len(q)),
         NEW after, after = Push(q, bar, tf)
  PROVE  InSeries(after, tf, s)
<1>1. PICK d \in {0, 1} : /\ Len(q) = Len(after) - 1 + d
                          /\ \A i \in 1 .. (Len(after) - 1) : after[i] = q[i + d]
  BY PushKeeps
<1>2. Len(after) \in Nat /\ Len(after) > 0 /\ after[Len(after)] = bar
  BY PushKeeps
<1> DEFINE n == Len(after)
           m == Len(q)
<1> SUFFICES ASSUME NEW i \in 1 .. n, NEW j \in i + 1 .. n
             PROVE  Follows(after[i], after[j], tf, s, j = i + 1)
  BY DEF InSeries
<1>3. n \in Nat /\ m = n - 1 + d /\ n > 0 /\ after[n] = bar
  BY <1>1, <1>2
<1>4. \A k \in 1 .. (n - 1) : after[k] = q[k + d]
  BY <1>1
<1>5. \A k \in 1 .. m : Follows(q[k], bar, tf, s, k = m)
  OBVIOUS
<1>6. \A k \in 1 .. m : \A l \in k + 1 .. m : Follows(q[k], q[l], tf, s, l = k + 1)
  BY DEF InSeries
<1> HIDE DEF n, m
<1>7. i \in 1 .. (n - 1) /\ i + d \in 1 .. m /\ after[i] = q[i + d]
  <2>1. i \in 1 .. (n - 1) /\ i + d \in 1 .. m
    BY <1>3
  <2> QED BY <1>4, <2>1
<1>8. CASE j = n
  <2>1. Follows(q[i + d], bar, tf, s, i + d = m)
    BY <1>5, <1>7
  <2>2. (i + d = m) <=> (j = i + 1)
    BY <1>3, <1>7, <1>8
  <2>3. after[j] = bar
    BY <1>3, <1>8
  <2> QED BY <1>7, <2>1, <2>2, <2>3 DEF Follows
<1>9. CASE j # n
  <2>1. j \in 1 .. (n - 1) /\ j + d \in (i + d) + 1 .. m
    BY <1>3, <1>7, <1>9
  <2>2. after[j] = q[j + d]
    BY <1>4, <2>1
  <2>3. Follows(q[i + d], q[j + d], tf, s, j + d = (i + d) + 1)
    BY <1>6, <1>7, <2>1
  <2>4. (j + d = (i + d) + 1) <=> (j = i + 1)
    BY <1>7, <2>1
  <2> QED BY <1>7, <2>2, <2>3, <2>4 DEF Follows
<1> QED BY <1>8, <1>9

\* A sequence made of a set of none or one.
LEMMA SequenceOfNoneOrOne ==
  ASSUME NEW S
  PROVE  /\ S = {} => Len(SetToSeq(S)) = 0
         /\ \A x : S = {x} => Len(SetToSeq(S)) = 1 /\ SetToSeq(S)[1] = x
<1>1. ASSUME S = {} PROVE Len(SetToSeq(S)) = 0
  <2>1. SetToSeq(S) \in Seq(S) /\ ToSet(SetToSeq(S)) = {}
    BY <1>1, SequenceOfFew
  <2> DEFINE g == SetToSeq(S)
  <2> HIDE DEF g
  <2>2. Len(g) \in Nat /\ DOMAIN g = 1 .. Len(g)
    BY <2>1, LenProperties DEF g
  <2>3. DOMAIN g = {}
    BY <2>1 DEF g, ToSet
  <2>4. Len(g) = 0
    BY <2>2, <2>3
  <2> QED BY <2>4 DEF g
<1>2. ASSUME NEW x, S = {x} PROVE Len(SetToSeq(S)) = 1 /\ SetToSeq(S)[1] = x
  <2>1. Cardinality(S) = 1
    BY <1>2, FS_Singleton
  <2> DEFINE f == [i \in 1 .. 1 |-> x]
             g == SetToSeq(S)
  <2>2. f \in [1 .. 1 -> S] /\ IsInjective(f)
    BY <1>2 DEF IsInjective
  <2>3. g \in [1 .. 1 -> S]
    BY <2>1, <2>2 DEF SetToSeq
  <2>4. g \in Seq(S)
    <3> HIDE DEF g, f
    <3>1. \E n \in Nat : g \in [1 .. n -> S]
      BY <2>3
    <3> QED BY <3>1, SeqDef
  <2> HIDE DEF g, f
  <2>5. Len(g) \in Nat /\ DOMAIN g = 1 .. Len(g)
    BY <2>4, LenProperties
  <2>6. DOMAIN g = 1 .. 1 /\ g[1] \in S
    BY <2>3
  <2>7. Len(g) = 1
    <3>1. PICK n \in Nat : n = Len(g) /\ 1 .. n = 1 .. 1
      BY <2>5, <2>6
    <3>2. n = 1
      BY <3>1
    <3> QED BY <3>1, <3>2
  <2> QED BY <1>2, <2>6, <2>7 DEF g
<1> QED BY <1>1, <1>2

\* A sequence of at most two, from its end.
LEMMA ReversedFew ==
  ASSUME NEW A, NEW s \in Seq(A)
  PROVE  /\ Reverse(s) \in Seq(A) /\ Len(Reverse(s)) = Len(s)
         /\ Len(s) = 1 => Reverse(s)[1] = s[1]
         /\ Len(s) = 2 => Reverse(s)[1] = s[2] /\ Reverse(s)[2] = s[1]
<1> DEFINE n == Len(s)
           r == [i \in 1 .. n |-> s[(n - i) + 1]]
<1>1. n \in Nat /\ \A i \in 1 .. n : s[i] \in A
  BY LenProperties, ElementOfSeq
<1>2. Reverse(s) = r
  BY DEF Reverse
<1> HIDE DEF n
<1>3. \A i \in 1 .. n : (n - i) + 1 \in 1 .. n
  BY <1>1
<1>4. r \in [1 .. n -> A]
  BY <1>1, <1>3
<1>5. /\ n = 1 => r[1] = s[1]
      /\ n = 2 => r[1] = s[2] /\ r[2] = s[1]
  BY <1>1
<1> HIDE DEF r
<1>6. r \in Seq(A)
  BY <1>1, <1>4, SeqDef
<1>7. Len(r) = n
  BY <1>1, <1>4, <1>6, LenProperties
<1> QED BY <1>2, <1>5, <1>6, <1>7 DEF n

Reversed(closes, R, J, r, A) ==
  /\ r \in Seq(A)
  /\ closes => \/ R = {} /\ Len(r) = 1 /\ r[1] = J
               \/ \E w : R = {w} /\ Len(r) = 2 /\ r[1] = J /\ r[2] = w
  /\ ~closes => \/ R = {} /\ Len(r) = 0
                \/ \E w : R = {w} /\ Len(r) = 1 /\ r[1] = w

\* What a source bar completes, from the end: the bar it closes and then the window of
\* another interval, as far as there are such.
LEMMA CompletedReversed ==
  ASSUME NEW window, window = {} \/ \E w : window = {w}, NEW source, NEW target, NEW id,
         NEW R, R = Replaced(window, source, target, id),
         NEW J, J = Joined(window, source, target, id),
         NEW r, r = Reverse(Completed(window, source, target, id)),
         NEW A, R \subseteq A, Closes(source, target, id) => J \in A
  PROVE  Reversed(Closes(source, target, id), R, J, r, A)
<1>1. R = {} \/ \E w : R = {w}
  BY DEF Replaced
<1>2. PICK a : a = SetToSeq(R)
  OBVIOUS
<1>3. a \in Seq(A)
  <2>1. a \in Seq(R)
    BY <1>1, <1>2, SequenceOfFew
  <2> QED BY <2>1, SeqMonotonic
<1>4. R = {} => Len(a) = 0
  BY <1>2, SequenceOfNoneOrOne
<1>5. \A w : R = {w} => Len(a) = 1 /\ a[1] = w
  BY <1>2, SequenceOfNoneOrOne
<1>6. CASE Closes(source, target, id)
  <2>1. PICK c : c = a \o <<J>>
    OBVIOUS
  <2>2. r = Reverse(c)
    BY <1>2, <1>6, <2>1 DEF Completed
  <2>3. J \in A
    BY <1>6
  <2>4. Len(a) \in Nat
    BY <1>3, LenProperties
  <2>5. /\ c \in Seq(A) /\ Len(c) = Len(a) + 1 /\ c[Len(a) + 1] = J
        /\ \A i \in 1 .. Len(a) : c[i] = a[i]
    <3>1. c = Append(a, J)
      BY <1>3, <2>1, <2>3
    <3> QED BY <1>3, <2>3, <3>1, AppendedSequence
  <2>6. /\ r \in Seq(A) /\ Len(r) = Len(c)
        /\ Len(c) = 1 => r[1] = c[1]
        /\ Len(c) = 2 => r[1] = c[2] /\ r[2] = c[1]
    BY <2>2, <2>5, ReversedFew
  <2>7. CASE R = {}
    <3>1. Len(a) = 0 /\ Len(c) = 1 /\ c[1] = J
      BY <1>4, <2>5, <2>7
    <3> QED BY <1>6, <2>6, <2>7, <3>1 DEF Reversed
  <2>8. ASSUME NEW w, R = {w}
        PROVE  Len(r) = 2 /\ r[1] = J /\ r[2] = w
    <3>1. Len(a) = 1 /\ a[1] = w
      BY <1>5, <2>8
    <3>2. Len(c) = 2 /\ c[2] = J /\ c[1] = w
      BY <2>5, <3>1
    <3> QED BY <2>6, <3>2
  <2> QED BY <1>1, <1>6, <2>6, <2>7, <2>8 DEF Reversed
<1>7. CASE ~Closes(source, target, id)
  <2>1. Completed(window, source, target, id) = a
    <3>1. Completed(window, source, target, id) = a \o <<>>
      BY <1>2, <1>7 DEF Completed
    <3>2. a \o <<>> = a
      BY <1>3, ConcatEmptySeq
    <3> QED BY <3>1, <3>2
  <2>2. /\ r \in Seq(A) /\ Len(r) = Len(a)
        /\ Len(a) = 1 => r[1] = a[1]
    BY <1>3, <2>1, ReversedFew
  <2>3. ASSUME NEW w, R = {w}
        PROVE  Len(r) = 1 /\ r[1] = w
    BY <1>5, <2>2, <2>3
  <2>4. CASE R = {}
    BY <1>4, <1>7, <2>2, <2>4 DEF Reversed
  <2> QED BY <1>1, <1>7, <2>2, <2>3, <2>4 DEF Reversed
<1> QED BY <1>6, <1>7 DEF Reversed

\* A bar that is out is of an earlier interval than the window in progress, where one
\* stream made both.
LEMMA WindowFollows ==
  ASSUME StateInv, NEW tf \in Targets, BarsInv(tf),
         NEW a \in emitted[tf], NEW w \in windows[tf], Whole(a, stream), Whole(w, stream)
  PROVE  a.start < w.start
<1>1. BarInv(tf, a) /\ BarInv(tf, w) /\ Complete(tf, a) /\ Newest(tf, w) /\ Apart(a, w) /\ a # w
  BY DEF BarsInv, Holders
<1>2. Len(a.of) \in Indices(a) /\ Len(w.of) \in Indices(w)
  <2>1. ASSUME NEW h, BarInv(tf, h) PROVE Len(h.of) \in Indices(h)
    <3>1. h.of \in Seq(Nat \X Nat) /\ Len(h.of) > 0
      BY <2>1 DEF BarInv, Bars
    <3>2. Len(h.of) \in Nat
      BY <3>1, LenProperties
    <3> QED BY <3>1, <3>2 DEF Indices
  <2> QED BY <1>1, <2>1
<1>3. PICK e : e = a.of[Len(a.of)]
  OBVIOUS
<1>4. PICK last : last = w.of[Len(w.of)]
  OBVIOUS
<1>5. /\ e \in fed /\ e[1] = stream /\ Opened(e, Source, tf) = a.start
      /\ last \in fed /\ last[1] = stream /\ Opened(last, Source, tf) = w.start
  BY <1>1, <1>2, <1>3, <1>4 DEF BarInv, Whole
<1>6. e = last \/ Before(e, last)
  BY <1>1, <1>4, <1>5 DEF Newest
<1>7. a.start # w.start
  <2> SUFFICES ASSUME a.start = w.start PROVE FALSE
    OBVIOUS
  <2>1. PICK j \in Indices(a) : a.of[j] = last
    BY <1>1, <1>2, <1>3, <1>5 DEF Complete
  <2> QED BY <1>1, <1>2, <1>4, <2>1 DEF Apart
<1> DEFINE v == Width[tf]
           s == a.start
           t == w.start
           x == e[2]
           y == last[2]
<1>8. /\ s \in Nat /\ s < x /\ s % v = 0 /\ t \in Nat /\ y <= t + v /\ t % v = 0
      /\ x \in Nat /\ y \in Nat
  BY <1>5, FedInterval
<1>9. x <= y
  <2>1. stream \in Nat
    BY BoundsAssumption DEF StateInv
  <2> QED BY <1>5, <1>6, <1>8, <2>1 DEF Before
<1>10. v \in Nat /\ v > 0
  BY Widths DEF StateInv
<1> HIDE DEF v, s, t, x, y
<1>11. ~(t < s)
  <2> SUFFICES ASSUME t < s PROVE FALSE
    OBVIOUS
  <2>1. PICK p \in Nat : s = v * p
    BY <1>8, <1>10, DivisionHasRest
  <2>2. PICK q \in Nat : t = v * q
    BY <1>8, <1>10, DivisionHasRest
  <2>3. (v * q) + v <= v * p
    BY <1>10, <2>1, <2>2, MultiplesAreApart
  <2> QED BY <1>8, <1>9, <1>10, <2>1, <2>2, <2>3
<1>12. s # t
  BY <1>7 DEF s, t
<1>13. s < t
  BY <1>8, <1>11, <1>12
<1> QED BY <1>13 DEF s, t

-----------------------------------------------------------------------------
(* The buffers at all times                                                *)

\* A buffer holds bars of the aggregator and of a backfill, and of those one stream made
\* only a neighbour is out of order.
SeriesInv(tf) ==
  /\ \A i \in 1 .. Len(buffers[tf]) : buffers[tf][i] \in emitted[tf] \cup HistoryBars
  /\ InSeries(buffers[tf], tf, stream)

BufferInv(tf) ==
  /\ buffers[tf] \in BuffersOf(AnyBars, tf)
  /\ tf \in Targets => SeriesInv(tf)

\* The bars of a backfill are of no stream.
LEMMA HistoryIsNotWhole ==
  ASSUME NEW h \in HistoryBars
  PROVE  h \in AnyBars /\ \A s \in Nat : s > 0 => ~Whole(h, s)
<1>1. h \in [start : Int, of : Seq(HistoryIds)] /\ Len(h.of) > 0
  BY DEF HistoryBars
<1>2. h.of \in Seq(HistoryIds) /\ h.start \in Int /\ h = [start |-> h.start, of |-> h.of]
  BY <1>1
<1>3. h.of \in Seq(Nat \X Nat)
  <2>1. HistoryIds \subseteq Nat \X Nat
    BY DEF HistoryIds
  <2> QED BY <1>2, <2>1, SeqMonotonic
<1>4. h \in AnyBars
  BY <1>2, <1>3 DEF AnyBars
<1>5. Len(h.of) \in Nat /\ \A i \in 1 .. Len(h.of) : h.of[i] \in HistoryIds
  BY <1>2, LenProperties, ElementOfSeq
<1>6. Len(h.of) \in Indices(h) /\ h.of[Len(h.of)][1] = 0
  BY <1>1, <1>5 DEF Indices, HistoryIds
<1>7. \A s \in Nat : s > 0 => ~Whole(h, s)
  BY <1>6 DEF Whole
<1> QED BY <1>4, <1>7

\* What a source bar does to the buffer of a target timeframe.
LEMMA RecordKeepsSeries ==
  ASSUME StateInv, NEW tf \in Targets, tf \in Required, BarsInv(tf), BarsInv(tf)', BufferInv(tf),
         NEW at \in 1 .. LastTime, RecordBar(at)
  PROVE  BufferInv(tf)'
<1>1. PICK id : id = <<stream, at>>
  OBVIOUS
<1>2. PICK J : J = Joining(tf, id)
  OBVIOUS
<1>3. PICK R : R = Replaced(windows[tf], Source, tf, id)
  OBVIOUS
<1>4. PICK q : q = buffers[tf]
  OBVIOUS
<1>5. PICK r : r = Reverse(Completed(windows[tf], Source, tf, id))
  OBVIOUS
<1>6. tf \in Timeframes /\ tf # Source
  BY Widths DEF StateInv
<1>7. windows[tf] = {} \/ \E w : windows[tf] = {w}
  BY <1>6 DEF StateInv
<1>8. /\ Closes(Source, tf, id) => emitted'[tf] = (emitted[tf] \cup R) \cup {J}
      /\ ~Closes(Source, tf, id) => emitted'[tf] = emitted[tf] \cup R
      /\ stream' = stream /\ Source' = Source /\ Targets' = Targets
  BY <1>1, <1>2, <1>3, BarsMove DEF Kept
<1>9. strategy' = strategy /\ stream > 0 /\ stream \in Nat
  BY BoundsAssumption DEF RecordBar, StateInv
<1>10. buffers'[tf] = PushAll(q, r, tf)
  <2>1. buffers' = [t \in Required |->
          PushAll(buffers[t], IF t = Source THEN <<AsBar(<<stream, at>>, t)>>
            ELSE Reverse([u \in Timeframes |->
                            IF u \in Targets THEN Completed(windows[u], Source, u, <<stream, at>>)
                            ELSE <<>>][t]), t)]
    BY DEF RecordBar
  <2> QED BY <1>1, <1>4, <1>5, <1>6, <2>1
<1>11. Capacity(tf) \in Nat /\ Capacity(tf) >= 1 /\ Capacity(tf)' = Capacity(tf)
  BY <1>9, CapacityIsPositive DEF Capacity, StateInv
<1>12. \A h \in emitted'[tf] : h \in AnyBars
  <2>1. ASSUME NEW h \in emitted'[tf] PROVE h \in AnyBars
    <3>1. h \in Bars
      BY DEF BarsInv, BarInv, Holders
    <3> QED BY <3>1 DEF Bars, AnyBars
  <2> QED BY <2>1
<1>13. PICK A : A = emitted'[tf] \cup HistoryBars
  OBVIOUS
<1>14. A \subseteq AnyBars /\ emitted[tf] \subseteq A /\ R \subseteq A
       /\ (Closes(Source, tf, id) => J \in A)
  BY <1>8, <1>12, <1>13, HistoryIsNotWhole
<1>15. q \in BuffersOf(A, tf)
  <2>1. q \in Seq(AnyBars) /\ Len(q) <= Capacity(tf)
    BY <1>4 DEF BufferInv, BuffersOf
  <2>2. \A i \in 1 .. Len(q) : q[i] \in A
    BY <1>4, <1>13, <1>14 DEF BufferInv, SeriesInv
  <2>3. Len(q) \in Nat /\ q \in [1 .. Len(q) -> AnyBars]
    BY <2>1, LenProperties
  <2>4. q \in [1 .. Len(q) -> A]
    BY <2>2, <2>3
  <2>5. q \in Seq(A)
    BY <2>3, <2>4, SeqDef
  <2> QED BY <2>1, <2>5 DEF BuffersOf
<1>16. /\ r \in Seq(A)
       /\ Closes(Source, tf, id) =>
            \/ R = {} /\ Len(r) = 1 /\ r[1] = J
            \/ \E w : R = {w} /\ Len(r) = 2 /\ r[1] = J /\ r[2] = w
       /\ ~Closes(Source, tf, id) =>
            \/ R = {} /\ Len(r) = 0
            \/ \E w : R = {w} /\ Len(r) = 1 /\ r[1] = w
  <2>1. PICK window : window = windows[tf]
    OBVIOUS
  <2>2. PICK source : source = Source
    OBVIOUS
  <2>3. /\ window = {} \/ \E w : window = {w}
        /\ R = Replaced(window, source, tf, id) /\ J = Joined(window, source, tf, id)
        /\ r = Reverse(Completed(window, source, tf, id))
        /\ R \subseteq A /\ (Closes(source, tf, id) => J \in A)
    BY <1>2, <1>3, <1>5, <1>7, <1>14, <2>1, <2>2 DEF Joining
  <2>4. Reversed(Closes(source, tf, id), R, J, r, A)
    BY <2>3, CompletedReversed
  <2> QED BY <2>2, <2>4 DEF Reversed
<1>17. /\ Len(r) = 0 => PushAll(q, r, tf) = q
       /\ Len(r) = 1 => PushAll(q, r, tf) = Push(q, r[1], tf)
       /\ Len(r) = 2 => PushAll(q, r, tf) = Push(Push(q, r[1], tf), r[2], tf)
  BY <1>11, <1>15, <1>16, PushAllFew
<1>18. InSeries(q, tf, stream)
  BY <1>4 DEF BufferInv, SeriesInv
\* The bars that were there, and the ones that come.
<1>19. ASSUME NEW a \in emitted[tf] \cup HistoryBars, NEW w \in R, NEW next
       PROVE  Follows(a, w, tf, stream, next)
  <2> SUFFICES ASSUME Whole(a, stream), Whole(w, stream) PROVE a.start < w.start
    BY DEF Follows
  <2>1. a \in emitted[tf]
    BY <1>9, HistoryIsNotWhole
  <2>2. w \in windows[tf]
    BY <1>3 DEF Replaced
  <2> QED BY <2>1, <2>2, WindowFollows
<1>20. /\ id[1] = stream /\ id[2] = at /\ Opened(id, Source, tf) \in Nat
       /\ at <= Opened(id, Source, tf) + Width[tf]
       /\ (Closes(Source, tf, id) <=> at >= Opened(id, Source, tf) + Width[tf])
       /\ J.start = Opened(id, Source, tf)
  <2>1. Joins(tf, id, J)
    BY <1>1, <1>2, JoiningBar
  <2> QED BY <1>1, <2>1, SourceBarIsNewest DEF Joins
<1>21. Width[tf] \in Nat /\ at \in Nat /\ clock \in Nat /\ at > clock
  BY <1>6, Widths, TimesAssumption DEF StateInv, RecordBar
<1>22. ASSUME NEW a \in emitted[tf] \cup HistoryBars, Closes(Source, tf, id), NEW next
       PROVE  Follows(a, J, tf, stream, next)
  <2> SUFFICES ASSUME Whole(a, stream) PROVE a.start < J.start
    BY DEF Follows
  <2>1. a \in emitted[tf]
    BY <1>9, HistoryIsNotWhole
  <2>2. BarInv(tf, a)
    BY <2>1 DEF BarsInv, Holders
  <2>3. Len(a.of) \in Indices(a) /\ a.start \in Nat
    <3>1. a.of \in Seq(Nat \X Nat) /\ Len(a.of) > 0 /\ a.start \in Nat
      BY <2>2 DEF BarInv, Bars
    <3>2. Len(a.of) \in Nat
      BY <3>1, LenProperties
    <3> QED BY <3>1, <3>2 DEF Indices
  <2>4. ClosedAt(a, tf) <= clock
    BY <2>1, <2>3 DEF BarsInv, Whole
  <2> QED BY <1>20, <1>21, <1>22, <2>3, <2>4 DEF ClosedAt
<1>23. ASSUME NEW w \in R, Closes(Source, tf, id), NEW next, next = TRUE
       PROVE  Follows(J, w, tf, stream, next)
  <2>1. w.start # J.start /\ w \in windows[tf]
    BY <1>3, <1>20 DEF Replaced
  <2>2. Same(tf, id) = {}
    BY <1>7, <1>20, <2>1 DEF Same
  <2>3. J = [start |-> Opened(id, Source, tf), of |-> <<id>>]
    BY <1>2, <2>2 DEF Joining, Joined, Same
  <2>4. J.of = <<id>>
    BY <2>3
  <2>5. ClosedAt(J, tf) = at
    BY <1>20, <1>21, <1>23 DEF ClosedAt
  <2>6. J.of = <<<<stream, ClosedAt(J, tf)>>>>
    BY <1>1, <2>4, <2>5
  <2> QED BY <1>23, <2>1, <2>6 DEF Follows
<1>24. \A i \in 1 .. Len(q) : q[i] \in emitted[tf] \cup HistoryBars
  BY <1>4 DEF BufferInv, SeriesInv
<1>25. PICK new : new = buffers'[tf]
  OBVIOUS
<1>26. new \in BuffersOf(A, tf) /\ InSeries(new, tf, stream)
  <2>1. new \in BuffersOf(A, tf)
    BY <1>10, <1>11, <1>15, <1>16, <1>25, PushAllKeeps
  <2>2. CASE Closes(Source, tf, id)
    <3>1. PICK one : one = Push(q, J, tf)
      OBVIOUS
    <3>2. J \in A
      BY <1>14, <2>2
    <3>3. \A i \in 1 .. Len(q) : Follows(q[i], J, tf, stream, i = Len(q))
      BY <1>22, <1>24, <2>2
    <3>4. InSeries(one, tf, stream)
      BY <1>11, <1>15, <1>18, <3>1, <3>2, <3>3, PushedInSeries
    <3>5. CASE R = {} /\ Len(r) = 1 /\ r[1] = J
      <4>1. new = one
        BY <1>10, <1>17, <1>25, <3>1, <3>5
      <4> QED BY <2>1, <3>4, <4>1
    <3>6. ASSUME NEW w, R = {w}, Len(r) = 2, r[1] = J, r[2] = w
          PROVE  InSeries(new, tf, stream)
      <4>1. new = Push(one, w, tf)
        BY <1>10, <1>17, <1>25, <3>1, <3>6
      <4>2. /\ one \in BuffersOf(A, tf)
            /\ Len(one) \in Nat /\ Len(one) > 0 /\ one[Len(one)] = J
            /\ \E d \in {0, 1} : /\ Len(q) = Len(one) - 1 + d
                                 /\ \A i \in 1 .. (Len(one) - 1) : one[i] = q[i + d]
        BY <1>11, <1>15, <3>1, <3>2, PushKeeps
      <4>3. w \in A /\ w \in R
        BY <1>14, <3>6
      <4>4. ASSUME NEW i \in 1 .. Len(one) PROVE Follows(one[i], w, tf, stream, i = Len(one))
        <5>1. CASE i = Len(one)
          BY <1>23, <2>2, <4>2, <4>3, <5>1
        <5>2. CASE i # Len(one)
          <6>1. PICK d \in {0, 1} : /\ Len(q) = Len(one) - 1 + d
                                    /\ \A k \in 1 .. (Len(one) - 1) : one[k] = q[k + d]
            BY <4>2
          <6> DEFINE n == Len(one)
                     m == Len(q)
          <6>2. n \in Nat /\ m = n - 1 + d /\ i \in 1 .. n /\ i # n
            BY <4>2, <5>2, <6>1
          <6> HIDE DEF n, m
          <6>3. i \in 1 .. (n - 1) /\ i + d \in 1 .. m
            BY <6>2
          <6>4. one[i] = q[i + d] /\ q[i + d] \in emitted[tf] \cup HistoryBars
            BY <1>24, <6>1, <6>3 DEF n, m
          <6> QED BY <1>19, <4>3, <6>4
        <5> QED BY <5>1, <5>2
      <4> QED BY <1>11, <3>4, <4>1, <4>2, <4>3, <4>4, PushedInSeries
    <3> QED BY <1>16, <2>1, <2>2, <3>5, <3>6
  <2>3. CASE ~Closes(Source, tf, id)
    <3>1. CASE R = {} /\ Len(r) = 0
      <4>1. new = q
        BY <1>10, <1>17, <1>25, <3>1
      <4> QED BY <1>18, <2>1, <4>1
    <3>2. ASSUME NEW w, R = {w}, Len(r) = 1, r[1] = w
          PROVE  InSeries(new, tf, stream)
      <4>1. new = Push(q, w, tf)
        BY <1>10, <1>17, <1>25, <3>2
      <4>2. w \in A /\ w \in R
        BY <1>14, <3>2
      <4>3. \A i \in 1 .. Len(q) : Follows(q[i], w, tf, stream, i = Len(q))
        BY <1>19, <1>24, <4>2
      <4> QED BY <1>11, <1>15, <1>18, <4>1, <4>2, <4>3, PushedInSeries
    <3> QED BY <1>16, <2>1, <2>3, <3>1, <3>2
  <2> QED BY <2>2, <2>3
<1>27. \A i \in 1 .. Len(new) : new[i] \in A
  BY <1>26, ElementOfSeq DEF BuffersOf
<1>28. new \in BuffersOf(AnyBars, tf)
  BY <1>14, <1>26, MoreBuffers
<1>29. BuffersOf(AnyBars, tf)' = BuffersOf(AnyBars, tf)
  BY <1>11 DEF BuffersOf, AnyBars
<1>30. InSeries(new, tf, stream')
  BY <1>8, <1>26
<1> QED BY <1>13, <1>25, <1>27, <1>28, <1>29, <1>30
        DEF BufferInv, SeriesInv, InSeries, Follows, Whole, Indices, ClosedAt

\* What it does to the buffer of another timeframe, that of the source bars among them.
LEMMA RecordKeepsBuffer ==
  ASSUME StateInv, NEW tf \in Required, tf \notin Targets, BufferInv(tf),
         NEW at \in 1 .. LastTime, RecordBar(at)
  PROVE  BufferInv(tf)'
<1>1. PICK q : q = buffers[tf]
  OBVIOUS
<1>2. PICK id : id = <<stream, at>>
  OBVIOUS
<1>3. tf \in Timeframes /\ Width[tf] \in Nat
  BY Widths DEF StateInv
<1>4. strategy' = strategy /\ Targets' = Targets
  BY DEF RecordBar, Targets
<1>5. Capacity(tf) \in Nat /\ Capacity(tf) >= 1 /\ Capacity(tf)' = Capacity(tf)
  BY <1>4, CapacityIsPositive DEF Capacity, StateInv
<1>6. id \in Nat \X Nat /\ id[2] = at
  BY <1>2, TimesAssumption, BoundsAssumption DEF StateInv
<1>7. PICK bar : bar = AsBar(id, tf)
  OBVIOUS
<1>8. bar \in AnyBars
  <2> DEFINE P == Nat \X Nat
  <2>1. id \in P
    BY <1>6
  <2> HIDE DEF P
  <2>2. <<id>> \in Seq(P)
    BY <2>1
  <2>3. id[2] - Width[tf] \in Int
    BY <1>3, <1>6
  <2> QED BY <1>7, <2>2, <2>3 DEF AsBar, AnyBars, P
<1>9. <<bar>> \in Seq(AnyBars)
  BY <1>8
<1>10. <<>> \in Seq(AnyBars)
  OBVIOUS
<1>11. Reverse(<<>>) \in Seq(AnyBars)
  BY <1>10, ReversedFew
<1>12. PICK r : r = IF tf = Source THEN <<bar>> ELSE Reverse(<<>>)
  OBVIOUS
<1>13. r \in Seq(AnyBars)
  BY <1>9, <1>11, <1>12
<1>14. buffers'[tf] = PushAll(q, r, tf)
  <2>1. buffers' = [t \in Required |->
          PushAll(buffers[t], IF t = Source THEN <<AsBar(<<stream, at>>, t)>>
            ELSE Reverse([u \in Timeframes |->
                            IF u \in Targets THEN Completed(windows[u], Source, u, <<stream, at>>)
                            ELSE <<>>][t]), t)]
    BY DEF RecordBar
  <2> QED BY <1>1, <1>2, <1>3, <1>7, <1>12, <2>1
<1>15. q \in BuffersOf(AnyBars, tf)
  BY <1>1 DEF BufferInv
<1>16. PushAll(q, r, tf) \in BuffersOf(AnyBars, tf)
  BY <1>5, <1>13, <1>15, PushAllKeeps
<1>17. BuffersOf(AnyBars, tf)' = BuffersOf(AnyBars, tf)
  BY <1>5 DEF BuffersOf, AnyBars
<1> QED BY <1>4, <1>14, <1>16, <1>17 DEF BufferInv

\* A start leaves in a buffer what a backfill has of its timeframe.
LEMMA StartFillsBuffer ==
  ASSUME StateInv, NEW tf \in Required, StartWarmup
  PROVE  BufferInv(tf)'
<1>1. strategy' = strategy /\ stream' = stream + 1 /\ stream' \in Nat /\ stream' > 0
  BY BoundsAssumption DEF StartWarmup, StateInv
<1>2. tf \in Timeframes
  BY Widths DEF StateInv
<1>3. Capacity(tf) \in Nat /\ Capacity(tf) >= 1 /\ Capacity(tf)' = Capacity(tf)
  BY <1>1, CapacityIsPositive DEF Capacity, StateInv
<1>4. PICK bars \in Seq(HistoryBars) : buffers'[tf] = PushAll(<<>>, bars, tf)
  <2>1. PICK lag \in {0, Width["1m"]}, fetched \in BOOLEAN :
          buffers' = [t \in Required |-> PushAll(<<>>,
            (IF fetched /\ historical = NoBars /\ AlignWindowStart(now, "1m") - lag > 0
             THEN Backfill(AlignWindowStart(now, "1m") - lag) ELSE NoBars)[t], t)]
    BY DEF StartWarmup
  <2>2. PICK last : last = AlignWindowStart(now, "1m") - lag
    OBVIOUS
  <2>3. last \in Int
    <3> DEFINE w == Width["1m"]
    <3>1. w \in Nat /\ w > 0 /\ now \in Nat /\ lag \in Nat
      BY Widths, TimesAssumption DEF StateInv, Timeframes
    <3>2. last = (now - (now % w)) - lag
      BY <2>2 DEF AlignWindowStart
    <3> HIDE DEF w
    <3> QED BY <3>1, <3>2
  <2>4. CASE fetched /\ historical = NoBars /\ last > 0
    <3>1. buffers'[tf] = PushAll(<<>>, Backfill(last)[tf], tf)
      BY <2>1, <2>2, <2>4
    <3>2. last \in Nat
      BY <2>3, <2>4
    <3> QED BY <1>2, <3>1, <3>2, BackfillBars
  <2>5. CASE ~(fetched /\ historical = NoBars /\ last > 0)
    <3>1. buffers'[tf] = PushAll(<<>>, NoBars[tf], tf)
      BY <2>1, <2>2, <2>5
    <3>2. 0 \in Nat
      OBVIOUS
    <3> QED BY <1>2, <3>1, <3>2, BackfillBars
  <2> QED BY <2>4, <2>5
<1>5. <<>> \in BuffersOf(HistoryBars, tf)
  <2>1. <<>> \in Seq(HistoryBars) /\ Len(<<>>) = 0
    OBVIOUS
  <2> QED BY <1>3, <2>1 DEF BuffersOf
<1>6. PICK q : q = buffers'[tf]
  OBVIOUS
<1>7. q \in BuffersOf(HistoryBars, tf)
  BY <1>3, <1>4, <1>5, <1>6, PushAllKeeps
<1>8. Len(q) \in Nat /\ \A i \in 1 .. Len(q) : q[i] \in HistoryBars
  BY <1>7, LenProperties, ElementOfSeq DEF BuffersOf
<1>9. q \in BuffersOf(AnyBars, tf)
  <2>1. HistoryBars \subseteq AnyBars
    BY HistoryIsNotWhole
  <2> QED BY <1>7, <2>1, MoreBuffers
<1>10. BuffersOf(AnyBars, tf)' = BuffersOf(AnyBars, tf)
  BY <1>3 DEF BuffersOf, AnyBars
<1>11. SeriesInv(tf)'
  <2>1. (\A i \in 1 .. Len(buffers[tf]) : buffers[tf][i] \in emitted[tf] \cup HistoryBars)'
    BY <1>6, <1>8
  <2>2. ASSUME NEW i \in 1 .. Len(q), NEW j \in i + 1 .. Len(q)
        PROVE  Follows(buffers[tf][i], buffers[tf][j], tf, stream, j = i + 1)'
    <3>1. q[i] \in HistoryBars
      BY <1>8
    <3>2. ~Whole(q[i], stream')
      BY <1>1, <3>1, HistoryIsNotWhole
    <3>3. ~Whole(buffers[tf][i], stream)'
      BY <1>6, <3>2 DEF Whole, Indices
    <3> QED BY <3>3 DEF Follows
  <2>3. InSeries(buffers[tf], tf, stream)'
    BY <1>6, <2>2 DEF InSeries
  <2> QED BY <2>1, <2>3 DEF SeriesInv
<1>12. (buffers[tf] \in BuffersOf(AnyBars, tf))'
  BY <1>6, <1>9, <1>10
<1> QED BY <1>11, <1>12 DEF BufferInv

\* The buffers keep that at all times.
LEMMA BuffersHold ==
  Spec => [](StateInv /\ (\A tf \in Targets : BarsInv(tf)) /\ \A tf \in Required : BufferInv(tf))
<1> DEFINE Inv == \A tf \in Targets : BarsInv(tf)
           Series == \A tf \in Required : BufferInv(tf)
<1>1. Init => Series
  <2> SUFFICES ASSUME Init, NEW tf \in Required PROVE BufferInv(tf)
    OBVIOUS
  <2>1. buffers[tf] = <<>> /\ strategy \in Strategies
    BY DEF Init
  <2>2. Capacity(tf) \in Nat
    BY <2>1, CapacityIsPositive
  <2>3. <<>> \in Seq(AnyBars) /\ Len(<<>>) = 0 /\ 1 .. 0 = {}
    OBVIOUS
  <2> QED BY <2>1, <2>2, <2>3 DEF BufferInv, SeriesInv, InSeries, BuffersOf
<1>2. StateInv /\ Inv /\ Inv' /\ Series /\ [Next]_vars => Series'
  <2> SUFFICES ASSUME StateInv, Inv, Inv', Series, [Next]_vars, NEW tf \in Required'
               PROVE  BufferInv(tf)'
    OBVIOUS
  <2>1. strategy' = strategy
    BY DEF Next, StartWarmup, RecordBar, vars
  <2>2. tf \in Required /\ BufferInv(tf) /\ Targets' = Targets
    BY <2>1 DEF Required, Targets
  <2>3. CASE StartWarmup
    BY <2>2, <2>3, StartFillsBuffer
  <2>4. ASSUME NEW at \in 1 .. LastTime, RecordBar(at) PROVE BufferInv(tf)'
    <3>1. CASE tf \in Targets
      <4>1. BarsInv(tf) /\ BarsInv(tf)'
        BY <2>2, <3>1
      <4> QED BY <2>2, <2>4, <3>1, <4>1, RecordKeepsSeries
    <3>2. CASE tf \notin Targets
      BY <2>2, <2>4, <3>2, RecordKeepsBuffer
    <3> QED BY <3>1, <3>2
  <2>5. CASE UNCHANGED vars
    <3>1. buffers' = buffers /\ emitted' = emitted /\ stream' = stream
      BY <2>5 DEF vars
    <3>2. SeriesInv(tf) => SeriesInv(tf)'
      BY <3>1 DEF SeriesInv, InSeries, Follows, Whole, Indices, ClosedAt
    <3>3. (buffers[tf] \in BuffersOf(AnyBars, tf))'
      BY <2>1, <2>2, <3>1 DEF BufferInv, BuffersOf, AnyBars, Capacity
    <3> QED BY <2>2, <3>2, <3>3 DEF BufferInv
  <2> QED BY <2>3, <2>4, <2>5 DEF Next
<1> HIDE DEF Inv, Series
<1>3. Spec => [](StateInv /\ Inv)
  BY BarsHold DEF Inv
<1>4. Spec => []Series
  BY <1>1, <1>2, <1>3, PTL DEF Spec
<1>5. Spec => [](StateInv /\ Inv /\ Series)
  BY <1>3, <1>4, PTL
<1> QED BY <1>5 DEF Inv, Series

\* A strategy reads its buffers as series in time: of the bars one stream made, only a
\* neighbour may be out of order, where one source bar closed its own window and the one
\* before the gap; and no buffer outgrows its capacity.
THEOREM OrderIsLostOnlyAcrossGaps == Spec => []OutOfOrderOnlyAcrossGap
<1>1. StateInv /\ (\A tf \in Required : BufferInv(tf)) => OutOfOrderOnlyAcrossGap
  <2> SUFFICES ASSUME StateInv, \A tf \in Required : BufferInv(tf) PROVE OutOfOrderOnlyAcrossGap
    OBVIOUS
  <2>1. \A tf \in Required : Len(buffers[tf]) <= Capacity(tf)
    BY DEF BufferInv, BuffersOf
  <2>2. ASSUME NEW tf \in Required \cap Targets,
               NEW i \in 1 .. Len(buffers[tf]), NEW j \in i + 1 .. Len(buffers[tf]),
               \A id \in ToSet(buffers[tf][i].of) \cup ToSet(buffers[tf][j].of) : id[1] = stream,
               buffers[tf][i].start >= buffers[tf][j].start
        PROVE  /\ j = i + 1
               /\ buffers[tf][i].of = <<<<stream, ClosedAt(buffers[tf][i], tf)>>>>
               /\ buffers[tf][i].start # buffers[tf][j].start
    <3> DEFINE a == buffers[tf][i]
               b == buffers[tf][j]
    <3>1. BufferInv(tf)
      OBVIOUS
    <3>2. buffers[tf] \in Seq(AnyBars)
      BY <3>1 DEF BufferInv, BuffersOf
    <3>3. Len(buffers[tf]) \in Nat
      BY <3>2, LenProperties
    <3>4. a \in AnyBars /\ b \in AnyBars
      <4>1. i \in 1 .. Len(buffers[tf]) /\ j \in 1 .. Len(buffers[tf])
        BY <3>3
      <4> QED BY <2>2, <3>2, <4>1, ElementOfSeq
    <3>5. ASSUME NEW h \in AnyBars, \A id \in ToSet(h.of) : id[1] = stream PROVE Whole(h, stream)
      <4>1. h.of \in Seq(Nat \X Nat)
        BY DEF AnyBars
      <4>2. DOMAIN h.of = Indices(h)
        BY <4>1, LenProperties DEF Indices
      <4> QED BY <3>5, <4>2 DEF ToSet, Whole
    <3>6. Whole(a, stream) /\ Whole(b, stream)
      BY <2>2, <3>4, <3>5
    <3>7. Follows(a, b, tf, stream, j = i + 1)
      BY <3>1 DEF BufferInv, SeriesInv, InSeries
    <3>8. ~(a.start < b.start)
      <4>1. a.start \in Int /\ b.start \in Int
        BY <3>4 DEF AnyBars
      <4> QED BY <2>2, <4>1
    <3> QED BY <3>6, <3>7, <3>8 DEF Follows
  <2> QED BY <2>1, <2>2 DEF OutOfOrderOnlyAcrossGap
<1> QED BY <1>1, BuffersHold, PTL

-----------------------------------------------------------------------------
(* The chart                                                               *)

\* How many numbers of a set are less.
Rank(T, t) == Cardinality({u \in T : u < t})

\* The less of two numbers of a finite set has fewer below it.
LEMMA LesserRanksBelow ==
  ASSUME NEW T \in SUBSET Int, IsFiniteSet(T), NEW t \in T, NEW u \in T, t < u
  PROVE  Rank(T, t) \in Nat /\ Rank(T, u) \in Nat /\ Rank(T, t) < Rank(T, u)
<1> DEFINE A == {x \in T : x < t}
           B == {x \in T : x < u}
<1>1. A \in SUBSET B /\ B \in SUBSET T /\ t \in B /\ t \notin A
  <2>1. \A x \in T : x < t => x < u
    OBVIOUS
  <2>2. ~(t < t)
    OBVIOUS
  <2> QED BY <2>1, <2>2
<1>2. Rank(T, t) = Cardinality(A) /\ Rank(T, u) = Cardinality(B)
  BY DEF Rank
<1> HIDE DEF A, B
<1>3. IsFiniteSet(B)
  BY <1>1, FS_Subset
<1>4. IsFiniteSet(A) /\ Cardinality(A) <= Cardinality(B) /\ Cardinality(A) # Cardinality(B)
  BY <1>1, <1>3, FS_Subset
<1>5. Cardinality(A) \in Nat /\ Cardinality(B) \in Nat
  BY <1>3, <1>4, FS_CardinalityType
<1> QED BY <1>2, <1>4, <1>5

\* How many are below is a number.
LEMMA RankIsNumber ==
  ASSUME NEW T, IsFiniteSet(T), NEW t
  PROVE  Rank(T, t) \in Nat
<1> DEFINE A == {x \in T : x < t}
<1>1. A \in SUBSET T /\ Rank(T, t) = Cardinality(A)
  BY DEF Rank
<1> HIDE DEF A
<1> QED BY <1>1, FS_Subset, FS_CardinalityType

\* A finite set of numbers that is not empty has a least, and none is below it.
LEMMA LeastNumber ==
  ASSUME NEW T \in SUBSET Int, IsFiniteSet(T), T # {}
  PROVE  \E t \in T : \A u \in T : t <= u
<1> DEFINE R == {Rank(T, t) : t \in T}
<1>1. R \in SUBSET Nat /\ R # {}
  BY RankIsNumber
<1> HIDE DEF R
<1>2. PICK r \in R : \A s \in R : r <= s
  BY <1>1, LeastExists
<1>3. PICK t \in T : r = Rank(T, t)
  BY <1>2 DEF R
<1>4. \A u \in T : Rank(T, t) <= Rank(T, u)
  BY <1>2, <1>3 DEF R
<1>5. ASSUME NEW u \in T, u < t PROVE FALSE
  <2>1. Rank(T, u) \in Nat /\ Rank(T, t) \in Nat /\ Rank(T, u) < Rank(T, t)
    BY <1>5, LesserRanksBelow
  <2> QED BY <1>4, <2>1
<1>6. \A u \in T : t <= u
  BY <1>5
<1> QED BY <1>6

\* In a finite set of numbers each rank below its size is the rank of one of them.
LEMMA EachRankIsTaken ==
  ASSUME NEW T \in SUBSET Int, IsFiniteSet(T), NEW i \in 1 .. Cardinality(T)
  PROVE  \E t \in T : Rank(T, t) = i - 1
<1>1. PICK n : n = Cardinality(T)
  OBVIOUS
<1>2. n \in Nat
  BY <1>1, FS_CardinalityType
<1> DEFINE S == {k \in Nat : k < n => \E t \in T : Rank(T, t) = k}
<1>3. 0 \in S
  <2> SUFFICES ASSUME 0 < n PROVE \E t \in T : Rank(T, t) = 0
    OBVIOUS
  <2>1. T # {}
    BY <1>1, FS_EmptySet
  <2>2. PICK t \in T : \A u \in T : t <= u
    BY <2>1, LeastNumber
  <2>3. {u \in T : u < t} = {}
    <3>1. \A u \in T : ~(u < t)
      BY <2>2
    <3> QED BY <3>1
  <2>4. Rank(T, t) = 0
    BY <2>3, FS_EmptySet DEF Rank
  <2> QED BY <2>4
<1>4. ASSUME NEW k \in 1 .. n, (k - 1) \in S PROVE k \in S
  <2> SUFFICES ASSUME k < n PROVE \E u \in T : Rank(T, u) = k
    BY <1>2
  <2>1. PICK t \in T : Rank(T, t) = k - 1
    BY <1>2, <1>4
  <2> DEFINE A == {x \in T : x < t}
             U == {x \in T : t < x}
  <2>2. A \in SUBSET T /\ U \in SUBSET T /\ t \notin A
    OBVIOUS
  <2>3. IsFiniteSet(A) /\ IsFiniteSet(U)
    <3> HIDE DEF A, U
    <3> QED BY <2>2, FS_Subset
  <2>4. Cardinality(A \cup {t}) = k
    <3>1. Cardinality(A) = k - 1
      BY <2>1 DEF Rank
    <3> HIDE DEF A
    <3>2. Cardinality(A \cup {t}) = Cardinality(A) + 1
      BY <2>2, <2>3, FS_AddElement
    <3> QED BY <3>1, <3>2
  <2>5. U # {}
    <3> SUFFICES ASSUME U = {} PROVE FALSE
      OBVIOUS
    <3>1. T = A \cup {t}
      <4>1. \A x \in T : x < t \/ x = t \/ t < x
        OBVIOUS
      <4> QED BY <4>1
    <3>2. Cardinality(T) = k
      BY <2>4, <3>1
    <3> QED BY <1>1, <3>2
  <2>6. PICK u \in U : \A v \in U : u <= v
    <3>1. U \in SUBSET Int
      OBVIOUS
    <3> HIDE DEF U
    <3> QED BY <2>3, <2>5, <3>1, LeastNumber
  <2>7. {x \in T : x < u} = A \cup {t}
    <3>1. u \in T /\ t < u
      BY <2>6
    <3>2. \A x \in T : t < x => u <= x
      BY <2>6
    <3>3. \A x \in T : x < u <=> x < t \/ x = t
      BY <3>1, <3>2
    <3> QED BY <3>3
  <2>8. u \in T /\ Rank(T, u) = k
    BY <2>4, <2>6, <2>7 DEF Rank
  <2> QED BY <2>8
<1>5. S \in SUBSET Nat
  OBVIOUS
<1>6. (i - 1) \in S
  <2> HIDE DEF S
  <2>1. \A k \in 0 .. n : k \in S
    BY <1>2, <1>3, <1>4, <1>5, NoFirstException
  <2> QED BY <1>1, <1>2, <2>1
<1>7. i - 1 < n /\ i - 1 \in Nat
  BY <1>1, <1>2
<1> QED BY <1>6, <1>7

\* Nth numbers a finite set of integers from the least to the greatest.
Numbers(T) ==
  /\ \A i \in 1 .. Cardinality(T) : Nth(T, i) \in T
  /\ \A i, j \in 1 .. Cardinality(T) : i < j => Nth(T, i) < Nth(T, j)
  /\ \A t \in T : \E i \in 1 .. Cardinality(T) : Nth(T, i) = t

LEMMA NthNumbers ==
  ASSUME NEW T \in SUBSET Int, IsFiniteSet(T)
  PROVE  Cardinality(T) \in Nat /\ Numbers(T)
<1>1. Cardinality(T) \in Nat
  BY FS_CardinalityType
<1>2. ASSUME NEW i \in 1 .. Cardinality(T) PROVE Nth(T, i) \in T /\ Rank(T, Nth(T, i)) = i - 1
  <2>1. \E t \in T : Rank(T, t) = i - 1
    BY EachRankIsTaken
  <2>2. Nth(T, i) = CHOOSE t \in T : Rank(T, t) = i - 1
    BY DEF Nth, Rank
  <2> QED BY <2>1, <2>2
<1>3. ASSUME NEW i \in 1 .. Cardinality(T), NEW j \in 1 .. Cardinality(T), i < j
      PROVE  Nth(T, i) < Nth(T, j)
  <2>1. PICK t \in T : t = Nth(T, i) /\ Rank(T, t) = i - 1
    BY <1>2
  <2>2. PICK u \in T : u = Nth(T, j) /\ Rank(T, u) = j - 1
    BY <1>2
  <2>3. t # u
    BY <1>1, <1>3, <2>1, <2>2
  <2>4. ~(u < t)
    <3> SUFFICES ASSUME u < t PROVE FALSE
      OBVIOUS
    <3>1. Rank(T, u) < Rank(T, t)
      BY LesserRanksBelow
    <3> QED BY <1>1, <1>3, <2>1, <2>2, <3>1
  <2>5. t \in Int /\ u \in Int
    OBVIOUS
  <2>6. t < u
    BY <2>3, <2>4, <2>5
  <2> QED BY <2>1, <2>2, <2>6
<1>4. ASSUME NEW t \in T PROVE \E i \in 1 .. Cardinality(T) : Nth(T, i) = t
  <2>1. PICK r : r = Rank(T, t)
    OBVIOUS
  <2>2. r \in Nat /\ r < Cardinality(T)
    <3> DEFINE A == {x \in T : x < t}
    <3>1. A \in SUBSET T /\ t \notin A /\ Rank(T, t) = Cardinality(A)
      BY DEF Rank
    <3> HIDE DEF A
    <3>2. Cardinality(A) <= Cardinality(T) /\ Cardinality(A) # Cardinality(T)
      BY <3>1, FS_Subset
    <3> QED BY <1>1, <2>1, <3>1, <3>2, RankIsNumber
  <2>3. PICK i \in 1 .. Cardinality(T) : r = i - 1
    <3>1. r + 1 \in 1 .. Cardinality(T) /\ r = (r + 1) - 1
      BY <1>1, <2>2
    <3> QED BY <3>1
  <2>4. PICK u \in T : u = Nth(T, i) /\ Rank(T, u) = r
    BY <1>2, <2>3
  <2>5. ~(u < t) /\ ~(t < u)
    BY <2>1, <2>2, <2>4, LesserRanksBelow
  <2>6. u = t
    BY <2>5
  <2> QED BY <2>4, <2>6
<1>5. Numbers(T)
  BY <1>2, <1>3, <1>4 DEF Numbers
<1> QED BY <1>1, <1>5

\* Bars of a chart, each with a time to close at, and in the order of these times.
Timed(S) == \A bar \in S : bar.closed_at \in Int

Rising(bars) == \A i, j \in 1 .. Len(bars) : i < j => bars[i].closed_at < bars[j].closed_at

\* Bars with these times, each in its place.
LEMMA TimesOfBars ==
  ASSUME NEW S, Timed(S), NEW bars \in Seq(S)
  PROVE  /\ Len(bars) \in Nat
         /\ \A i \in 1 .. Len(bars) : bars[i] \in S /\ bars[i].closed_at \in Int
<1>1. Len(bars) \in Nat /\ \A i \in 1 .. Len(bars) : bars[i] \in S
  BY LenProperties, ElementOfSeq
<1> QED BY <1>1 DEF Timed

\* Bars of history and live bars merge into bars in the order of their times, if there
\* is history and it is in order.
LEMMA MergedBars ==
  ASSUME NEW S, Timed(S), NEW history \in Seq(S), NEW live \in Seq(S),
         Rising(history), history # <<>>
  PROVE  LET all == MergeChartBars(history, live)
         IN  all \in Seq(S) /\ Rising(all) /\ all # <<>>
<1>1. CASE live = <<>>
  BY <1>1 DEF MergeChartBars
<1>2. CASE live # <<>>
  <2> DEFINE all == history \o live
             n == Len(all)
             times == {all[i].closed_at : i \in 1 .. n}
             At(time) == {i \in 1 .. n : all[i].closed_at = time}
             LastAt(time) == all[Max(At(time))]
             c == Cardinality(times)
             merged == [i \in 1 .. c |-> LastAt(Nth(times, i))]
  <2>1. all \in Seq(S)
    BY ConcatProperties
  <2>2. n \in Nat /\ \A i \in 1 .. n : all[i] \in S /\ all[i].closed_at \in Int
    <3> HIDE DEF all
    <3> QED BY <2>1, TimesOfBars
  <2>3. n > 0
    <3>1. Len(history) \in Nat /\ Len(live) \in Nat /\ n = Len(history) + Len(live)
      BY LenProperties, ConcatProperties
    <3>2. Len(history) # 0
      BY EmptySeq
    <3> HIDE DEF n
    <3> QED BY <3>1, <3>2
  <2>4. MergeChartBars(history, live) = merged
    BY <1>2 DEF MergeChartBars
  <2> HIDE DEF all, n
  <2>5. times \in SUBSET Int /\ times # {}
    BY <2>2, <2>3
  <2>6. IsFiniteSet(times)
    <3> DEFINE f == [i \in 1 .. n |-> all[i].closed_at]
    <3>1. f \in Surjection(1 .. n, times)
      BY DEF Surjection
    <3>2. IsFiniteSet(1 .. n)
      BY <2>2, FS_Interval
    <3> HIDE DEF f, times
    <3> QED BY <3>1, <3>2, FS_Surjection
  <2>7. ASSUME NEW time \in times PROVE LastAt(time) \in S /\ LastAt(time).closed_at = time
    <3>1. At(time) \in SUBSET (1 .. n) /\ At(time) # {}
      OBVIOUS
    <3> HIDE DEF At
    <3>2. Max(At(time)) \in At(time)
      BY <2>2, <3>1, GreatestExists
    <3>3. Max(At(time)) \in 1 .. n /\ all[Max(At(time))].closed_at = time
      BY <3>2 DEF At
    <3> QED BY <2>2, <3>3
  <2> HIDE DEF times, LastAt
  <2>8. c \in Nat /\ Numbers(times) /\ c # 0
    BY <2>5, <2>6, NthNumbers, FS_EmptySet
  <2>9. \A i \in 1 .. c : Nth(times, i) \in times
    BY <2>8 DEF Numbers
  <2>10. \A i \in 1 .. c : merged[i] \in S /\ merged[i].closed_at = Nth(times, i)
    BY <2>7, <2>9
  <2>11. merged \in [1 .. c -> S] /\ merged \in Seq(S) /\ Len(merged) = c
    <3>1. merged \in [1 .. c -> S]
      BY <2>10
    <3> HIDE DEF merged, c
    <3>2. merged \in Seq(S)
      BY <2>8, <3>1, SeqDef
    <3> QED BY <2>8, <3>1, <3>2, LenProperties
  <2>12. Rising(merged)
    <3> HIDE DEF merged
    <3> QED BY <2>8, <2>10, <2>11 DEF Rising, Numbers
  <2>13. merged # <<>>
    <3> HIDE DEF merged, c
    <3> QED BY <2>8, <2>11, EmptySeq
  <2> HIDE DEF merged
  <2> QED BY <2>4, <2>11, <2>12, <2>13
<1> QED BY <1>1, <1>2

\* The last bars of a chart, at most so many: they are in order if it is, and have every
\* bar of it from the first of them on.
IsPage(page, bars, limit) ==
  /\ Len(page) \in 0 .. Len(bars) /\ Len(page) <= limit
  /\ Rising(page)
  /\ bars # <<>> => page # <<>>
  /\ \A j \in 1 .. Len(page) :
       Len(bars) - Len(page) + j \in 1 .. Len(bars) /\ page[j] = bars[Len(bars) - Len(page) + j]
  /\ page # <<>> => \A i \in 1 .. Len(bars) :
       bars[i].closed_at >= page[1].closed_at => \E j \in 1 .. Len(page) : page[j] = bars[i]
  /\ Len(page) < limit => page = bars

LEMMA LastBars ==
  ASSUME NEW S, Timed(S), NEW bars \in Seq(S), Rising(bars), NEW limit \in Nat \ {0}
  PROVE  Page(bars, limit) \in Seq(S) /\ IsPage(Page(bars, limit), bars, limit)
<1> DEFINE n == Len(bars)
           one == 1
           b == n - limit + 1
           m == Max({one, b})
           page == SubSeq(bars, m, n)
           l == Len(page)
<1>1. n \in Nat /\ \A i \in 1 .. n : bars[i] \in S /\ bars[i].closed_at \in Int
  BY TimesOfBars
<1>2. Page(bars, limit) = page
  BY DEF Page, TakeLast
<1>3. m \in {one, b} /\ m >= one /\ m >= b
  <2>1. one \in Int /\ b \in Int
    BY <1>1
  <2> HIDE DEF one, b
  <2> QED BY <2>1, GreaterOfTwo
<1> HIDE DEF m
<1>4. m \in Int /\ m >= 1 /\ (m = 1 \/ m = n - limit + 1) /\ m >= n - limit + 1
  BY <1>1, <1>3
<1> HIDE DEF n, one, b
<1>5. \A i \in m .. n : bars[i] \in S
  BY <1>1, <1>4
<1>6. /\ page \in Seq(S) /\ l = IF m <= n THEN n - m + 1 ELSE 0
      /\ \A i \in 1 .. n - m + 1 : page[i] = bars[m + i - 1]
  BY <1>1, <1>4, <1>5, SubSeqProperties
<1> HIDE DEF page
<1>7. /\ l \in Nat /\ l <= n /\ l <= limit /\ (n > 0 => l > 0)
      /\ (l > 0 => n - l = m - 1) /\ (l < limit => l = n)
  <2>1. l \in Nat
    BY <1>6, LenProperties
  <2> HIDE DEF l
  <2> QED BY <1>1, <1>4, <1>6, <2>1
<1>8. \A j \in 1 .. l : n - l + j \in 1 .. n /\ page[j] = bars[n - l + j]
  <2> SUFFICES ASSUME NEW j \in 1 .. l PROVE n - l + j \in 1 .. n /\ page[j] = bars[n - l + j]
    OBVIOUS
  <2>1. n - l = m - 1 /\ l = n - m + 1
    BY <1>1, <1>4, <1>7
  <2>2. j \in 1 .. n - m + 1 /\ m + j - 1 = n - l + j
    BY <1>1, <1>4, <1>7, <2>1
  <2>3. page[j] = bars[m + j - 1]
    BY <1>6, <2>2
  <2>4. n - l + j \in 1 .. n
    BY <1>1, <1>7
  <2> QED BY <2>2, <2>3, <2>4
<1>9. Rising(page)
  <2> SUFFICES ASSUME NEW i \in 1 .. l, NEW j \in 1 .. l, i < j
               PROVE  page[i].closed_at < page[j].closed_at
    BY DEF Rising
  <2>1. n - l + i \in 1 .. n /\ n - l + j \in 1 .. n /\ n - l + i < n - l + j
    BY <1>1, <1>7, <1>8
  <2>2. bars[n - l + i].closed_at < bars[n - l + j].closed_at
    BY <2>1 DEF Rising, n
  <2> QED BY <1>8, <2>2
<1>10. bars # <<>> => page # <<>>
  <2>1. bars # <<>> => n > 0
    BY <1>1, EmptySeq DEF n
  <2>2. page = <<>> => l = 0
    BY EmptySeq
  <2> QED BY <1>7, <2>1, <2>2
<1>11. ASSUME NEW i \in 1 .. n, page # <<>>, bars[i].closed_at >= page[1].closed_at
       PROVE  \E j \in 1 .. l : page[j] = bars[i]
  <2>1. l > 0
    BY <1>6, <1>7, <1>11, EmptySeq
  <2>2. 1 \in 1 .. l /\ n - l + 1 \in 1 .. n /\ page[1] = bars[n - l + 1]
    BY <1>7, <1>8, <2>1
  <2>3. ~(i < n - l + 1)
    <3> SUFFICES ASSUME i < n - l + 1 PROVE FALSE
      OBVIOUS
    <3>1. bars[i].closed_at < bars[n - l + 1].closed_at
      BY <2>2 DEF Rising, n
    <3>2. bars[i].closed_at \in Int /\ bars[n - l + 1].closed_at \in Int
      BY <1>1, <2>2
    <3> QED BY <1>11, <2>2, <3>1, <3>2
  <2>4. i - (n - l) \in 1 .. l /\ n - l + (i - (n - l)) = i
    BY <1>1, <1>7, <2>3
  <2>5. page[i - (n - l)] = bars[i]
    BY <1>8, <2>4
  <2> QED BY <2>4, <2>5
<1>12. l < limit => page = bars
  <2> SUFFICES ASSUME l < limit PROVE page = bars
    OBVIOUS
  <2>1. l = n
    BY <1>7
  <2>2. page \in [1 .. n -> S] /\ bars \in [1 .. n -> S]
    BY <1>6, <2>1, LenProperties DEF n
  <2>3. \A j \in 1 .. n : page[j] = bars[j]
    BY <1>1, <1>8, <2>1
  <2>4. page = [j \in 1 .. n |-> page[j]] /\ bars = [j \in 1 .. n |-> bars[j]]
    BY <2>2
  <2>5. [j \in 1 .. n |-> page[j]] = [j \in 1 .. n |-> bars[j]]
    BY <2>3
  <2> QED BY <2>4, <2>5
<1>13. IsPage(page, bars, limit)
  BY <1>7, <1>8, <1>9, <1>10, <1>11, <1>12 DEF IsPage, n, l
<1> QED BY <1>2, <1>6, <1>13

\* The bars of a chart that close before a time: in order, and all of them.
IsBefore(older, bars, before) ==
  /\ Rising(older)
  /\ \A j \in 1 .. Len(older) : older[j].closed_at < before
  /\ \A i \in 1 .. Len(bars) :
       bars[i].closed_at < before => \E j \in 1 .. Len(older) : older[j] = bars[i]

LEMMA BarsBefore ==
  ASSUME NEW S, Timed(S), NEW bars \in Seq(S), Rising(bars), NEW before \in Int, NEW limit
  PROVE  \E older \in Seq(S) :
            IsBefore(older, bars, before) /\ PageBefore(bars, before, limit) = Page(older, limit)
<1> DEFINE n == Len(bars)
           kept == {i \in 1 .. n : bars[i].closed_at < before}
           c == Cardinality(kept)
           older == [i \in 1 .. c |-> bars[Nth(kept, i)]]
<1>1. n \in Nat /\ \A i \in 1 .. n : bars[i] \in S /\ bars[i].closed_at \in Int
  BY TimesOfBars
<1>2. PageBefore(bars, before, limit) = Page(older, limit)
  BY DEF PageBefore
<1>3. kept \in SUBSET (1 .. n) /\ kept \in SUBSET Int
  BY <1>1
<1>4. \A i \in 1 .. n : i \in kept <=> bars[i].closed_at < before
  OBVIOUS
<1> HIDE DEF kept
<1>5. IsFiniteSet(kept)
  <2>1. IsFiniteSet(1 .. n)
    BY <1>1, FS_Interval
  <2> QED BY <1>3, <2>1, FS_Subset
<1>6. c \in Nat /\ Numbers(kept)
  BY <1>3, <1>5, NthNumbers
<1>7. \A i \in 1 .. c : Nth(kept, i) \in kept
  BY <1>6 DEF Numbers
<1>8. \A i \in 1 .. c : older[i] = bars[Nth(kept, i)] /\ older[i] \in S
  BY <1>1, <1>3, <1>7
<1>9. older \in Seq(S) /\ Len(older) = c
  <2>1. older \in [1 .. c -> S]
    BY <1>8
  <2> HIDE DEF older, c
  <2>2. older \in Seq(S)
    BY <1>6, <2>1, SeqDef
  <2> QED BY <1>6, <2>1, <2>2, LenProperties
<1> HIDE DEF older
<1>10. Rising(older)
  <2> SUFFICES ASSUME NEW i \in 1 .. c, NEW j \in 1 .. c, i < j
               PROVE  older[i].closed_at < older[j].closed_at
    BY <1>9 DEF Rising
  <2>1. Nth(kept, i) < Nth(kept, j) /\ Nth(kept, i) \in 1 .. n /\ Nth(kept, j) \in 1 .. n
    BY <1>3, <1>6, <1>7 DEF Numbers
  <2>2. bars[Nth(kept, i)].closed_at < bars[Nth(kept, j)].closed_at
    BY <2>1 DEF Rising
  <2> QED BY <1>8, <2>2
<1>11. \A j \in 1 .. Len(older) : older[j].closed_at < before
  BY <1>3, <1>4, <1>7, <1>8, <1>9
<1>12. ASSUME NEW i \in 1 .. n, bars[i].closed_at < before
       PROVE  \E j \in 1 .. Len(older) : older[j] = bars[i]
  <2>1. i \in kept
    BY <1>4, <1>12
  <2>2. PICK j \in 1 .. c : Nth(kept, j) = i
    BY <1>6, <2>1 DEF Numbers
  <2> QED BY <1>8, <1>9, <2>2
<1>13. IsBefore(older, bars, before)
  BY <1>10, <1>11, <1>12 DEF IsBefore
<1> QED BY <1>2, <1>9, <1>13

\* Bars in order with one more, whose time none of them has: it has been put in its place.
IsInserted(sorted, bars, bar) ==
  /\ Rising(sorted) /\ Len(sorted) = Len(bars) + 1
  /\ \A i \in 1 .. Len(bars) : \E j \in 1 .. Len(sorted) : sorted[j] = bars[i]
  /\ \A j \in 1 .. Len(sorted) : sorted[j] = bar \/ \E i \in 1 .. Len(bars) : sorted[j] = bars[i]

LEMMA BarIsInserted ==
  ASSUME NEW S, Timed(S), NEW bars \in Seq(S), Rising(bars), NEW bar \in S,
         \A i \in 1 .. Len(bars) : bars[i].closed_at # bar.closed_at
  PROVE  Sorted(Append(bars, bar)) \in Seq(S) /\ IsInserted(Sorted(Append(bars, bar)), bars, bar)
<1> DEFINE n == Len(bars)
           all == Append(bars, bar)
           Earlier(k) == {i \in 1 .. n + 1 : \/ InOrder(all[i], all[k])
                                             \/ i < k /\ ~InOrder(all[k], all[i])}
           time == bar.closed_at
           Later == {k \in 0 .. n : \A i \in 1 .. n : i > k => time < bars[i].closed_at}
<1>1. /\ n \in Nat /\ \A i \in 1 .. n : bars[i] \in S /\ bars[i].closed_at \in Int
      /\ time \in Int
  BY TimesOfBars DEF Timed
<1>2. \A i, j \in 1 .. n : i < j => bars[i].closed_at < bars[j].closed_at
  BY DEF Rising
<1>3. /\ Len(all) = n + 1 /\ all[n + 1] = bar
      /\ \A i \in 1 .. n : all[i] = bars[i]
      /\ \A i \in 1 .. n + 1 : all[i] \in S
  BY <1>1, AppendProperties, ElementOfSeq
<1>4. Sorted(all) = [s \in 1 .. n + 1 |-> all[CHOOSE k \in 1 .. n + 1 :
                                                Cardinality(Earlier(k)) = s - 1]]
  BY <1>3 DEF Sorted
<1> HIDE DEF all, n, time
<1>5. PICK m \in 0 .. n : /\ \A i \in 1 .. n : i > m => time < bars[i].closed_at
                          /\ \A i \in 1 .. n : i <= m => bars[i].closed_at < time
  <2>1. Later \in SUBSET Nat /\ n \in Later
    BY <1>1
  <2>2. PICK m \in Later : \A k \in Later : m <= k
    <3> HIDE DEF Later
    <3> QED BY <2>1, LeastExists
  <2>3. m \in 0 .. n /\ \A i \in 1 .. n : i > m => time < bars[i].closed_at
    OBVIOUS
  <2>4. ASSUME NEW i \in 1 .. n, i <= m PROVE bars[i].closed_at < time
    <3>1. m - 1 \notin Later
      <4> HIDE DEF Later
      <4> QED BY <1>1, <2>2, <2>3
    <3>2. PICK k \in 1 .. n : k > m - 1 /\ ~(time < bars[k].closed_at)
      <4>1. m - 1 \in 0 .. n
        BY <1>1, <2>3, <2>4
      <4> QED BY <3>1, <4>1
    <3>3. k = m
      BY <1>1, <2>3, <3>2
    <3>4. bars[m].closed_at < time
      BY <1>1, <3>2, <3>3 DEF time, n
    <3>5. i = m \/ bars[i].closed_at < bars[m].closed_at
      BY <1>1, <1>2, <2>3, <2>4, <3>3
    <3> QED BY <1>1, <3>3, <3>4, <3>5
  <2> QED BY <2>3, <2>4
<1> HIDE DEF Later
<1>6. ASSUME NEW k \in 1 .. m PROVE Cardinality(Earlier(k)) = k - 1
  <2>1. all[k] = bars[k] /\ k \in 1 .. n /\ bars[k].closed_at < time
    BY <1>1, <1>3, <1>5
  <2>2. ASSUME NEW i \in 1 .. n + 1 PROVE i \in Earlier(k) <=> i < k
    <3>1. CASE i = n + 1
      BY <1>1, <1>3, <2>1, <3>1 DEF InOrder, time
    <3>2. CASE i # n + 1
      <4>1. i \in 1 .. n /\ all[i] = bars[i]
        BY <1>1, <1>3, <3>2
      <4>2. i < k => bars[i].closed_at < bars[k].closed_at
        BY <1>2, <2>1, <4>1
      <4>3. k < i => bars[k].closed_at < bars[i].closed_at
        BY <1>2, <2>1, <4>1
      <4>4. bars[i].closed_at \in Int /\ bars[k].closed_at \in Int
        BY <1>1, <2>1, <4>1
      <4> QED BY <2>1, <4>1, <4>2, <4>3, <4>4 DEF InOrder
    <3> QED BY <3>1, <3>2
  <2>3. Earlier(k) = 1 .. k - 1
    <3>1. \A i : i \in Earlier(k) => i \in 1 .. n + 1
      OBVIOUS
    <3> HIDE DEF Earlier
    <3>2. \A i : i \in 1 .. k - 1 => i \in 1 .. n + 1 /\ i < k
      BY <1>1, <2>1
    <3>3. \A i : i \in 1 .. n + 1 /\ i < k => i \in 1 .. k - 1
      BY <1>1, <2>1
    <3>4. \A i : i \in Earlier(k) <=> i \in 1 .. k - 1
      BY <2>2, <3>1, <3>2, <3>3
    <3> QED BY <3>4
  <2>4. k - 1 \in Int /\ k - 1 >= 0
    BY <1>1, <2>1
  <2>5. Cardinality(1 .. k - 1) = k - 1
    BY <2>4, FS_Interval
  <2> QED BY <2>3, <2>5
<1>7. ASSUME NEW k \in m + 1 .. n PROVE Cardinality(Earlier(k)) = k
  <2>1. all[k] = bars[k] /\ k \in 1 .. n /\ time < bars[k].closed_at
    BY <1>1, <1>3, <1>5
  <2>2. ASSUME NEW i \in 1 .. n + 1 PROVE i \in Earlier(k) <=> i < k \/ i = n + 1
    <3>1. CASE i = n + 1
      BY <1>1, <1>3, <2>1, <3>1 DEF InOrder, time
    <3>2. CASE i # n + 1
      <4>1. i \in 1 .. n /\ all[i] = bars[i]
        BY <1>1, <1>3, <3>2
      <4>2. i < k => bars[i].closed_at < bars[k].closed_at
        BY <1>2, <2>1, <4>1
      <4>3. k < i => bars[k].closed_at < bars[i].closed_at
        BY <1>2, <2>1, <4>1
      <4>4. bars[i].closed_at \in Int /\ bars[k].closed_at \in Int
        BY <1>1, <2>1, <4>1
      <4> QED BY <2>1, <3>2, <4>1, <4>2, <4>3, <4>4 DEF InOrder
    <3> QED BY <3>1, <3>2
  <2> DEFINE A == 1 .. k - 1
  <2>3. \A i : i \in A \cup {n + 1} => i \in 1 .. n + 1 /\ (i < k \/ i = n + 1)
    BY <1>1, <2>1
  <2>4. \A i : i \in 1 .. n + 1 /\ (i < k \/ i = n + 1) => i \in A \cup {n + 1}
    BY <1>1, <2>1
  <2>5. IsFiniteSet(A) /\ Cardinality(A) = k - 1 /\ n + 1 \notin A
    <3>1. k - 1 \in Int /\ k - 1 >= 0 /\ n + 1 \notin A
      BY <1>1, <2>1
    <3> QED BY <3>1, FS_Interval
  <2>6. \A i : i \in Earlier(k) => i \in 1 .. n + 1
    OBVIOUS
  <2> HIDE DEF A, Earlier
  <2>7. Earlier(k) = A \cup {n + 1}
    <3>1. \A i : i \in Earlier(k) <=> i \in A \cup {n + 1}
      BY <2>2, <2>3, <2>4, <2>6
    <3> QED BY <3>1
  <2>8. Cardinality(A \cup {n + 1}) = Cardinality(A) + 1
    BY <2>5, FS_AddElement
  <2>9. Cardinality(Earlier(k)) = Cardinality(A \cup {n + 1})
    BY <2>7, Zenon
  <2>10. Cardinality(A) + 1 = k
    BY <1>1, <2>1, <2>5
  <2> QED BY <2>8, <2>9, <2>10
<1>8. Cardinality(Earlier(n + 1)) = m
  <2>1. ASSUME NEW i \in 1 .. n + 1 PROVE i \in Earlier(n + 1) <=> i <= m
    <3>1. CASE i = n + 1
      BY <1>1, <1>3, <1>5, <3>1 DEF InOrder, time
    <3>2. CASE i # n + 1
      <4>1. i \in 1 .. n /\ all[i] = bars[i] /\ i < n + 1 /\ all[n + 1] = bar
        BY <1>1, <1>3, <3>2
      <4>2. i <= m => bars[i].closed_at < time
        BY <1>5, <4>1
      <4>3. i > m => time < bars[i].closed_at
        BY <1>5, <4>1
      <4>4. bars[i].closed_at \in Int /\ time \in Int
        BY <1>1, <4>1
      <4> QED BY <4>1, <4>2, <4>3, <4>4 DEF InOrder, time
    <3> QED BY <3>1, <3>2
  <2>2. Earlier(n + 1) = 1 .. m
    <3>1. \A i : i \in Earlier(n + 1) => i \in 1 .. n + 1
      OBVIOUS
    <3> HIDE DEF Earlier
    <3>2. \A i : i \in 1 .. m <=> i \in 1 .. n + 1 /\ i <= m
      BY <1>1, <1>5
    <3>3. \A i : i \in Earlier(n + 1) <=> i \in 1 .. m
      BY <2>1, <3>1, <3>2
    <3> QED BY <3>3
  <2>3. m \in Int /\ m >= 0
    BY <1>1, <1>5
  <2>4. Cardinality(1 .. m) = m
    BY <2>3, FS_Interval
  <2> QED BY <2>2, <2>4
<1> HIDE DEF Earlier
<1> DEFINE From(s) == IF s <= m THEN s ELSE IF s = m + 1 THEN n + 1 ELSE s - 1
           sorted == [s \in 1 .. n + 1 |-> all[From(s)]]
<1>9. ASSUME NEW s \in 1 .. n + 1
      PROVE  From(s) = CHOOSE k \in 1 .. n + 1 : Cardinality(Earlier(k)) = s - 1
  <2>1. From(s) \in 1 .. n + 1 /\ Cardinality(Earlier(From(s))) = s - 1
    <3>1. CASE s <= m
      BY <1>1, <1>6, <3>1
    <3>2. CASE s = m + 1
      BY <1>1, <1>8, <3>2
    <3>3. CASE s > m + 1
      <4>1. From(s) = s - 1 /\ s - 1 \in m + 1 .. n
        BY <1>1, <3>3
      <4> QED BY <1>1, <1>7, <4>1
    <3> QED BY <3>1, <3>2, <3>3
  <2>2. ASSUME NEW k \in 1 .. n + 1, Cardinality(Earlier(k)) = s - 1 PROVE k = From(s)
    <3>1. CASE k \in 1 .. m
      BY <1>1, <1>6, <2>2, <3>1
    <3>2. CASE k \in m + 1 .. n
      <4>1. Cardinality(Earlier(k)) = k
        BY <1>7, <3>2
      <4> QED BY <1>1, <2>2, <3>2, <4>1
    <3>3. CASE k = n + 1
      BY <1>1, <1>8, <2>2, <3>3
    <3> QED BY <1>1, <3>1, <3>2, <3>3
  <2> HIDE DEF From
  <2> QED BY <2>1, <2>2
<1>10. Sorted(all) = sorted
  <2> HIDE DEF From
  <2> QED BY <1>4, <1>9
<1>11. \A s \in 1 .. n + 1 : sorted[s] = all[From(s)] /\ From(s) \in 1 .. n + 1
  BY <1>1
<1>12. sorted \in Seq(S) /\ Len(sorted) = n + 1
  <2>1. sorted \in [1 .. n + 1 -> S]
    <3> HIDE DEF From
    <3> QED BY <1>3, <1>11
  <2> HIDE DEF sorted
  <2>2. sorted \in Seq(S)
    BY <1>1, <2>1, SeqDef
  <2> QED BY <1>1, <2>1, <2>2, LenProperties
<1> HIDE DEF sorted
<1>13. \A s \in 1 .. n + 1 : /\ s <= m => s \in 1 .. n /\ sorted[s] = bars[s]
                             /\ s = m + 1 => sorted[s] = bar
                             /\ s > m + 1 => s - 1 \in 1 .. n /\ sorted[s] = bars[s - 1]
  <2> SUFFICES ASSUME NEW s \in 1 .. n + 1
               PROVE  /\ s <= m => s \in 1 .. n /\ sorted[s] = bars[s]
                      /\ s = m + 1 => sorted[s] = bar
                      /\ s > m + 1 => s - 1 \in 1 .. n /\ sorted[s] = bars[s - 1]
    OBVIOUS
  <2>1. CASE s <= m
    BY <1>1, <1>3, <1>11, <2>1
  <2>2. CASE s = m + 1
    BY <1>1, <1>3, <1>11, <2>2
  <2>3. CASE s > m + 1
    BY <1>1, <1>3, <1>11, <2>3
  <2> QED BY <1>1, <2>1, <2>2, <2>3
<1>14. Rising(sorted)
  <2> SUFFICES ASSUME NEW i \in 1 .. n + 1, NEW j \in 1 .. n + 1, i < j
               PROVE  sorted[i].closed_at < sorted[j].closed_at
    BY <1>12 DEF Rising
  <2>1. CASE j <= m
    BY <1>1, <1>2, <1>13, <2>1
  <2>2. CASE j = m + 1
    <3>1. i <= m /\ i \in 1 .. n
      BY <1>1, <2>2
    <3> QED BY <1>5, <1>13, <2>2, <3>1 DEF time
  <2>3. CASE i = m + 1
    <3>1. j > m + 1 /\ j - 1 \in 1 .. n /\ j - 1 > m
      BY <1>1, <2>3
    <3> QED BY <1>5, <1>13, <2>3, <3>1 DEF time
  <2>4. CASE i <= m /\ j > m + 1
    <3>1. i \in 1 .. n /\ j - 1 \in 1 .. n /\ i < j - 1
      BY <1>1, <2>4
    <3>2. sorted[i] = bars[i] /\ sorted[j] = bars[j - 1]
      BY <1>13, <2>4
    <3> QED BY <1>2, <3>1, <3>2
  <2>5. CASE i > m + 1
    <3>1. i - 1 \in 1 .. n /\ j - 1 \in 1 .. n /\ i - 1 < j - 1 /\ j > m + 1
      BY <1>1, <2>5
    <3>2. sorted[i] = bars[i - 1] /\ sorted[j] = bars[j - 1]
      BY <1>13, <2>5, <3>1
    <3> QED BY <1>2, <3>1, <3>2
  <2> QED BY <1>1, <2>1, <2>2, <2>3, <2>4, <2>5
<1>15. ASSUME NEW i \in 1 .. n PROVE \E j \in 1 .. n + 1 : sorted[j] = bars[i]
  <2>1. CASE i <= m
    <3>1. i \in 1 .. n + 1 /\ sorted[i] = bars[i]
      BY <1>1, <1>13, <2>1
    <3> QED BY <3>1
  <2>2. CASE i > m
    <3>1. i + 1 \in 1 .. n + 1 /\ i + 1 > m + 1 /\ (i + 1) - 1 = i
      BY <1>1, <2>2
    <3>2. sorted[i + 1] = bars[i]
      BY <1>13, <3>1
    <3> QED BY <3>1, <3>2
  <2> QED BY <1>1, <2>1, <2>2
<1>16. ASSUME NEW j \in 1 .. n + 1 PROVE sorted[j] = bar \/ \E i \in 1 .. n : sorted[j] = bars[i]
  BY <1>1, <1>13
<1>17. IsInserted(sorted, bars, bar)
  BY <1>12, <1>14, <1>15, <1>16 DEF IsInserted, n
<1> QED BY <1>10, <1>12, <1>17 DEF all

\* Bars with one that is forming: theirs are the times, and its own if it is a new one.
IsWith(with, bars, bar) ==
  /\ Rising(with)
  /\ \A i \in 1 .. Len(bars) : \E j \in 1 .. Len(with) : with[j].closed_at = bars[i].closed_at
  /\ \A j \in 1 .. Len(with) :
       \/ \E i \in 1 .. Len(bars) : with[j].closed_at = bars[i].closed_at
       \/ with[j].closed_at = bar.closed_at /\ Len(with) = Len(bars) + 1

\* Bars with the same times are as good.
LEMMA SameTimes ==
  ASSUME NEW with, NEW bars, NEW bar, Rising(bars), Len(with) = Len(bars),
         \A j \in 1 .. Len(bars) : with[j].closed_at = bars[j].closed_at
  PROVE  IsWith(with, bars, bar)
<1>1. Rising(with)
  BY DEF Rising
<1> QED BY <1>1 DEF IsWith

LEMMA FormingBarIsMerged ==
  ASSUME NEW S, Timed(S), NEW bars \in Seq(S), Rising(bars), NEW bar \in S
  PROVE  WithForming(bars, bar) \in Seq(S) /\ IsWith(WithForming(bars, bar), bars, bar)
<1> DEFINE at == {i \in 1 .. Len(bars) : bars[i].closed_at = bar.closed_at}
<1>1. Len(bars) \in Nat
  BY LenProperties
<1>2. CASE at = {}
  <2>1. WithForming(bars, bar) = Sorted(Append(bars, bar))
    BY <1>2 DEF WithForming
  <2>2. \A i \in 1 .. Len(bars) : bars[i].closed_at # bar.closed_at
    BY <1>2
  <2>3. PICK sorted : sorted = Sorted(Append(bars, bar))
    OBVIOUS
  <2>4. sorted \in Seq(S) /\ IsInserted(sorted, bars, bar)
    BY <2>2, <2>3, BarIsInserted
  <2>5. IsWith(sorted, bars, bar)
    BY <2>4 DEF IsInserted, IsWith
  <2> QED BY <2>1, <2>3, <2>4, <2>5
<1>3. CASE at # {}
  <2> DEFINE k == Min(at)
             with == [bars EXCEPT ![k] = bar]
  <2>1. k \in at
    <3>1. at \in SUBSET Nat
      OBVIOUS
    <3> HIDE DEF at
    <3>2. \E i \in at : \A j \in at : i <= j
      BY <1>3, <3>1, LeastExists
    <3> QED BY <3>2 DEF Min
  <2>2. k \in 1 .. Len(bars) /\ bars[k].closed_at = bar.closed_at
    BY <2>1
  <2>3. WithForming(bars, bar) \in {bars, with}
    BY <1>3 DEF WithForming
  <2> HIDE DEF k
  <2>4. with \in Seq(S) /\ Len(with) = Len(bars)
    BY <2>2, ExceptSeq
  <2>5. \A j \in 1 .. Len(bars) : with[j].closed_at = bars[j].closed_at
    <3>1. bars \in [1 .. Len(bars) -> S]
      BY LenProperties
    <3> QED BY <2>2, <3>1
  <2> HIDE DEF with
  <2>6. IsWith(with, bars, bar)
    BY <2>4, <2>5, SameTimes
  <2>7. IsWith(bars, bars, bar)
    BY SameTimes
  <2> QED BY <2>3, <2>4, <2>6, <2>7
<1> QED BY <1>2, <1>3

\* A chart of some bars: in order, and with the time of every one of them from its
\* first bar on.
IsChart(chart, all) ==
  /\ Rising(chart) /\ chart # <<>>
  /\ \A i \in 1 .. Len(all) : all[i].closed_at >= chart[1].closed_at =>
       \E j \in 1 .. Len(chart) : chart[j].closed_at = all[i].closed_at

\* Their last ones are, ...
LEMMA PageIsChart ==
  ASSUME NEW S, Timed(S), NEW all \in Seq(S), Rising(all), all # <<>>, NEW limit \in Nat \ {0}
  PROVE  IsChart(Page(all, limit), all)
<1>1. PICK page : page = Page(all, limit)
  OBVIOUS
<1>2. IsPage(page, all, limit)
  BY <1>1, LastBars
<1>3. IsChart(page, all)
  BY <1>2 DEF IsPage, IsChart
<1> QED BY <1>1, <1>3

\* ... and the last ones of these with the one that is forming: it takes the place of
\* a bar of the page only if the page is full, and then it is not the first.
LEMMA FormingIsChart ==
  ASSUME NEW S, Timed(S), NEW all \in Seq(S), Rising(all), all # <<>>, NEW limit \in Nat \ {0},
         NEW bar \in S
  PROVE  /\ Page(WithForming(Page(all, limit), bar), limit) \in Seq(S)
         /\ IsChart(Page(WithForming(Page(all, limit), bar), limit), all)
<1>1. PICK bars : bars = Page(all, limit)
  OBVIOUS
<1>2. bars \in Seq(S) /\ IsPage(bars, all, limit)
  BY <1>1, LastBars
<1>3. Rising(bars) /\ bars # <<>>
  BY <1>2 DEF IsPage
<1>4. PICK with : with = WithForming(bars, bar)
  OBVIOUS
<1>5. with \in Seq(S) /\ IsWith(with, bars, bar)
  BY <1>2, <1>3, <1>4, FormingBarIsMerged
<1>6. Rising(with)
  BY <1>5 DEF IsWith
<1>7. PICK chart : chart = Page(with, limit)
  OBVIOUS
<1>8. chart \in Seq(S) /\ IsPage(chart, with, limit)
  BY <1>5, <1>6, <1>7, LastBars
<1>9. /\ Len(bars) \in Nat /\ \A i \in 1 .. Len(bars) : bars[i].closed_at \in Int
      /\ Len(with) \in Nat /\ \A i \in 1 .. Len(with) : with[i].closed_at \in Int
      /\ Len(chart) \in Nat /\ \A i \in 1 .. Len(chart) : chart[i].closed_at \in Int
      /\ Len(all) \in Nat /\ \A i \in 1 .. Len(all) : all[i].closed_at \in Int
  BY <1>2, <1>5, <1>8, TimesOfBars
<1>10. 1 \in 1 .. Len(bars)
  <2>1. Len(bars) # 0
    BY <1>2, <1>3, EmptySeq
  <2> QED BY <1>9, <2>1
<1>11. with # <<>>
  <2>1. PICK j \in 1 .. Len(with) : TRUE
    BY <1>5, <1>10 DEF IsWith
  <2>2. Len(with) # 0
    BY <1>9, <2>1
  <2> QED BY <2>2, EmptySeq
<1>12. Rising(chart) /\ chart # <<>>
  BY <1>8, <1>11 DEF IsPage
<1>13. 1 \in 1 .. Len(chart)
  <2>1. Len(chart) # 0
    BY <1>8, <1>12, EmptySeq
  <2> QED BY <1>9, <2>1
<1>14. ASSUME NEW i \in 1 .. Len(bars), bars[i].closed_at >= chart[1].closed_at
       PROVE  \E j \in 1 .. Len(chart) : chart[j].closed_at = bars[i].closed_at
  <2>1. PICK j \in 1 .. Len(with) : with[j].closed_at = bars[i].closed_at
    BY <1>5 DEF IsWith
  <2>2. PICK k \in 1 .. Len(chart) : chart[k] = with[j]
    <3>1. with[j].closed_at >= chart[1].closed_at
      BY <1>14, <2>1
    <3> QED BY <1>8, <1>12, <3>1 DEF IsPage
  <2> QED BY <2>1, <2>2
<1>15. ASSUME NEW i \in 1 .. Len(all), all[i].closed_at >= chart[1].closed_at
       PROVE  \E j \in 1 .. Len(chart) : chart[j].closed_at = all[i].closed_at
  <2>1. CASE all[i].closed_at >= bars[1].closed_at
    <3>1. PICK j \in 1 .. Len(bars) : bars[j] = all[i]
      BY <1>2, <1>3, <2>1 DEF IsPage
    <3>2. bars[j].closed_at >= chart[1].closed_at
      BY <1>15, <3>1
    <3> QED BY <1>14, <3>1, <3>2
  <2>2. CASE ~(all[i].closed_at >= bars[1].closed_at)
    <3>1. chart[1].closed_at < bars[1].closed_at
      BY <1>9, <1>10, <1>13, <1>15, <2>2
    <3>2. \A j \in 1 .. Len(bars) : chart[1].closed_at < bars[j].closed_at
      <4> SUFFICES ASSUME NEW j \in 1 .. Len(bars)
                   PROVE  chart[1].closed_at < bars[j].closed_at
        OBVIOUS
      <4>1. j = 1 \/ bars[1].closed_at < bars[j].closed_at
        BY <1>3, <1>9, <1>10 DEF Rising
      <4> QED BY <1>9, <1>10, <1>13, <3>1, <4>1
    <3>3. PICK f : f = Len(with) - Len(chart) + 1
      OBVIOUS
    <3>4. f \in 1 .. Len(with) /\ chart[1] = with[f]
      BY <1>8, <1>13, <3>3 DEF IsPage
    <3>5. ~(\E j \in 1 .. Len(bars) : with[f].closed_at = bars[j].closed_at)
      BY <1>9, <3>2, <3>4
    <3>6. with[f].closed_at = bar.closed_at /\ Len(with) = Len(bars) + 1
      BY <1>5, <3>4, <3>5 DEF IsWith
    <3>7. f = 1
      <4> SUFFICES ASSUME f # 1 PROVE FALSE
        OBVIOUS
      <4>1. 1 \in 1 .. Len(with) /\ 1 < f
        BY <1>9, <3>4
      <4>2. with[1].closed_at < with[f].closed_at
        BY <1>6, <3>4, <4>1 DEF Rising
      <4>3. \/ with[1].closed_at = bar.closed_at
            \/ \E j \in 1 .. Len(bars) : with[1].closed_at = bars[j].closed_at
        BY <1>5, <4>1 DEF IsWith
      <4>4. with[1].closed_at \in Int /\ with[f].closed_at \in Int
        BY <1>9, <3>4, <4>1
      <4>5. \A j \in 1 .. Len(bars) : with[1].closed_at # bars[j].closed_at
        <5>1. \A j \in 1 .. Len(bars) : with[f].closed_at < bars[j].closed_at
          BY <3>2, <3>4
        <5> QED BY <1>9, <4>2, <4>4, <5>1
      <4> QED BY <3>6, <4>2, <4>3, <4>4, <4>5
    <3>8. Len(bars) < limit
      <4>1. Len(chart) <= limit
        BY <1>8 DEF IsPage
      <4> QED BY <1>9, <3>3, <3>6, <3>7, <4>1
    <3>9. bars = all
      BY <1>2, <3>8 DEF IsPage
    <3>10. i = 1 \/ bars[1].closed_at < all[i].closed_at
      BY <1>3, <1>9, <1>10, <3>9 DEF Rising
    <3> QED BY <1>9, <1>10, <2>2, <3>9, <3>10
  <2> QED BY <2>1, <2>2
<1>16. IsChart(chart, all)
  BY <1>12, <1>15 DEF IsChart
<1> QED BY <1>1, <1>4, <1>7, <1>8, <1>16

\* A chart and the page before it are in order, and have every bar of the time they span.
ReadsOn(both, all) ==
  /\ Rising(both)
  /\ \A i \in 1 .. Len(all) : all[i].closed_at >= both[1].closed_at =>
       \E j \in 1 .. Len(both) : both[j].closed_at = all[i].closed_at

LEMMA PagesReadOn ==
  ASSUME NEW S, Timed(S), NEW all \in Seq(S), Rising(all), NEW chart \in Seq(S),
         IsChart(chart, all), NEW limit \in Nat \ {0},
         NEW both, both = PageBefore(all, chart[1].closed_at, limit) \o chart
  PROVE  ReadsOn(both, all)
<1>1. PICK time : time = chart[1].closed_at
  OBVIOUS
<1>2. /\ Len(chart) \in Nat /\ \A i \in 1 .. Len(chart) : chart[i].closed_at \in Int
      /\ \A i \in 1 .. Len(all) : all[i].closed_at \in Int
  BY TimesOfBars
<1>3. 1 \in 1 .. Len(chart) /\ time \in Int
  <2>1. Len(chart) # 0
    BY EmptySeq DEF IsChart
  <2> QED BY <1>1, <1>2, <2>1
<1>4. PICK before \in Seq(S) :
        IsBefore(before, all, time) /\ PageBefore(all, time, limit) = Page(before, limit)
  <2>1. time \in Int
    BY <1>3
  <2> QED BY <2>1, BarsBefore
<1>5. Rising(before)
  BY <1>4 DEF IsBefore
<1>6. PICK older : older = Page(before, limit)
  OBVIOUS
<1>7. older \in Seq(S) /\ IsPage(older, before, limit)
  BY <1>4, <1>5, <1>6, LastBars
<1>8. /\ Len(older) \in Nat /\ \A i \in 1 .. Len(older) : older[i].closed_at \in Int
      /\ Len(before) \in Nat
  BY <1>4, <1>7, TimesOfBars
<1>9. \A i \in 1 .. Len(older) : older[i].closed_at < time
  BY <1>4, <1>7 DEF IsPage, IsBefore
<1>10. \A i \in 1 .. Len(chart) : time <= chart[i].closed_at
  <2> SUFFICES ASSUME NEW i \in 1 .. Len(chart) PROVE time <= chart[i].closed_at
    OBVIOUS
  <2>1. i = 1 \/ time < chart[i].closed_at
    BY <1>1, <1>2, <1>3 DEF IsChart, Rising
  <2> QED BY <1>1, <1>2, <1>3, <2>1
<1>11. both = older \o chart
  BY <1>1, <1>4, <1>6
<1>12. PICK n : n = Len(older)
  OBVIOUS
<1>13. /\ Len(both) = n + Len(chart)
       /\ \A i \in 1 .. n + Len(chart) : both[i] = IF i <= n THEN older[i] ELSE chart[i - n]
  BY <1>7, <1>11, <1>12, ConcatProperties
<1>14. Rising(both)
  <2> SUFFICES ASSUME NEW i \in 1 .. Len(both), NEW j \in 1 .. Len(both), i < j
               PROVE  both[i].closed_at < both[j].closed_at
    BY DEF Rising
  <2>1. CASE j <= n
    <3>1. i \in 1 .. n /\ j \in 1 .. n /\ both[i] = older[i] /\ both[j] = older[j]
      BY <1>2, <1>8, <1>12, <1>13, <2>1
    <3>2. Rising(older)
      BY <1>7 DEF IsPage
    <3> QED BY <1>12, <3>1, <3>2 DEF Rising
  <2>2. CASE i <= n /\ j > n
    <3>1. /\ i \in 1 .. n /\ j - n \in 1 .. Len(chart)
          /\ both[i] = older[i] /\ both[j] = chart[j - n]
      BY <1>2, <1>8, <1>12, <1>13, <2>2
    <3>2. older[i].closed_at < time /\ older[i].closed_at \in Int
      BY <1>8, <1>9, <1>12, <3>1
    <3>3. time <= chart[j - n].closed_at /\ chart[j - n].closed_at \in Int
      BY <1>2, <1>10, <3>1
    <3> QED BY <1>3, <3>1, <3>2, <3>3
  <2>3. CASE i > n
    <3>1. /\ i - n \in 1 .. Len(chart) /\ j - n \in 1 .. Len(chart) /\ i - n < j - n
          /\ both[i] = chart[i - n] /\ both[j] = chart[j - n]
      BY <1>2, <1>8, <1>12, <1>13, <2>3
    <3>2. Rising(chart)
      BY DEF IsChart
    <3> QED BY <3>1, <3>2 DEF Rising
  <2> QED BY <1>8, <1>12, <1>13, <2>1, <2>2, <2>3
<1>15. ASSUME NEW i \in 1 .. Len(all), all[i].closed_at >= both[1].closed_at
       PROVE  \E j \in 1 .. Len(both) : both[j].closed_at = all[i].closed_at
  <2>1. CASE all[i].closed_at >= time
    <3>1. PICK j \in 1 .. Len(chart) : chart[j].closed_at = all[i].closed_at
      BY <1>1, <2>1 DEF IsChart
    <3>2. n + j \in 1 .. n + Len(chart) /\ ~(n + j <= n) /\ (n + j) - n = j
      <4>1. n \in Nat /\ Len(chart) \in Nat
        BY <1>2, <1>8, <1>12
      <4> QED BY <4>1, <3>1
    <3>3. n + j \in 1 .. Len(both) /\ both[n + j] = chart[j]
      BY <1>13, <3>2
    <3> QED BY <3>1, <3>3
  <2>2. CASE ~(all[i].closed_at >= time)
    <3>1. all[i].closed_at < time
      BY <1>2, <1>3, <2>2
    <3>2. PICK k \in 1 .. Len(before) : before[k] = all[i]
      BY <1>4, <3>1 DEF IsBefore
    <3>3. before # <<>>
      BY <1>8, <3>2, EmptySeq
    <3>4. older # <<>>
      BY <1>7, <3>3 DEF IsPage
    <3>5. 1 \in 1 .. n
      <4>1. n # 0
        BY <1>7, <1>12, <3>4, EmptySeq
      <4> QED BY <1>8, <1>12, <4>1
    <3>6. both[1] = older[1]
      BY <1>2, <1>8, <1>12, <1>13, <3>5
    <3>7. before[k].closed_at >= older[1].closed_at
      BY <1>15, <3>2, <3>6
    <3>8. PICK j \in 1 .. Len(older) : older[j] = before[k]
      BY <1>7, <3>4, <3>7 DEF IsPage
    <3>9. j \in 1 .. Len(both) /\ both[j] = older[j]
      BY <1>2, <1>8, <1>12, <1>13
    <3> QED BY <3>2, <3>8, <3>9
  <2> QED BY <2>1, <2>2
<1> QED BY <1>14, <1>15 DEF ReadsOn

\* Bars as the chart has them.
ChartBars == [closed_at : Int, of : Seq(Nat \X Nat), is_complete : BOOLEAN]

\* The bars of a buffer, or of history, on the chart.
LEMMA BarsOnChart ==
  ASSUME NEW tf \in Timeframes, NEW bars \in Seq(AnyBars)
  PROVE  LET shown == [i \in 1 .. Len(bars) |-> ChartBar(bars[i], tf, TRUE)]
         IN  /\ shown \in Seq(ChartBars) /\ Len(shown) = Len(bars)
             /\ \A i \in 1 .. Len(bars) : shown[i].closed_at = bars[i].start + Width[tf]
<1> DEFINE n == Len(bars)
           shown == [i \in 1 .. n |-> ChartBar(bars[i], tf, TRUE)]
<1>1. n \in Nat /\ \A i \in 1 .. n : bars[i] \in AnyBars
  BY LenProperties, ElementOfSeq
<1>2. Width[tf] \in Int
  BY WidthAssumption
<1>3. ASSUME NEW i \in 1 .. n
      PROVE  /\ ChartBar(bars[i], tf, TRUE) \in ChartBars
             /\ ChartBar(bars[i], tf, TRUE).closed_at = bars[i].start + Width[tf]
  <2>1. bars[i].start \in Int /\ bars[i].of \in Seq(Nat \X Nat)
    BY <1>1 DEF AnyBars
  <2>2. bars[i].start + Width[tf] \in Int
    BY <1>2, <2>1
  <2> QED BY <2>1, <2>2 DEF ChartBar, ClosedAt, ChartBars
<1>4. /\ shown \in [1 .. n -> ChartBars]
      /\ \A i \in 1 .. n : shown[i].closed_at = bars[i].start + Width[tf]
  BY <1>3
<1> HIDE DEF n, shown
<1>5. shown \in Seq(ChartBars) /\ Len(shown) = n
  <2>1. shown \in Seq(ChartBars)
    BY <1>1, <1>4, SeqDef
  <2> QED BY <1>1, <1>4, <2>1, LenProperties
<1> QED BY <1>4, <1>5 DEF n, shown

\* What the buffers show, and the time at which a bar that is forming closes.
LEMMA LiveBarsOnChart ==
  ASSUME \A t \in Required : buffers[t] \in Seq(AnyBars), NEW tf \in Timeframes
  PROVE  LiveBars(tf) \in Seq(ChartBars)
<1>1. CASE tf \in Required
  BY <1>1, BarsOnChart DEF LiveBars
<1>2. CASE tf \notin Required
  BY <1>2, EmptySeq DEF LiveBars
<1> QED BY <1>1, <1>2

LEMMA FormingBarOnChart ==
  ASSUME \A t \in Required : buffers[t] \in Seq(AnyBars), NEW tf \in Timeframes
  PROVE  Timed(FormingBars(tf))
<1> SUFFICES ASSUME NEW bar \in FormingBars(tf) PROVE bar.closed_at \in Int
  BY DEF Timed
<1> DEFINE from == FormingFrom(tf)
           source == LiveBars(from)
           last == Last(source)
           start == AlignWindowStart(last.closed_at - Width[from], tf)
<1>1. source # <<>> /\ bar.closed_at = start + Width[tf]
  BY DEF FormingBars
<1>2. from \in Timeframes
  BY DEF FormingFrom, Timeframes
<1>3. source \in Seq(ChartBars)
  BY <1>2, LiveBarsOnChart
<1>4. last.closed_at \in Int
  <2> HIDE DEF source
  <2>1. Len(source) \in Nat /\ Len(source) # 0
    BY <1>1, <1>3, LenProperties, EmptySeq
  <2>2. Len(source) \in 1 .. Len(source)
    BY <2>1
  <2>3. last \in ChartBars
    BY <1>3, <2>2, ElementOfSeq DEF Last
  <2> QED BY <2>3 DEF ChartBars
<1> HIDE DEF last, from
<1>5. start \in Int
  <2> DEFINE v == Width[tf]
             x == last.closed_at - Width[from]
  <2>1. v \in Nat /\ v > 0 /\ x \in Int
    BY <1>2, <1>4, WidthAssumption
  <2>2. start = x - (x % v)
    BY DEF AlignWindowStart
  <2> HIDE DEF v, x, start
  <2> QED BY <2>1, <2>2
<1> HIDE DEF start
<1>6. Width[tf] \in Int
  BY WidthAssumption
<1> QED BY <1>1, <1>5, <1>6

-----------------------------------------------------------------------------
(* The order of a backfill                                                 *)

\* Bars one interval after the other, and all of them before a time.
StartsRise(bars) == \A i, j \in 1 .. Len(bars) : i < j => bars[i].start < bars[j].start

StartBelow(bars, time) == \A i \in 1 .. Len(bars) : bars[i].start < time

\* They stay so with one more, or none, of a later interval.
LEMMA MoreBarsRise ==
  ASSUME NEW a \in Seq(HistoryBars), NEW b \in Seq(HistoryBars), StartsRise(a),
         Len(b) = 0 \/ (Len(b) = 1 /\ StartBelow(a, b[1].start))
  PROVE  /\ a \o b \in Seq(HistoryBars) /\ StartsRise(a \o b)
         /\ \A time \in Int : StartBelow(a, time) /\ StartBelow(b, time) => StartBelow(a \o b, time)
<1>1. PICK c : c = a \o b
  OBVIOUS
<1>2. PICK n : n = Len(a)
  OBVIOUS
<1>3. n \in Nat /\ Len(b) \in Nat
  BY <1>2, LenProperties
<1>4. /\ c \in Seq(HistoryBars) /\ Len(c) = n + Len(b)
      /\ \A i \in 1 .. n + Len(b) : c[i] = IF i <= n THEN a[i] ELSE b[i - n]
  BY <1>1, <1>2, ConcatProperties
<1>5. StartsRise(c)
  <2> SUFFICES ASSUME NEW i \in 1 .. Len(c), NEW j \in 1 .. Len(c), i < j
               PROVE  c[i].start < c[j].start
    BY DEF StartsRise
  <2>1. i \in 1 .. n /\ c[i] = a[i]
    BY <1>3, <1>4
  <2>2. CASE j <= n
    BY <1>2, <1>3, <1>4, <2>1, <2>2 DEF StartsRise
  <2>3. CASE j > n
    <3>1. Len(b) = 1 /\ j - n = 1 /\ c[j] = b[j - n]
      BY <1>3, <1>4, <2>3
    <3> QED BY <1>2, <2>1, <3>1 DEF StartBelow
  <2> QED BY <1>3, <1>4, <2>2, <2>3
<1>6. ASSUME NEW time \in Int, StartBelow(a, time), StartBelow(b, time) PROVE StartBelow(c, time)
  <2> SUFFICES ASSUME NEW i \in 1 .. Len(c) PROVE c[i].start < time
    BY DEF StartBelow
  <2>1. CASE i <= n
    BY <1>2, <1>3, <1>4, <1>6, <2>1 DEF StartBelow
  <2>2. CASE i > n
    <3>1. i - n \in 1 .. Len(b) /\ c[i] = b[i - n]
      BY <1>3, <1>4, <2>2
    <3> QED BY <1>6, <3>1 DEF StartBelow
  <2> QED BY <1>3, <1>4, <2>1, <2>2
<1> QED BY <1>1, <1>4, <1>5, <1>6

\* The interval of a time, and that of a later one.
LEMMA AlignedInterval ==
  ASSUME NEW tf \in Timeframes, NEW x \in Nat
  PROVE  /\ AlignWindowStart(x, tf) \in Nat
         /\ AlignWindowStart(x, tf) <= x /\ x < AlignWindowStart(x, tf) + Width[tf]
         /\ \E q \in Nat : AlignWindowStart(x, tf) = Width[tf] * q
<1> DEFINE v == Width[tf]
           r == x % v
<1>1. v \in Nat /\ v > 0
  BY WidthAssumption
<1> HIDE DEF v
<1>2. PICK q \in Nat : x = (v * q) + r /\ r \in 0 .. (v - 1)
  BY <1>1, DivisionHasRest
<1>3. AlignWindowStart(x, tf) = x - r
  BY DEF AlignWindowStart, v
<1> HIDE DEF r
<1>4. x - r = v * q /\ v * q \in Nat
  BY <1>1, <1>2
<1>5. x - r <= x /\ x < (x - r) + v
  BY <1>1, <1>2
<1> QED BY <1>3, <1>4, <1>5 DEF v

LEMMA LaterInterval ==
  ASSUME NEW tf \in Timeframes, NEW x \in Nat, NEW y \in Nat, x <= y
  PROVE  AlignWindowStart(x, tf) <= AlignWindowStart(y, tf)
<1> DEFINE v == Width[tf]
<1>1. v \in Nat /\ v > 0
  BY WidthAssumption
<1>2. PICK a \in Nat : a = AlignWindowStart(x, tf) /\ a <= x /\ \E q \in Nat : a = v * q
  BY AlignedInterval
<1>3. PICK b \in Nat : b = AlignWindowStart(y, tf) /\ y < b + v /\ \E q \in Nat : b = v * q
  BY AlignedInterval
<1> HIDE DEF v
<1>4. PICK p \in Nat, q \in Nat : a = v * p /\ b = v * q
  BY <1>2, <1>3
<1>5. ~(b < a)
  <2> SUFFICES ASSUME b < a PROVE FALSE
    OBVIOUS
  <2>1. (v * q) + v <= v * p
    BY <1>1, <1>4, MultiplesAreApart
  <2> QED BY <1>1, <1>2, <1>3, <1>4, <2>1
<1> QED BY <1>2, <1>3, <1>5

\* An aggregation up to a time: its bars are in order, they and its window start before
\* the interval of any source bar that starts later.
Passed(done, target, time) ==
  /\ StartsRise(done.completed)
  /\ \A x \in Nat : x >= time =>
       /\ StartBelow(done.completed, AlignWindowStart(x, target))
       /\ \A w \in done.window : w.start <= AlignWindowStart(x, target)
  /\ \A w \in done.window : StartBelow(done.completed, w.start)

\* It stays so with a source bar that starts then or later.
LEMMA AggregatePasses ==
  ASSUME NEW done \in Aggregates, NEW id \in HistoryIds, NEW target \in Timeframes,
         NEW time \in Nat, Passed(done, target, time), id[2] >= time + Width["1m"]
  PROVE  Passed(AggregateStep(done, id, target), target, id[2])
<1> DEFINE window == done.window
           J == Joined(window, "1m", target, id)
           R == Replaced(window, "1m", target, id)
           x == id[2] - Width["1m"]
           st == AlignWindowStart(x, target)
           after == WindowAfter(window, "1m", target, id)
           a == SetToSeq(R)
           b == IF Closes("1m", target, id) THEN <<J>> ELSE <<>>
<1>1. /\ window \in SUBSET HistoryBars /\ (window = {} \/ \E w : window = {w})
      /\ done.completed \in Seq(HistoryBars)
  BY DEF Aggregates
<1>2. /\ Width["1m"] \in Nat /\ Width["1m"] > 0 /\ Width[target] \in Nat /\ Width[target] > 0
      /\ id[2] \in Nat /\ x \in Nat /\ x >= time
  <2>1. "1m" \in Timeframes /\ id[2] \in Nat
    BY DEF Timeframes, HistoryIds
  <2> QED BY <2>1, WidthAssumption
<1>3. st = Opened(id, "1m", target)
  BY DEF Opened
<1>4. st \in Nat /\ st <= x /\ x < st + Width[target]
  BY <1>2, AlignedInterval
<1>5. J \in HistoryBars /\ J.start = st
  <2>1. Opened(id, "1m", target) \in Int
    BY <1>3, <1>4
  <2> HIDE DEF J, st
  <2> QED BY <1>1, <1>3, <2>1, JoinedOfHistory DEF J
<1>6. R = {w \in window : w.start # st}
  BY <1>3 DEF Replaced
<1> HIDE DEF J, st
<1>7. /\ StartsRise(done.completed) /\ StartBelow(done.completed, st)
      /\ \A w \in window : StartBelow(done.completed, w.start) /\ w.start <= st
  BY <1>2 DEF Passed, st
<1>8. a \in Seq(HistoryBars) /\ (Len(a) = 0 \/ (Len(a) = 1 /\ a[1] \in R))
  <2>1. R = {} \/ \E w : R = {w}
    BY <1>1, <1>6
  <2>2. R \subseteq HistoryBars
    BY <1>1, <1>6
  <2> HIDE DEF R
  <2>3. a \in Seq(HistoryBars)
    BY <2>1, <2>2, SequenceOfFew, SeqMonotonic
  <2> QED BY <2>1, <2>3, SequenceOfNoneOrOne
<1>9. Len(a) = 1 => a[1] \in window /\ a[1].start < st
  <2> SUFFICES ASSUME Len(a) = 1 PROVE a[1] \in window /\ a[1].start < st
    OBVIOUS
  <2>1. PICK w \in R : a[1] = w
    BY <1>8
  <2>2. w \in window /\ w.start # st /\ w.start <= st
    BY <1>6, <1>7
  <2>3. w.start \in Int
    BY <1>1, <2>2 DEF HistoryBars
  <2> QED BY <1>4, <2>1, <2>2, <2>3
<1> HIDE DEF a, R
<1>10. PICK c : c = done.completed \o a
  OBVIOUS
<1>11. c \in Seq(HistoryBars) /\ StartsRise(c) /\ StartBelow(c, st)
  <2>1. Len(a) = 0 \/ (Len(a) = 1 /\ StartBelow(done.completed, a[1].start))
    BY <1>7, <1>8, <1>9
  <2>2. StartBelow(a, st)
    BY <1>8, <1>9 DEF StartBelow
  <2> QED BY <1>1, <1>4, <1>7, <1>8, <1>10, <2>1, <2>2, MoreBarsRise
<1>12. b \in Seq(HistoryBars) /\ (Len(b) = 0 \/ (Len(b) = 1 /\ b[1] = J))
  <2>1. <<J>> \in Seq(HistoryBars) /\ Len(<<J>>) = 1 /\ <<J>>[1] = J
    BY <1>5
  <2>2. <<>> \in Seq(HistoryBars) /\ Len(<<>>) = 0
    OBVIOUS
  <2> QED BY <2>1, <2>2
<1>13. /\ Closes("1m", target, id) => after = {}
       /\ ~Closes("1m", target, id) => after = {J} /\ b = <<>>
       /\ Closes("1m", target, id) => st + Width[target] <= id[2]
  BY <1>2, <1>3, <1>4 DEF WindowAfter, J, Closes
<1>14. ~Closes("1m", target, id) => Len(b) = 0
  BY <1>13, EmptySeq
<1> HIDE DEF b, after
<1>15. PICK d : d = c \o b
  OBVIOUS
<1>16. d \in Seq(HistoryBars) /\ StartsRise(d)
  BY <1>5, <1>11, <1>12, <1>15, MoreBarsRise
<1>17. PICK next : next = AggregateStep(done, id, target)
  OBVIOUS
<1>18. next.completed = d /\ next.window = after
  <2>1. Completed(window, "1m", target, id) = a \o b
    BY DEF Completed, a, b, R, J
  <2>2. done.completed \o (a \o b) = d
    <3>1. PICK s : s = done.completed
      OBVIOUS
    <3>2. s \in Seq(HistoryBars) /\ a \in Seq(HistoryBars) /\ b \in Seq(HistoryBars)
      BY <1>1, <1>8, <1>12, <3>1
    <3>3. (s \o a) \o b = s \o (a \o b)
      BY <3>2, ConcatAssociative
    <3> QED BY <1>10, <1>15, <3>1, <3>3
  <2>3. next = [window |-> after, completed |-> done.completed \o (a \o b)]
    BY <1>17, <2>1 DEF AggregateStep, after
  <2> QED BY <2>2, <2>3
<1>19. ASSUME NEW y \in Nat, y >= id[2]
       PROVE  /\ StartBelow(d, AlignWindowStart(y, target))
              /\ \A w \in after : w.start <= AlignWindowStart(y, target)
  <2>1. PICK e \in Nat : e = AlignWindowStart(y, target) /\ y < e + Width[target]
    BY AlignedInterval
  <2>2. st <= e
    <3>1. x <= y
      BY <1>2, <1>19
    <3>2. AlignWindowStart(x, target) <= AlignWindowStart(y, target)
      BY <1>2, <3>1, LaterInterval
    <3> QED BY <2>1, <3>2 DEF st
  <2>3. Closes("1m", target, id) => st < e
    BY <1>2, <1>4, <1>13, <1>19, <2>1
  <2>4. StartBelow(c, e)
    <3> SUFFICES ASSUME NEW i \in 1 .. Len(c) PROVE c[i].start < e
      BY DEF StartBelow
    <3>1. c[i].start < st
      BY <1>11 DEF StartBelow
    <3>2. c[i].start \in Int
      BY <1>11, ElementOfSeq DEF HistoryBars
    <3> QED BY <1>4, <2>2, <3>1, <3>2
  <2>5. StartBelow(b, e)
    BY <1>5, <1>12, <1>14, <2>3 DEF StartBelow
  <2>6. StartBelow(d, e)
    BY <1>5, <1>11, <1>12, <1>15, <2>4, <2>5, MoreBarsRise
  <2>7. \A w \in after : w.start <= e
    BY <1>5, <1>13, <2>2
  <2> QED BY <2>1, <2>6, <2>7
<1>20. ASSUME NEW w \in after PROVE StartBelow(d, w.start)
  <2>1. ~Closes("1m", target, id) /\ w = J
    BY <1>13
  <2>2. StartBelow(b, st)
    BY <1>14, <2>1 DEF StartBelow
  <2>3. StartBelow(d, st)
    BY <1>4, <1>5, <1>11, <1>12, <1>15, <2>2, MoreBarsRise
  <2> QED BY <1>5, <2>1, <2>3
<1> QED BY <1>16, <1>17, <1>18, <1>19, <1>20 DEF Passed

\* Source bars each at least a width after the one before.
Spaced(ids, width) ==
  /\ \A i \in 1 .. Len(ids) : ids[i] \in HistoryIds /\ ids[i][2] >= width
  /\ \A i, j \in 1 .. Len(ids) : i < j => ids[i][2] + width <= ids[j][2]

\* What is aggregated from minutes is in order.
LEMMA AggregateRises ==
  ASSUME NEW minutes \in Seq(HistoryIds), Spaced(minutes, Width["1m"]), NEW target \in Timeframes
  PROVE  StartsRise(Aggregated(minutes, target))
<1>1. PICK run : IsAggregation(run, minutes, target)
  BY AggregateUnrolls
<1>2. PICK n : n = Len(minutes)
  OBVIOUS
<1>3. n \in Nat /\ \A i \in 1 .. n : minutes[i] \in HistoryIds
  BY <1>2, LenProperties, ElementOfSeq
<1>4. "1m" \in Timeframes /\ Width["1m"] \in Nat
  BY WidthAssumption DEF Timeframes
<1> DEFINE Time(k) == IF k = 0 THEN 0 ELSE minutes[k][2]
           S == {k \in Nat : k <= n => Passed(run[k], target, Time(k))}
<1>5. \A k \in 0 .. n : Time(k) \in Nat
  BY <1>3 DEF HistoryIds
<1>6. 0 \in S
  <2>1. run[0] = NoAggregate
    BY <1>1 DEF IsAggregation
  <2>2. Passed(NoAggregate, target, 0)
    BY EmptySeq DEF Passed, NoAggregate, StartsRise, StartBelow
  <2> QED BY <2>1, <2>2
<1>7. ASSUME NEW k \in 1 .. n, (k - 1) \in S PROVE k \in S
  <2>1. k - 1 \in 0 .. n /\ k # 0
    BY <1>3
  <2>2. PICK time \in Nat : time = Time(k - 1)
    BY <1>5, <2>1
  <2>3. Passed(run[k - 1], target, time)
    BY <1>3, <1>7, <2>1, <2>2
  <2>4. run[k - 1] \in Aggregates /\ run[k] = AggregateStep(run[k - 1], minutes[k], target)
    BY <1>1, <1>2, <2>1 DEF IsAggregation
  <2>5. minutes[k] \in HistoryIds
    BY <1>3
  <2>6. minutes[k][2] >= time + Width["1m"]
    <3>1. CASE k = 1
      <4>1. time = 0
        BY <2>2, <3>1
      <4>2. minutes[k][2] >= Width["1m"]
        BY <1>2 DEF Spaced
      <4> QED BY <1>4, <4>1, <4>2
    <3>2. CASE k # 1
      <4>1. k - 1 \in 1 .. n /\ k - 1 < k /\ k - 1 # 0
        BY <1>3, <3>2
      <4>2. time = minutes[k - 1][2]
        BY <2>2, <4>1
      <4>3. minutes[k - 1][2] + Width["1m"] <= minutes[k][2]
        BY <1>2, <4>1 DEF Spaced
      <4>4. minutes[k][2] \in Nat
        BY <2>5 DEF HistoryIds
      <4> QED BY <1>4, <4>2, <4>3, <4>4
    <3> QED BY <3>1, <3>2
  <2>7. Passed(run[k], target, minutes[k][2])
    BY <2>3, <2>4, <2>5, <2>6, AggregatePasses
  <2> QED BY <2>1, <2>7
<1>8. n \in S
  <2>1. S \in SUBSET Nat
    OBVIOUS
  <2> HIDE DEF S
  <2>2. \A k \in 0 .. n : k \in S
    BY <1>3, <1>6, <1>7, <2>1, NoFirstException
  <2> QED BY <1>3, <2>2
<1>9. PICK done : done = run[n]
  OBVIOUS
<1>10. /\ done \in Aggregates
       /\ Aggregated(minutes, target) = done.completed \o SetToSeq(done.window)
  <2>1. n \in 0 .. n
    BY <1>3
  <2> QED BY <1>1, <1>2, <1>9, <2>1 DEF IsAggregation
<1>11. Passed(done, target, Time(n))
  BY <1>3, <1>8, <1>9
<1>12. /\ done.completed \in Seq(HistoryBars)
       /\ done.window \subseteq HistoryBars /\ (done.window = {} \/ \E w : done.window = {w})
  BY <1>10 DEF Aggregates
<1>13. PICK b : b = SetToSeq(done.window)
  OBVIOUS
<1>14. b \in Seq(HistoryBars)
  BY <1>12, <1>13, SequenceOfFew, SeqMonotonic
<1>15. Len(b) = 0 \/ (Len(b) = 1 /\ b[1] \in done.window)
  BY <1>12, <1>13, SequenceOfNoneOrOne
<1>16. StartsRise(done.completed) /\ \A w \in done.window : StartBelow(done.completed, w.start)
  BY <1>11 DEF Passed
<1>17. StartsRise(done.completed \o b)
  BY <1>12, <1>14, <1>15, <1>16, MoreBarsRise
<1> QED BY <1>10, <1>13, <1>17

\* What is fetched is spaced, ...
LEMMA FetchedSpaced ==
  ASSUME NEW tf \in Timeframes, NEW from \in Nat, NEW last \in Nat
  PROVE  Spaced(Fetched(tf, from, last), Width[tf])
<1> DEFINE w == Width[tf]
           n == (last - from) \div w
           ids == Fetched(tf, from, last)
<1>1. w \in Nat /\ w > 0
  BY WidthAssumption
<1>2. ids = [i \in 1 .. n |-> <<0, from + i * w>>]
  BY DEF Fetched
<1> HIDE DEF w
<1>3. n \in Int
  BY <1>1
<1>4. ids \in Seq(HistoryIds)
  BY FetchedIds
<1> HIDE DEF ids, n
<1>5. 1 .. Len(ids) = 1 .. n
  <2>1. DOMAIN ids = 1 .. Len(ids)
    BY <1>4, LenProperties
  <2> QED BY <1>2, <2>1
<1>6. \A i \in 1 .. n : ids[i] \in HistoryIds /\ ids[i][2] = from + i * w
  BY <1>2, <1>4, <1>5, ElementOfSeq
<1>7. ASSUME NEW i \in 1 .. n PROVE ids[i][2] >= w
  <2>1. i * w >= w
    BY <1>1
  <2> QED BY <1>1, <1>6, <2>1
<1>8. ASSUME NEW i \in 1 .. n, NEW j \in 1 .. n, i < j PROVE ids[i][2] + w <= ids[j][2]
  <2>1. i + 1 <= j
    BY <1>8
  <2>2. (i + 1) * w <= j * w
    BY <1>1, <2>1
  <2>3. (i + 1) * w = i * w + w
    BY <1>1
  <2>4. i * w \in Int /\ j * w \in Int
    BY <1>1
  <2> QED BY <1>1, <1>6, <2>2, <2>3, <2>4
<1> QED BY <1>5, <1>6, <1>7, <1>8 DEF Spaced, ids, w

\* The end of a sequence is a stretch of it, ...
LEMMA TakeLastIsStretch ==
  ASSUME NEW A, NEW seq \in Seq(A), NEW count \in Int
  PROVE  \E d \in Nat : \A i \in 1 .. Len(TakeLast(seq, count)) :
            i + d \in 1 .. Len(seq) /\ TakeLast(seq, count)[i] = seq[i + d]
<1> DEFINE one == 1
           b == Len(seq) - count + 1
           m == Max({one, b})
           n == Len(seq)
           end == SubSeq(seq, m, n)
<1>1. n \in Nat /\ \A i \in 1 .. n : seq[i] \in A
  BY LenProperties, ElementOfSeq
<1>2. m \in Int /\ m >= 1
  <2>1. one \in Int /\ b \in Int
    BY <1>1
  <2> HIDE DEF one, b
  <2>2. m \in {one, b} /\ m >= one
    BY <2>1, GreaterOfTwo
  <2> QED BY <2>1, <2>2 DEF one
<1>3. TakeLast(seq, count) = end
  BY DEF TakeLast
<1> HIDE DEF m, n
<1>4. \A i \in m .. n : seq[i] \in A
  BY <1>1, <1>2
<1>5. /\ Len(end) = IF m <= n THEN n - m + 1 ELSE 0
      /\ \A i \in 1 .. n - m + 1 : end[i] = seq[m + i - 1]
  BY <1>1, <1>2, <1>4, SubSeqProperties
<1> HIDE DEF end
<1>6. ASSUME NEW i \in 1 .. Len(end)
      PROVE  i + (m - 1) \in 1 .. n /\ end[i] = seq[i + (m - 1)]
  <2>1. i \in 1 .. n - m + 1 /\ m + i - 1 = i + (m - 1)
    BY <1>1, <1>2, <1>5
  <2>2. end[i] = seq[m + i - 1]
    BY <1>5, <2>1
  <2> QED BY <1>1, <1>2, <2>1, <2>2
<1>7. m - 1 \in Nat
  BY <1>2
<1> QED BY <1>3, <1>6, <1>7 DEF n

\* ... so it is in order if the sequence is.
LEMMA TakeLastRises ==
  ASSUME NEW bars \in Seq(HistoryBars), StartsRise(bars), NEW count \in Int
  PROVE  StartsRise(TakeLast(bars, count))
<1>1. PICK end : end = TakeLast(bars, count)
  OBVIOUS
<1>2. PICK d \in Nat : \A i \in 1 .. Len(end) : i + d \in 1 .. Len(bars) /\ end[i] = bars[i + d]
  BY <1>1, TakeLastIsStretch
<1>3. end \in Seq(HistoryBars)
  BY <1>1, TakeLastKeeps
<1>4. Len(end) \in Nat
  BY <1>3, LenProperties
<1>5. ASSUME NEW i \in 1 .. Len(end), NEW j \in 1 .. Len(end), i < j
      PROVE  end[i].start < end[j].start
  <2>1. i + d < j + d
    BY <1>4, <1>5
  <2> QED BY <1>2, <2>1 DEF StartsRise
<1> QED BY <1>1, <1>5 DEF StartsRise

LEMMA TakeLastSpaced ==
  ASSUME NEW ids \in Seq(HistoryIds), NEW width, Spaced(ids, width), NEW count \in Int
  PROVE  Spaced(TakeLast(ids, count), width)
<1>1. PICK end : end = TakeLast(ids, count)
  OBVIOUS
<1>2. PICK d \in Nat : \A i \in 1 .. Len(end) : i + d \in 1 .. Len(ids) /\ end[i] = ids[i + d]
  BY <1>1, TakeLastIsStretch
<1>3. end \in Seq(HistoryIds)
  BY <1>1, TakeLastKeeps
<1>4. Len(end) \in Nat
  BY <1>3, LenProperties
<1>5. \A i \in 1 .. Len(end) : end[i] \in HistoryIds /\ end[i][2] >= width
  BY <1>2 DEF Spaced
<1>6. ASSUME NEW i \in 1 .. Len(end), NEW j \in 1 .. Len(end), i < j
      PROVE  end[i][2] + width <= end[j][2]
  <2>1. i + d < j + d
    BY <1>4, <1>6
  <2> QED BY <1>2, <2>1 DEF Spaced
<1> QED BY <1>1, <1>5, <1>6 DEF Spaced

\* Source bars that are spaced are bars in order.
LEMMA SinglesRise ==
  ASSUME NEW tf \in Timeframes, NEW ids \in Seq(HistoryIds), Spaced(ids, Width[tf])
  PROVE  StartsRise([i \in 1 .. Len(ids) |-> AsBar(ids[i], tf)])
<1> DEFINE n == Len(ids)
           bars == [i \in 1 .. n |-> AsBar(ids[i], tf)]
           w == Width[tf]
<1>1. n \in Nat /\ w \in Nat /\ w > 0
  BY LenProperties, WidthAssumption
<1>2. \A i \in 1 .. n : bars[i].start = ids[i][2] - w /\ ids[i][2] \in Nat
  BY DEF AsBar, Spaced, HistoryIds
<1>3. Len(bars) = n
  BY <1>1
<1>4. \A i, j \in 1 .. n : i < j => ids[i][2] + w <= ids[j][2]
  BY DEF Spaced
<1> HIDE DEF n, w, bars
<1>5. ASSUME NEW i \in 1 .. n, NEW j \in 1 .. n, i < j PROVE bars[i].start < bars[j].start
  <2>1. ids[i][2] + w <= ids[j][2] /\ ids[i][2] \in Nat /\ ids[j][2] \in Nat
    BY <1>2, <1>4, <1>5
  <2>2. bars[i].start = ids[i][2] - w /\ bars[j].start = ids[j][2] - w
    BY <1>2
  <2> QED BY <1>1, <2>1, <2>2
<1> QED BY <1>3, <1>5 DEF StartsRise, bars, n

\* A backfill is in order, in every timeframe.
LEMMA BackfillRises ==
  ASSUME NEW last \in Nat, NEW tf \in Timeframes
  PROVE  StartsRise(Backfill(last)[tf]) /\ StartsRise(NoBars[tf])
<1> DEFINE minutes == TakeLast(Fetched("1m", 0, last), BarTarget("1m"))
           from == Max({0, last - ChartWindow + Width["1m"] - Width["1s"]})
           ones == TakeLast(Fetched("1s", from, last), BarTarget("1s"))
           fives == TakeLast(Aggregated(minutes, "5m"), BarTarget("5m"))
           Singles(ids, t) == [i \in 1 .. Len(ids) |-> AsBar(ids[i], t)]
<1>1. "1s" \in Timeframes /\ "1m" \in Timeframes /\ "5m" \in Timeframes
  BY DEF Timeframes
<1>2. \A t \in Timeframes : BarTarget(t) \in Int
  BY BackfillBounds
<1>3. from \in Nat
  BY BackfillBounds
<1> HIDE DEF from
<1>4. ASSUME NEW t \in Timeframes, NEW f \in Nat
      PROVE  LET ids == TakeLast(Fetched(t, f, last), BarTarget(t))
             IN  ids \in Seq(HistoryIds) /\ Spaced(ids, Width[t])
  <2>1. Fetched(t, f, last) \in Seq(HistoryIds) /\ Spaced(Fetched(t, f, last), Width[t])
    BY FetchedIds, FetchedSpaced
  <2> QED BY <1>2, <2>1, TakeLastKeeps, TakeLastSpaced
<1>5. minutes \in Seq(HistoryIds) /\ Spaced(minutes, Width["1m"])
  BY <1>1, <1>4
<1>6. ones \in Seq(HistoryIds) /\ Spaced(ones, Width["1s"])
  BY <1>1, <1>3, <1>4
<1>7. Backfill(last)[tf] \in {Singles(ones, "1s"), Singles(minutes, "1m"), fives, <<>>}
  BY DEF Backfill, from
<1> HIDE DEF minutes, ones
<1>8. StartsRise(fives)
  <2>1. Aggregated(minutes, "5m") \in Seq(HistoryBars) /\ StartsRise(Aggregated(minutes, "5m"))
    BY <1>1, <1>5, AggregatedBars, AggregateRises
  <2> QED BY <1>1, <1>2, <2>1, TakeLastRises
<1>9. StartsRise(Singles(ones, "1s"))
  BY <1>1, <1>6, SinglesRise
<1>10. StartsRise(Singles(minutes, "1m"))
  BY <1>1, <1>5, SinglesRise
<1>11. StartsRise(<<>>) /\ StartsRise(NoBars[tf])
  BY EmptySeq DEF StartsRise, NoBars
<1> HIDE DEF fives, Singles
<1> QED BY <1>7, <1>8, <1>9, <1>10, <1>11

\* What is kept of it as history is.
HistoryInv ==
  \A tf \in Timeframes : historical[tf] \in Seq(HistoryBars) /\ StartsRise(historical[tf])

LEMMA HistoryHolds == Spec => [](StateInv /\ HistoryInv)
<1>1. ASSUME NEW tf \in Timeframes PROVE NoBars[tf] \in Seq(HistoryBars) /\ StartsRise(NoBars[tf])
  <2>1. 0 \in Nat
    OBVIOUS
  <2> QED BY <2>1, BackfillBars, BackfillRises
<1>2. Init => HistoryInv
  BY <1>1 DEF Init, HistoryInv
<1>3. StateInv /\ HistoryInv /\ [Next]_vars => HistoryInv'
  <2> SUFFICES ASSUME StateInv, HistoryInv, [Next]_vars, NEW tf \in Timeframes
               PROVE  (historical[tf] \in Seq(HistoryBars))' /\ StartsRise(historical[tf])'
    BY DEF HistoryInv
  <2>1. historical[tf] \in Seq(HistoryBars) /\ StartsRise(historical[tf])
    BY DEF HistoryInv
  <2>2. CASE StartWarmup
    <3>1. PICK lag \in {0, Width["1m"]}, fetched \in BOOLEAN :
            historical' = IF historical = NoBars
                          THEN IF fetched /\ historical = NoBars
                                  /\ AlignWindowStart(now, "1m") - lag > 0
                               THEN Backfill(AlignWindowStart(now, "1m") - lag) ELSE NoBars
                          ELSE historical
      BY <2>2 DEF StartWarmup
    <3>2. PICK last : last = AlignWindowStart(now, "1m") - lag
      OBVIOUS
    <3>3. last \in Int
      <4>1. "1m" \in Timeframes /\ now \in Nat
        BY TimesAssumption DEF StateInv, Timeframes
      <4>2. AlignWindowStart(now, "1m") \in Nat /\ Width["1m"] \in Nat
        BY <4>1, AlignedInterval, WidthAssumption
      <4> QED BY <3>2, <4>2
    <3>4. \/ last \in Nat /\ historical' = Backfill(last)
          \/ historical' = NoBars \/ historical' = historical
      BY <3>1, <3>2, <3>3
    <3>5. CASE last \in Nat /\ historical' = Backfill(last)
      BY <3>5, BackfillBars, BackfillRises DEF StartsRise
    <3>6. CASE historical' = NoBars
      BY <1>1, <3>6 DEF StartsRise
    <3>7. CASE historical' = historical
      BY <2>1, <3>7 DEF StartsRise
    <3> QED BY <3>4, <3>5, <3>6, <3>7
  <2>3. CASE historical' = historical
    BY <2>1, <2>3 DEF StartsRise
  <2>4. StartWarmup \/ historical' = historical
    BY DEF Next, RecordBar, vars
  <2> QED BY <2>2, <2>3, <2>4
<1>4. Spec => []StateInv
  BY StateHolds
<1>5. Spec => []HistoryInv
  BY <1>2, <1>3, <1>4, PTL DEF Spec
<1> QED BY <1>4, <1>5, PTL

\* With a backfill, a chart and the page before it read on: in order, without a bar twice,
\* and with every bar of the time they span, whatever gaps and replays the live bars on
\* it have.
THEOREM ChartsReadOn == Spec => []ChartReadsOn
<1> DEFINE Stored == \A t \in Required : buffers[t] \in Seq(AnyBars)
<1>1. HistoryInv /\ Stored => ChartReadsOn
  <2> SUFFICES ASSUME HistoryInv, Stored, NEW tf \in Timeframes, NEW limit \in Limits,
                      historical[tf] # <<>>
               PROVE  LET chart == SnapshotBars(tf, limit)
                          both == PageBefore(AllChartBars(tf), chart[1].closed_at, limit) \o chart
                      IN  /\ \A i, j \in 1 .. Len(both) :
                                i < j => both[i].closed_at < both[j].closed_at
                          /\ \A bar \in ToSet(AllChartBars(tf)) :
                                bar.closed_at >= both[1].closed_at =>
                                  \E i \in 1 .. Len(both) : both[i].closed_at = bar.closed_at
    BY DEF ChartReadsOn
  <2>1. limit \in Nat \ {0}
    BY BoundsAssumption
  <2>2. historical[tf] \in Seq(HistoryBars) /\ StartsRise(historical[tf])
    BY DEF HistoryInv
  <2>3. PICK S : S = ChartBars \cup FormingBars(tf)
    OBVIOUS
  <2>4. Timed(S)
    BY <2>3, FormingBarOnChart DEF Timed, ChartBars
  <2>5. LiveBars(tf) \in Seq(S)
    <3>1. LiveBars(tf) \in Seq(ChartBars) /\ ChartBars \subseteq S
      BY <2>3, LiveBarsOnChart
    <3> QED BY <3>1, SeqMonotonic
  <2>6. HistoricalBars(tf) \in Seq(S) /\ Rising(HistoricalBars(tf)) /\ HistoricalBars(tf) # <<>>
    <3>1. PICK bars : bars = historical[tf]
      OBVIOUS
    <3>2. bars \in Seq(AnyBars) /\ bars # <<>> /\ StartsRise(bars)
      <4>1. HistoryBars \subseteq AnyBars
        BY HistoryIsNotWhole
      <4> QED BY <2>2, <3>1, <4>1, SeqMonotonic
    <3>3. PICK shown : shown = HistoricalBars(tf)
      OBVIOUS
    <3>4. /\ shown \in Seq(ChartBars) /\ Len(shown) = Len(bars)
          /\ \A i \in 1 .. Len(bars) : shown[i].closed_at = bars[i].start + Width[tf]
      BY <3>1, <3>2, <3>3, BarsOnChart DEF HistoricalBars
    <3>5. shown \in Seq(S)
      BY <2>3, <3>4, SeqMonotonic
    <3>6. \A i \in 1 .. Len(bars) : bars[i].start \in Int
      <4>1. \A i \in 1 .. Len(bars) : bars[i] \in AnyBars
        BY <3>2, ElementOfSeq
      <4> QED BY <4>1 DEF AnyBars
    <3>7. Width[tf] \in Int
      BY WidthAssumption
    <3>8. Rising(shown)
      BY <3>2, <3>4, <3>6, <3>7 DEF Rising, StartsRise
    <3>9. shown # <<>>
      BY <3>2, <3>4, EmptySeq
    <3> QED BY <3>3, <3>5, <3>8, <3>9
  <2>7. PICK all : all = AllChartBars(tf)
    OBVIOUS
  <2>8. all \in Seq(S) /\ Rising(all) /\ all # <<>>
    BY <2>4, <2>5, <2>6, <2>7, MergedBars DEF AllChartBars
  <2>9. PICK chart : chart = SnapshotBars(tf, limit)
    OBVIOUS
  <2>10. chart \in Seq(S) /\ IsChart(chart, all)
    <3>1. CASE FormingBars(tf) = {}
      <4>1. chart = Page(all, limit)
        BY <2>7, <2>9, <3>1 DEF SnapshotBars
      <4> QED BY <2>1, <2>4, <2>8, <4>1, LastBars, PageIsChart
    <3>2. CASE FormingBars(tf) # {}
      <4>1. PICK bar \in FormingBars(tf) : bar = CHOOSE b \in FormingBars(tf) : TRUE
        BY <3>2
      <4>2. chart = Page(WithForming(Page(all, limit), bar), limit)
        BY <2>7, <2>9, <3>2, <4>1 DEF SnapshotBars
      <4>3. bar \in S
        BY <2>3, <4>1
      <4> QED BY <2>1, <2>4, <2>8, <4>2, <4>3, FormingIsChart
    <3> QED BY <3>1, <3>2
  <2>11. PICK both : both = PageBefore(all, chart[1].closed_at, limit) \o chart
    OBVIOUS
  <2>12. ReadsOn(both, all)
    BY <2>1, <2>4, <2>8, <2>10, <2>11, PagesReadOn
  <2>13. \A bar \in ToSet(all) : \E i \in 1 .. Len(all) : bar = all[i]
    BY <2>8, LenProperties DEF ToSet
  <2>14. \A bar \in ToSet(all) : bar.closed_at >= both[1].closed_at =>
           \E i \in 1 .. Len(both) : both[i].closed_at = bar.closed_at
    BY <2>12, <2>13 DEF ReadsOn
  <2> QED BY <2>7, <2>9, <2>11, <2>12, <2>14 DEF Rising, ReadsOn
<1>2. (\A tf \in Required : BufferInv(tf)) => Stored
  BY DEF BufferInv, BuffersOf
<1> HIDE DEF Stored
<1> QED BY <1>1, <1>2, BuffersHold, HistoryHolds, PTL
=============================================================================
