--------------------------- MODULE MonitorsProofs ----------------------------
(***************************************************************************)
(* What holds of the programs that only look on, for every value of the    *)
(* constants: the theorems about the specification that the run checks,    *)
(* from the lemmas of AnalyzeProofs about each program's steps.            *)
(***************************************************************************)
EXTENDS MCMonitors, SequenceTheorems, FiniteSetTheorems, TLAPS

WP == INSTANCE AnalyzeProofs
AP == INSTANCE AnalyzeProofs WITH
        Rpcs <- {1}, MaxTotal <- 0, MaxTroubles <- 2, Difficulties <- RowDifficulties

-----------------------------------------------------------------------------
(* The programs, under the names of AnalyzeProofs.                         *)

LEMMA WatcherSame ==
    /\ Init <=> WP!Init
    /\ Next <=> WP!Next
    /\ TypeOK <=> WP!TypeOK
    /\ OpenWindowsAreAnnounced <=> WP!OpenWindowsAreAnnounced
    /\ MintsCountedOnce <=> WP!MintsCountedOnce
BY DEF Levels, WP!Levels, worldVars, WP!worldVars, memoryVars, WP!memoryVars,
       fileVars, WP!fileVars, vars, WP!vars, LevelFor, WP!LevelFor, Init, WP!Init, Trouble,
       WP!Trouble, FailsFor, WP!FailsFor, NobodyAnswers, WP!NobodyAnswers, Goto, WP!Goto, Die,
       WP!Die, Connected, WP!Connected, Start, WP!Start, StartFails, WP!StartFails, OldCsv,
       WP!OldCsv, NewCsv, WP!NewCsv, Header, WP!Header, Restart, WP!Restart, Answers,
       WP!Answers, NewMints, WP!NewMints, Capped, WP!Capped, RememberTotal, WP!RememberTotal,
       Read, WP!Read, Opens, WP!Opens, Log, WP!Log, Row, WP!Row, OpenState, WP!OpenState,
       WriteLevel, WP!WriteLevel, State, WP!State, Polling, WP!Polling, RowUnfinished,
       WP!RowUnfinished, CountError, WP!CountError, FailedMemory, WP!FailedMemory, Fails,
       WP!Fails, Reconnect, WP!Reconnect, ReconnectFails, WP!ReconnectFails, Sleep, WP!Sleep,
       Kill, WP!Kill, Flip, WP!Flip, Mint, WP!Mint, WatcherStep, WP!WatcherStep, Next, WP!Next,
       TypeOK, WP!TypeOK, OpenWindowsAreAnnounced, WP!OpenWindowsAreAnnounced, MintsCountedOnce,
       WP!MintsCountedOnce

LEMMA AnalyzeSame ==
    /\ A!AnalyzeInit <=> AP!AnalyzeInit
    /\ A!AnalyzeNext <=> AP!AnalyzeNext
    /\ A!Analyze <=> AP!Analyze
    /\ A!AnalyzeTypeOK <=> AP!AnalyzeTypeOK
BY DEF A!Cardinality, AP!Cardinality, A!Levels, AP!Levels, A!worldVars, AP!worldVars, A!memoryVars,
       AP!memoryVars, A!fileVars, AP!fileVars, A!vars, AP!vars, A!LevelFor, AP!LevelFor, A!Init,
       AP!Init, A!Trouble, AP!Trouble, A!FailsFor, AP!FailsFor, A!NobodyAnswers,
       AP!NobodyAnswers, A!Goto, AP!Goto, A!Die, AP!Die, A!Connected, AP!Connected, A!Start,
       AP!Start, A!StartFails, AP!StartFails, A!OldCsv, AP!OldCsv, A!NewCsv, AP!NewCsv,
       A!Header, AP!Header, A!Restart, AP!Restart, A!Answers, AP!Answers, A!NewMints,
       AP!NewMints, A!Capped, AP!Capped, A!RememberTotal, AP!RememberTotal, A!Read, AP!Read,
       A!Opens, AP!Opens, A!Log, AP!Log, A!Row, AP!Row, A!OpenState, AP!OpenState, A!WriteLevel,
       AP!WriteLevel, A!State, AP!State, A!Polling, AP!Polling, A!RowUnfinished,
       AP!RowUnfinished, A!CountError, AP!CountError, A!FailedMemory, AP!FailedMemory, A!Fails,
       AP!Fails, A!Reconnect, AP!Reconnect, A!ReconnectFails, AP!ReconnectFails, A!Sleep,
       AP!Sleep, A!Kill, AP!Kill, A!Flip, AP!Flip, A!Mint, AP!Mint, A!WatcherStep,
       AP!WatcherStep, A!Next, AP!Next, A!TypeOK, AP!TypeOK, A!analyzeVars, AP!analyzeVars,
       A!NoReport, AP!NoReport, A!AnalyzeInit, AP!AnalyzeInit, A!RowOf, AP!RowOf, A!AppendRow,
       AP!AppendRow, A!WatcherActs, AP!WatcherActs, A!Readable, AP!Readable, A!CountOf,
       AP!CountOf, A!BestBits, AP!BestBits, A!Verdict, AP!Verdict, A!Analyze, AP!Analyze,
       A!AnalyzeNext, AP!AnalyzeNext, A!AnalyzeTypeOK, AP!AnalyzeTypeOK

-----------------------------------------------------------------------------
(* Facts about places in sequences.                                        *)

LEMMA PlacesAreFinite == \A n \in Nat : IsFiniteSet(1..n) /\ Cardinality(1..n) = n
BY FS_Interval

\* A set of places has a first one.
LEMMA FirstPlace ==
    ASSUME NEW T, T \subseteq Nat, T # {}
    PROVE  \E i \in T : \A j \in T : i <= j
<1>1. PICK i \in T : \A j \in T : ~(<<j, i>> \in OpToRel(<, Nat))
  BY NatLessThanWellFounded, WFMin
<1>2. \A j \in T : ~(j < i)
  BY <1>1 DEF OpToRel
<1> QED BY <1>2

\* Moved by a constant, one set of places is within another.
LEMMA MovedPlaces ==
    ASSUME NEW m \in Nat, NEW n \in Nat, NEW S \in SUBSET (1..m), NEW T \in SUBSET (1..n),
           NEW c \in Int, \A i \in S : i + c \in T
    PROVE  Cardinality(S) <= Cardinality(T)
<1> DEFINE f == [i \in S |-> i + c]
<1>1. IsFiniteSet(T)
  BY PlacesAreFinite, FS_Subset
<1>2. f \in [S -> T] /\ \A i, j \in S : f[i] = f[j] => i = j
  OBVIOUS
<1>3. f \in Injection(S, T)
  BY <1>2 DEF Injection, IsInjective
<1> QED BY <1>1, <1>3, FS_Injection

-----------------------------------------------------------------------------
(* The quantiles of feasibility.py.                                        *)

\* Ranked finds the k-th gap.
LEMMA RankedIs ==
    ASSUME NEW M \in Nat, NEW g \in Seq(0..M), NEW k \in 1..Len(g)
    PROVE  /\ \E i \in DOMAIN g : F!Ranked(g, k) = g[i]
           /\ Cardinality({i \in DOMAIN g : g[i] < F!Ranked(g, k)}) < k
           /\ k <= Cardinality({i \in DOMAIN g : g[i] <= F!Ranked(g, k)})
<1> DEFINE Below(x) == {i \in DOMAIN g : g[i] < x}
           UpTo(x) == {i \in DOMAIN g : g[i] <= x}
           T == {x \in Nat : k <= Cardinality(UpTo(x))}
<1>1. /\ Len(g) \in Nat /\ DOMAIN g = 1..Len(g) /\ k \in Nat /\ k >= 1 /\ k <= Len(g)
      /\ \A i \in DOMAIN g : g[i] \in Nat /\ g[i] <= M
  <2>1. Len(g) \in Nat /\ DOMAIN g = 1..Len(g)
    BY LenProperties
  <2>2. \A i \in DOMAIN g : g[i] \in 0..M
    BY <2>1, ElementOfSeq
  <2> QED BY <2>1, <2>2
<1>2. \A x : /\ Cardinality(UpTo(x)) \in Nat /\ Cardinality(Below(x)) \in Nat
  <2>1. IsFiniteSet(DOMAIN g)
    BY <1>1, PlacesAreFinite
  <2>2. \A x : UpTo(x) \in SUBSET (DOMAIN g) /\ Below(x) \in SUBSET (DOMAIN g)
    OBVIOUS
  <2>3. \A x : IsFiniteSet(UpTo(x)) /\ IsFiniteSet(Below(x))
    <3> HIDE DEF UpTo, Below
    <3> QED BY <2>1, <2>2, FS_Subset
  <2> HIDE DEF UpTo, Below
  <2> QED BY <2>3, FS_CardinalityType
<1>3. M \in T
  <2>1. UpTo(M) = 1..Len(g)
    BY <1>1
  <2>2. Cardinality(UpTo(M)) = Len(g)
    BY <1>1, <2>1, PlacesAreFinite
  <2> HIDE DEF UpTo
  <2> QED BY <1>1, <2>2
<1>4. PICK x \in T : \A y \in T : x <= y
  <2>1. T \subseteq Nat /\ T # {}
    BY <1>3
  <2> HIDE DEF T
  <2> QED BY <2>1, FirstPlace
<1>5. x \in Nat /\ k <= Cardinality(UpTo(x))
  BY <1>4
<1>6. Cardinality(Below(x)) < k
  <2>1. CASE x = 0
    <3>1. Below(x) = {}
      BY <1>1, <2>1
    <3> HIDE DEF Below
    <3> QED BY <1>1, <3>1, FS_EmptySet
  <2>2. CASE x # 0
    <3>1. x - 1 \in Nat /\ ~(x <= x - 1)
      BY <1>5, <2>2
    <3>2. Below(x) = UpTo(x - 1)
      BY <1>1, <1>5, <3>1
    <3>3. x - 1 \notin T
      BY <1>4, <3>1
    <3>4. ~(k <= Cardinality(UpTo(x - 1)))
      BY <3>1, <3>3
    <3> HIDE DEF UpTo, Below
    <3> QED BY <1>1, <1>2, <3>2, <3>4
  <2> QED BY <2>1, <2>2
<1>7. \E i \in DOMAIN g : x = g[i]
  <2> SUFFICES ASSUME \A i \in DOMAIN g : x # g[i] PROVE FALSE
    OBVIOUS
  <2>1. UpTo(x) = Below(x)
    BY <1>1, <1>5
  <2> HIDE DEF UpTo, Below
  <2> QED BY <1>1, <1>2, <1>5, <1>6, <2>1
<1> DEFINE InPlace(y) == Cardinality(Below(y)) < k /\ k <= Cardinality(UpTo(y))
           values == {g[i] : i \in DOMAIN g}
<1>8. F!Ranked(g, k) = CHOOSE y \in values : InPlace(y)
  BY DEF F!Ranked, F!Cardinality, Cardinality
<1>9. x \in values /\ InPlace(x)
  BY <1>5, <1>6, <1>7
<1>10. F!Ranked(g, k) \in values /\ InPlace(F!Ranked(g, k))
  <2> HIDE DEF InPlace, values
  <2> QED BY <1>8, <1>9
<1> QED BY <1>10

\* A later place in order, no smaller a gap.
LEMMA RankedInOrder ==
    ASSUME NEW M \in Nat, NEW g \in Seq(0..M), NEW k \in 1..Len(g), NEW m \in 1..Len(g), k <= m
    PROVE  F!Ranked(g, k) <= F!Ranked(g, m)
<1> DEFINE x == F!Ranked(g, k)
           y == F!Ranked(g, m)
<1>1. /\ Len(g) \in Nat /\ DOMAIN g = 1..Len(g) /\ k \in Nat /\ m \in Nat
      /\ \A i \in DOMAIN g : g[i] \in 0..M
  BY LenProperties, ElementOfSeq
<1>2. /\ x \in Nat /\ y \in Nat
      /\ Cardinality({i \in DOMAIN g : g[i] < x}) < k
      /\ m <= Cardinality({i \in DOMAIN g : g[i] <= y})
  <2>1. /\ \E i \in DOMAIN g : x = g[i]
        /\ Cardinality({i \in DOMAIN g : g[i] < x}) < k
    BY RankedIs
  <2>2. /\ \E i \in DOMAIN g : y = g[i]
        /\ m <= Cardinality({i \in DOMAIN g : g[i] <= y})
    BY RankedIs
  <2>3. \A i \in DOMAIN g : g[i] \in Nat
    BY <1>1
  <2> HIDE DEF x, y
  <2> QED BY <2>1, <2>2, <2>3
<1> HIDE DEF x, y
<1> SUFFICES ASSUME y < x PROVE FALSE
  BY <1>2 DEF x, y
<1> DEFINE UpToY == {i \in DOMAIN g : g[i] <= y}
           BelowX == {i \in DOMAIN g : g[i] < x}
<1>3. UpToY \subseteq BelowX /\ BelowX \subseteq 1..Len(g)
  <2>1. \A i \in DOMAIN g : g[i] \in Nat
    BY <1>1
  <2> QED BY <1>1, <1>2, <2>1
<1>4. Cardinality(BelowX) < k /\ m <= Cardinality(UpToY)
  BY <1>2
<1> HIDE DEF UpToY, BelowX
<1>5. IsFiniteSet(BelowX)
  BY <1>1, <1>3, PlacesAreFinite, FS_Subset
<1>6. IsFiniteSet(UpToY) /\ Cardinality(UpToY) <= Cardinality(BelowX)
  BY <1>3, <1>5, FS_Subset
<1>7. Cardinality(UpToY) \in Nat /\ Cardinality(BelowX) \in Nat
  BY <1>5, <1>6, FS_CardinalityType
<1> QED BY <1>1, <1>4, <1>6, <1>7

\* The places of the quantiles, and that of the greatest gap.
LEMMA QuantilePlaces ==
    ASSUME NEW n \in Nat, n >= 1
    PROVE  /\ F!MiddlePlace(n) \in 1..n /\ F!UpperPlace(n) \in 1..n
           /\ F!MiddlePlace(n) <= F!UpperPlace(n) /\ F!UpperPlace(n) <= n
BY DEF F!MiddlePlace, F!UpperPlace

Ordered(ts) == \A i, j \in DOMAIN ts : i < j => ts[i] <= ts[j]

LEMMA QuantilesOf ==
    ASSUME NEW ts \in Seq(0..(Seconds - 1)), Ordered(ts), Len(ts) >= 2
    PROVE  LET g == F!Gaps(ts) IN
           /\ 0 <= F!P50(g) /\ F!P50(g) <= F!P90(g)
           /\ F!P90(g) <= F!Ranked(g, Len(g)) /\ F!Ranked(g, Len(g)) <= F!Span(ts)
<1> DEFINE g == F!Gaps(ts)
           n == Len(ts) - 1
<1>1. /\ Seconds \in Nat /\ Len(ts) \in Nat /\ DOMAIN ts = 1..Len(ts) /\ n \in Nat /\ n >= 1
      /\ \A i \in 1..Len(ts) : ts[i] \in Nat /\ ts[i] <= Seconds
  <2>1. Seconds \in Nat /\ Len(ts) \in Nat /\ DOMAIN ts = 1..Len(ts)
    BY MonitorsAssumption, LenProperties DEF MonitorsAssumption
  <2>2. \A i \in 1..Len(ts) : ts[i] \in 0..(Seconds - 1)
    BY <2>1, ElementOfSeq
  <2> QED BY <2>1, <2>2
<1>2. \A i \in 1..n : /\ i \in 1..Len(ts) /\ i + 1 \in 1..Len(ts) /\ ts[i] <= ts[i + 1]
                      /\ ts[1] <= ts[i] /\ ts[i + 1] <= ts[Len(ts)]
  <2> SUFFICES ASSUME NEW i \in 1..n
               PROVE  /\ i \in 1..Len(ts) /\ i + 1 \in 1..Len(ts) /\ ts[i] <= ts[i + 1]
                      /\ ts[1] <= ts[i] /\ ts[i + 1] <= ts[Len(ts)]
    OBVIOUS
  <2>1. i \in Nat /\ 1 <= i /\ i + 1 <= Len(ts)
    BY <1>1
  <2>2. /\ i \in 1..Len(ts) /\ i + 1 \in 1..Len(ts) /\ i < i + 1
        /\ 1 \in 1..Len(ts) /\ Len(ts) \in 1..Len(ts)
    BY <1>1, <2>1
  <2>3. ASSUME NEW a \in 1..Len(ts), NEW b \in 1..Len(ts), a <= b
        PROVE  ts[a] <= ts[b]
    <3>1. ts[a] \in Nat /\ a \in DOMAIN ts /\ b \in DOMAIN ts
      BY <1>1
    <3>2. a = b \/ a < b
      BY <1>1, <2>3
    <3> QED BY <3>1, <3>2 DEF Ordered
  <2>4. ts[i] <= ts[i + 1] /\ ts[1] <= ts[i]
    BY <2>1, <2>2, <2>3
  <2>5. ts[i + 1] <= ts[Len(ts)]
    BY <2>1, <2>2, <2>3
  <2> QED BY <2>2, <2>4, <2>5
<1>3. g = [i \in 1..n |-> ts[i + 1] - ts[i]]
  BY DEF F!Gaps
<1>4. \A i \in 1..n : ts[i + 1] - ts[i] \in 0..Seconds /\ ts[i + 1] - ts[i] <= F!Span(ts)
  <2>1. F!Span(ts) = ts[Len(ts)] - ts[1] /\ ts[1] \in Nat /\ ts[Len(ts)] \in Nat
    BY <1>1 DEF F!Span
  <2>2. ASSUME NEW i \in 1..n
        PROVE  ts[i + 1] - ts[i] \in 0..Seconds /\ ts[i + 1] - ts[i] <= F!Span(ts)
    <3>1. ts[i] \in Nat /\ ts[i + 1] \in Nat /\ ts[i + 1] <= Seconds
      BY <1>1, <1>2
    <3>2. ts[i] <= ts[i + 1] /\ ts[1] <= ts[i] /\ ts[i + 1] <= ts[Len(ts)]
      BY <1>2
    <3>3. \A a, b, lo, hi \in Nat : a <= b /\ lo <= a /\ b <= hi /\ b <= Seconds =>
             b - a \in 0..Seconds /\ b - a <= hi - lo
      BY <1>1
    <3>4. ts[i + 1] - ts[i] \in 0..Seconds
      BY <2>1, <3>1, <3>2, <3>3
    <3>5. ts[i + 1] - ts[i] <= ts[Len(ts)] - ts[1]
      BY <2>1, <3>1, <3>2, <3>3
    <3> QED BY <2>1, <3>4, <3>5
  <2> QED BY <2>2
<1>5. /\ g \in Seq(0..Seconds) /\ Len(g) = n /\ DOMAIN g = 1..n
      /\ \A i \in 1..n : g[i] <= F!Span(ts) /\ g[i] >= 0
  <2>1. n \in Nat /\ Seconds \in Nat
    BY <1>1
  <2>2. \A i \in 1..n : ts[i + 1] - ts[i] \in 0..Seconds
    BY <1>4
  <2>3. DOMAIN g = 1..n /\ \A i \in 1..n : g[i] = ts[i + 1] - ts[i]
    BY <1>3
  <2>4. g \in Seq(0..Seconds) /\ Len(g) = n
    <3> HIDE DEF n
    <3> QED BY <1>3, <2>1, <2>2
  <2>5. \A i \in 1..n : g[i] <= F!Span(ts)
    <3> HIDE DEF g, n
    <3> QED BY <1>4, <2>3
  <2>6. \A i \in 1..n : g[i] >= 0
    <3> HIDE DEF g, n
    <3> QED BY <2>2, <2>3
  <2> HIDE DEF g, n
  <2> QED BY <2>3, <2>4, <2>5, <2>6
<1> HIDE DEF g, n
<1>6. /\ F!MiddlePlace(n) \in 1..n /\ F!UpperPlace(n) \in 1..n /\ n \in 1..n
      /\ F!MiddlePlace(n) <= F!UpperPlace(n) /\ F!UpperPlace(n) <= n
  <2>1. n \in Nat /\ n >= 1 /\ n \in 1..n
    BY <1>1
  <2> QED BY <2>1, QuantilePlaces
<1>7. F!P50(g) = F!Ranked(g, F!MiddlePlace(n)) /\ F!P90(g) = F!Ranked(g, F!UpperPlace(n))
  BY <1>5 DEF F!P50, F!P90
<1>8. F!P50(g) <= F!P90(g) /\ F!P90(g) <= F!Ranked(g, Len(g))
  BY <1>1, <1>5, <1>6, <1>7, RankedInOrder
<1>9. /\ \E i \in DOMAIN g : F!Ranked(g, F!MiddlePlace(n)) = g[i]
      /\ \E i \in DOMAIN g : F!Ranked(g, n) = g[i]
  BY <1>1, <1>5, <1>6, RankedIs
<1>10. 0 <= F!P50(g) /\ F!Ranked(g, Len(g)) <= F!Span(ts)
  BY <1>5, <1>7, <1>9
<1> QED BY <1>8, <1>10 DEF g

-----------------------------------------------------------------------------
(* The script of feasibility.py.                                           *)

\* Before the first read there is no moment of a mint.
CountedInv ==
    /\ F!TypeOK /\ F!EachMintOnce
    /\ pc = "first" => times = <<>> /\ lastTotal = start

\* Copies of one number are a sequence of it.
LEMMA CopiesType ==
    ASSUME NEW S, NEW x \in S, NEW k \in Nat
    PROVE  [i \in 1..k |-> x] \in Seq(S) /\ Len([i \in 1..k |-> x]) = k
OBVIOUS

LEMMA CountedInit == ASSUME F!Init PROVE CountedInv
<1>1. times \in Seq(0..(Seconds - 1)) /\ Len(times) = 0
  BY EmptySeq DEF F!Init
<1>2. now \in 0..(Seconds + 1) /\ {total, start, lastTotal} \subseteq 0..MaxMints
  BY MonitorsAssumption DEF MonitorsAssumption, F!Init
<1>3. stats.rate = "none"
  BY DEF F!Init, F!NoStats
<1> QED BY <1>1, <1>2, <1>3 DEF F!Init, CountedInv, F!TypeOK, F!EachMintOnce

\* A read tells a total between zero and the chain's.
LEMMA AnswersType ==
    ASSUME F!TypeOK, NEW n \in F!Answers
    PROVE  n \in 0..MaxMints /\ n \in Nat
<1>1. MaxMints \in Nat /\ Lag \in Nat
  BY MonitorsAssumption DEF MonitorsAssumption
<1>2. total \in 0..MaxMints
  BY DEF F!TypeOK
<1> QED BY <1>1, <1>2 DEF F!Answers

LEMMA CountedStep ==
    ASSUME CountedInv, F!Next
    PROVE  CountedInv'
<1> USE DEF F!Goto
<1>0. /\ now \in Nat /\ now <= Seconds + 1 /\ total \in 0..MaxMints /\ start \in 0..MaxMints
      /\ lastTotal \in 0..MaxMints /\ times \in Seq(0..(Seconds - 1)) /\ Len(times) \in Nat
      /\ F!TypeOK /\ Seconds \in Nat /\ MaxMints \in Nat
  BY MonitorsAssumption, LenProperties DEF MonitorsAssumption, CountedInv, F!TypeOK
<1>1. CASE F!First
  <2>1. PICK n \in F!Answers :
            /\ start' = n /\ lastTotal' = n /\ pc' = "loop"
            /\ UNCHANGED <<now, total, times, regressed, stats>>
    BY <1>1 DEF F!First
  <2>2. n \in 0..MaxMints
    BY <1>0, AnswersType
  <2>3. times = <<>> /\ Len(times) = 0 /\ n - n = 0
    BY <1>1, <2>2 DEF CountedInv, F!First
  <2>4. F!TypeOK'
    BY <1>0, <2>1, <2>2 DEF F!TypeOK
  <2>5. F!EachMintOnce'
    BY <2>1, <2>3 DEF F!EachMintOnce
  <2> QED BY <2>1, <2>4, <2>5 DEF CountedInv
<1>2. CASE F!Sample
  <2> DEFINE more(n) == [i \in 1..F!NewMints(n) |-> now]
  <2>1. PICK n \in F!Answers :
            /\ lastTotal' = n /\ pc' = "sleep" /\ now < Seconds
            /\ UNCHANGED <<now, total, start, stats>>
            /\ n = lastTotal => times' = times
            /\ n # lastTotal => times' = times \o more(n)
            /\ ~regressed' => ~regressed /\ ~(n < lastTotal)
    BY <1>2 DEF F!Sample
  <2>2. n \in Nat /\ lastTotal \in Nat /\ start \in Nat /\ n \in 0..MaxMints
    BY <1>0, AnswersType
  <2>3. /\ F!NewMints(n) \in Nat /\ F!NewMints(n) >= n - lastTotal
        /\ n >= lastTotal => F!NewMints(n) = n - lastTotal
    BY <2>2 DEF F!NewMints
  <2>4. times' \in Seq(0..(Seconds - 1)) /\ Len(times') = Len(times) + F!NewMints(n)
    <3>1. CASE n = lastTotal
      BY <3>1, <1>0, <2>1, <2>2, <2>3
    <3>2. CASE n # lastTotal
      <4>1. now \in 0..(Seconds - 1)
        BY <1>0, <2>1
      <4>2. more(n) \in Seq(0..(Seconds - 1)) /\ Len(more(n)) = F!NewMints(n)
        BY <4>1, <2>3, CopiesType
      <4>3. times' = times \o more(n)
        BY <3>2, <2>1
      <4> HIDE DEF more
      <4>4. /\ times \o more(n) \in Seq(0..(Seconds - 1))
            /\ Len(times \o more(n)) = Len(times) + Len(more(n))
        BY <4>2, <1>0, ConcatProperties
      <4> QED BY <4>2, <4>3, <4>4
    <3> QED BY <3>1, <3>2
  <2>5. F!TypeOK'
    BY <1>0, <2>1, <2>2, <2>4 DEF F!TypeOK
  <2>6. /\ Len(times) >= lastTotal - start
        /\ ~regressed => Len(times) = lastTotal - start
    BY DEF CountedInv, F!EachMintOnce
  <2>7. Len(times) + F!NewMints(n) >= n - start
    BY <1>0, <2>2, <2>3, <2>6
  <2>8. ~regressed' => Len(times) + F!NewMints(n) = n - start
    <3> SUFFICES ASSUME ~regressed' PROVE Len(times) + F!NewMints(n) = n - start
      OBVIOUS
    <3>1. ~regressed /\ ~(n < lastTotal)
      BY <2>1
    <3>2. n >= lastTotal
      BY <2>2, <3>1
    <3>3. Len(times) = lastTotal - start /\ F!NewMints(n) = n - lastTotal
      BY <2>3, <2>6, <3>1, <3>2
    <3> QED BY <2>2, <3>3
  <2>9. F!EachMintOnce'
    BY <2>1, <2>4, <2>7, <2>8 DEF F!EachMintOnce
  <2> QED BY <2>1, <2>5, <2>9 DEF CountedInv
<1>3. CASE F!Report
  <2>1. /\ pc' \in {"quiet", "reported"}
        /\ UNCHANGED <<now, total, start, lastTotal, times, regressed>>
    BY <1>3 DEF F!Report
  <2>2. stats'.rate \in {"none", "zero", "positive"}
    BY <1>3 DEF F!Report, F!NoStats, F!RateOf
  <2>3. F!TypeOK'
    BY <1>0, <2>1, <2>2 DEF F!TypeOK
  <2> QED BY <2>1, <2>3 DEF CountedInv, F!EachMintOnce
<1>4. CASE F!Crash \/ F!Halted
  <2>1. /\ pc' \in {"quiet", "reported", "crashed"}
        /\ UNCHANGED <<now, total, start, lastTotal, times, regressed, stats>>
    BY <1>4 DEF F!Crash, F!Halted, F!vars
  <2>2. F!TypeOK'
    BY <1>0, <2>1 DEF F!TypeOK
  <2> QED BY <2>1, <2>2 DEF CountedInv, F!EachMintOnce
<1>5. CASE F!Mint
  <2>1. total' \in 0..MaxMints /\ UNCHANGED <<now, pc, start, lastTotal, times, regressed, stats>>
    BY <1>0, <1>5 DEF F!Mint
  <2>2. F!TypeOK'
    BY <1>0, <2>1 DEF F!TypeOK
  <2> QED BY <2>1, <2>2 DEF CountedInv, F!EachMintOnce
<1>6. CASE now' \in 0..(Seconds + 1) /\ F!Awake
  <2>1. pc' = "loop" /\ UNCHANGED <<total, start, lastTotal, times, regressed, stats>>
    BY <1>6 DEF F!Awake
  <2>2. F!TypeOK'
    BY <1>0, <1>6, <2>1 DEF F!TypeOK
  <2> QED BY <2>1, <2>2 DEF CountedInv, F!EachMintOnce
<1> QED BY <1>1, <1>2, <1>3, <1>4, <1>5, <1>6 DEF F!Next

\* The moments are in order and have passed, and what was said of them stands.
OrderInv ==
    /\ Ordered(times) /\ \A i \in DOMAIN times : times[i] <= now
    /\ F!QuantilesInOrder

SampleInv == CountedInv /\ OrderInv

LEMMA SampleInit == ASSUME F!Init PROVE SampleInv
<1>1. times = <<>> /\ pc = "first"
  BY DEF F!Init
<1>2. DOMAIN times = {}
  BY <1>1
<1>3. OrderInv
  BY <1>1, <1>2 DEF OrderInv, Ordered, F!QuantilesInOrder
<1> QED BY <1>3, CountedInit DEF SampleInv

\* The moments of a sample are not before those of the samples before it.
LEMMA MomentsInOrder ==
    ASSUME NEW t \in Nat, NEW ts \in Seq(Nat), Ordered(ts), \A i \in DOMAIN ts : ts[i] <= t,
           NEW k \in Nat
    PROVE  LET more == ts \o [i \in 1..k |-> t] IN
           Ordered(more) /\ \A i \in DOMAIN more : more[i] <= t
<1> DEFINE new == [i \in 1..k |-> t]
           more == ts \o new
<1>1. /\ Len(ts) \in Nat /\ DOMAIN ts = 1..Len(ts) /\ \A i \in 1..Len(ts) : ts[i] \in Nat
  BY LenProperties, ElementOfSeq
<1>2. new \in Seq(Nat) /\ Len(new) = k /\ \A i \in 1..k : new[i] = t
  BY CopiesType
<1>3. /\ more \in Seq(Nat) /\ Len(more) = Len(ts) + k
      /\ \A i \in 1..(Len(ts) + k) : more[i] = IF i <= Len(ts) THEN ts[i] ELSE new[i - Len(ts)]
  <2> HIDE DEF new
  <2> QED BY <1>2, ConcatProperties
<1>4. DOMAIN more = 1..(Len(ts) + k)
  <2> HIDE DEF more
  <2> QED BY <1>3, LenProperties
<1> HIDE DEF more, new
<1>5. ASSUME NEW i \in 1..(Len(ts) + k)
      PROVE  /\ i <= Len(ts) => i \in DOMAIN ts /\ more[i] = ts[i] /\ ts[i] \in Nat /\ ts[i] <= t
             /\ i > Len(ts) => more[i] = t
  <2>1. CASE i <= Len(ts)
    <3>1. i \in 1..Len(ts) /\ i \in DOMAIN ts
      BY <1>1, <2>1
    <3>2. more[i] = ts[i]
      BY <1>3, <2>1
    <3>3. ts[i] \in Nat /\ ts[i] <= t
      BY <1>1, <3>1
    <3>4. ~(i > Len(ts))
      BY <1>1, <2>1
    <3> QED BY <3>1, <3>2, <3>3, <3>4
  <2>2. CASE i > Len(ts)
    <3>1. i - Len(ts) \in 1..k
      BY <1>1, <2>2
    <3> QED BY <1>1, <1>2, <1>3, <2>2, <3>1
  <2> QED BY <1>1, <2>1, <2>2
<1>6. \A i \in DOMAIN more : more[i] <= t
  BY <1>1, <1>4, <1>5
<1>7. ASSUME NEW i \in 1..(Len(ts) + k), NEW j \in 1..(Len(ts) + k), i < j
      PROVE  more[i] <= more[j]
  <2>1. CASE j <= Len(ts)
    <3>1. i <= Len(ts)
      BY <1>1, <1>7, <2>1
    <3> QED BY <1>5, <1>7, <2>1, <3>1 DEF Ordered
  <2>2. CASE j > Len(ts)
    <3>1. more[j] = t
      BY <1>5, <2>2
    <3> QED BY <1>4, <1>6, <3>1
  <2> QED BY <1>1, <2>1, <2>2
<1>8. Ordered(more)
  BY <1>4, <1>7 DEF Ordered
<1> QED BY <1>6, <1>8 DEF more, new

LEMMA OrderStep ==
    ASSUME SampleInv, F!Next
    PROVE  OrderInv'
<1> USE DEF F!Goto
<1>0. /\ times \in Seq(0..(Seconds - 1)) /\ times \in Seq(Nat) /\ now \in Nat
      /\ Len(times) \in Nat /\ DOMAIN times = 1..Len(times)
      /\ \A i \in DOMAIN times : times[i] \in Nat /\ times[i] <= now
      /\ Ordered(times) /\ F!QuantilesInOrder
  <2>1. times \in Seq(0..(Seconds - 1)) /\ now \in Nat /\ Seconds \in Nat
    BY MonitorsAssumption DEF MonitorsAssumption, SampleInv, CountedInv, F!TypeOK
  <2>2. /\ Len(times) \in Nat /\ DOMAIN times = 1..Len(times)
        /\ \A i \in DOMAIN times : times[i] \in 0..(Seconds - 1)
    BY <2>1, LenProperties, ElementOfSeq
  <2>3. times \in Seq(Nat) /\ \A i \in DOMAIN times : times[i] \in Nat
    BY <2>1, <2>2
  <2>4. Ordered(times) /\ F!QuantilesInOrder /\ \A i \in DOMAIN times : times[i] <= now
    BY DEF SampleInv, OrderInv
  <2> QED BY <2>1, <2>2, <2>3, <2>4
<1>1. CASE F!First \/ F!Crash
  <2>1. UNCHANGED <<now, times>> /\ pc' # "reported"
    BY <1>1 DEF F!First, F!Crash
  <2> QED BY <1>0, <2>1 DEF OrderInv, Ordered, F!QuantilesInOrder
<1>2. CASE F!Mint \/ F!Halted
  <2>1. UNCHANGED <<now, times, stats, pc>>
    BY <1>2 DEF F!Mint, F!Halted, F!vars
  <2> QED BY <1>0, <2>1 DEF OrderInv, Ordered, F!QuantilesInOrder
<1>3. CASE now' \in 0..(Seconds + 1) /\ F!Awake
  <2>1. times' = times /\ pc' # "reported" /\ now' > now /\ now' \in Nat
    BY <1>3 DEF F!Awake
  <2>2. \A i \in DOMAIN times : times[i] <= now'
    BY <1>0, <2>1
  <2> QED BY <1>0, <2>1, <2>2 DEF OrderInv, Ordered, F!QuantilesInOrder
<1>4. CASE F!Sample
  <2>1. PICK n \in F!Answers :
            /\ pc' = "sleep" /\ now' = now
            /\ n = lastTotal => times' = times
            /\ n # lastTotal => times' = times \o [i \in 1..F!NewMints(n) |-> now]
    BY <1>4 DEF F!Sample
  <2>2. F!NewMints(n) \in Nat
    <3>1. lastTotal \in Nat /\ n \in Nat
      BY AnswersType, MonitorsAssumption
         DEF MonitorsAssumption, SampleInv, CountedInv, F!TypeOK
    <3> QED BY <3>1 DEF F!NewMints
  <2>3. CASE n = lastTotal
    BY <1>0, <2>1, <2>3 DEF OrderInv, Ordered, F!QuantilesInOrder
  <2>4. CASE n # lastTotal
    <3>1. PICK ts, t, k : ts = times /\ t = now /\ k = F!NewMints(n)
      OBVIOUS
    <3> DEFINE more == ts \o [i \in 1..k |-> t]
    <3>2. /\ ts \in Seq(Nat) /\ Ordered(ts) /\ t \in Nat /\ k \in Nat
          /\ \A i \in DOMAIN ts : ts[i] <= t
      BY <1>0, <2>2, <3>1
    <3>3. Ordered(more)
      BY <3>2, MomentsInOrder
    <3>4. \A i \in DOMAIN more : more[i] <= t
      BY <3>2, MomentsInOrder
    <3>5. times' = more /\ now' = t /\ pc' # "reported"
      BY <2>1, <2>4, <3>1
    <3> HIDE DEF more
    <3> QED BY <3>3, <3>4, <3>5 DEF OrderInv, Ordered, F!QuantilesInOrder
  <2> QED BY <2>3, <2>4
<1>5. CASE F!Report
  <2>1. UNCHANGED <<now, times>>
    BY <1>5 DEF F!Report
  <2>2. CASE Len(times) < 2
    <3>1. pc' # "reported"
      BY <1>5, <2>2 DEF F!Report
    <3> QED BY <1>0, <2>1, <3>1 DEF OrderInv, Ordered, F!QuantilesInOrder
  <2>3. CASE ~(Len(times) < 2)
    <3>1. PICK ts : ts = times
      OBVIOUS
    <3> DEFINE g == F!Gaps(ts)
    <3>2. /\ 0 <= F!P50(g) /\ F!P50(g) <= F!P90(g)
          /\ F!P90(g) <= F!Ranked(g, Len(g)) /\ F!Ranked(g, Len(g)) <= F!Span(ts)
      BY <1>0, <2>3, <3>1, QuantilesOf
    <3> HIDE DEF g
    <3>3. /\ stats'.p50 = F!P50(g) /\ stats'.p90 = F!P90(g)
          /\ stats'.max = F!Ranked(g, Len(g)) /\ stats'.span = F!Span(ts)
      BY <1>5, <2>3, <3>1 DEF F!Report, g
    <3> QED BY <1>0, <2>1, <3>2, <3>3 DEF OrderInv, Ordered, F!QuantilesInOrder
  <2> QED BY <2>2, <2>3
<1> QED BY <1>1, <1>2, <1>3, <1>4, <1>5 DEF F!Next

LEMMA SampleStep == ASSUME SampleInv, F!Next PROVE SampleInv'
BY CountedStep, OrderStep DEF SampleInv

-----------------------------------------------------------------------------
(* The statistics in watcher.py's memory: the inductive invariant.         *)

ClockInv ==
    /\ now \in 0..MaxTime /\ burst \in 0..MaxBurst /\ late \in 0..MaxLate
    /\ mints \in Seq(1..MaxTime)
    /\ \A i \in DOMAIN mints : mints[i] <= now
    /\ \A a, c \in DOMAIN mints : a < c => mints[a] <= mints[c]

\* No more than MintsPerPoll mints at one moment.
CrowdInv ==
    \A i \in DOMAIN mints : Len(mints) + 1 - i <= MintsPerPoll * (now + 1 - mints[i])

MemoryInv ==
    /\ lastTotal \in -1..Len(mints) /\ regressed \in BOOLEAN
    /\ polled \in [well : BOOLEAN, first : -1..Len(mints)]
    /\ events \in Seq(1..MaxTime) /\ Len(events) <= EventsLen
    /\ \A j \in DOMAIN events : events[j] <= now
    /\ \A a, c \in DOMAIN events : a < c => events[a] <= events[c]
    /\ lastTotal = -1 => events = <<>> /\ hist = <<>> /\ ~polled.well /\ polled.first = -1
    /\ lastTotal # -1 => polled.first # -1

\* How many mints came into sight since the first poll, and an event for each as
\* long as no total went back.
Seen == lastTotal - polled.first

\* The queue has the latest mints that were seen, each not before it happened and
\* not long after.
Noted(i, j) == mints[i] <= events[j] /\ (~regressed => events[j] <= mints[i] + late)

QueueInv ==
    /\ \A i \in DOMAIN mints, j \in DOMAIN events :
            i = lastTotal - Len(events) + j => Noted(i, j)
    /\ ~regressed => \A i \in DOMAIN mints : i > lastTotal => mints[i] + late > now
    /\ ~regressed => Len(events) <= Seen
    /\ Len(events) = EventsLen \/ Len(events) >= Seen

MintAfter(t) == \E i \in DOMAIN mints : mints[i] > t
QuietAfter(t) == \E u \in 1..now : u > t /\ \A i \in DOMAIN mints : mints[i] # u

Samples == [burst : 0..MaxBurst, at : 1..MaxTime]

\* The samples are in order, and the burst moved between them, and since, for a cause.
Follows(h) ==
    /\ h \in Seq(Samples)
    /\ \A a \in DOMAIN h :
          /\ h[a].at <= now
          /\ burst > h[a].burst => MintAfter(h[a].at)
          /\ burst < h[a].burst => QuietAfter(h[a].at)
    /\ \A a, b \in DOMAIN h : a < b =>
          /\ h[a].at <= h[b].at
          /\ h[b].burst > h[a].burst => MintAfter(h[a].at)
          /\ h[b].burst < h[a].burst => QuietAfter(h[a].at)

BurstInv == Follows(hist) /\ Len(hist) <= HistLen

SaidInv ==
    /\ polled.well => rate = P!RateOf(events, now)
    /\ rate \in [mints : 0..EventsLen, span : 0..Window]
    /\ trend = P!TrendOf(hist)

StatsInv == ClockInv /\ CrowdInv /\ MemoryInv /\ QueueInv /\ BurstInv /\ SaidInv

-----------------------------------------------------------------------------
(* Facts about the operators of PollStats.                                 *)

\* A larger summand, a larger sum.
LEMMA SumGrows ==
    ASSUME NEW a \in Nat, NEW b \in Nat, NEW c \in Nat, b <= c
    PROVE  a + b <= a + c
  OBVIOUS

\* A queue of n keeps the last n of what it had and of what is appended.
LEMMA PushKeepsTheLast ==
    ASSUME NEW S, NEW seq \in Seq(S), NEW n \in Nat, NEW x \in S, NEW k \in Nat
    PROVE  LET r == P!Push(seq, n, x, k) IN
           /\ r \in Seq(S) /\ Len(r) \in Nat
           /\ Len(r) = IF Len(seq) + k <= n THEN Len(seq) + k ELSE n
           /\ \A j \in 1..Len(r) :
                 LET q == Len(seq) + k - Len(r) + j
                 IN  q \in 1..(Len(seq) + k) /\ r[j] = IF q <= Len(seq) THEN seq[q] ELSE x
<1> DEFINE longer == seq \o P!Copies(x, k)
<1>1. /\ P!Copies(x, k) \in Seq(S) /\ Len(P!Copies(x, k)) = k
      /\ \A i \in 1..k : P!Copies(x, k)[i] = x
  BY DEF P!Copies
<1>2. Len(seq) \in Nat
  BY LenProperties
<1>3. /\ longer \in Seq(S) /\ Len(longer) = Len(seq) + k
      /\ \A i \in 1..(Len(seq) + k) : longer[i] = IF i <= Len(seq) THEN seq[i] ELSE x
  <2>1. /\ longer \in Seq(S) /\ Len(longer) = Len(seq) + k
        /\ \A i \in 1..(Len(seq) + k) :
              longer[i] = IF i <= Len(seq) THEN seq[i] ELSE P!Copies(x, k)[i - Len(seq)]
    BY <1>1, ConcatProperties
  <2>2. \A i \in 1..(Len(seq) + k) : i > Len(seq) => P!Copies(x, k)[i - Len(seq)] = x
    BY <1>1, <1>2
  <2> QED BY <1>2, <2>1, <2>2
<1>4. CASE Len(seq) + k <= n
  BY <1>2, <1>3, <1>4 DEF P!Push
<1>5. CASE Len(seq) + k > n
  <2> DEFINE m == Len(seq) + k - n + 1
             r == SubSeq(longer, m, Len(seq) + k)
  <2>1. P!Push(seq, n, x, k) = r
    BY <1>2, <1>3, <1>5 DEF P!Push
  <2>2. /\ m \in Int /\ m >= 1 /\ Len(seq) + k \in Int
        /\ \A i \in m..(Len(seq) + k) : longer[i] \in S
    <3> HIDE DEF longer
    <3> QED BY <1>2, <1>3, <1>5
  <2>3. /\ r \in Seq(S)
        /\ Len(r) = IF m <= Len(seq) + k THEN Len(seq) + k - m + 1 ELSE 0
        /\ \A i \in 1..(Len(seq) + k - m + 1) : r[i] = longer[m + i - 1]
    <3> HIDE DEF longer, m
    <3> QED BY <2>2, SubSeqProperties
  <2>4. Len(r) = n
    BY <1>2, <2>3
  <2>5. \A j \in 1..n : /\ r[j] = longer[Len(seq) + k - n + j]
                        /\ Len(seq) + k - n + j \in 1..(Len(seq) + k)
    <3>1. Len(seq) + k - m + 1 = n /\ \A j \in 1..n : m + j - 1 = Len(seq) + k - n + j
      BY <1>2
    <3>2. \A j \in 1..n : r[j] = longer[m + j - 1]
      <4> HIDE DEF longer, m, r
      <4> QED BY <2>3, <3>1
    <3> HIDE DEF longer, m, r
    <3> QED BY <1>2, <1>5, <3>1, <3>2
  <2>6. /\ Len(r) = IF Len(seq) + k <= n THEN Len(seq) + k ELSE n
        /\ r \in Seq(S) /\ Len(r) \in Nat
    <3> HIDE DEF longer, r, m
    <3>1. r \in Seq(S) /\ Len(r) \in Nat
      BY <2>3, <2>4
    <3>2. ~(Len(seq) + k <= n)
      BY <1>2, <1>5
    <3> QED BY <2>4, <3>1, <3>2
  <2>7. ASSUME NEW j \in 1..Len(r)
        PROVE  LET q == Len(seq) + k - Len(r) + j
               IN  q \in 1..(Len(seq) + k) /\ r[j] = IF q <= Len(seq) THEN seq[q] ELSE x
    <3>1. PICK q : q = Len(seq) + k - Len(r) + j
      OBVIOUS
    <3>2. q \in 1..(Len(seq) + k) /\ r[j] = longer[q]
      <4> HIDE DEF longer, r, m
      <4> QED BY <2>4, <2>5, <3>1
    <3> HIDE DEF longer, r, m
    <3> QED BY <1>3, <3>1, <3>2
  <2> HIDE DEF longer, r, m
  <2> QED BY <2>1, <2>6, <2>7
<1> QED BY <1>2, <1>4, <1>5

\* r is the end, of n at most, of seq and of k copies of x.
Pushed(r, S, seq, n, x, k) ==
    /\ r \in Seq(S) /\ Len(r) \in Nat
    /\ Len(r) = IF Len(seq) + k <= n THEN Len(seq) + k ELSE n
    /\ \A j \in 1..Len(r) :
          LET q == Len(seq) + k - Len(r) + j
          IN  q \in 1..(Len(seq) + k) /\ r[j] = IF q <= Len(seq) THEN seq[q] ELSE x

LEMMA PushIsPushed ==
    ASSUME NEW S, NEW seq \in Seq(S), NEW n \in Nat, NEW x \in S, NEW k \in Nat
    PROVE  Pushed(P!Push(seq, n, x, k), S, seq, n, x, k)
  BY PushKeepsTheLast DEF Pushed

\* One more in the queue.
EndOf(r, S, seq, n, x) ==
    /\ r \in Seq(S) /\ Len(r) \in Nat
    /\ Len(r) <= n /\ Len(r) <= Len(seq) + 1
    /\ \A j \in 1..Len(r) :
          r[j] = IF Len(seq) + 1 - Len(r) + j <= Len(seq)
                   THEN seq[Len(seq) + 1 - Len(r) + j] ELSE x

LEMMA PushOne ==
    ASSUME NEW S, NEW seq \in Seq(S), NEW n \in Nat, NEW x \in S
    PROVE  EndOf(P!Push(seq, n, x, 1), S, seq, n, x)
<1> DEFINE r == P!Push(seq, n, x, 1)
<1>1. 1 \in Nat /\ Len(seq) \in Nat
  BY LenProperties
<1>2. /\ r \in Seq(S) /\ Len(r) \in Nat
      /\ Len(r) = IF Len(seq) + 1 <= n THEN Len(seq) + 1 ELSE n
  BY <1>1, PushKeepsTheLast
<1>3. \A j \in 1..Len(r) :
         r[j] = IF Len(seq) + 1 - Len(r) + j <= Len(seq)
                  THEN seq[Len(seq) + 1 - Len(r) + j] ELSE x
  BY <1>1, PushKeepsTheLast
<1> HIDE DEF r
<1>4. Len(r) <= n /\ Len(r) <= Len(seq) + 1
  BY <1>1, <1>2
<1>5. EndOf(r, S, seq, n, x)
  BY <1>2, <1>3, <1>4 DEF EndOf
<1> QED BY <1>5 DEF r

\* What RateOf says of a queue whose moments have all passed.
LEMMA RateType ==
    ASSUME NEW evts \in Seq(1..MaxTime), Len(evts) <= EventsLen, NEW t \in Nat,
           \A j \in DOMAIN evts : evts[j] <= t
    PROVE  P!RateOf(evts, t) \in [mints : 0..EventsLen, span : 0..Window]
<1> DEFINE recent == P!Recent(evts, t)
<1>1. /\ Window \in Nat /\ EventsLen \in Nat /\ MaxTime \in Nat
      /\ Len(evts) \in Nat /\ DOMAIN evts = 1..Len(evts)
  BY MonitorsAssumption, LenProperties DEF MonitorsAssumption
<1>2. recent \subseteq 1..Len(evts) /\ \A i \in recent : t - evts[i] \in 0..Window
  BY <1>1 DEF P!Recent
<1>3. Cardinality(recent) \in 0..EventsLen /\ P!Cardinality(recent) = Cardinality(recent)
  <2>1. IsFiniteSet(1..Len(evts)) /\ Cardinality(1..Len(evts)) = Len(evts)
    BY <1>1, PlacesAreFinite
  <2>2. IsFiniteSet(recent) /\ Cardinality(recent) <= Len(evts)
    BY <1>2, <2>1, FS_Subset
  <2>3. Cardinality(recent) \in Nat
    BY <2>2, FS_CardinalityType
  <2>4. P!Cardinality(recent) = Cardinality(recent)
    BY DEF P!Cardinality, Cardinality
  <2> QED BY <1>1, <2>2, <2>3, <2>4
<1>4. ASSUME Cardinality(recent) >= 2
      PROVE  t - evts[CHOOSE i \in recent : \A j \in recent : i <= j] \in 0..Window
  <2>1. recent # {}
    <3>1. IsFiniteSet(1..Len(evts)) /\ Cardinality(recent) # 0
      BY <1>1, <1>4, PlacesAreFinite
    <3> HIDE DEF recent
    <3>2. IsFiniteSet(recent)
      BY <1>2, <3>1, FS_Subset
    <3> QED BY <3>1, <3>2, FS_EmptySet, Zenon
  <2>2. recent \subseteq Nat
    BY <1>1, <1>2
  <2>3. \E i \in recent : \A j \in recent : i <= j
    BY <2>1, <2>2, FirstPlace
  <2> HIDE DEF recent
  <2> QED BY <1>2, <2>3
<1>5. P!RateOf(evts, t) =
        [mints |-> P!Cardinality(recent),
         span  |-> IF P!Cardinality(recent) >= 2
                     THEN t - evts[CHOOSE i \in recent : \A j \in recent : i <= j] ELSE 0]
  BY DEF P!RateOf
<1> HIDE DEF recent
<1> QED BY <1>1, <1>3, <1>4, <1>5

-----------------------------------------------------------------------------
(* Time passes.                                                            *)

LEMMA StatsNumbers ==
    /\ MaxBurst \in Nat /\ MintsPerPoll \in Nat /\ Window \in Nat /\ HistLen \in Nat
    /\ EventsLen \in Nat /\ MaxLate \in Nat /\ MaxTime \in Nat
BY MonitorsAssumption DEF MonitorsAssumption

\* The mints so far stay, those of the moment are appended.
LEMMA PassMints ==
    ASSUME ClockInv, NEW k \in 0..MintsPerPoll, NEW b \in 0..MaxBurst, P!Pass(k, b)
    PROVE  /\ now \in Nat /\ now' = now + 1 /\ now' \in 1..MaxTime /\ burst' = b
           /\ k \in Nat /\ mints' \in Seq(1..MaxTime)
           /\ Len(mints) \in Nat /\ Len(mints') = Len(mints) + k
           /\ DOMAIN mints = 1..Len(mints) /\ DOMAIN mints' = 1..(Len(mints) + k)
           /\ \A i \in 1..Len(mints) : mints'[i] = mints[i] /\ mints[i] \in Nat /\ mints[i] <= now
           /\ \A i \in 1..(Len(mints) + k) : i > Len(mints) => mints'[i] = now'
<1>1. /\ now \in Nat /\ now' = now + 1 /\ now' \in 1..MaxTime /\ burst' = b /\ k \in Nat
      /\ mints \in Seq(1..MaxTime) /\ mints' = mints \o P!Copies(now + 1, k)
  BY StatsNumbers DEF ClockInv, P!Pass
<1>2. /\ P!Copies(now + 1, k) \in Seq(1..MaxTime) /\ Len(P!Copies(now + 1, k)) = k
      /\ \A i \in 1..k : P!Copies(now + 1, k)[i] = now + 1
  BY <1>1 DEF P!Copies
<1>3. Len(mints) \in Nat /\ DOMAIN mints = 1..Len(mints)
  BY <1>1, LenProperties
<1>4. /\ mints' \in Seq(1..MaxTime) /\ Len(mints') = Len(mints) + k
      /\ \A i \in 1..(Len(mints) + k) :
            mints'[i] = IF i <= Len(mints) THEN mints[i] ELSE P!Copies(now + 1, k)[i - Len(mints)]
  <2> DEFINE more == P!Copies(now + 1, k)
  <2>1. mints' = mints \o more /\ more \in Seq(1..MaxTime) /\ Len(more) = k
    BY <1>1, <1>2
  <2>2. mints \in Seq(1..MaxTime)
    BY <1>1
  <2> HIDE DEF more
  <2>3. /\ mints \o more \in Seq(1..MaxTime) /\ Len(mints \o more) = Len(mints) + k
        /\ \A i \in 1..(Len(mints) + k) :
              (mints \o more)[i] = IF i <= Len(mints) THEN mints[i] ELSE more[i - Len(mints)]
    BY <2>1, <2>2, ConcatProperties
  <2>4. /\ mints' \in Seq(1..MaxTime) /\ Len(mints') = Len(mints) + k
        /\ \A i \in 1..(Len(mints) + k) :
              mints'[i] = IF i <= Len(mints) THEN mints[i] ELSE more[i - Len(mints)]
    BY <2>1, <2>3
  <2> QED BY <2>4 DEF more
<1>5. DOMAIN mints' = 1..(Len(mints) + k)
  BY <1>4, LenProperties
<1>6. \A i \in 1..Len(mints) : mints[i] \in 1..MaxTime /\ mints[i] <= now
  BY <1>1, <1>3, ElementOfSeq DEF ClockInv
<1>7. \A i \in 1..(Len(mints) + k) : i > Len(mints) => mints'[i] = now'
  BY <1>1, <1>2, <1>3, <1>4
<1>8. \A i \in 1..Len(mints) : mints'[i] = mints[i] /\ mints[i] \in Nat /\ mints[i] <= now
  BY <1>1, <1>3, <1>4, <1>6, StatsNumbers
<1> QED BY <1>1, <1>3, <1>4, <1>5, <1>7, <1>8

LEMMA PassKeepsClock ==
    ASSUME ClockInv, NEW k \in 0..MintsPerPoll, NEW b \in 0..MaxBurst, P!Pass(k, b),
           late' \in 0..MaxLate
    PROVE  ClockInv'
<1>0. /\ now \in Nat /\ now' = now + 1 /\ now' \in 1..MaxTime /\ burst' = b /\ k \in Nat
      /\ mints' \in Seq(1..MaxTime) /\ Len(mints) \in Nat /\ DOMAIN mints' = 1..(Len(mints) + k)
      /\ \A i \in 1..Len(mints) : mints'[i] = mints[i] /\ mints[i] \in Nat /\ mints[i] <= now
      /\ \A i \in 1..(Len(mints) + k) : i > Len(mints) => mints'[i] = now'
  BY PassMints
<1>1. ASSUME NEW i \in DOMAIN mints'
      PROVE  mints'[i] <= now'
  <2>1. i \in 1..(Len(mints) + k)
    BY <1>0
  <2>2. CASE i <= Len(mints)
    <3>1. i \in 1..Len(mints)
      BY <1>0, <2>1, <2>2
    <3>2. mints'[i] = mints[i] /\ mints[i] \in Nat /\ mints[i] <= now
      BY <1>0, <3>1
    <3> QED BY <1>0, <3>2
  <2>3. CASE i > Len(mints)
    BY <1>0, <2>1, <2>3
  <2> QED BY <1>0, <2>1, <2>2, <2>3
<1>2. now' \in 0..MaxTime /\ burst' \in 0..MaxBurst /\ mints' \in Seq(1..MaxTime)
  BY <1>0, StatsNumbers
<1>3. ASSUME NEW a \in DOMAIN mints', NEW c \in DOMAIN mints', a < c
      PROVE  mints'[a] <= mints'[c]
  <2>1. a \in 1..(Len(mints) + k) /\ c \in 1..(Len(mints) + k)
    BY <1>0
  <2>2. CASE c <= Len(mints)
    <3>1. a \in 1..Len(mints) /\ c \in 1..Len(mints) /\ DOMAIN mints = 1..Len(mints)
      BY <1>0, <1>3, <2>1, <2>2, PassMints
    <3>2. mints[a] <= mints[c]
      BY <1>3, <3>1 DEF ClockInv
    <3> QED BY <1>0, <3>1, <3>2
  <2>3. CASE c > Len(mints)
    <3>1. mints'[c] = now'
      BY <1>0, <2>1, <2>3
    <3> QED BY <1>1, <3>1
  <2> QED BY <1>0, <2>1, <2>2, <2>3
<1> QED BY <1>1, <1>2, <1>3 DEF ClockInv

LEMMA PassKeepsCrowd ==
    ASSUME ClockInv, CrowdInv, NEW k \in 0..MintsPerPoll, NEW b \in 0..MaxBurst, P!Pass(k, b)
    PROVE  CrowdInv'
<1> SUFFICES ASSUME NEW i \in DOMAIN mints'
             PROVE  Len(mints') + 1 - i <= MintsPerPoll * (now' + 1 - mints'[i])
  BY DEF CrowdInv
<1>1. /\ now \in Nat /\ now' = now + 1 /\ k \in Nat /\ k <= MintsPerPoll /\ MintsPerPoll \in Nat
      /\ Len(mints) \in Nat /\ Len(mints') = Len(mints) + k /\ i \in 1..(Len(mints) + k)
  BY PassMints, StatsNumbers
<1>2. CASE i <= Len(mints)
  <2>1. i \in 1..Len(mints)
    BY <1>1, <1>2
  <2>2. mints'[i] = mints[i] /\ mints[i] \in Nat /\ i \in DOMAIN mints
    BY <2>1, PassMints
  <2>3. Len(mints) + 1 - i <= MintsPerPoll * (now + 1 - mints[i])
    BY <2>2 DEF CrowdInv
  <2>4. \A x \in Int : MintsPerPoll * (x + 1) = MintsPerPoll * x + MintsPerPoll
    BY <1>1
  <2>5. now + 1 - mints[i] \in Int /\ now' + 1 - mints'[i] = (now + 1 - mints[i]) + 1
    BY <1>1, <2>2
  <2>6. MintsPerPoll * (now' + 1 - mints'[i]) = MintsPerPoll * (now + 1 - mints[i]) + MintsPerPoll
    BY <2>4, <2>5
  <2>7. PICK u \in Int : u = MintsPerPoll * (now + 1 - mints[i])
    BY <1>1, <2>5
  <2>8. Len(mints) + 1 - i <= u /\ MintsPerPoll * (now' + 1 - mints'[i]) = u + MintsPerPoll
    BY <2>3, <2>6, <2>7
  <2>9. Len(mints') + 1 - i <= u + MintsPerPoll
    BY <1>1, <2>8
  <2> QED BY <2>8, <2>9
<1>3. CASE i > Len(mints)
  <2>1. mints'[i] = now'
    BY <1>1, <1>3, PassMints
  <2>2. MintsPerPoll * (now' + 1 - mints'[i]) = MintsPerPoll
    BY <1>1, <2>1
  <2> QED BY <1>1, <1>3, <2>2
<1> QED BY <1>1, <1>2, <1>3

-----------------------------------------------------------------------------
(* The queue of the mints.                                                 *)

\* The numbers of the memory and the queue.
LEMMA MemoryNumbers ==
    ASSUME ClockInv, MemoryInv
    PROVE  /\ lastTotal \in Int /\ lastTotal >= -1 /\ lastTotal <= Len(mints)
           /\ polled.first \in Int /\ polled.first >= -1 /\ polled.first <= Len(mints)
           /\ late \in Nat /\ Len(events) \in Nat /\ Len(events) <= EventsLen
           /\ events \in Seq(1..MaxTime) /\ DOMAIN events = 1..Len(events)
           /\ \A j \in 1..Len(events) : events[j] \in Nat /\ events[j] <= now
           /\ lastTotal = -1 => Len(events) = 0 /\ polled.first = -1
           /\ lastTotal # -1 => polled.first # -1
<1>1. events \in Seq(1..MaxTime) /\ Len(events) <= EventsLen /\ late \in Nat
  BY StatsNumbers DEF MemoryInv, ClockInv
<1>2. /\ Len(events) \in Nat /\ DOMAIN events = 1..Len(events)
      /\ \A j \in 1..Len(events) : events[j] \in 1..MaxTime
  BY <1>1, LenProperties, ElementOfSeq
<1>3. \A j \in 1..Len(events) : events[j] \in Nat /\ events[j] <= now
  <2>1. \A j \in DOMAIN events : events[j] <= now
    BY DEF MemoryInv
  <2>2. \A j \in 1..Len(events) : events[j] \in Nat
    BY <1>2, StatsNumbers
  <2> QED BY <1>2, <2>1, <2>2
<1>4. Len(mints) \in Nat
  BY LenProperties DEF ClockInv
<1>5. lastTotal \in -1..Len(mints) /\ polled.first \in -1..Len(mints)
  BY DEF MemoryInv
<1>6. lastTotal = -1 => Len(events) = 0
  BY EmptySeq DEF MemoryInv
<1>7. /\ lastTotal = -1 => polled.first = -1
      /\ lastTotal # -1 => polled.first # -1
  BY DEF MemoryInv
<1> QED BY <1>1, <1>2, <1>3, <1>4, <1>5, <1>6, <1>7

\* What a late poll did not see is not older than the polls that were late.
LEMMA LatePasses ==
    ASSUME ClockInv, NEW k \in 0..MintsPerPoll, NEW b \in 0..MaxBurst, P!Pass(k, b),
           late \in Nat, late' = late + 1, NEW m \in Int,
           \A i \in DOMAIN mints : i > m => mints[i] + late > now
    PROVE  \A i \in DOMAIN mints' : i > m => mints'[i] + late' > now'
<1>1. /\ now \in Nat /\ now' = now + 1 /\ k \in Nat
      /\ Len(mints) \in Nat /\ Len(mints') = Len(mints) + k
      /\ DOMAIN mints = 1..Len(mints) /\ DOMAIN mints' = 1..(Len(mints) + k)
      /\ \A i \in 1..Len(mints) : mints'[i] = mints[i] /\ mints[i] \in Nat /\ mints[i] <= now
      /\ \A i \in 1..(Len(mints) + k) : i > Len(mints) => mints'[i] = now'
  BY PassMints
<1> SUFFICES ASSUME NEW i \in DOMAIN mints', i > m
             PROVE  mints'[i] + late' > now'
  OBVIOUS
<1>2. i \in 1..(Len(mints) + k)
  BY <1>1
<1>3. CASE i <= Len(mints)
  <2>1. i \in 1..Len(mints) /\ i \in DOMAIN mints
    BY <1>1, <1>2, <1>3
  <2>2. mints'[i] = mints[i] /\ mints[i] \in Nat /\ mints[i] + late > now
    BY <1>1, <2>1
  <2> QED BY <1>1, <2>2
<1>4. CASE i > Len(mints)
  <2>1. mints'[i] = now'
    BY <1>1, <1>2, <1>4
  <2> QED BY <1>1, <2>1
<1> QED BY <1>1, <1>2, <1>3, <1>4

\* A poll that fails changes nothing but the time.
LEMMA MissKeepsQueue ==
    ASSUME ClockInv, MemoryInv, QueueInv, P!Miss
    PROVE  MemoryInv' /\ QueueInv'
<1>1. PICK k \in 0..MintsPerPoll, b \in 0..MaxBurst : P!Pass(k, b)
  BY DEF P!Miss
<1>0. /\ now \in Nat /\ now' = now + 1 /\ k \in Nat
      /\ Len(mints) \in Nat /\ Len(mints') = Len(mints) + k
      /\ DOMAIN mints = 1..Len(mints) /\ DOMAIN mints' = 1..(Len(mints) + k)
      /\ \A i \in 1..Len(mints) : mints'[i] = mints[i] /\ mints[i] \in Nat /\ mints[i] <= now
  BY <1>1, PassMints
<1>2. /\ late' = late + 1 /\ lastTotal' = lastTotal /\ events' = events /\ hist' = hist
      /\ regressed' = regressed /\ polled' = [polled EXCEPT !.well = FALSE]
  BY DEF P!Miss
<1>3. /\ lastTotal \in Int /\ lastTotal >= -1 /\ lastTotal <= Len(mints) /\ late \in Nat
      /\ Len(events) \in Nat /\ DOMAIN events = 1..Len(events)
      /\ \A j \in 1..Len(events) : events[j] \in Nat /\ events[j] <= now
  BY MemoryNumbers
<1>4. /\ polled' \in [well : BOOLEAN, first : -1..Len(mints')]
      /\ polled'.well = FALSE /\ polled'.first = polled.first
  <2>1. polled \in [well : BOOLEAN, first : -1..Len(mints')]
    BY <1>0 DEF MemoryInv
  <2> QED BY <1>2, <2>1
<1>5. MemoryInv'
  <2>1. lastTotal' \in -1..Len(mints') /\ regressed' \in BOOLEAN
    BY <1>0, <1>2, <1>3 DEF MemoryInv
  <2>2. \A j \in DOMAIN events' : events'[j] <= now'
    BY <1>0, <1>2, <1>3
  <2>3. /\ events' \in Seq(1..MaxTime) /\ Len(events') <= EventsLen
        /\ \A a, c \in DOMAIN events' : a < c => events'[a] <= events'[c]
    BY <1>2 DEF MemoryInv
  <2>4. /\ lastTotal' = -1 => events' = <<>> /\ hist' = <<>> /\ ~polled'.well
                              /\ polled'.first = -1
        /\ lastTotal' # -1 => polled'.first # -1
    BY <1>2, <1>4 DEF MemoryInv
  <2> QED BY <1>4, <2>1, <2>2, <2>3, <2>4 DEF MemoryInv
<1>6. ASSUME NEW i \in DOMAIN mints', NEW j \in DOMAIN events, i = lastTotal - Len(events) + j
      PROVE  Noted(i, j)'
  <2>1. j \in 1..Len(events) /\ i \in 1..Len(mints)
    BY <1>0, <1>3, <1>6
  <2>2. i \in DOMAIN mints /\ mints'[i] = mints[i] /\ mints[i] \in Nat
    BY <1>0, <2>1
  <2>3. Noted(i, j)
    BY <1>6, <2>2 DEF QueueInv
  <2>4. mints[i] \in Nat /\ events[j] \in Nat /\ late \in Nat
    BY <1>3, <2>1, <2>2
  <2>5. events[j] <= mints[i] + late => events[j] <= mints[i] + (late + 1)
    BY <2>4
  <2> QED BY <1>2, <2>2, <2>3, <2>5 DEF Noted
<1>7. ~regressed => \A i \in DOMAIN mints' : i > lastTotal => mints'[i] + late' > now'
  BY <1>1, <1>2, <1>3, LatePasses DEF QueueInv
<1>8. Seen' = Seen
  BY <1>2, <1>4 DEF Seen
<1> QED BY <1>2, <1>5, <1>6, <1>7, <1>8 DEF QueueInv

\* A poll that goes well, after k mints, and reads n.
PollWith(k, b, n) ==
    /\ P!Pass(k, b)
    /\ n \in P!Answers
    /\ events' = P!Push(events, EventsLen, now', P!NewMints(n))
    /\ lastTotal' = n
    /\ regressed' = (regressed \/ n < lastTotal)
    /\ late' = IF n < P!Total' THEN late + 1 ELSE late
    /\ polled' = [well |-> TRUE, first |-> IF lastTotal = -1 THEN n ELSE polled.first]
    /\ late' <= MaxLate
    /\ hist' = P!Push(hist, HistLen, [burst |-> b, at |-> now'], 1)
    /\ rate' = P!RateOf(events', now')
    /\ trend' = P!TrendOf(hist')

LEMMA PollIsWith ==
    P!Poll => \E k \in 0..MintsPerPoll, b \in 0..MaxBurst, n \in Nat : PollWith(k, b, n)
<1>1. ASSUME NEW n \in P!Answers PROVE n \in Nat
  BY DEF P!Answers
<1> QED BY <1>1 DEF P!Poll, PollWith

\* What it reads, and what it makes of that.
LEMMA PollNumbers ==
    ASSUME ClockInv, MemoryInv,
           NEW k \in 0..MintsPerPoll, NEW b \in 0..MaxBurst, NEW n \in Nat, PollWith(k, b, n)
    PROVE  /\ n <= Len(mints) + k /\ lastTotal' = n
           /\ late' = (IF n < Len(mints) + k THEN late + 1 ELSE late)
           /\ P!NewMints(n) \in Nat
           /\ P!NewMints(n) = IF lastTotal # -1 /\ n > lastTotal THEN n - lastTotal ELSE 0
           /\ polled' \in [well : BOOLEAN, first : -1..Len(mints')] /\ polled'.well = TRUE
           /\ polled'.first = IF lastTotal = -1 THEN n ELSE polled.first
           /\ ~regressed' => ~regressed /\ ~(n < lastTotal)
           /\ regressed' \in BOOLEAN
<1>1. Len(mints) \in Nat /\ k \in Nat /\ Len(mints') = Len(mints) + k
  BY PassMints DEF PollWith
<1>2. P!Total' = Len(mints) + k
  BY <1>1 DEF P!Total
<1>3. n \in (P!Total' - Lag)..P!Total' /\ Lag \in Nat
  BY MonitorsAssumption DEF PollWith, P!Answers, MonitorsAssumption
<1>4. n <= Len(mints) + k
  BY <1>1, <1>2, <1>3
<1>5. lastTotal' = n /\ late' = (IF n < Len(mints) + k THEN late + 1 ELSE late)
  BY <1>2 DEF PollWith
<1>6. P!NewMints(n) = IF lastTotal # -1 /\ n > lastTotal THEN n - lastTotal ELSE 0
  BY DEF P!NewMints
<1>7. P!NewMints(n) \in Nat
  BY <1>6, MemoryNumbers
<1>8. polled' \in [well : BOOLEAN, first : -1..Len(mints')]
  <2>1. n \in -1..Len(mints') /\ polled.first \in -1..Len(mints')
    BY <1>1, <1>4, MemoryNumbers
  <2> QED BY <2>1 DEF PollWith
<1>9. polled'.well = TRUE /\ polled'.first = IF lastTotal = -1 THEN n ELSE polled.first
  BY DEF PollWith
<1>10. (~regressed' => ~regressed /\ ~(n < lastTotal)) /\ regressed' \in BOOLEAN
  <2>1. regressed' = (regressed \/ n < lastTotal)
    BY DEF PollWith
  <2> QED BY <2>1, Zenon
<1> QED BY <1>4, <1>5, <1>6, <1>7, <1>8, <1>9, <1>10

\* The queue is the end of what it was and of q events of the moment.
Grown(q) ==
    /\ events' \in Seq(1..MaxTime) /\ Len(events') \in Nat /\ Len(events') <= EventsLen
    /\ DOMAIN events' = 1..Len(events')
    /\ Len(events') <= Len(events) + q
    /\ Len(events') = EventsLen \/ Len(events') = Len(events) + q
    /\ \A j \in 1..Len(events') :
          LET place == Len(events) + q - Len(events') + j
          IN  /\ place \in 1..(Len(events) + q)
              /\ events'[j] = IF place <= Len(events) THEN events[place] ELSE now'

LEMMA QueueGrows ==
    ASSUME ClockInv, MemoryInv,
           NEW k \in 0..MintsPerPoll, NEW b \in 0..MaxBurst, NEW n \in Nat, PollWith(k, b, n)
    PROVE  Grown(P!NewMints(n))
<1>1. PICK ev, t, q, S : ev = events /\ t = now' /\ q = P!NewMints(n) /\ S = 1..MaxTime
  OBVIOUS
<1>2. ev \in Seq(S) /\ Len(ev) \in Nat /\ Len(ev) <= EventsLen /\ q \in Nat
  BY <1>1, MemoryNumbers, PollNumbers
<1>3. t \in S /\ EventsLen \in Nat
  BY <1>1, PassMints, StatsNumbers DEF PollWith
<1>4. PICK r : r = P!Push(ev, EventsLen, t, q)
  OBVIOUS
<1>5. Pushed(r, S, ev, EventsLen, t, q)
  BY <1>2, <1>3, <1>4, PushIsPushed
<1>6. events' = r /\ DOMAIN r = 1..Len(r)
  BY <1>1, <1>4, <1>5, LenProperties DEF PollWith, Pushed
<1>7. /\ Len(r) <= EventsLen /\ Len(r) <= Len(ev) + q
      /\ Len(r) = EventsLen \/ Len(r) = Len(ev) + q
  BY <1>2, <1>3, <1>5 DEF Pushed
<1> QED BY <1>1, <1>5, <1>6, <1>7 DEF Grown, Pushed

\* The queue stays in order.
LEMMA PollKeepsMemory ==
    ASSUME ClockInv, MemoryInv,
           NEW k \in 0..MintsPerPoll, NEW b \in 0..MaxBurst, NEW n \in Nat, PollWith(k, b, n)
    PROVE  MemoryInv'
<1> DEFINE e == Len(events)
           f == Len(events')
           q == P!NewMints(n)
           place(j) == e + q - f + j
<1>1. now \in Nat /\ now' = now + 1 /\ Len(mints') = Len(mints) + k /\ Len(mints) \in Nat /\ k \in Nat
  BY PassMints DEF PollWith
<1>2. /\ e \in Nat /\ DOMAIN events = 1..e
      /\ \A j \in 1..e : events[j] \in Nat /\ events[j] <= now
  BY MemoryNumbers
<1>3. /\ events' \in Seq(1..MaxTime) /\ f \in Nat /\ f <= EventsLen /\ DOMAIN events' = 1..f
      /\ \A j \in 1..f : /\ place(j) \in 1..(e + q)
                         /\ events'[j] = IF place(j) <= e THEN events[place(j)] ELSE now'
  BY QueueGrows DEF Grown
<1>4. n <= Len(mints) + k /\ lastTotal' = n /\ q \in Nat
  BY PollNumbers
<1>5. \A a, c \in 1..f : a < c => place(a) < place(c)
  <2> HIDE DEF e, f, q
  <2> QED BY <1>2, <1>3, <1>4
<1> HIDE DEF e, f, q, place
<1>6. \A j \in 1..f : place(j) <= e => place(j) \in 1..e
  BY <1>2, <1>3, <1>4
<1>7. ASSUME NEW j \in DOMAIN events' PROVE events'[j] <= now'
  <2>1. CASE place(j) <= e
    <3>1. events'[j] = events[place(j)] /\ events[place(j)] \in Nat /\ events[place(j)] <= now
      BY <1>2, <1>3, <1>6, <2>1
    <3> QED BY <1>1, <3>1
  <2>2. CASE ~(place(j) <= e)
    BY <1>1, <1>3, <2>2
  <2> QED BY <2>1, <2>2
<1>8. ASSUME NEW a \in DOMAIN events', NEW c \in DOMAIN events', a < c
      PROVE  events'[a] <= events'[c]
  <2>1. CASE place(c) <= e
    <3>1. place(a) < place(c) /\ place(c) \in 1..e /\ place(a) \in 1..(e + q)
      BY <1>3, <1>5, <1>6, <1>8, <2>1
    <3>2. place(a) \in 1..e
      BY <1>2, <1>4, <3>1
    <3>3. events[place(a)] <= events[place(c)]
      BY <1>2, <3>1, <3>2 DEF MemoryInv
    <3>4. events'[a] = events[place(a)] /\ events'[c] = events[place(c)]
      BY <1>3, <2>1, <3>2
    <3> QED BY <3>3, <3>4
  <2>2. CASE ~(place(c) <= e)
    <3>1. events'[c] = now'
      BY <1>3, <2>2
    <3> QED BY <1>7, <3>1
  <2> QED BY <2>1, <2>2
<1>9. /\ lastTotal' \in -1..Len(mints') /\ lastTotal' # -1 /\ polled'.first # -1
      /\ polled' \in [well : BOOLEAN, first : -1..Len(mints')] /\ regressed' \in BOOLEAN
  <2>1. /\ polled'.first = IF lastTotal = -1 THEN n ELSE polled.first
        /\ polled' \in [well : BOOLEAN, first : -1..Len(mints')] /\ regressed' \in BOOLEAN
    BY PollNumbers
  <2>2. lastTotal # -1 => polled.first # -1
    BY MemoryNumbers
  <2>3. n \in -1..Len(mints') /\ n # -1
    BY <1>1, <1>4
  <2> QED BY <1>4, <2>1, <2>2, <2>3
<1> QED BY <1>3, <1>7, <1>8, <1>9 DEF MemoryInv, f

\* It notes what came into sight since the last poll that went well.
LEMMA PollKeepsQueue ==
    ASSUME ClockInv, MemoryInv, QueueInv,
           NEW k \in 0..MintsPerPoll, NEW b \in 0..MaxBurst, NEW n \in Nat, PollWith(k, b, n)
    PROVE  QueueInv'
<1> DEFINE L == Len(mints)
           e == Len(events)
           f == Len(events')
           q == P!NewMints(n)
           place(j) == e + q - f + j
<1>1. /\ now \in Nat /\ now' = now + 1 /\ k \in Nat /\ L \in Nat
      /\ DOMAIN mints = 1..L /\ DOMAIN mints' = 1..(L + k)
      /\ \A i \in 1..L : mints'[i] = mints[i] /\ mints[i] \in Nat /\ mints[i] <= now
      /\ \A i \in 1..(L + k) : i > L => mints'[i] = now'
  BY PassMints DEF PollWith
<1>2. /\ lastTotal \in Int /\ lastTotal >= -1 /\ lastTotal <= L /\ late \in Nat
      /\ polled.first \in Int /\ polled.first >= -1
      /\ e \in Nat /\ DOMAIN events = 1..e
      /\ \A j \in 1..e : events[j] \in Nat /\ events[j] <= now
      /\ lastTotal = -1 => e = 0 /\ polled.first = -1
  BY MemoryNumbers
<1>2a. lastTotal \in Int /\ polled.first \in Int
  BY <1>2
<1>3. /\ n <= L + k /\ lastTotal' = n /\ q \in Nat
      /\ late' = (IF n < L + k THEN late + 1 ELSE late)
      /\ q = IF lastTotal # -1 /\ n > lastTotal THEN n - lastTotal ELSE 0
      /\ polled'.first = IF lastTotal = -1 THEN n ELSE polled.first
      /\ ~regressed' => ~regressed /\ ~(n < lastTotal)
  BY PollNumbers
<1>4. /\ f \in Nat /\ DOMAIN events' = 1..f /\ f <= e + q
      /\ f = EventsLen \/ f = e + q
      /\ \A j \in 1..f : /\ place(j) \in 1..(e + q)
                         /\ events'[j] = IF place(j) <= e THEN events[place(j)] ELSE now'
  BY QueueGrows DEF Grown
<1>5. /\ Seen = lastTotal - polled.first /\ Seen \in Int
      /\ Seen' = IF lastTotal = -1 THEN 0 ELSE n - polled.first
  BY <1>2, <1>3 DEF Seen
<1>6. /\ ~regressed => e <= Seen
      /\ e = EventsLen \/ e >= Seen
      /\ ~regressed => \A i \in DOMAIN mints : i > lastTotal => mints[i] + late > now
      /\ \A i \in DOMAIN mints, j \in DOMAIN events : i = lastTotal - e + j => Noted(i, j)
  BY DEF QueueInv
<1>7. e <= EventsLen /\ EventsLen \in Nat
  BY MemoryNumbers, StatsNumbers
<1>8. \A a, c \in 1..L : a <= c => mints[a] <= mints[c]
  <2>1. \A a, c \in 1..L : a < c => mints[a] <= mints[c]
    BY <1>1 DEF ClockInv
  <2>2. \A a \in 1..L : mints[a] <= mints[a]
    BY <1>1
  <2>3. \A a, c \in 1..L : a <= c => a = c \/ a < c
    OBVIOUS
  <2> QED BY <2>1, <2>2, <2>3
<1> HIDE DEF L, e, f, q, place, Seen
<1>9. (~regressed' => f <= Seen') /\ (f = EventsLen \/ f >= Seen')
  <2>1. CASE lastTotal = -1
    <3>1. f = 0 /\ Seen' = 0
      BY <1>2, <1>3, <1>4, <1>5, <2>1
    <3> QED BY <3>1
  <2>2. CASE lastTotal # -1 /\ n >= lastTotal
    <3>1. Seen' = n - polled.first
      BY <1>5, <2>2
    <3>2. q = n - lastTotal
      BY <1>2, <1>3, <2>2
    <3>3. Seen' = Seen + q /\ Seen \in Int /\ q \in Nat
      <4>1. q \in Nat /\ Seen \in Int /\ Seen = lastTotal - polled.first
        BY <1>3, <1>5
      <4> QED BY <1>2a, <3>1, <3>2, <4>1
    <3>4. f \in Nat /\ e \in Nat /\ f <= e + q /\ (f = EventsLen \/ f = e + q)
      BY <1>2, <1>4
    <3>5. ~regressed' => f <= Seen'
      <4>1. ~regressed' => e <= Seen
        BY <1>3, <1>6
      <4>2. e <= Seen => f <= Seen'
        BY <3>3, <3>4
      <4> QED BY <4>1, <4>2
    <3>6. f = EventsLen \/ f >= Seen'
      <4>1. CASE e >= Seen
        BY <3>3, <3>4, <4>1
      <4>2. CASE e = EventsLen /\ f = e + q
        <5>1. f >= EventsLen
          BY <3>3, <3>4, <4>2
        <5>2. f <= EventsLen
          BY QueueGrows DEF Grown, f
        <5> QED BY <1>7, <3>4, <5>1, <5>2
      <4> QED BY <1>6, <3>4, <4>1, <4>2
    <3> QED BY <3>5, <3>6
  <2>3. CASE lastTotal # -1 /\ ~(n >= lastTotal)
    <3>1. n < lastTotal /\ ~(n > lastTotal)
      BY <1>2, <2>3
    <3>2. regressed'
      BY <1>3, <3>1
    <3>3. Seen' = n - polled.first /\ q = 0
      BY <1>3, <1>5, <2>3, <3>1
    <3>4. Seen' < Seen /\ Seen' \in Int /\ Seen \in Int
      BY <1>2a, <1>5, <3>1, <3>3
    <3>5. f = EventsLen \/ f = e
      BY <1>2, <1>4, <3>3
    <3>6. f = EventsLen \/ f >= Seen'
      BY <1>2, <1>6, <3>4, <3>5
    <3> QED BY <3>2, <3>6
  <2> QED BY <2>1, <2>2, <2>3
\* What it does not see: only if it is late, and then that is new or was not seen before.
<1>11. ASSUME ~regressed'
       PROVE  \A i \in DOMAIN mints' : i > n => mints'[i] + late' > now'
  <2>1. ~regressed /\ ~(n < lastTotal)
    BY <1>3, <1>11
  <2>2. CASE n < L + k
    <3>1. \A i \in DOMAIN mints : i > n => mints[i] + late > now
      BY <1>1, <1>2, <1>6, <2>1
    <3>2. late' = late + 1 /\ P!Pass(k, b)
      BY <1>3, <2>2 DEF PollWith
    <3> QED BY <1>2, <3>1, <3>2, LatePasses
  <2>3. CASE ~(n < L + k)
    BY <1>1, <1>3, <2>3
  <2> QED BY <2>2, <2>3
\* A mint that comes into sight was made since the last poll that was not late.
<1>12. ASSUME NEW i \in 1..(L + k), i > lastTotal
       PROVE  /\ mints'[i] \in Nat /\ mints'[i] <= now'
              /\ ~regressed => now' <= mints'[i] + late
  <2>1. CASE i <= L
    <3>1. i \in 1..L
      BY <1>1, <2>1
    <3>2. ~regressed => mints[i] + late > now
      BY <1>1, <1>6, <1>12, <3>1
    <3>3. mints'[i] = mints[i] /\ mints[i] \in Nat /\ mints[i] <= now
      BY <1>1, <3>1
    <3> QED BY <1>1, <1>2, <3>2, <3>3
  <2>2. CASE i > L
    <3>1. mints'[i] = now'
      BY <1>1, <2>2
    <3> QED BY <1>1, <1>2, <3>1
  <2> QED BY <1>1, <2>1, <2>2
<1>13. ASSUME NEW i \in DOMAIN mints', NEW j \in DOMAIN events', i = n - f + j
       PROVE  Noted(i, j)'
  <2>1. i \in 1..(L + k) /\ j \in 1..f /\ place(j) \in 1..(e + q) /\ place(j) = e + q - f + j
    BY <1>1, <1>4, <1>13 DEF place
  <2>2. late' \in Nat /\ late <= late'
    BY <1>2, <1>3
  <2>2a. late \in Nat
    BY <1>2
  <2>2b. now' \in Nat
    BY <1>1, <1>2
  <2>3. CASE lastTotal = -1
    BY <1>2, <1>3, <1>4, <2>1, <2>3
  <2>4. CASE lastTotal # -1 /\ place(j) <= e
    <3>0. place(j) \in Int /\ lastTotal - e + place(j) \in Int
      BY <1>2, <1>3, <2>1
    <3>1. PICK m \in Int : m = lastTotal - e + place(j)
      BY <3>0
    <3>2. /\ place(j) \in 1..e /\ i <= m /\ m <= lastTotal
          /\ ~regressed' => m = i
      <4>1. place(j) \in 1..e
        BY <1>2, <1>3, <2>1, <2>4
      <4>2. m \in Int /\ i = n - f + j /\ place(j) = e + q - f + j /\ f \in Int /\ j \in Int /\ e \in Int
        BY <1>2, <1>4, <1>13, <2>1
      <4>3. m = lastTotal + q - f + j
        BY <1>2, <1>3, <3>1, <4>2
      <4>4. n <= lastTotal + q
        BY <1>2, <1>3, <2>4
      <4>5. i <= m
        BY <1>2, <1>3, <4>2, <4>3, <4>4
      <4>6. m <= lastTotal
        BY <1>2, <3>1, <4>1
      <4>7. ~regressed' => n = lastTotal + q
        BY <1>2, <1>3, <2>4
      <4>8. n = lastTotal + q => m = i
        BY <1>2, <1>3, <4>2, <4>3
      <4> QED BY <4>1, <4>5, <4>6, <4>7, <4>8
    <3>3. m \in 1..L /\ i \in 1..L
      BY <1>1, <1>2, <2>1, <3>2
    <3>4. Noted(m, place(j))
      BY <1>1, <1>2, <1>6, <3>1, <3>2, <3>3
    <3>5. events'[j] = events[place(j)] /\ mints'[i] = mints[i] /\ mints[i] <= mints[m]
      BY <1>1, <1>4, <1>8, <2>1, <2>4, <3>2, <3>3
    <3>6. events[place(j)] \in Nat /\ mints[i] \in Nat /\ mints[m] \in Nat
      BY <1>1, <1>2, <3>2, <3>3
    <3>7. mints'[i] <= events'[j]
      BY <3>4, <3>5, <3>6 DEF Noted
    <3>8. ~regressed' => events'[j] <= mints'[i] + late'
      <4>1. ~regressed' => ~regressed /\ m = i
        BY <1>3, <3>2
      <4>2. ~regressed => events[place(j)] <= mints[m] + late
        BY <3>4 DEF Noted
      <4>3. mints[m] + late <= mints[m] + late'
        BY <2>2, <2>2a, <3>6, SumGrows
      <4>4. ~regressed' => mints'[i] = mints[m]
        BY <3>5, <4>1
      <4>5. /\ events[place(j)] \in Int /\ mints[m] + late \in Int
            /\ mints[m] + late' \in Int
        BY <2>2, <2>2a, <3>6
      <4>6. ~regressed' => events[place(j)] <= mints[m] + late'
        BY <4>1, <4>2, <4>3, <4>5
      <4> QED BY <3>5, <4>4, <4>6
    <3> QED BY <3>7, <3>8 DEF Noted
  <2>5. CASE lastTotal # -1 /\ ~(place(j) <= e)
    <3>1. n > lastTotal /\ q = n - lastTotal
      BY <1>2, <1>3, <2>1, <2>5
    <3>2. i > lastTotal /\ events'[j] = now'
      BY <1>2, <1>3, <1>4, <1>13, <2>1, <2>5, <3>1
    <3>3. /\ mints'[i] \in Nat /\ mints'[i] <= now'
          /\ ~regressed => now' <= mints'[i] + late
      BY <1>12, <2>1, <3>2
    <3>4. mints'[i] <= events'[j]
      BY <3>2, <3>3
    <3>5. ~regressed' => events'[j] <= mints'[i] + late'
      <4>1. ~regressed' => ~regressed
        BY <1>3
      <4>2. mints'[i] + late <= mints'[i] + late'
        BY <2>2, <2>2a, <3>3, SumGrows
      <4>3. now' \in Int /\ mints'[i] + late \in Int /\ mints'[i] + late' \in Int
        BY <2>2, <2>2a, <2>2b, <3>3
      <4> QED BY <3>2, <3>3, <4>1, <4>2, <4>3
    <3> QED BY <3>4, <3>5 DEF Noted
  <2> QED BY <2>3, <2>4, <2>5
<1> QED BY <1>3, <1>9, <1>11, <1>13 DEF QueueInv, f

-----------------------------------------------------------------------------
(* The samples of the burst.                                               *)

\* What happened after t did so for good.
LEMMA CausesStay ==
    ASSUME ClockInv, NEW k \in 0..MintsPerPoll, NEW b \in 0..MaxBurst, P!Pass(k, b), NEW t
    PROVE  (MintAfter(t) => MintAfter(t)') /\ (QuietAfter(t) => QuietAfter(t)')
<1>0. /\ now \in Nat /\ now' = now + 1 /\ k \in Nat /\ Len(mints) \in Nat
      /\ DOMAIN mints = 1..Len(mints) /\ DOMAIN mints' = 1..(Len(mints) + k)
      /\ \A i \in 1..Len(mints) : mints'[i] = mints[i]
      /\ \A i \in 1..(Len(mints) + k) : i > Len(mints) => mints'[i] = now'
  BY PassMints
<1>1. ASSUME MintAfter(t) PROVE MintAfter(t)'
  <2>1. PICK i \in DOMAIN mints : mints[i] > t
    BY <1>1 DEF MintAfter
  <2>2. i \in DOMAIN mints' /\ mints'[i] = mints[i]
    BY <1>0
  <2> QED BY <2>1, <2>2 DEF MintAfter
<1>2. ASSUME QuietAfter(t) PROVE QuietAfter(t)'
  <2>1. PICK u \in 1..now : u > t /\ \A i \in DOMAIN mints : mints[i] # u
    BY <1>2 DEF QuietAfter
  <2>2. u \in 1..now' /\ u # now'
    BY <1>0
  <2>3. \A i \in DOMAIN mints' : mints'[i] # u
    BY <1>0, <2>1, <2>2
  <2> QED BY <2>1, <2>2, <2>3 DEF QuietAfter
<1> QED BY <1>1, <1>2

\* The burst rises only by a mint, and falls only without one.
LEMMA BurstMoves ==
    ASSUME ClockInv, NEW k \in 0..MintsPerPoll, NEW b \in 0..MaxBurst, P!Pass(k, b),
           NEW t \in Int, t <= now
    PROVE  (burst' > burst => MintAfter(t)') /\ (burst' < burst => QuietAfter(t)')
<1>1. /\ now \in Nat /\ now' = now + 1 /\ k \in Nat /\ Len(mints) \in Nat
      /\ DOMAIN mints = 1..Len(mints) /\ DOMAIN mints' = 1..(Len(mints) + k)
      /\ \A i \in 1..Len(mints) : mints'[i] = mints[i] /\ mints[i] \in Nat /\ mints[i] <= now
      /\ \A i \in 1..(Len(mints) + k) : i > Len(mints) => mints'[i] = now'
  BY PassMints
<1>2. burst \in Nat /\ burst <= MaxBurst /\ MaxBurst \in Nat
  BY StatsNumbers DEF ClockInv
<1>3. CASE k = 0
  <2>1. ~(burst' > burst)
    BY <1>2, <1>3 DEF P!Pass
  <2>2. \A i \in DOMAIN mints' : mints'[i] # now'
    BY <1>1, <1>3
  <2>3. now' \in 1..now' /\ now' > t
    BY <1>1
  <2> QED BY <2>1, <2>2, <2>3 DEF QuietAfter
<1>4. CASE k # 0
  <2>1. ~(burst' < burst)
    BY <1>1, <1>2, <1>4 DEF P!Pass
  <2>2. Len(mints) + k \in DOMAIN mints' /\ mints'[Len(mints) + k] = now'
    BY <1>1, <1>4
  <2>3. now' > t
    BY <1>1
  <2> QED BY <2>1, <2>2, <2>3 DEF MintAfter
<1> QED BY <1>3, <1>4

LEMMA PassFollows ==
    ASSUME ClockInv, NEW k \in 0..MintsPerPoll, NEW b \in 0..MaxBurst, P!Pass(k, b),
           NEW h, Follows(h)
    PROVE  Follows(h)'
<1>1. h \in Seq(Samples)
  BY DEF Follows
<1>2. now \in Nat /\ now' = now + 1 /\ burst \in Nat /\ burst' \in Nat
  BY PassMints, StatsNumbers DEF ClockInv
<1>3. \A a \in DOMAIN h : /\ h[a].burst \in Nat /\ h[a].at \in Nat
                          /\ h[a].at <= now
  <2> SUFFICES ASSUME NEW a \in DOMAIN h
               PROVE  h[a].burst \in Nat /\ h[a].at \in Nat /\ h[a].at <= now
    OBVIOUS
  <2>1. h[a] \in Samples
    BY <1>1, ElementOfSeq, LenProperties
  <2> QED BY <2>1, StatsNumbers DEF Follows, Samples
<1>4. ASSUME NEW a \in DOMAIN h
      PROVE  /\ h[a].at <= now'
             /\ burst' > h[a].burst => MintAfter(h[a].at)'
             /\ burst' < h[a].burst => QuietAfter(h[a].at)'
  <2>1. PICK t : t = h[a].at
    OBVIOUS
  <2>2. /\ burst > h[a].burst => MintAfter(t)
        /\ burst < h[a].burst => QuietAfter(t)
    BY <2>1 DEF Follows
  <2>3. /\ MintAfter(t) => MintAfter(t)'
        /\ QuietAfter(t) => QuietAfter(t)'
    BY CausesStay
  <2>4. /\ burst' > burst => MintAfter(t)'
        /\ burst' < burst => QuietAfter(t)'
    BY <1>3, <2>1, BurstMoves
  <2>5. /\ burst' > h[a].burst => burst' > burst \/ burst > h[a].burst
        /\ burst' < h[a].burst => burst' < burst \/ burst < h[a].burst
    BY <1>2, <1>3
  <2>6. h[a].at <= now'
    BY <1>2, <1>3
  <2> QED BY <2>1, <2>2, <2>3, <2>4, <2>5, <2>6
<1>5. ASSUME NEW a \in DOMAIN h, NEW c \in DOMAIN h, a < c
      PROVE  /\ h[a].at <= h[c].at
             /\ h[c].burst > h[a].burst => MintAfter(h[a].at)'
             /\ h[c].burst < h[a].burst => QuietAfter(h[a].at)'
  <2>1. PICK t : t = h[a].at
    OBVIOUS
  <2>2. /\ h[a].at <= h[c].at
        /\ h[c].burst > h[a].burst => MintAfter(t)
        /\ h[c].burst < h[a].burst => QuietAfter(t)
    BY <1>5, <2>1 DEF Follows
  <2>3. /\ MintAfter(t) => MintAfter(t)'
        /\ QuietAfter(t) => QuietAfter(t)'
    BY CausesStay
  <2> QED BY <2>1, <2>2, <2>3
<1> QED BY <1>1, <1>4, <1>5 DEF Follows

\* r is the end of what h and x are.
Appended(r, h, x) == EndOf(r, Samples, h, HistLen, x)

LEMMA SamplePushed ==
    ASSUME NEW h \in Seq(Samples), NEW x \in Samples
    PROVE  Appended(P!Push(h, HistLen, x, 1), h, x)
<1>1. HistLen \in Nat
  BY StatsNumbers
<1> QED BY <1>1, PushOne DEF Appended

\* A sample of the moment is appended to the others.
LEMMA SampleFollows ==
    ASSUME NEW h, Follows(h)', NEW b \in 0..MaxBurst, burst' = b,
           NEW t \in 1..MaxTime, now' = t,
           NEW x \in Samples, x.burst = b, x.at = t,
           NEW r, Appended(r, h, x)
    PROVE  Follows(r)' /\ Len(r) <= HistLen
<1> DEFINE place(a) == Len(h) + 1 - Len(r) + a
<1>1. h \in Seq(Samples) /\ x \in Samples /\ Len(h) \in Nat /\ DOMAIN h = 1..Len(h)
  BY LenProperties DEF Follows
<1>2. /\ r \in Seq(Samples) /\ Len(r) \in Nat /\ Len(r) <= HistLen /\ DOMAIN r = 1..Len(r)
      /\ \A a \in 1..Len(r) : /\ place(a) \in 1..(Len(h) + 1)
                              /\ r[a] = IF place(a) <= Len(h) THEN h[place(a)] ELSE x
  <2>2. /\ r \in Seq(Samples) /\ Len(r) \in Nat
        /\ Len(r) <= HistLen /\ Len(r) <= Len(h) + 1
        /\ \A a \in 1..Len(r) :
              r[a] = IF Len(h) + 1 - Len(r) + a <= Len(h)
                       THEN h[Len(h) + 1 - Len(r) + a] ELSE x
    BY DEF Appended, EndOf
  <2>3. DOMAIN r = 1..Len(r)
    BY <2>2, LenProperties
  <2>4. \A a \in 1..Len(r) : place(a) \in 1..(Len(h) + 1)
    BY <1>1, <2>2
  <2> QED BY <2>2, <2>3, <2>4
<1>3. \A a \in 1..Len(r) : place(a) > Len(h) => r[a].burst = b /\ r[a].at = t
  BY <1>1, <1>2
<1>4. \A a \in 1..Len(r) : place(a) <= Len(h) => place(a) \in DOMAIN h /\ r[a] = h[place(a)]
  <2> HIDE DEF place
  <2> QED BY <1>1, <1>2
<1>5. \A a, c \in 1..Len(r) : a < c /\ place(c) <= Len(h) =>
         place(a) < place(c) /\ place(a) <= Len(h)
  <2>1. Len(r) \in Nat /\ Len(h) \in Nat
    BY <1>1, <1>2
  <2> QED BY <2>1
<1> HIDE DEF place
<1>6. ASSUME NEW a \in 1..Len(r)
      PROVE  /\ r[a].at <= t
             /\ b > r[a].burst => MintAfter(r[a].at)'
             /\ b < r[a].burst => QuietAfter(r[a].at)'
  <2>1. CASE place(a) <= Len(h)
    <3>1. place(a) \in DOMAIN h /\ r[a] = h[place(a)]
      BY <1>4, <2>1
    <3> QED BY <3>1 DEF Follows
  <2>2. CASE place(a) > Len(h)
    <3>1. r[a].burst = b /\ r[a].at = t /\ b \in Int /\ t \in Int
      BY <1>3, <2>2
    <3> QED BY <3>1
  <2> QED BY <1>1, <1>2, <2>1, <2>2
<1>7. ASSUME NEW a \in 1..Len(r), NEW c \in 1..Len(r), a < c
      PROVE  /\ r[a].at <= r[c].at
             /\ r[c].burst > r[a].burst => MintAfter(r[a].at)'
             /\ r[c].burst < r[a].burst => QuietAfter(r[a].at)'
  <2>1. CASE place(c) <= Len(h)
    <3>1. place(a) < place(c) /\ place(a) <= Len(h)
      BY <1>5, <1>7, <2>1
    <3>2. /\ place(a) \in DOMAIN h /\ r[a] = h[place(a)]
          /\ place(c) \in DOMAIN h /\ r[c] = h[place(c)]
      BY <1>4, <2>1, <3>1
    <3> QED BY <3>1, <3>2 DEF Follows
  <2>2. CASE place(c) > Len(h)
    <3>1. r[c].burst = b /\ r[c].at = t
      BY <1>3, <2>2
    <3> QED BY <1>6, <3>1
  <2> QED BY <1>1, <1>2, <2>1, <2>2
<1> QED BY <1>2, <1>6, <1>7 DEF Follows

LEMMA PollKeepsBurst ==
    ASSUME ClockInv, BurstInv,
           NEW k \in 0..MintsPerPoll, NEW b \in 0..MaxBurst, NEW n, PollWith(k, b, n)
    PROVE  BurstInv'
<1>1. PICK h, t, x, r : h = hist /\ t = now' /\ x = [burst |-> b, at |-> t] /\ r = hist'
  OBVIOUS
<1>2. P!Pass(k, b) /\ r = P!Push(h, HistLen, x, 1)
  BY <1>1 DEF PollWith
<1>3. t \in 1..MaxTime /\ now' = t /\ burst' = b
  BY <1>1, <1>2, PassMints
<1>4. x \in Samples /\ x.burst = b /\ x.at = t
  BY <1>1, <1>3 DEF Samples
<1>5. Follows(h) /\ h \in Seq(Samples)
  BY <1>1 DEF BurstInv, Follows
<1>6. Follows(h)'
  BY <1>2, <1>5, PassFollows
<1>7. Appended(r, h, x)
  BY <1>2, <1>4, <1>5, SamplePushed
<1>8. Follows(r)' /\ Len(r) <= HistLen
  BY <1>3, <1>4, <1>6, <1>7, SampleFollows
<1> QED BY <1>1, <1>8 DEF BurstInv, Follows

LEMMA MissKeepsBurst == ASSUME ClockInv, BurstInv, P!Miss PROVE BurstInv'
<1>1. PICK k \in 0..MintsPerPoll, b \in 0..MaxBurst : P!Pass(k, b)
  BY DEF P!Miss
<1>2. PICK h : h = hist
  OBVIOUS
<1>3. Follows(h)' /\ hist' = h /\ Len(h) <= HistLen
  BY <1>1, <1>2, PassFollows DEF BurstInv, P!Miss
<1> QED BY <1>3 DEF BurstInv, Follows

-----------------------------------------------------------------------------
(* The statistics, step by step.                                           *)

LEMMA StatsInit == ASSUME P!Init PROVE StatsInv
<1>0. now = 0 /\ lastTotal = -1 /\ late = 0 /\ burst \in 0..MaxBurst
  BY DEF P!Init
<1>1. /\ now = 0 /\ mints = <<>> /\ lastTotal = -1 /\ hist = <<>> /\ events = <<>>
      /\ burst \in 0..MaxBurst /\ late = 0 /\ trend = ""
      /\ rate = [mints |-> 0, span |-> 0] /\ regressed = FALSE
      /\ polled = [well |-> FALSE, first |-> -1]
  BY DEF P!Init, P!NoRate
<1>2. /\ mints \in Seq(1..MaxTime) /\ Len(mints) = 0 /\ DOMAIN mints = {}
      /\ events \in Seq(1..MaxTime) /\ Len(events) = 0 /\ DOMAIN events = {}
      /\ hist \in Seq(Samples) /\ Len(hist) = 0 /\ DOMAIN hist = {}
  <2>1. \A S : <<>> \in Seq(S)
    BY EmptySeq
  <2>2. Len(<<>>) = 0 /\ DOMAIN <<>> = {}
    BY <2>1, EmptySeq, LenProperties
  <2> QED BY <1>1, <2>1, <2>2
<1>3. ClockInv /\ CrowdInv
  <2>1. now \in 0..MaxTime /\ burst \in 0..MaxBurst /\ late \in 0..MaxLate
    BY <1>0, StatsNumbers
  <2> QED BY <1>2, <2>1 DEF ClockInv, CrowdInv
<1>4. MemoryInv
  <2>1. /\ lastTotal = -1 /\ lastTotal \in -1..Len(mints) /\ Len(events) <= EventsLen
        /\ regressed \in BOOLEAN
    <3>1. EventsLen \in Nat /\ Len(events) <= EventsLen
      BY <1>2, StatsNumbers
    <3>2. -1 \in -1..Len(mints)
      BY <1>2
    <3> QED BY <1>0, <1>1, <3>1, <3>2
  <2>2. polled.well = FALSE /\ polled.first = -1 /\ events = <<>> /\ hist = <<>>
    BY <1>1
  <2>3. polled \in [well : BOOLEAN, first : -1..Len(mints)]
    <3>1. -1 \in -1..Len(mints)
      BY <1>2
    <3> QED BY <1>1, <3>1
  <2> QED BY <1>2, <2>1, <2>2, <2>3 DEF MemoryInv
<1>5. QueueInv
  <2>1. Seen = 0
    <3>1. lastTotal = -1 /\ polled.first = -1
      BY <1>1
    <3> QED BY <3>1 DEF Seen
  <2> QED BY <1>2, <2>1 DEF QueueInv
<1>6. BurstInv
  <2>1. Len(hist) <= HistLen
    BY <1>2, StatsNumbers
  <2> QED BY <1>2, <2>1 DEF BurstInv, Follows
<1>7. SaidInv
  <2>1. rate \in [mints : 0..EventsLen, span : 0..Window]
    <3>1. 0 \in 0..EventsLen /\ 0 \in 0..Window
      BY StatsNumbers
    <3> QED BY <1>1, <3>1
  <2>2. polled.well = FALSE
    BY <1>1
  <2>3. trend = P!TrendOf(hist)
    <3>1. Len(hist) < 5
      BY <1>2
    <3>2. trend = ""
      BY <1>1
    <3> QED BY <3>1, <3>2 DEF P!TrendOf
  <2> QED BY <2>1, <2>2, <2>3 DEF SaidInv
<1> QED BY <1>3, <1>4, <1>5, <1>6, <1>7 DEF StatsInv

LEMMA StatsStutters ==
    ASSUME StatsInv, UNCHANGED <<now, lastTotal, regressed, statsOnly>>
    PROVE  StatsInv'
<1> USE DEF statsOnly
<1>1. ClockInv' /\ CrowdInv'
  BY DEF StatsInv, ClockInv, CrowdInv
<1>2. MemoryInv'
  BY DEF StatsInv, MemoryInv
<1>3. QueueInv'
  BY DEF StatsInv, QueueInv, Noted, Seen
<1>4. BurstInv'
  BY DEF StatsInv, BurstInv, Follows, MintAfter, QuietAfter
<1>5. SaidInv'
  BY DEF StatsInv, SaidInv
<1> QED BY <1>1, <1>2, <1>3, <1>4, <1>5 DEF StatsInv

LEMMA PollKeepsSaid ==
    ASSUME ClockInv', MemoryInv', NEW k, NEW b, NEW n, PollWith(k, b, n)
    PROVE  SaidInv'
<1>1. rate' = P!RateOf(events', now') /\ trend' = P!TrendOf(hist')
  BY DEF PollWith
<1>2. PICK evts, t : evts = events' /\ t = now'
  OBVIOUS
<1>3. evts \in Seq(1..MaxTime) /\ Len(evts) <= EventsLen /\ t \in Nat
  BY <1>2, StatsNumbers DEF MemoryInv, ClockInv
<1>4. \A j \in DOMAIN evts : evts[j] <= t
  BY <1>2 DEF MemoryInv
<1>5. P!RateOf(evts, t) \in [mints : 0..EventsLen, span : 0..Window]
  BY <1>3, <1>4, RateType
<1> QED BY <1>1, <1>2, <1>5 DEF SaidInv

LEMMA StatsStep ==
    ASSUME StatsInv, P!Next
    PROVE  StatsInv'
<1>0. ClockInv /\ CrowdInv /\ MemoryInv /\ QueueInv /\ BurstInv /\ SaidInv
  BY DEF StatsInv
<1>1. CASE P!Poll
  <2>1. PICK k \in 0..MintsPerPoll, b \in 0..MaxBurst, n \in Nat : PollWith(k, b, n)
    BY <1>1, PollIsWith
  <2>2. P!Pass(k, b) /\ late' \in 0..MaxLate
    <3>1. late \in 0..MaxLate /\ late' <= MaxLate /\ (late' = late + 1 \/ late' = late)
      BY <1>0, <2>1 DEF PollWith, ClockInv
    <3> QED BY <2>1, <3>1, StatsNumbers DEF PollWith
  <2>3. ClockInv' /\ CrowdInv'
    BY <1>0, <2>2, PassKeepsClock, PassKeepsCrowd
  <2>4. MemoryInv' /\ QueueInv'
    BY <1>0, <2>1, PollKeepsMemory, PollKeepsQueue
  <2>5. BurstInv'
    BY <1>0, <2>1, PollKeepsBurst
  <2>6. SaidInv'
    BY <2>1, <2>3, <2>4, PollKeepsSaid
  <2> QED BY <2>3, <2>4, <2>5, <2>6 DEF StatsInv
<1>2. CASE P!Miss
  <2>1. PICK k \in 0..MintsPerPoll, b \in 0..MaxBurst : P!Pass(k, b)
    BY <1>2 DEF P!Miss
  <2>2. late' \in 0..MaxLate
    <3>1. late < MaxLate /\ late' = late + 1
      BY <1>2 DEF P!Miss
    <3>2. late \in 0..MaxLate
      BY <1>0 DEF ClockInv
    <3> QED BY <3>1, <3>2, StatsNumbers
  <2>3. ClockInv' /\ CrowdInv'
    BY <1>0, <2>1, <2>2, PassKeepsClock, PassKeepsCrowd
  <2>4. MemoryInv' /\ QueueInv' /\ BurstInv'
    BY <1>0, <1>2, MissKeepsQueue, MissKeepsBurst
  <2>5. SaidInv'
    <3>1. polled'.well = FALSE /\ rate' = rate /\ trend' = trend /\ hist' = hist
      BY <1>0, <1>2 DEF P!Miss, MemoryInv
    <3> QED BY <1>0, <3>1 DEF SaidInv
  <2> QED BY <2>3, <2>4, <2>5 DEF StatsInv
<1>3. CASE P!Over
  BY <1>3, StatsStutters DEF P!Over, P!vars, statsOnly
<1> QED BY <1>1, <1>2, <1>3 DEF P!Next

-----------------------------------------------------------------------------
(* What follows for the statistics.                                        *)

\* The places that MintsSeen counts.
SeenFrom(from) == {i \in (polled.first + 1)..lastTotal : mints[i] >= from}

LEMMA SeenIsCounted == \A from : P!MintsSeen(from) = Cardinality(SeenFrom(from))
BY DEF P!MintsSeen, SeenFrom, P!Cardinality, Cardinality

\* The numbers of a poll that went well.
LEMMA WellNumbers ==
    ASSUME StatsInv, polled.well
    PROVE  /\ now \in Nat /\ late \in Nat /\ Window \in Nat
           /\ Len(mints) \in Nat /\ DOMAIN mints = 1..Len(mints)
           /\ \A i \in 1..Len(mints) : mints[i] \in Nat /\ mints[i] <= now
           /\ lastTotal \in Nat /\ lastTotal <= Len(mints) /\ polled.first \in Nat
           /\ Len(events) \in Nat /\ DOMAIN events = 1..Len(events)
           /\ Len(events) <= EventsLen
           /\ \A j \in 1..Len(events) : events[j] \in Nat /\ events[j] <= now
           /\ rate = P!RateOf(events, now)
           /\ P!Recent(events, now) \subseteq 1..Len(events)
           /\ rate.mints = Cardinality(P!Recent(events, now))
<1>1. ClockInv /\ MemoryInv
  BY DEF StatsInv
<1>2. now \in Nat /\ late \in Nat /\ Window \in Nat /\ mints \in Seq(1..MaxTime)
  BY <1>1, StatsNumbers DEF ClockInv
<1>3. /\ Len(mints) \in Nat /\ DOMAIN mints = 1..Len(mints)
      /\ \A i \in 1..Len(mints) : mints[i] \in 1..MaxTime
  BY <1>2, LenProperties, ElementOfSeq
<1>4. \A i \in 1..Len(mints) : mints[i] \in Nat /\ mints[i] <= now
  BY <1>1, <1>3, StatsNumbers DEF ClockInv
<1>5. lastTotal # -1
  BY <1>1 DEF MemoryInv
<1>6. lastTotal \in Nat /\ lastTotal <= Len(mints) /\ polled.first \in Nat
  BY <1>1, <1>3, <1>5, MemoryNumbers
<1>7. /\ Len(events) \in Nat /\ DOMAIN events = 1..Len(events) /\ Len(events) <= EventsLen
      /\ \A j \in 1..Len(events) : events[j] \in Nat /\ events[j] <= now
  BY <1>1, MemoryNumbers
<1>8. rate = P!RateOf(events, now)
  BY DEF StatsInv, SaidInv
<1>9. P!Recent(events, now) \subseteq 1..Len(events)
  BY <1>7 DEF P!Recent
<1>10. rate.mints = Cardinality(P!Recent(events, now))
  <2>1. rate.mints = P!Cardinality(P!Recent(events, now))
    BY <1>8 DEF P!RateOf
  <2> QED BY <2>1 DEF P!Cardinality, Cardinality
<1> QED BY <1>2, <1>3, <1>4, <1>6, <1>7, <1>8, <1>9, <1>10

LEMMA RateIsRight == ASSUME StatsInv PROVE P!RateCountsTheWindow
<1> SUFFICES ASSUME polled.well
             PROVE  /\ rate.mints >= P!MintsSeen(now - Window)
                    /\ ~regressed => rate.mints <= P!MintsSeen(now - Window - late)
  BY DEF P!RateCountsTheWindow
<1> DEFINE L == Len(mints)
           T == lastTotal
           e == Len(events)
           recent == P!Recent(events, now)
           low == SeenFrom(now - Window)
           high == SeenFrom(now - Window - late)
<1>1. /\ now \in Nat /\ late \in Nat /\ L \in Nat /\ DOMAIN mints = 1..L
      /\ \A i \in 1..L : mints[i] \in Nat /\ mints[i] <= now
      /\ T \in Nat /\ T <= L /\ polled.first \in Nat
      /\ e \in Nat /\ e <= EventsLen /\ DOMAIN events = 1..e
      /\ \A j \in 1..e : events[j] \in Nat
      /\ rate.mints = Cardinality(recent)
  BY WellNumbers
<1>2. /\ recent \subseteq 1..e /\ low \subseteq 1..T /\ high \subseteq 1..T
      /\ T - e \in Int /\ e - T \in Int /\ Window \in Nat
  BY <1>1, WellNumbers DEF SeenFrom
<1>3. /\ e = EventsLen \/ e >= T - polled.first
      /\ ~regressed => e <= T - polled.first
      /\ \A i \in 1..L, j \in 1..e : i = T - e + j => Noted(i, j)
  BY <1>1 DEF StatsInv, QueueInv, Seen
\* A mint of the window is still in the queue.
<1>4. ASSUME NEW i \in low PROVE i + (e - T) \in recent
  <2>1. i \in 1..T /\ i \in 1..L /\ i > polled.first /\ mints[i] >= now - Window /\ mints[i] \in Nat
    BY <1>1 DEF SeenFrom
  <2>2. L + 1 - i <= MintsPerPoll * (now + 1 - mints[i])
    BY <1>1, <2>1 DEF StatsInv, CrowdInv
  <2>3. MintsPerPoll * (now + 1 - mints[i]) <= MintsPerPoll * (Window + 1)
    <3>1. now + 1 - mints[i] \in Int /\ now + 1 - mints[i] <= Window + 1
      BY <1>1, <1>2, <2>1
    <3>2. \A m \in Nat, x, y \in Int : x <= y => m * x <= m * y
      OBVIOUS
    <3> QED BY <1>2, <3>1, <3>2, StatsNumbers
  <2>4. MintsPerPoll * (Window + 1) <= EventsLen
    BY MonitorsAssumption DEF MonitorsAssumption
  <2>5. L + 1 - i <= EventsLen
    <3>1. /\ MintsPerPoll * (now + 1 - mints[i]) \in Int /\ MintsPerPoll * (Window + 1) \in Int
          /\ EventsLen \in Int
      BY <1>1, <1>2, <2>1, StatsNumbers
    <3> QED BY <1>1, <2>1, <2>2, <2>3, <2>4, <3>1
  <2>6. i > T - e
    <3> HIDE DEF L, T, e
    <3> QED BY <1>1, <1>3, <2>1, <2>5
  <2> DEFINE j == i + (e - T)
  <2>7. j \in 1..e /\ i = T - e + j
    BY <1>1, <2>1, <2>6
  <2>8. mints[i] <= events[j]
    BY <1>3, <2>1, <2>7 DEF Noted
  <2>9. now - events[j] <= Window
    <3>1. events[j] \in Nat
      BY <1>1, <2>7
    <3> HIDE DEF j
    <3> QED BY <1>1, <1>2, <2>1, <2>8, <3>1
  <2> QED BY <1>1, <2>7, <2>9 DEF P!Recent
\* What is in the queue was minted not long before.
<1>5. ASSUME ~regressed, NEW j \in recent PROVE j + (T - e) \in high
  <2>1. j \in 1..e /\ now - events[j] <= Window
    BY <1>1 DEF P!Recent
  <2> DEFINE i == j + (T - e)
  <2>2. i \in (polled.first + 1)..T /\ i \in 1..L /\ i = T - e + j
    <3>1. j \in Nat /\ j >= 1 /\ j <= e /\ e \in Nat /\ T \in Int /\ T <= L /\ L \in Nat
      BY <1>1, <1>3, <2>1
    <3>2. e <= T - polled.first /\ polled.first \in Int /\ polled.first >= 0
      BY <1>1, <1>3, <1>5
    <3> HIDE DEF L, T, e
    <3> QED BY <3>1, <3>2
  <2>3. events[j] <= mints[i] + late
    BY <1>3, <1>5, <2>1, <2>2 DEF Noted
  <2>4. mints[i] >= now - Window - late
    <3>1. events[j] \in Nat /\ mints[i] \in Nat
      BY <1>1, <2>1, <2>2
    <3> HIDE DEF i
    <3> QED BY <1>1, <1>2, <2>1, <2>3, <3>1
  <2> QED BY <2>2, <2>4 DEF SeenFrom
<1> HIDE DEF recent, low, high, L, e, T
<1>6. Cardinality(low) <= Cardinality(recent)
  BY <1>1, <1>2, <1>4, MovedPlaces
<1>7. ~regressed => Cardinality(recent) <= Cardinality(high)
  BY <1>1, <1>2, <1>5, MovedPlaces
<1>8. /\ P!MintsSeen(now - Window) = Cardinality(low)
      /\ P!MintsSeen(now - Window - late) = Cardinality(high)
  BY SeenIsCounted DEF low, high
<1>9. Cardinality(low) \in Nat /\ Cardinality(recent) \in Nat /\ Cardinality(high) \in Nat
  BY <1>1, <1>2, PlacesAreFinite, FS_Subset, FS_CardinalityType
<1> QED BY <1>1, <1>6, <1>7, <1>8, <1>9

\* The events of the window are the last ones of the queue.
LEMMA RecentIsTheEnd ==
    ASSUME StatsInv, polled.well, rate.mints >= 2
    PROVE  LET oldest == Len(events) + 1 - rate.mints
           IN  oldest \in 1..Len(events) /\ rate.span = now - events[oldest]
<1> DEFINE e == Len(events)
           recent == P!Recent(events, now)
           first1 == CHOOSE i \in recent : \A j \in recent : i <= j
<1>1. /\ now \in Nat /\ Window \in Nat /\ e \in Nat /\ DOMAIN events = 1..e
      /\ \A j \in 1..e : events[j] \in Nat
      /\ rate = P!RateOf(events, now)
      /\ recent \subseteq 1..e /\ rate.mints = Cardinality(recent)
  BY WellNumbers
<1>2. \A a, c \in 1..e : a < c => events[a] <= events[c]
  BY <1>1 DEF StatsInv, MemoryInv
<1>3. rate.span = now - events[first1]
  <2>1. P!RateOf(events, now).span =
          IF P!Cardinality(recent) >= 2 THEN now - events[first1] ELSE 0
    BY DEF P!RateOf
  <2>2. P!Cardinality(recent) = Cardinality(recent)
    BY DEF P!Cardinality, Cardinality
  <2> QED BY <1>1, <2>1, <2>2
<1>4. recent # {}
  <2>1. IsFiniteSet(recent)
    BY <1>1, PlacesAreFinite, FS_Subset
  <2>2. Cardinality(recent) # 0
    BY <1>1
  <2> HIDE DEF recent
  <2> QED BY <2>1, <2>2, FS_EmptySet, Zenon
<1>5. \E i \in recent : \A j \in recent : i <= j
  <2>1. recent \subseteq Nat
    BY <1>1
  <2> HIDE DEF recent
  <2> QED BY <1>4, <2>1, FirstPlace
<1>6. first1 \in recent /\ \A j \in recent : first1 <= j
  <2> HIDE DEF recent
  <2> QED BY <1>5
<1>7. PICK m : m = first1
  OBVIOUS
<1>8. m \in recent /\ m \in 1..e /\ \A j \in recent : m <= j
  BY <1>1, <1>6, <1>7
<1>9. recent = m..e
  <2>1. recent \subseteq m..e
    BY <1>1, <1>8
  <2>2. ASSUME NEW j \in m..e PROVE j \in recent
    <3>1. j \in 1..e /\ (j = m \/ m < j) /\ events[j] \in Nat /\ events[m] \in Nat
      BY <1>1, <1>8
    <3>2. events[m] <= events[j]
      BY <1>2, <1>8, <3>1
    <3>3. now - events[m] <= Window
      BY <1>8 DEF P!Recent
    <3>4. now - events[j] <= Window
      BY <1>1, <3>1, <3>2, <3>3
    <3> QED BY <1>1, <3>1, <3>4 DEF P!Recent
  <2> QED BY <2>1, <2>2
<1>10. Cardinality(m..e) = e - m + 1
  BY <1>1, <1>8, FS_Interval
<1>11. m = e + 1 - rate.mints
  BY <1>1, <1>8, <1>9, <1>10
<1> QED BY <1>3, <1>7, <1>8, <1>11

LEMMA SpanIsRight == ASSUME StatsInv PROVE P!RateSpansItsMints
<1> SUFFICES ASSUME polled.well, ~regressed, rate.mints >= 2
             PROVE  LET oldest == mints[lastTotal + 1 - rate.mints]
                    IN  rate.span <= now - oldest /\ now - oldest <= rate.span + late
  BY DEF P!RateSpansItsMints
<1> DEFINE j == Len(events) + 1 - rate.mints
           i == lastTotal + 1 - rate.mints
<1>1. /\ now \in Nat /\ late \in Nat /\ Len(mints) \in Nat /\ DOMAIN mints = 1..Len(mints)
      /\ \A p \in 1..Len(mints) : mints[p] \in Nat
      /\ lastTotal \in Nat /\ lastTotal <= Len(mints) /\ polled.first \in Nat
      /\ Len(events) \in Nat /\ DOMAIN events = 1..Len(events)
      /\ \A p \in 1..Len(events) : events[p] \in Nat
  BY WellNumbers
<1>2. j \in 1..Len(events) /\ rate.span = now - events[j]
  BY RecentIsTheEnd
<1>3. rate.mints \in Nat
  BY DEF StatsInv, SaidInv
<1>4. Len(events) <= lastTotal - polled.first
  BY DEF StatsInv, QueueInv, Seen
<1>5. i \in 1..Len(mints) /\ i = lastTotal - Len(events) + j
  <2>1. PICK r \in Nat, e \in Nat : r = rate.mints /\ e = Len(events)
    BY <1>1, <1>3
  <2>2. e + 1 - r >= 1 /\ r >= 2 /\ e <= lastTotal
    BY <1>1, <1>2, <1>4, <2>1
  <2>3. i = lastTotal + 1 - r /\ j = e + 1 - r
    BY <2>1
  <2> HIDE DEF i, j
  <2>4. i \in 1..Len(mints)
    BY <1>1, <2>2, <2>3
  <2>5. i = lastTotal - e + j
    BY <1>1, <2>3
  <2> QED BY <2>1, <2>4, <2>5
<1>6. Noted(i, j)
  BY <1>1, <1>2, <1>5 DEF StatsInv, QueueInv
<1>7. mints[i] \in Nat /\ events[j] \in Nat
  BY <1>1, <1>2, <1>5
<1> HIDE DEF i, j
<1>8. mints[i] <= events[j] /\ events[j] <= mints[i] + late
  BY <1>6 DEF Noted
<1>9. rate.span <= now - mints[i] /\ now - mints[i] <= rate.span + late
  BY <1>1, <1>2, <1>7, <1>8
<1> QED BY <1>9 DEF i

\* Of two sums of three, the greater has a greater term.
LEMMA ThreeAndThree ==
    ASSUME NEW a \in Nat, NEW b \in Nat, NEW c \in Nat,
           NEW x \in Nat, NEW y \in Nat, NEW z \in Nat
    PROVE  /\ 2 * (x + y + z) > 2 * (a + b + c) + 3 => x > a \/ y > b \/ z > c
           /\ 2 * (x + y + z) < 2 * (a + b + c) - 3 => x < a \/ y < b \/ z < c
OBVIOUS

\* If the last three samples outweigh the first three, one of them does its
\* counterpart, which is an earlier sample.
LEMMA OneOutweighs ==
    ASSUME NEW h \in Seq(Samples), Len(h) >= 5
    PROVE  /\ P!Rises(h) => \E a, c \in DOMAIN h : a < c /\ h[c].burst > h[a].burst
           /\ P!Falls(h) => \E a, c \in DOMAIN h : a < c /\ h[c].burst < h[a].burst
<1> DEFINE n == Len(h)
<1>1. n \in Nat /\ n >= 5 /\ DOMAIN h = 1..n
  BY LenProperties
<1>2. \A a \in 1..n : h[a].burst \in Nat
  <2>1. \A a \in 1..n : h[a] \in Samples
    BY ElementOfSeq, LenProperties
  <2> QED BY <2>1, StatsNumbers DEF Samples
<1>3. \A p \in 1..3 : p \in 1..n /\ n - 3 + p \in 1..n /\ p < n - 3 + p
  BY <1>1
<1>4. /\ P!Oldest(h) = h[0 + 1].burst + h[0 + 2].burst + h[0 + 3].burst
      /\ P!Newest(h) = h[n - 3 + 1].burst + h[n - 3 + 2].burst + h[n - 3 + 3].burst
  BY DEF P!Oldest, P!Newest, P!BurstSum
<1> DEFINE old(p) == h[p].burst
           new(p) == h[n - 3 + p].burst
<1>5. /\ P!Oldest(h) = old(1) + old(2) + old(3)
      /\ P!Newest(h) = new(1) + new(2) + new(3)
  BY <1>4
<1>6. /\ old(1) \in Nat /\ old(2) \in Nat /\ old(3) \in Nat
      /\ new(1) \in Nat /\ new(2) \in Nat /\ new(3) \in Nat
  BY <1>2, <1>3
<1>7. ASSUME NEW p \in 1..3
      PROVE  p \in DOMAIN h /\ n - 3 + p \in DOMAIN h /\ p < n - 3 + p
  BY <1>1, <1>3
<1>8. ASSUME P!Rises(h) PROVE \E p \in 1..3 : new(p) > old(p)
  <2> HIDE DEF old, new
  <2>1. new(1) > old(1) \/ new(2) > old(2) \/ new(3) > old(3)
    BY <1>5, <1>6, <1>8, ThreeAndThree DEF P!Rises
  <2> QED BY <2>1
<1>9. ASSUME P!Falls(h) PROVE \E p \in 1..3 : new(p) < old(p)
  <2> HIDE DEF old, new
  <2>1. new(1) < old(1) \/ new(2) < old(2) \/ new(3) < old(3)
    BY <1>5, <1>6, <1>9, ThreeAndThree DEF P!Falls
  <2> QED BY <2>1
<1> QED BY <1>7, <1>8, <1>9

LEMMA TrendIsRight == ASSUME StatsInv PROVE P!TrendNeedsCause
<1>1. PICK h : h = hist
  OBVIOUS
<1>2. Follows(h) /\ h \in Seq(Samples) /\ trend = P!TrendOf(h) /\ now \in Nat
  BY <1>1, StatsNumbers DEF StatsInv, BurstInv, Follows, SaidInv, ClockInv
<1>3. Len(h) \in Nat /\ DOMAIN h = 1..Len(h) /\ \A a \in DOMAIN h : h[a].at \in Nat
  <2>1. Len(h) \in Nat /\ DOMAIN h = 1..Len(h) /\ \A a \in DOMAIN h : h[a] \in Samples
    BY <1>2, LenProperties, ElementOfSeq
  <2> QED BY <2>1, StatsNumbers DEF Samples
<1>4. /\ trend = "UP" => Len(h) >= 5 /\ P!Rises(h)
      /\ trend = "DOWN" => Len(h) >= 5 /\ P!Falls(h)
  <2>1. CASE Len(h) < 5
    <3>1. trend = ""
      BY <1>2, <2>1 DEF P!TrendOf
    <3> QED BY <3>1
  <2>2. CASE ~(Len(h) < 5)
    <3>1. trend = IF P!Falls(h) THEN "DOWN" ELSE IF P!Rises(h) THEN "UP" ELSE "flat"
      BY <1>2, <2>2 DEF P!TrendOf
    <3>2. Len(h) >= 5
      BY <1>3, <2>2
    <3> QED BY <3>1, <3>2
  <2> QED BY <2>1, <2>2
<1>5. ASSUME NEW a \in DOMAIN h PROVE 1 \in DOMAIN h /\ h[1].at <= h[a].at
  <2>1. 1 \in DOMAIN h /\ (a = 1 \/ 1 < a)
    BY <1>3
  <2> QED BY <1>2, <1>3, <2>1 DEF Follows
<1>6. ASSUME trend = "UP" PROVE \E i \in DOMAIN mints : mints[i] > hist[1].at
  <2>1. PICK a, c \in DOMAIN h : a < c /\ h[c].burst > h[a].burst
    BY <1>2, <1>4, <1>6, OneOutweighs
  <2>2. MintAfter(h[a].at)
    BY <1>2, <2>1 DEF Follows
  <2>3. PICK i \in DOMAIN mints : mints[i] > h[a].at
    BY <2>2 DEF MintAfter
  <2>4. mints[i] \in Nat
    <3>1. mints \in Seq(1..MaxTime)
      BY DEF StatsInv, ClockInv
    <3> QED BY <3>1, LenProperties, ElementOfSeq, StatsNumbers
  <2> QED BY <1>1, <1>3, <1>5, <2>3, <2>4
<1>7. ASSUME trend = "DOWN"
      PROVE  \E t \in 1..now : t > hist[1].at /\ \A i \in DOMAIN mints : mints[i] # t
  <2>1. PICK a, c \in DOMAIN h : a < c /\ h[c].burst < h[a].burst
    BY <1>2, <1>4, <1>7, OneOutweighs
  <2>2. QuietAfter(h[a].at)
    BY <1>2, <2>1 DEF Follows
  <2>3. PICK t \in 1..now : t > h[a].at /\ \A i \in DOMAIN mints : mints[i] # t
    BY <2>2 DEF QuietAfter
  <2>4. t > hist[1].at
    BY <1>1, <1>2, <1>3, <1>5, <2>3
  <2> QED BY <2>3, <2>4
<1> QED BY <1>6, <1>7 DEF P!TrendNeedsCause

LEMMA StatsTyped == ASSUME StatsInv PROVE P!TypeOK
<1>1. now \in 0..MaxTime /\ burst \in 0..MaxBurst /\ late \in 0..MaxLate
      /\ mints \in Seq(1..MaxTime) /\ lastTotal \in -1..P!Total
  BY DEF StatsInv, ClockInv, MemoryInv, P!Total
<1>2. Len(hist) <= HistLen /\ Len(events) <= EventsLen
  BY DEF StatsInv, BurstInv, MemoryInv
<1>3. rate \in [mints : 0..EventsLen, span : 0..Window] /\ trend = P!TrendOf(hist)
  BY DEF StatsInv, SaidInv
<1>4. trend \in {"", "UP", "DOWN", "flat"}
  BY <1>3 DEF P!TrendOf
<1> QED BY <1>1, <1>2, <1>3, <1>4 DEF P!TypeOK

-----------------------------------------------------------------------------
(* The constants that analyze.py is given.                                 *)

LEMMA RowNumbers ==
    /\ {BitsOpen, BitsApproaching, 1, 0, 2} \subseteq Nat /\ RowDifficulties \subseteq Nat
    /\ MaxRows \in Nat /\ AP!WatcherAssumption
BY WatcherAssumption, MonitorsAssumption
   DEF WatcherAssumption, MonitorsAssumption, AP!WatcherAssumption

-----------------------------------------------------------------------------
(* The inductive invariant: the one of the program that runs, and that the *)
(* others' variables are as they were.                                     *)

MonitorInv ==
    /\ monitor \in {"watcher", "analyze", "stats", "sample"}
    /\ Is("watcher") => WP!WatcherTyped /\ WP!AnnouncedInv /\ WP!CountInv
    /\ Is("analyze") => AP!AnalyzeInv /\ AP!AnnouncedInv /\ AP!CountInv
    /\ Is("stats") => StatsInv
    /\ Is("sample") => SampleInv
    /\ ~Is("analyze") => rows = <<>>
    /\ monitor \in {"stats", "sample"} => lastRow = "none" /\ first = -1

LEMMA MonitorInvInit == ASSUME MonitorInit PROVE MonitorInv
<1>1. /\ monitor \in {"watcher", "analyze", "stats", "sample"}
      /\ ~Is("analyze") => rows = <<>>
      /\ monitor \in {"stats", "sample"} => lastRow = "none" /\ first = -1
  BY DEF MonitorInit, Unused, Is
<1>2. ASSUME Is("watcher") PROVE WP!WatcherTyped /\ WP!AnnouncedInv /\ WP!CountInv
  BY <1>2, WatcherAssumption, WatcherSame, WP!WatcherTypedInit, WP!AnnouncedInit, WP!CountInit
     DEF MonitorInit, Is
<1>3. ASSUME Is("analyze") PROVE AP!AnalyzeInv /\ AP!AnnouncedInv /\ AP!CountInv
  <2>1. AP!AnalyzeInit /\ AP!Init
    BY <1>3, AnalyzeSame DEF MonitorInit, Is, AP!AnalyzeInit
  <2> QED BY <2>1, RowNumbers, AP!AnalyzeInvInit, AP!AnnouncedInit, AP!CountInit
<1>4. ASSUME Is("sample") PROVE SampleInv
  BY <1>4, SampleInit DEF MonitorInit, Is
<1>5. ASSUME Is("stats") PROVE StatsInv
  BY <1>5, StatsInit DEF MonitorInit, Is
<1> QED BY <1>1, <1>2, <1>3, <1>4, <1>5 DEF MonitorInv

\* A step of the watcher.
LEMMA WatcherRunsOn ==
    ASSUME WP!WatcherTyped, WP!AnnouncedInv, WP!CountInv, Next
    PROVE  WP!WatcherTyped' /\ WP!AnnouncedInv' /\ WP!CountInv'
<1>1. WP!Next
  BY WatcherSame
<1>2. WP!WorldType /\ WP!NumberType /\ WP!FlagType
  BY WatcherAssumption, WP!TypeParts DEF WP!WatcherTyped
<1> QED BY <1>1, <1>2, WatcherAssumption, WP!WatcherTypedStep, WP!AnnouncedStep, WP!CountStep

\* A step of the watcher or of analyze.py beside it.
LEMMA AnalyzeRunsOn ==
    ASSUME AP!AnalyzeInv, AP!AnnouncedInv, AP!CountInv, A!AnalyzeNext
    PROVE  AP!AnalyzeInv' /\ AP!AnnouncedInv' /\ AP!CountInv'
<1>1. AP!AnalyzeNext
  BY AnalyzeSame
<1>2. AP!AnalyzeInv'
  BY <1>1, RowNumbers, AP!AnalyzeInvStep
<1>3. AP!WorldType /\ AP!NumberType /\ AP!FlagType
  BY RowNumbers, AP!TypeParts DEF AP!AnalyzeInv, AP!WatcherTyped
<1>4. CASE AP!WatcherActs
  <2>1. AP!Next
    BY <1>4 DEF AP!WatcherActs
  <2> QED BY <1>2, <1>3, <2>1, RowNumbers, AP!AnnouncedStep, AP!CountStep
<1>5. CASE AP!Analyze
  <2>1. UNCHANGED AP!vars
    BY <1>5 DEF AP!Analyze
  <2>2. AP!AnnouncedInv'
    BY <2>1 DEF AP!AnnouncedInv, AP!OpenWindowsAreAnnounced, AP!RowUnfinished, AP!vars,
       AP!memoryVars, AP!fileVars
  <2>3. AP!CountInv'
    BY <2>1 DEF AP!CountInv, AP!vars, AP!worldVars, AP!memoryVars
  <2> QED BY <1>2, <2>2, <2>3
<1> QED BY <1>1, <1>4, <1>5 DEF AP!AnalyzeNext

\* The invariant sees nothing but its variables.
LEMMA MonitorStutters ==
    ASSUME MonitorInv, UNCHANGED monitorVars
    PROVE  MonitorInv'
<1> USE DEF monitorVars, analyzeOnly, sampleOnly, vars, worldVars, memoryVars, fileVars
<1>1. UNCHANGED monitor /\ (~Is("analyze") => rows = <<>>)'
      /\ (monitor \in {"stats", "sample"} => lastRow = "none" /\ first = -1)'
  BY DEF MonitorInv, Is
<1>2. ASSUME Is("watcher") PROVE WP!WatcherTyped' /\ WP!AnnouncedInv' /\ WP!CountInv'
  <2>1. WP!WatcherTyped /\ WP!AnnouncedInv /\ WP!CountInv
    BY <1>2 DEF MonitorInv
  <2>2. WP!WatcherTyped'
    BY <2>1, WatcherAssumption, WP!WatcherStutters
       DEF WP!vars, WP!worldVars, WP!memoryVars, WP!fileVars
  <2>3. WP!AnnouncedInv'
    BY <2>1 DEF WP!AnnouncedInv, WP!OpenWindowsAreAnnounced, WP!RowUnfinished
  <2>4. WP!CountInv'
    BY <2>1 DEF WP!CountInv
  <2> QED BY <2>2, <2>3, <2>4
<1>3. ASSUME Is("analyze") PROVE AP!AnalyzeInv' /\ AP!AnnouncedInv' /\ AP!CountInv'
  <2>1. AP!AnalyzeInv /\ AP!AnnouncedInv /\ AP!CountInv
    BY <1>3 DEF MonitorInv
  <2>2. AP!AnalyzeInv'
    BY <2>1, RowNumbers, AP!AnalyzeInvStutters
       DEF AP!analyzeVars, AP!vars, AP!worldVars, AP!memoryVars, AP!fileVars
  <2>3. AP!AnnouncedInv'
    BY <2>1 DEF AP!AnnouncedInv, AP!OpenWindowsAreAnnounced, AP!RowUnfinished
  <2>4. AP!CountInv'
    BY <2>1 DEF AP!CountInv
  <2> QED BY <2>2, <2>3, <2>4
<1>4. ASSUME Is("sample") PROVE SampleInv'
  BY <1>4 DEF MonitorInv, SampleInv, CountedInv, OrderInv, Ordered, F!TypeOK, F!EachMintOnce,
     F!QuantilesInOrder
<1>5. ASSUME Is("stats") PROVE StatsInv'
  BY <1>5, StatsStutters DEF MonitorInv
<1> QED BY <1>1, <1>2, <1>3, <1>4, <1>5 DEF MonitorInv, Is

LEMMA MonitorInvStep ==
    ASSUME MonitorInv, [MonitorNext]_monitorVars
    PROVE  MonitorInv'
<1>1. CASE Is("watcher") /\ Next /\ UNCHANGED <<analyzeOnly, now, statsOnly, sampleOnly>>
            /\ UNCHANGED monitor
  <2>1. WP!WatcherTyped' /\ WP!AnnouncedInv' /\ WP!CountInv'
    BY <1>1, WatcherRunsOn DEF MonitorInv
  <2> QED BY <1>1, <2>1 DEF MonitorInv, Is, analyzeOnly
<1>2. CASE Is("analyze") /\ A!AnalyzeNext /\ UNCHANGED monitor
  <2>1. AP!AnalyzeInv' /\ AP!AnnouncedInv' /\ AP!CountInv'
    BY <1>2, AnalyzeRunsOn DEF MonitorInv
  <2> QED BY <1>2, <2>1 DEF MonitorInv, Is
<1>3. CASE Is("stats") /\ P!Next /\ UNCHANGED <<watcherOnly, analyzeOnly>> /\ UNCHANGED monitor
  <2>1. StatsInv'
    BY <1>3, StatsStep DEF MonitorInv
  <2> QED BY <1>3, <2>1 DEF MonitorInv, Is, watcherOnly, fileVars, analyzeOnly
<1>4. CASE Is("sample") /\ F!Next /\ UNCHANGED <<watcherOnly, analyzeOnly>> /\ UNCHANGED monitor
  <2>1. SampleInv'
    BY <1>4, SampleStep DEF MonitorInv
  <2> QED BY <1>4, <2>1 DEF MonitorInv, Is, watcherOnly, fileVars, analyzeOnly
<1>5. CASE UNCHANGED monitorVars
  BY <1>5, MonitorStutters
<1> QED BY <1>1, <1>2, <1>3, <1>4, <1>5 DEF MonitorNext

LEMMA MonitorInvAlways == MonitorSpec => []MonitorInv
BY MonitorInvInit, MonitorInvStep, PTL DEF MonitorSpec

-----------------------------------------------------------------------------
(* The theorems.                                                           *)

\* A window that the CSV records as OPEN was announced since the last row that
\* was not, whatever failed, was killed or was connected anew in between; the
\* one exception is the poll that failed behind its row.
THEOREM AnnouncementsSafe == MonitorSpec => []OpenWindowsAreAnnounced
<1>1. MonitorInv => OpenWindowsAreAnnounced
  BY WatcherSame DEF MonitorInv, WP!AnnouncedInv, AP!AnnouncedInv,
     AP!OpenWindowsAreAnnounced, OpenWindowsAreAnnounced, Is
<1> QED BY <1>1, MonitorInvAlways, PTL

\* No mint is counted twice, over failed polls and reconnects, as long as no
\* node made the total go back.
THEOREM CountsSafe == MonitorSpec => []MintsCountedOnce
<1>1. ASSUME MonitorInv, Is("watcher") PROVE MintsCountedOnce
  <2>1. WP!WatcherTyped /\ WP!CountInv
    BY <1>1 DEF MonitorInv
  <2> QED BY <2>1, WatcherSame, WatcherAssumption, WP!TypeParts, WP!CountIsRight
          DEF WP!WatcherTyped
<1>2. ASSUME MonitorInv, Is("analyze") PROVE MintsCountedOnce
  <2>1. AP!WatcherTyped /\ AP!CountInv
    BY <1>2 DEF MonitorInv, AP!AnalyzeInv
  <2>2. AP!MintsCountedOnce
    BY <2>1, RowNumbers, AP!TypeParts, AP!CountIsRight DEF AP!WatcherTyped
  <2> QED BY <2>2 DEF AP!MintsCountedOnce, MintsCountedOnce
<1>3. MonitorInv => MintsCountedOnce
  BY <1>1, <1>2 DEF MonitorInv, Is, MintsCountedOnce
<1> QED BY <1>3, MonitorInvAlways, PTL

\* No report of analyze.py shows less than one before it.
THEOREM ReportsSafe == MonitorSpec => ReportsOnlyGrow
<1>1. ASSUME MonitorInv, [MonitorNext]_monitorVars
      PROVE  [report'.samples >= report.samples /\ report'.open >= report.open]_report
  <2>1. CASE Is("analyze") /\ A!AnalyzeNext
    <3>1. AP!AnalyzeInv /\ AP!AnalyzeNext
      BY <1>1, <2>1, AnalyzeSame DEF MonitorInv
    <3> QED BY <3>1, RowNumbers, AP!ReportGrows
  <2>2. CASE UNCHANGED report
    BY <2>2
  <2> QED BY <1>1, <2>1, <2>2 DEF MonitorNext, monitorVars, analyzeOnly
<1> QED BY <1>1, MonitorInvAlways, PTL DEF MonitorSpec, ReportsOnlyGrow, A!ReportsOnlyGrow

\* A row that is OPEN is counted in the next report and in every one after it,
\* and decides what the report says last, unless the CSV lost its header.
THEOREM OpenRowsSafe == MonitorSpec => OpenRowIsReported
<1> DEFINE Counted == A!Analyze /\ ~headerLost
                        /\ (\E i \in DOMAIN rows : rows[i].level = "OPEN") =>
                      report'.open > 0 /\ report'.says = "capturable"
<1>1. ASSUME MonitorInv PROVE Counted
  <2> SUFFICES ASSUME A!Analyze, ~headerLost, \E i \in DOMAIN rows : rows[i].level = "OPEN"
               PROVE  report'.open > 0 /\ report'.says = "capturable"
    OBVIOUS
  <2>1. Is("analyze") /\ AP!AnalyzeInv
    BY <1>1 DEF MonitorInv
  <2> QED BY <2>1, AnalyzeSame, RowNumbers, AP!OpenRowCounts
<1>2. MonitorInv => [Counted]_(A!analyzeVars)
  BY <1>1
<1> QED BY <1>2, MonitorInvAlways, PTL DEF OpenRowIsReported, A!OpenRowIsReported

\* Whatever mints, failed polls and lagging nodes there were: the rate counts every
\* mint of its window that was seen; while no total went back it counts none twice
\* and none older by more than the polls that were late, and mpm divides by the age
\* of the oldest one it counts, up to those polls, so that it says 0.0 of two mints or
\* more only if all are as new as that; and the trend has a cause after its oldest sample.
THEOREM StatsSafe == MonitorSpec => []StatsFollowTheMints
<1>1. MonitorInv => StatsFollowTheMints
  BY RateIsRight, SpanIsRight, TrendIsRight DEF MonitorInv, StatsFollowTheMints
<1> QED BY <1>1, MonitorInvAlways, PTL

\* The variables of the program that runs stay within their types.
THEOREM MonitorTypesCorrect == MonitorSpec => []MonitorTypeOK
<1>1. ASSUME MonitorInv, Is("watcher") PROVE TypeOK
  BY <1>1, WatcherSame DEF MonitorInv, WP!WatcherTyped
<1>2. ASSUME MonitorInv, Is("analyze") PROVE A!AnalyzeTypeOK
  BY <1>2, AnalyzeSame DEF MonitorInv, AP!AnalyzeInv
<1>3. ASSUME MonitorInv, Is("stats") PROVE P!TypeOK
  BY <1>3, StatsTyped DEF MonitorInv
<1>4. ASSUME MonitorInv, Is("sample") PROVE F!TypeOK
  BY <1>4 DEF MonitorInv, SampleInv, CountedInv
<1>5. MonitorInv => MonitorTypeOK
  BY <1>1, <1>2, <1>3, <1>4 DEF MonitorTypeOK
<1> QED BY <1>5, MonitorInvAlways, PTL

\* The sample of feasibility.py has every mint between its first and its last
\* read, none twice unless a lagging node made the total go back, and the quantiles
\* of its gaps are in order and within its span.
THEOREM SampleSafe == MonitorSpec => []SampleIsWhole
<1>1. MonitorInv => SampleIsWhole
  BY DEF MonitorInv, SampleInv, CountedInv, OrderInv, SampleIsWhole
<1> QED BY <1>1, MonitorInvAlways, PTL
=============================================================================
