----------------------------- MODULE Feasibility -----------------------------
(***************************************************************************)
(* feasibility.py: sample_intermint samples totalMinted until its time is  *)
(* over, main() turns the moments of the mints into gaps, quantiles and a  *)
(* rate.  Of the probabilities only their rate is kept, and of the times   *)
(* only how many moments of the clock lie between them.                    *)
(***************************************************************************)
EXTENDS Integers, FiniteSets, Sequences

CONSTANTS
    Seconds,        \* moments of the clock the sampling lasts
    Lag,            \* mints a node may be behind in one read and not in another
    MaxMints        \* bound on the mints

VARIABLES
    now,        \* time since t0
    total,      \* the chain's totalMinted
    pc,         \* where the script is
    start,      \* the first totalMinted read
    lastTotal,  \* last_total
    times,      \* mint_times
    regressed,  \* a total was below one read before
    stats       \* what main() prints

vars == <<now, total, pc, start, lastTotal, times, regressed, stats>>

NoStats == [observed |-> 0, span |-> 0, rate |-> "none", p50 |-> 0, p90 |-> 0, max |-> 0]

Init ==
    /\ now = 0 /\ total = 0
    /\ pc = "first" /\ start = 0 /\ lastTotal = 0
    /\ times = <<>> /\ regressed = FALSE /\ stats = NoStats

Goto(from, to) == pc = from /\ pc' = to

Answers == {n \in (total - Lag)..total : n >= 0}

First ==
    /\ Goto("first", "loop")
    /\ start' \in Answers /\ lastTotal' = start'
    /\ UNCHANGED <<now, total, times, regressed, stats>>

\* Fault: a change of the total counts for one mint.
OneEach(n) == 1

\* range(tm - last_total), empty when the total went back.
NewMints(n) == IF n > lastTotal THEN n - lastTotal ELSE 0

\* One turn of the loop, as long as its condition holds when it is looked at.  The
\* mints of one read get their moments from clock reads that follow at once.
Sample ==
    /\ Goto("loop", "sleep")
    /\ now < Seconds
    /\ lastTotal' \in Answers
    /\ lastTotal' = lastTotal => times' = times
    /\ lastTotal' # lastTotal =>
          times' = times \o [i \in 1..NewMints(lastTotal') |-> now]
    /\ regressed' = (regressed \/ lastTotal' < lastTotal)
    /\ UNCHANGED <<now, total, start, stats>>

Awake ==
    /\ Goto("sleep", "loop")
    /\ now' > now
    /\ UNCHANGED <<total, start, lastTotal, times, regressed, stats>>

Gaps(ts) == [i \in 1..(Len(ts) - 1) |-> ts[i + 1] - ts[i]]

\* The k-th of the gaps after gaps.sort(), counted from 1: fewer than k are
\* smaller, and no fewer than k are not greater.
Ranked(gaps, k) ==
    CHOOSE x \in {gaps[i] : i \in DOMAIN gaps} :
       /\ Cardinality({i \in DOMAIN gaps : gaps[i] < x}) < k
       /\ k <= Cardinality({i \in DOMAIN gaps : gaps[i] <= x})

\* n//2 and min(n-1, int(n*0.9)), counted from 1
MiddlePlace(n) == n \div 2 + 1
UpperPlace(n) == IF (n * 9) \div 10 < n - 1 THEN (n * 9) \div 10 + 1 ELSE n

P50(g) == Ranked(g, MiddlePlace(Len(g)))
P90(g) == Ranked(g, UpperPlace(Len(g)))

Span(ts) == ts[Len(ts)] - ts[1]

\* len(ts) / span, and 0 for a span of 0, for which P(gap that long) is 1.0.
RateOf(ts) == IF Span(ts) = 0 THEN "zero" ELSE "positive"

Report ==
    LET g == Gaps(times) IN
    /\ now >= Seconds
    /\ Goto("loop", IF Len(times) < 2 THEN "quiet" ELSE "reported")
    /\ stats' = IF Len(times) < 2 THEN [NoStats EXCEPT !.observed = Len(times)]
                ELSE [observed |-> Len(times), span |-> Span(times), rate |-> RateOf(times),
                      p50 |-> P50(g), p90 |-> P90(g), max |-> Ranked(g, Len(g))]
    /\ UNCHANGED <<now, total, start, lastTotal, times, regressed>>

\* A read fails: nothing catches it.
Crash ==
    /\ pc \in {"first", "loop"}
    /\ pc' = "crashed"
    /\ UNCHANGED <<now, total, start, lastTotal, times, regressed, stats>>

Mint ==
    /\ total < MaxMints
    /\ total' = total + 1
    /\ UNCHANGED <<now, pc, start, lastTotal, times, regressed, stats>>

Halted == pc \in {"quiet", "reported", "crashed"} /\ UNCHANGED vars

Next ==
    \/ First \/ Sample \/ Report \/ Crash \/ Mint \/ Halted
    \/ now' \in 0..(Seconds + 1) /\ Awake

Spec == Init /\ [][Next]_vars

-----------------------------------------------------------------------------
(* Properties.                                                             *)

\* Type invariant of the script.
TypeOK ==
    /\ now \in 0..(Seconds + 1)
    /\ {total, start, lastTotal} \subseteq 0..MaxMints
    /\ pc \in {"first", "loop", "sleep", "quiet", "reported", "crashed"}
    /\ times \in Seq(0..(Seconds - 1))
    /\ stats.rate \in {"none", "zero", "positive"}

\* Every mint between the first read and the last one has a moment of its own,
\* whatever happened between two samples; and none has two, unless a node that
\* lags made the total go back.
EachMintOnce ==
    /\ Len(times) >= lastTotal - start
    /\ ~regressed => Len(times) = lastTotal - start

\* The gaps that are printed are in order and lie within the span.
QuantilesInOrder ==
    pc = "reported" => /\ 0 <= stats.p50 /\ stats.p50 <= stats.p90
                       /\ stats.p90 <= stats.max /\ stats.max <= stats.span

=============================================================================
