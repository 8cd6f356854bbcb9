------------------------------ MODULE PollStats ------------------------------
(***************************************************************************)
(* What watcher.py computes from its memory of earlier polls: the trend of *)
(* the burst and the rolling rate of mints.  What it announces is in       *)
(* Watcher.tla, with the polls' own steps.  Time is counted in polls.      *)
(***************************************************************************)
EXTENDS Integers, FiniteSets, Sequences

CONSTANTS
    MaxBurst,           \* BURST_SHIFT_CAP
    MintsPerPoll,       \* mints the chain can make between two polls
    Window,             \* polls within the 120 seconds of the rate
    HistLen,            \* burst_hist's maxlen
    EventsLen,          \* mint_events' maxlen
    Lag,                \* mints the node that answers may be behind
    MaxLate,            \* bound on the polls that fail or read too little
    MaxTime             \* bound on the polls

VARIABLES
    now,        \* the time
    burst,      \* currentBurst()
    mints,      \* per mint, in order: its moment
    lastTotal,  \* last_total; -1 for None
    regressed,  \* history: some poll read less than the one before
    hist,       \* burst_hist, with the moment of each sample
    events,     \* mint_events
    rate,       \* of the latest poll: mints and the time that mpm divides them by
    trend,      \* of the latest poll
    polled,     \* the latest poll went well; the total that the first such poll read
    late        \* history: polls that failed or read less than there was

vars == <<now, burst, mints, lastTotal, regressed, hist, events, rate, trend, polled,
          late>>

NoRate == [mints |-> 0, span |-> 0]

Total == Len(mints)

Init ==
    /\ now = 0
    /\ burst \in 0..MaxBurst
    /\ mints = <<>>
    /\ lastTotal = -1 /\ regressed = FALSE
    /\ hist = <<>> /\ events = <<>>
    /\ rate = NoRate /\ trend = ""
    /\ polled = [well |-> FALSE, first |-> -1]
    /\ late = 0

Copies(x, k) == [i \in 1..k |-> x]

\* deque(maxlen=n).append of k copies of x
Push(seq, n, x, k) ==
    LET longer == seq \o Copies(x, k)
    IN  IF Len(longer) <= n THEN longer ELSE SubSeq(longer, Len(longer) - n + 1, Len(longer))

\* Fault: a poll notes one mint, however many there were.
OneEvent(total) == IF lastTotal # -1 /\ total > lastTotal THEN 1 ELSE 0

NewMints(total) == IF lastTotal # -1 /\ total > lastTotal THEN total - lastTotal ELSE 0

\* [t for t in mint_events if now - t <= 120], by their places in the queue
Recent(evts, t) == {i \in DOMAIN evts : t - evts[i] <= Window}

\* len(recent), and the span since the first of them: mpm is 0.0 if that is 0.
RateOf(evts, t) ==
    LET recent == Recent(evts, t)
        oldest == CHOOSE i \in recent : \A j \in recent : i <= j
    IN  [mints |-> Cardinality(recent),
         span  |-> IF Cardinality(recent) >= 2 THEN t - evts[oldest] ELSE 0]

BurstSum(h, from) == h[from + 1].burst + h[from + 2].burst + h[from + 3].burst
Oldest(h) == BurstSum(h, 0)
Newest(h) == BurstSum(h, Len(h) - 3)

\* The sums of the oldest and the newest three samples, half a burst per sample
\* apart: 2 * 0.5 * 3 = 3.
Falls(h) == 2 * Newest(h) < 2 * Oldest(h) - 3
Rises(h) == 2 * Newest(h) > 2 * Oldest(h) + 3

TrendOf(h) ==
    IF Len(h) < 5 THEN ""
    ELSE IF Falls(h) THEN "DOWN"
    ELSE IF Rises(h) THEN "UP" ELSE "flat"

\* Time passes, with mints that heat the burst up or without one.
Pass(k, b) ==
    /\ now < MaxTime
    /\ now' = now + 1
    /\ mints' = mints \o Copies(now + 1, k)
    /\ b = IF k = 0 THEN (IF burst > 0 THEN burst - 1 ELSE 0)
           ELSE IF burst + k > MaxBurst THEN MaxBurst ELSE burst + k
    /\ burst' = b

\* The total of one read: the node that answers may lag.
Answers == {n \in (Total' - Lag)..Total' : n >= 0}

\* A poll that goes well.
Poll ==
    \E k \in 0..MintsPerPoll, b \in 0..MaxBurst :
       /\ Pass(k, b)
       /\ \E total \in Answers :
             /\ events' = Push(events, EventsLen, now', NewMints(total))
             /\ lastTotal' = total
             /\ regressed' = (regressed \/ total < lastTotal)
             /\ late' = IF total < Total' THEN late + 1 ELSE late
             /\ polled' = [well |-> TRUE,
                           first |-> IF lastTotal = -1 THEN total ELSE polled.first]
       /\ late' <= MaxLate
       /\ hist' = Push(hist, HistLen, [burst |-> b, at |-> now'], 1)
       /\ rate' = RateOf(events', now')
       /\ trend' = TrendOf(hist')

\* read_batch failed: nothing is remembered.
Miss ==
    /\ late < MaxLate
    /\ late' = late + 1
    /\ \E k \in 0..MintsPerPoll, b \in 0..MaxBurst : Pass(k, b)
    /\ polled' = [polled EXCEPT !.well = FALSE]
    /\ UNCHANGED <<lastTotal, regressed, hist, events, rate, trend>>

\* The bound on the polls is reached.
Over == now = MaxTime /\ UNCHANGED vars

Next == Poll \/ Miss \/ Over

Spec == Init /\ [][Next]_vars

-----------------------------------------------------------------------------
(* Properties.                                                             *)

\* Type invariant of the watcher's memory.
TypeOK ==
    /\ now \in 0..MaxTime /\ burst \in 0..MaxBurst
    /\ mints \in Seq(1..MaxTime) /\ lastTotal \in -1..Total
    /\ Len(hist) <= HistLen /\ Len(events) <= EventsLen
    /\ rate \in [mints : 0..EventsLen, span : 0..Window]
    /\ trend \in {"", "UP", "DOWN", "flat"}
    /\ late \in 0..MaxLate

\* The mints the watcher came to see, by their places, that were made from then on.
MintsSeen(from) ==
    Cardinality({i \in (polled.first + 1)..lastTotal : mints[i] >= from})

\* The rate counts the mints of its window, each noted by the poll that saw it
\* first: none is left out, though polls failed and nodes lagged.  It counts none
\* twice and none that is older than the window by more than the polls that came
\* late for it, as long as no node took a mint back that another had shown.
RateCountsTheWindow ==
    polled.well => /\ rate.mints >= MintsSeen(now - Window)
                   /\ ~regressed => rate.mints <= MintsSeen(now - Window - late)

\* mpm divides by the age of the oldest mint it counts, as this was noted: too
\* little by at most the polls that came late.  An age of 0 makes mpm 0.0: of two
\* mints or more that is said only when all of them are that new.
RateSpansItsMints ==
    polled.well /\ ~regressed /\ rate.mints >= 2 =>
        LET oldest == mints[lastTotal + 1 - rate.mints]
        IN  rate.span <= now - oldest /\ now - oldest <= rate.span + late

\* "UP" is said only when somebody minted after the oldest sample, and "DOWN"
\* only when there was a moment without a mint: the burst is followed in the
\* direction of time.
TrendNeedsCause ==
    /\ trend = "UP" => \E i \in DOMAIN mints : mints[i] > hist[1].at
    /\ trend = "DOWN" => \E t \in 1..now : t > hist[1].at /\ \A i \in DOMAIN mints : mints[i] # t
=============================================================================
