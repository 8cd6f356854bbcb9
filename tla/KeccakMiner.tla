----------------------------- MODULE KeccakMiner -----------------------------
(***************************************************************************)
(* keccak_miner.c as csolver.py starts it: one process per lane, on every  *)
(* ncores-th nonce from a start of its own.  The clock is looked at and a  *)
(* RATE line written only from the report-th hash on.                      *)
(***************************************************************************)
EXTENDS Naturals, FiniteSets

CONSTANTS
    NLanes,         \* stride
    Report,         \* report: hashes before the first RATE line (2^22)
    MaxHashes       \* bound on the hashes of a lane

Lanes  == 0..(NLanes - 1)
Nonces == 0..(NLanes * MaxHashes - 1)

VARIABLES
    wins,       \* the nonces whose hash is below the target
    tried,      \* the nonces hashed so far
    expired,    \* max_seconds have passed
    lane,       \* per lane: where it is, or how it ended
    nonce,      \* per lane: the next nonce
    count,      \* per lane: hashes so far
    reports,    \* per lane: RATE lines written
    said        \* the nonce of the latest FOUND line, as a set of one or none

vars == <<wins, tried, expired, lane, nonce, count, reports, said>>

\* A lane ends with its first winner, so one winner per lane is enough.
OnePerLane(w) == \A m, n \in w : m % NLanes = n % NLanes => m = n

\* A nonce is counted from csolver's base_nonce.
Init ==
    /\ wins \in {w \in SUBSET Nonces : OnePerLane(w)}
    /\ tried = {} /\ expired = FALSE
    /\ lane = [i \in Lanes |-> "hash"]
    /\ nonce = [i \in Lanes |-> i]
    /\ count = [i \in Lanes |-> 0]
    /\ reports = [i \in Lanes |-> 0]
    /\ said = {}

Running(i) == lane[i] \in {"hash", "won", "said", "report"}

LaneGoes(i, from, to) ==
    /\ lane[i] = from
    /\ lane' = [lane EXCEPT ![i] = to]

Hashing(i) ==
    /\ count[i] < MaxHashes
    /\ tried' = tried \cup {nonce[i]}

Win(i) ==
    /\ Hashing(i)
    /\ nonce[i] \in wins
    /\ LaneGoes(i, "hash", "won")
    /\ UNCHANGED <<wins, expired, nonce, count, reports, said>>

\* FOUND, flushed, and then the exit.
Say(i) ==
    /\ LaneGoes(i, "won", "said")
    /\ said' = {nonce[i]}
    /\ UNCHANGED <<wins, tried, expired, nonce, count, reports>>

Exit(i) ==
    /\ LaneGoes(i, "said", "FOUND")
    /\ UNCHANGED <<wins, tried, expired, nonce, count, reports, said>>

\* nonce += stride, ++count.
Miss(i) ==
    /\ Hashing(i)
    /\ nonce[i] \notin wins
    /\ nonce' = [nonce EXCEPT ![i] = @ + NLanes]
    /\ count' = [count EXCEPT ![i] = @ + 1]
    /\ LaneGoes(i, "hash", IF count'[i] >= Report THEN "report" ELSE "hash")
    /\ UNCHANGED <<wins, expired, reports, said>>

\* From the report-th hash on: a RATE line, and a look at the clock.
Rate(i) ==
    /\ LaneGoes(i, "report", IF expired THEN "NONE" ELSE "hash")
    /\ reports' = [reports EXCEPT ![i] = @ + 1]
    /\ UNCHANGED <<wins, tried, expired, nonce, count, said>>

\* csolver terminates the lane.
Terminated(i) ==
    /\ Running(i)
    /\ lane' = [lane EXCEPT ![i] = "killed"]
    /\ UNCHANGED <<wins, tried, expired, nonce, count, reports, said>>

Expire ==
    /\ ~expired
    /\ expired' = TRUE
    /\ UNCHANGED <<wins, tried, lane, nonce, count, reports, said>>

Exited == \A i \in Lanes : ~Running(i)

LaneStep(i) == Win(i) \/ Say(i) \/ Exit(i) \/ Miss(i) \/ Rate(i) \/ Terminated(i)

Next == (\E i \in Lanes : LaneStep(i)) \/ Expire

Spec == Init /\ [][Next]_vars

-----------------------------------------------------------------------------
(* Properties.                                                             *)

\* Type invariant of the lanes.
TypeOK ==
    /\ wins \subseteq Nonces /\ tried \subseteq Nonces
    /\ expired \in BOOLEAN
    /\ lane \in [Lanes -> {"hash", "won", "said", "report", "FOUND", "NONE", "killed"}]
    /\ nonce \in [Lanes -> Nat] /\ count \in [Lanes -> 0..MaxHashes]
    /\ reports \in [Lanes -> 0..MaxHashes]
    /\ said \subseteq Nonces

\* A lane that was killed may take a nonce with it.
HowEnded ==
    IF ~Exited THEN "no"
    ELSE IF \E i \in Lanes : lane[i] = "killed" THEN "failed" ELSE "ended"

\* The comment at the report period: a RATE line every ~4M hashes.
ReportsAreRare ==
    \A i \in Lanes : reports[i] * Report <= count[i]
=============================================================================
