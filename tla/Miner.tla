-------------------------------- MODULE Miner --------------------------------
(***************************************************************************)
(* verify_correctness.py and the single-process miner.py it tests: hashes  *)
(* of random nonces are compared with the contract's, then solve_range     *)
(* searches a range at an easy target, and what it finds is hashed by the  *)
(* contract too.  The stop_flag of solve_range, which nobody passes, is    *)
(* left out.                                                               *)
(***************************************************************************)
EXTENDS Naturals, FiniteSets

CONSTANTS
    Count,          \* count: the nonces of solve_range, from start_nonce = 0
    Checks          \* random nonces whose hashes are compared (5)

Nonces == 0..(Count - 1)

VARIABLES
    wins,       \* the nonces whose hash, as work_hash_int has it, is below the target
    agrees,     \* the nonces to which the contract gives the same hash
    tried,      \* the nonces solve_range hashed so far
    at,         \* where the script is
    ok,         \* ok: the comparisons made so far agreed
    checked,    \* comparisons made
    next,       \* solve_range's nonce
    hashes,     \* done, and what solve_range returns as hashes_done
    got         \* the nonce solve_range returned, as a set of one or none

vars == <<wins, agrees, tried, at, ok, checked, next, hashes, got>>

Init ==
    /\ wins \in SUBSET Nonces /\ agrees \in SUBSET Nonces
    /\ tried = {} /\ got = {}
    /\ at = "check" /\ ok = TRUE /\ checked = 0
    /\ next = 0 /\ hashes = 0

Goto(from, to) == at = from /\ at' = to

\* A random nonce is hashed here and by an RPC.
Compare ==
    /\ Goto("check", "check") /\ checked < Checks
    /\ checked' = checked + 1
    /\ \E n \in Nonces : ok' = (ok /\ n \in agrees)
    /\ UNCHANGED <<wins, agrees, tried, next, hashes, got>>

\* assert ok
AssertMatch ==
    /\ checked = Checks
    /\ Goto("check", IF ok THEN "search" ELSE "mismatch")
    /\ UNCHANGED <<wins, agrees, tried, ok, checked, next, hashes, got>>

\* Fault: the end of the range is taken for its last nonce but one.
InShorterRange == next + 1 < Count

InRange == next < Count

CountHash == hashes' = hashes + 1

\* One turn of solve_range's loop.
Hash ==
    /\ Goto("search", IF next \in wins THEN "won" ELSE "search")
    /\ InRange
    /\ tried' = tried \cup {next}
    /\ CountHash
    /\ next' = (IF next \in wins THEN next ELSE next + 1)
    /\ UNCHANGED <<wins, agrees, ok, checked, got>>

ReturnNonce ==
    /\ Goto("won", "verify")
    /\ got' = {next}
    /\ UNCHANGED <<wins, agrees, tried, ok, checked, next, hashes>>

\* "failed to find easy solution"
ReturnNone ==
    /\ Goto("search", "none")
    /\ ~InRange
    /\ UNCHANGED <<wins, agrees, tried, ok, checked, next, hashes, got>>

\* assert local < easy_target and onchain == local
Verify ==
    /\ Goto("verify", IF got \subseteq wins \cap agrees THEN "passed" ELSE "wrong")
    /\ UNCHANGED <<wins, agrees, tried, ok, checked, next, hashes, got>>

\* An RPC fails: nothing catches it.
Crash ==
    /\ at \in {"check", "verify"}
    /\ at' = "crashed"
    /\ UNCHANGED <<wins, agrees, tried, ok, checked, next, hashes, got>>

Next ==
    \/ Compare \/ AssertMatch \/ Hash \/ ReturnNonce \/ ReturnNone \/ Verify \/ Crash

-----------------------------------------------------------------------------
(* Properties.                                                             *)

\* Type invariant of the script.
TypeOK ==
    /\ {wins, agrees, tried, got} \subseteq SUBSET Nonces
    /\ at \in {"check", "mismatch", "search", "won", "verify", "none", "passed",
               "wrong", "crashed"}
    /\ ok \in BOOLEAN /\ checked \in 0..Checks
    /\ next \in 0..Count /\ hashes \in 0..Count

HowEnded ==
    IF at \in {"mismatch", "crashed"} THEN "failed"
    ELSE IF at \in {"none", "passed", "wrong"} THEN "ended" ELSE "no"

\* "None if exhausted": the whole range was hashed; and hashes_done is what was
\* hashed, the winner included.
RangeIsSearched ==
    /\ at = "none" => tried = Nonces
    /\ at # "search" => hashes = Cardinality(tried)

\* "ALL CHECKS PASSED": the contract accepts the nonce solve_range returned, and
\* no comparison before it failed.
PassedMeansAccepted == at = "passed" => ok /\ got # {} /\ got \subseteq wins \cap agrees
=============================================================================
