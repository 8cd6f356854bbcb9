----------------------------- MODULE NonceSearch -----------------------------
(***************************************************************************)
(* What a search over nonces promises, however many processes or threads   *)
(* share it: only nonces that were hashed and meet the target are handed   *)
(* over, and a search that ends by itself does not keep back what it       *)
(* found.  An abstract specification: the multiprocessing solver, the C    *)
(* miner's lanes, the CUDA miner and the demo miner implement it.          *)
(***************************************************************************)
CONSTANT Nonces

VARIABLES
    wins,       \* the nonces whose hash is below the target
    tried,      \* the nonces hashed so far
    found,      \* the nonce handed over last, as a set of one or none
    over        \* "no", "ended" by itself, or "failed"

searchVars == <<wins, tried, found, over>>

Init ==
    /\ wins \in SUBSET Nonces
    /\ tried = {} /\ found = {} /\ over = "no"

Try ==
    /\ over = "no"
    /\ \E n \in Nonces \ tried : tried' = tried \cup {n}
    /\ UNCHANGED <<wins, found, over>>

HandOver ==
    /\ over = "no"
    /\ \E n \in tried \cap wins : found' = {n}
    /\ UNCHANGED <<wins, tried, over>>

End ==
    /\ over = "no"
    /\ \/ over' = "ended" /\ (found = {} => tried \cap wins = {})
       \/ over' = "failed"
    /\ UNCHANGED <<wins, tried, found>>

Next == Try \/ HandOver \/ End

Spec == Init /\ [][Next]_searchVars
=============================================================================
