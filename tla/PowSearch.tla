----------------------------- MODULE PowSearch ------------------------------
(***************************************************************************)
(* What a hunter is promised by its solver, and all that Hunter.tla's      *)
(* search step assumes of it: searches do not overlap, each ends exactly   *)
(* once, with the nonce of this very search or with nothing.  What the     *)
(* hunter then says of a search without a nonce is a guess from its time:  *)
(* "budget elapsed" is true up to a second, "prevWork changed" is true     *)
(* unless every miner process had exited on its own.  An abstract          *)
(* specification: csolver.py with hunter.py's watcher threads implements   *)
(* it (CSolver.tla).                                                       *)
(***************************************************************************)
EXTENDS Naturals

CONSTANTS MaxHunts, MaxMints    \* bounds

VARIABLES
    prevWork,   \* the chain's prevWork, as a count of mints
    hunt,       \* the number of the current or latest search
    prev0,      \* the prevWork this search is for
    phase,      \* "idle" or "searching"
    due,        \* no more than the last second of its budget is left
    exhausted,  \* it was given up because no process was searching any more
    outcome     \* how the latest search ended, and for a nonce: whose it is

searchVars == <<prevWork, hunt, prev0, phase, due, exhausted, outcome>>

Nothing == [how |-> "nothing", hunt |-> 0]

Init ==
    /\ prevWork = 0
    /\ hunt = 0
    /\ prev0 = 0
    /\ phase = "idle"
    /\ due = FALSE /\ exhausted = FALSE
    /\ outcome = Nothing

Mint ==
    /\ prevWork < MaxMints
    /\ prevWork' = prevWork + 1
    /\ UNCHANGED <<hunt, prev0, phase, due, exhausted, outcome>>

Begin ==
    /\ phase = "idle" /\ hunt < MaxHunts
    /\ hunt' = hunt + 1
    /\ prev0' = prevWork
    /\ phase' = "searching"
    /\ outcome' = Nothing
    /\ UNCHANGED <<prevWork, due, exhausted>>

TimePasses ==
    /\ phase = "searching"
    /\ due' = TRUE
    /\ UNCHANGED <<prevWork, hunt, prev0, phase, exhausted, outcome>>

GiveUp ==
    /\ phase = "searching"
    /\ exhausted' = TRUE
    /\ UNCHANGED <<prevWork, hunt, prev0, phase, due, outcome>>

End ==
    /\ phase = "searching"
    /\ phase' = "idle"
    /\ \/ outcome' = [how |-> "found", hunt |-> hunt]
       \/ /\ outcome' = [how |-> "changed", hunt |-> 0]
          /\ ~due
          /\ prevWork # prev0 \/ exhausted
       \/ outcome' = [how |-> "elapsed", hunt |-> 0] /\ due
       \/ outcome' = [how |-> "error", hunt |-> 0]
    /\ due' = FALSE /\ exhausted' = FALSE
    /\ UNCHANGED <<prevWork, hunt, prev0>>

Next == Mint \/ Begin \/ TimePasses \/ GiveUp \/ End

Spec == Init /\ [][Next]_searchVars
=============================================================================
