------------------------------ MODULE MintRace ------------------------------
(***************************************************************************)
(* What every minting script of the repository may do to the outside       *)
(* world, whatever loop it runs: nothing at all unless it is told to send, *)
(* and otherwise hand the node transactions that the simulation would have *)
(* passed, one account nonce at a time.  An abstract specification:        *)
(* Hunter, Bot, GpuHunter and Continuous implement it.                     *)
(***************************************************************************)
EXTENDS Hashcats

VARIABLE send       \* --send

raceVars == <<chainVars, send>>

\* What the simulation established, as far as it still holds when the node
\* gets the transaction: the price is the one of the cat the solution is for,
\* there is gas enough, and while that cat is still to be minted the solution
\* wins it.
Sound(tx) ==
    /\ tx.value = PriceOf(tx.sol.prev)
    /\ tx.gas >= GasUsed
    /\ tx.sol.prev <= minted
    /\ tx.sol.prev = minted => tx.sol.q >= Bits

Init == ChainInit /\ send \in BOOLEAN

\* Each submission is a transaction of its own, and the count of executed
\* transactions is its account nonce.
Submit ==
    /\ send
    /\ \E tx \in pool' :
          /\ tx \in Txs /\ tx.id = sent + 1
          /\ Sound(tx) /\ tx.nonce <= acctNonce
          /\ Admit(tx)
    /\ UNCHANGED send

Next == Submit \/ (ChainNext /\ UNCHANGED send)

Spec == Init /\ [][Next]_raceVars

-----------------------------------------------------------------------------
(* What the race promises, and with it every script that implements it.    *)

\* A transaction burns its gas on a revert only when a mint overtook it or its
\* anchor grew too old while it was under way.
RevertOnlyIfOvertaken ==
    [][\A tx \in pool : tx.id \in reverted' \ reverted =>
          minted # tx.sol.prev \/ ~AnchorOK(tx.sol.anchor)]_raceVars

\* At most one transaction of ours waits in the mempool.
OneInFlight == Cardinality(pool) <= 1

\* Without --send nothing ever reaches the node.
DryRunSendsNothing == ~send => sent = 0
=============================================================================
