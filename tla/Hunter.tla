------------------------------- MODULE Hunter -------------------------------
(***************************************************************************)
(* hunter.py: the CPU hunter's loop from a snapshot of the chain to a cat. *)
(* One action per RPC, in the order the code makes them.  The search       *)
(* itself (csolver.py) is one step that finds a solution for the snapshot  *)
(* or gives up at any time; CSolver.tla models what happens inside it.     *)
(***************************************************************************)
EXTENDS MintTx

CONSTANTS
    MaxBits,        \* --max-bits
    HoldTries,      \* polls of an unfunded wallet (40 in the code)
    Luck            \* bound: bits a found hash may have beyond the target

ASSUME HunterAssumption == {MaxBits, HoldTries, Luck} \subseteq Nat

VARIABLES
    send,       \* --send
    snap,       \* the snapshot of the chain
    held,       \* bal in try_send: the balance last read
    need,       \* need in try_send: what the wallet is asked to hold
    tries,      \* polls of the hold loop that are left
    lost        \* an admitted transaction's outcome was swallowed by an error

huntVars == <<send, snap, held, need, tries, lost>>
vars == <<chainVars, txVars, huntVars, pc, sol>>

SnapReads == {"anchor", "prevWork", "target", "total"}
SendSteps == {"fee", "count", "broadcast", "receipt", "verify"}

\* The labels at which the script waits for an answer of the node or for the
\* solver, whose exceptions reach main().
Raising == SnapReads \cup SendSteps \cup
           {"solve", "price1", "balance", "need", "hold", "price2"}
Labels  == Raising \cup {"gate", "call1", "gas1", "dry", "call2", "gas2",
                         "sleep", "done", "stopped"}

NoSnap == [anchor |-> 0, prevWork |-> 0, target |-> 0, total |-> 0]

HunterInit ==
    /\ ChainInit
    /\ pc = "anchor"
    /\ snap = NoSnap /\ sol = NoSol
    /\ price = 0 /\ bid = 0 /\ txNonce = 0 /\ txid = 0
    /\ held = 0 /\ need = 0 /\ tries = 0 /\ lost = FALSE
    /\ send \in BOOLEAN

\* hunt_once returns or raises: its locals and try_send's are gone.
LeaveHunt ==
    /\ snap' = NoSnap /\ sol' = NoSol
    /\ price' = 0 /\ bid' = 0 /\ txNonce' = 0 /\ txid' = 0
    /\ held' = 0 /\ need' = 0 /\ tries' = 0

\* "retry": main() hunts again at once.
Retry(from) ==
    /\ Goto(from, "anchor")
    /\ LeaveHunt
    /\ UNCHANGED <<chainVars, send, lost>>

-----------------------------------------------------------------------------
(* chain.snapshot: separate reads, in this order.  The reads of the price, *)
(* the burst, the epoch and the block number are only printed.             *)

Live == [anchor |-> block, prevWork |-> minted, target |-> Bits, total |-> minted]

\* Fault: the target is read before prevWork.
TargetFirst == [anchor |-> "target", target |-> "prevWork",
                prevWork |-> "total", total |-> "gate"]

NextRead == [anchor |-> "prevWork", prevWork |-> "target",
             target |-> "total", total |-> "gate"]

Snapshot(field) ==
    /\ Goto(field, NextRead[field])
    /\ snap' = [snap EXCEPT ![field] = Live[field]]
    /\ UNCHANGED <<chainVars, txVars, sol, send, held, need, tries, lost>>

\* "wait" when the window is closed, else search.
WindowClosed ==
    /\ snap.target > MaxBits
    /\ Goto("gate", "sleep")
    /\ LeaveHunt
    /\ UNCHANGED <<chainVars, send, lost>>

WindowOpen ==
    /\ snap.target <= MaxBits
    /\ Goto("gate", "solve")
    /\ UNCHANGED <<chainVars, txVars, huntVars, sol>>

SolveFound ==
    /\ Goto("solve", "price1")
    /\ \E q \in snap.target..(snap.target + Luck) :
          sol' = [prev |-> snap.prevWork, anchor |-> snap.anchor, q |-> q]
    /\ UNCHANGED <<chainVars, txVars, huntVars>>

-----------------------------------------------------------------------------
(* try_send                                                                *)

Simulate(priceAt, callAt, gasAt, to) ==
    \/ ReadMintPrice(priceAt, callAt) /\ UNCHANGED huntVars
    \/ CallPasses(callAt, gasAt) /\ UNCHANGED huntVars
    \/ CallPasses(gasAt, to) /\ UNCHANGED huntVars
    \/ Retry(callAt)
    \/ Retry(gasAt)

\* Fault: args.send is not looked at.
AlwaysSend == Goto("dry", "balance") /\ UNCHANGED <<chainVars, txVars, huntVars, sol>>

\* Without --send, try_send returns True here and hunt_once "retry".
DryOrSend ==
    \/ ~send /\ Retry("dry")
    \/ /\ send
       /\ Goto("dry", "balance")
       /\ UNCHANGED <<chainVars, txVars, huntVars, sol>>

ReadBalance ==
    /\ Goto("balance", "need")
    /\ held' = bal
    /\ UNCHANGED <<chainVars, txVars, sol, snap, send, need, tries, lost>>

Need == price + GasLimit * Bid(gasPrice)

\* The gas price is read after the balance; need is not computed again.
CheckFunds ==
    /\ need' = Need
    /\ \/ held >= Need /\ Goto("need", "price2") /\ UNCHANGED tries
       \/ held < Need /\ Goto("need", "hold") /\ tries' = HoldTries
    /\ UNCHANGED <<chainVars, txVars, sol, snap, send, held, lost>>

\* One turn of the hold loop finds the wallet funded, ...
HoldFunded ==
    /\ Goto("hold", "price2")
    /\ tries > 0 /\ bal >= need
    /\ held' = bal /\ tries' = 0
    /\ UNCHANGED <<chainVars, txVars, sol, snap, send, need, lost>>

\* Fault: the polls of the wallet are counted but not limited.
HoldPastLimit ==
    /\ Goto("hold", "hold")
    /\ bal < need
    /\ held' = bal /\ tries' = tries - 1
    /\ UNCHANGED <<chainVars, txVars, sol, snap, send, need, lost>>

\* ... or still unfunded, with the prevWork it reads then not looked at, ...
HoldOn ==
    /\ Goto("hold", "hold")
    /\ tries > 0 /\ bal < need
    /\ held' = bal /\ tries' = tries - 1
    /\ UNCHANGED <<chainVars, txVars, sol, snap, send, need, lost>>

\* Fault: nothing follows the loop, which ends funded or not.
HoldOverSends ==
    /\ tries = 0
    /\ Goto("hold", "price2")
    /\ UNCHANGED <<chainVars, txVars, huntVars, sol>>

\* ... and after the last one try_send gives up.
HoldOver == tries = 0 /\ Retry("hold")

\* Fault: rcpt.status is not looked at.
NoStatusCheck ==
    /\ Receipt(1, "receipt", "verify") \/ Receipt(0, "receipt", "verify")
    /\ UNCHANGED huntVars

\* rcpt.status: 1 goes on to balanceOf, 0 is "reverted on-chain", a retry.
ReceiptRead ==
    \/ Receipt(1, "receipt", "verify") /\ UNCHANGED huntVars
    \/ txid \in reverted /\ Retry("receipt")

\* Fault: a success ends like any other hunt.
VerifyThenHunt == Retry("verify")

\* balanceOf answered: try_send returns True, hunt_once "done", main() breaks.
Verify ==
    /\ Goto("verify", "done")
    /\ LeaveHunt
    /\ UNCHANGED <<chainVars, send, lost>>

-----------------------------------------------------------------------------
(* main()                                                                  *)

\* Fault: wait_for_transaction_receipt without a timeout.
RaiseWithoutTimeout ==
    /\ pc \in Raising \ {"receipt"}
    /\ pc' = "sleep"
    /\ lost' = (lost \/ txid # 0)
    /\ LeaveHunt
    /\ UNCHANGED <<chainVars, send>>

\* Any exception of an RPC (or of the solver) ends the hunt; main() prints it
\* and sleeps.  A receipt that did not come in 180 seconds, a refused
\* transaction and a failing balanceOf are such exceptions too.
Raise ==
    /\ pc \in Raising
    /\ pc' = "sleep"
    /\ lost' = (lost \/ txid # 0)
    /\ LeaveHunt
    /\ UNCHANGED <<chainVars, send>>

\* The node admitted the transaction but its answer did not arrive.
AnswerLost ==
    /\ Goto("broadcast", "sleep")
    /\ Admit(Tx)
    /\ lost' = TRUE
    /\ LeaveHunt
    /\ UNCHANGED send

Interrupt ==
    /\ pc \notin {"done", "stopped"}
    /\ pc' = "stopped"
    /\ LeaveHunt
    /\ UNCHANGED <<chainVars, send, lost>>

Halted == pc \in {"done", "stopped"} /\ UNCHANGED vars

HunterStep ==
    \/ \E field \in SnapReads : Snapshot(field)
    \/ WindowClosed \/ WindowOpen
    \/ SolveFound \/ Retry("solve")
    \/ Simulate("price1", "call1", "gas1", "dry")
    \/ DryOrSend \/ ReadBalance \/ CheckFunds
    \/ HoldFunded \/ HoldOn \/ HoldOver
    \/ Simulate("price2", "call2", "gas2", "fee")
    \/ ReadFee("fee", "count") /\ UNCHANGED huntVars
    \/ ReadCount("count", "broadcast") /\ UNCHANGED huntVars
    \/ Broadcast("broadcast", "receipt") /\ UNCHANGED huntVars
    \/ AnswerLost
    \/ ReceiptRead \/ Verify
    \/ Raise
    \/ Retry("sleep")

World == ChainNext /\ UNCHANGED <<txVars, huntVars, pc, sol>>

Next == HunterStep \/ Interrupt \/ World \/ Halted

Spec == HunterInit /\ [][Next]_vars

-----------------------------------------------------------------------------
(* Properties.                                                             *)

\* Type invariant of the CPU hunter and of the chain it works on.
TypeOK ==
    /\ ChainTypeOK
    /\ pc \in Labels
    /\ snap \in [SnapReads -> Nat]
    /\ sol \in Solutions
    /\ price \in Nat /\ bid \in Nat /\ txNonce \in Nat
    /\ txid \in 0..sent
    /\ held \in Nat /\ need \in Nat
    /\ tries \in 0..HoldTries
    /\ send \in BOOLEAN /\ lost \in BOOLEAN

\* A solution found for a prevWork that has not moved meets the difficulty the
\* contract asks for now, although the target was read before the search and
\* the difficulty moved since.  It rests on chain.snapshot reading prevWork
\* before the target: within one prevWork the difficulty only cools.
LiveSolutionMeetsTarget ==
    sol # NoSol /\ sol.prev = minted => sol.q >= Bits

\* From the second simulation on, and for every transaction in the mempool,
\* the price is the one of the cat the solution is for: build_and_check ties
\* the price it read to the prevWork the solution was searched for.
PaysExactPrice ==
    /\ pc \in SendSteps => price = PriceOf(sol.prev)
    /\ \A tx \in pool : tx.value = PriceOf(tx.sol.prev)

\* A transaction of ours burns its gas on a revert only when a mint overtook
\* it or its anchor grew too old while it was under way: what the simulation
\* established can be lost in no other way.
RevertOnlyIfOvertaken ==
    [][\A tx \in pool : tx.id \in reverted' \ reverted =>
          minted # tx.sol.prev \/ ~AnchorOK(tx.sol.anchor)]_vars

\* However many receipts were given up on, at most one transaction of ours
\* waits in the mempool: send() takes the executed count as its nonce, so a
\* new one can only replace the one still waiting.
OneInFlight == Cardinality(pool) <= 1

\* The hunter buys a second cat only when an error swallowed the outcome of an
\* admitted transaction (its answer, its receipt, the balanceOf after it).
ExtraCatNeedsLostOutcome == Cardinality(landed) > 1 => lost

\* "mission complete" is printed only when one of our transactions minted.
DoneOnlyWithCat == pc = "done" => landed # {}

\* Without --send nothing reaches the node, whatever the hunt runs into.
DryRunSendsNothing == ~send => sent = 0

Race == INSTANCE MintRace

\* hunter.py does to the chain only what MintRace allows.
ImplementsRace == Race!Spec

\* The hold loop's comment: "if prevWork changed, our solution is dead".  A
\* poll that goes on holding holds a solution that is still alive.
HoldsOnlyLiveSolution == [][HoldOn => sol.prev = minted]_vars

\* What the wallet was found to hold is still there when the transaction is
\* handed to the node: one it cannot pay is one whose price or gas price rose
\* since need was computed, unless an earlier transaction of ours is undecided.
FundsStillThere ==
    pc = "broadcast" /\ ~lost /\ bal < Upfront(Tx) => Upfront(Tx) > need
=============================================================================
