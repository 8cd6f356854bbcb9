------------------------------ MODULE GpuHunter ------------------------------
(***************************************************************************)
(* gpu/gpu_hunter.py: snapshot, window, one CUDA slice, prevWork read once *)
(* more, simulate, send.  A slice is one step that finds a solution for    *)
(* the snapshot or nothing; CudaMiner.tla models what happens inside it.   *)
(* --force is a --max-bits that no difficulty exceeds.                     *)
(***************************************************************************)
EXTENDS MintTx

CONSTANTS
    MaxBits,        \* --max-bits
    Luck            \* bound: bits a found hash may have beyond the target

VARIABLES
    send,       \* --send
    snap,       \* the snapshot of the chain
    held,       \* bal: the balance last read
    lost        \* an admitted transaction's outcome was swallowed by an error

gpuVars == <<send, snap, held, lost>>
vars == <<chainVars, txVars, gpuVars, pc, sol>>

SnapReads == {"anchor", "prevWork", "target"}
SendSteps == {"fee", "count", "broadcast", "receipt", "verify"}
Raising   == SnapReads \cup SendSteps \cup
             {"slice", "recheck", "price", "balance", "need"}
Labels    == Raising \cup {"gate", "call", "gas", "dry", "sleep", "done", "stopped"}

NoSnap == [anchor |-> 0, prevWork |-> 0, target |-> 0]

Init ==
    /\ ChainInit
    /\ pc = "anchor"
    /\ snap = NoSnap /\ sol = NoSol
    /\ price = 0 /\ bid = 0 /\ txNonce = 0 /\ txid = 0
    /\ held = 0 /\ lost = FALSE
    /\ send \in BOOLEAN

\* The next turn of the loop overwrites everything the last one read.
EndTurn ==
    /\ snap' = NoSnap /\ sol' = NoSol
    /\ price' = 0 /\ bid' = 0 /\ txNonce' = 0 /\ txid' = 0
    /\ held' = 0

\* continue: with a sleep before it or at once.
Continue(from) ==
    /\ Goto(from, "anchor")
    /\ EndTurn
    /\ UNCHANGED <<chainVars, send, lost>>

\* chain.snapshot, of which only the values looked at are kept.
Live == [anchor |-> block, prevWork |-> minted, target |-> Bits]

NextRead == [anchor |-> "prevWork", prevWork |-> "target", target |-> "gate"]

Snapshot(field) ==
    /\ Goto(field, NextRead[field])
    /\ snap' = [snap EXCEPT ![field] = Live[field]]
    /\ UNCHANGED <<chainVars, txVars, sol, send, held, lost>>

WindowClosed == snap.target > MaxBits /\ Continue("gate")

WindowOpen ==
    /\ snap.target <= MaxBits
    /\ Goto("gate", "slice")
    /\ UNCHANGED <<chainVars, txVars, gpuVars, sol>>

\* run_cuda read a FOUND; Continue("slice") is its None.  The binary is not
\* trusted: what it found may be nothing at all.
SliceFound ==
    /\ Goto("slice", "recheck")
    /\ \E q \in {0} \cup (snap.target..(snap.target + Luck)) :
          sol' = [prev |-> snap.prevWork, anchor |-> snap.anchor, q |-> q]
    /\ UNCHANGED <<chainVars, txVars, gpuVars>>

\* "prevWork must be unchanged for the solution to be valid."
Recheck ==
    \/ /\ minted = snap.prevWork
       /\ Goto("recheck", "price")
       /\ UNCHANGED <<chainVars, txVars, gpuVars, sol>>
    \/ minted # snap.prevWork /\ Continue("recheck")

Simulate ==
    \/ ReadMintPrice("price", "call") /\ UNCHANGED gpuVars
    \/ CallPasses("call", "gas") /\ UNCHANGED gpuVars
    \/ CallPasses("gas", "dry") /\ UNCHANGED gpuVars
    \/ Continue("call")
    \/ Continue("gas")

DryOrSend ==
    \/ ~send /\ Continue("dry")
    \/ /\ send
       /\ Goto("dry", "balance")
       /\ UNCHANGED <<chainVars, txVars, gpuVars, sol>>

ReadBalance ==
    /\ Goto("balance", "need")
    /\ held' = bal
    /\ UNCHANGED <<chainVars, txVars, sol, send, snap, lost>>

Need == price + GasLimit * Bid(gasPrice)

CheckFunds ==
    \/ /\ held >= Need
       /\ Goto("need", "fee")
       /\ UNCHANGED <<chainVars, txVars, gpuVars, sol>>
    \/ held < Need /\ Continue("need")

\* A status of 1 goes on to balanceOf, any other to the next turn.
ReceiptRead ==
    \/ Receipt(1, "receipt", "verify") /\ UNCHANGED gpuVars
    \/ txid \in reverted /\ Continue("receipt")

Verify ==
    /\ Goto("verify", "done")
    /\ EndTurn
    /\ UNCHANGED <<chainVars, send, lost>>

\* An exception is printed, and after a sleep the next turn begins.
Raise ==
    /\ pc \in Raising
    /\ pc' = "sleep"
    /\ lost' = (lost \/ txid # 0)
    /\ EndTurn
    /\ UNCHANGED <<chainVars, send>>

AnswerLost ==
    /\ Goto("broadcast", "sleep")
    /\ Admit(Tx)
    /\ lost' = TRUE
    /\ EndTurn
    /\ UNCHANGED send

Interrupt ==
    /\ pc \notin {"done", "stopped"}
    /\ pc' = "stopped"
    /\ EndTurn
    /\ UNCHANGED <<chainVars, send, lost>>

Halted == pc \in {"done", "stopped"} /\ UNCHANGED vars

GpuStep ==
    \/ \E field \in SnapReads : Snapshot(field)
    \/ WindowClosed \/ WindowOpen
    \/ SliceFound \/ Continue("slice")
    \/ Recheck \/ Simulate \/ DryOrSend \/ ReadBalance \/ CheckFunds
    \/ ReadFee("fee", "count") /\ UNCHANGED gpuVars
    \/ ReadCount("count", "broadcast") /\ UNCHANGED gpuVars
    \/ Broadcast("broadcast", "receipt") /\ UNCHANGED gpuVars
    \/ AnswerLost \/ ReceiptRead \/ Verify \/ Raise
    \/ Continue("sleep")

World == ChainNext /\ UNCHANGED <<txVars, gpuVars, pc, sol>>

Next == GpuStep \/ Interrupt \/ World \/ Halted

Spec == Init /\ [][Next]_vars

-----------------------------------------------------------------------------
(* Properties.                                                             *)

\* Type invariant of gpu_hunter.py and of the chain it works on.
TypeOK ==
    /\ ChainTypeOK
    /\ pc \in Labels
    /\ snap \in [SnapReads -> Nat]
    /\ sol \in Solutions
    /\ price \in Nat /\ bid \in Nat /\ txNonce \in Nat
    /\ txid \in 0..sent
    /\ held \in Nat
    /\ send \in BOOLEAN /\ lost \in BOOLEAN

Race == INSTANCE MintRace

\* gpu_hunter.py does to the chain only what MintRace allows.
ImplementsRace == Race!Spec

\* It buys a second cat only when an error swallowed the outcome of the first.
ExtraCatNeedsLostOutcome == Cardinality(landed) > 1 => lost
=============================================================================
