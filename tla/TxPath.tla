-------------------------------- MODULE TxPath --------------------------------
(***************************************************************************)
(* verify_tx_path.py: two simulations of mine() with a nonce that is hardly *)
(* a solution, one with the price and one with a wei less, and the errors   *)
(* the contract answers with.  The chain moves on between the snapshot and  *)
(* the two calls, and any answer may come back without a readable error.    *)
(***************************************************************************)
EXTENDS Hashcats

VARIABLES
    pc,         \* where the script is
    lucky,      \* the prevWorks for which the junk nonce is a solution after all
    anchor,     \* anchor_block of the snapshot
    price,      \* mintPrice of the snapshot
    a,          \* what the call with the price is classified as
    b           \* and the call with the wrong value

pathVars == <<pc, lucky, anchor, price, a, b>>
vars == <<chainVars, pathVars>>

Init ==
    /\ ChainInit
    /\ pc = "anchor"
    /\ lucky \in SUBSET (0..MaxMinted)
    /\ anchor = 0 /\ price = 0
    /\ a = "none" /\ b = "none"

Goto(from, to) == pc = from /\ pc' = to

\* chain.snapshot, of which only the anchor and the price are used.
ReadAnchor ==
    /\ Goto("anchor", "price")
    /\ anchor' = block
    /\ UNCHANGED <<chainVars, lucky, price, a, b>>

ReadPrice ==
    /\ Goto("price", "A")
    /\ price' = MintPrice
    /\ UNCHANGED <<chainVars, lucky, anchor, a, b>>

\* The contract looks at the payment first and at the solution then.  Its ABI
\* has no error of its own for an anchor that is too old.
ErrorOf(value) ==
    IF value # MintPrice THEN "WrongPayment"
    ELSE IF minted \in lucky /\ AnchorOK(anchor) THEN "did not revert"
    ELSE "BadSolution"

\* classify_revert: the name of the error whose selector the exception carries.
\* An exception of the RPC itself, and a revert whose data the node leaves out,
\* has no selector or one that is not in the table.
Classified(value) == {ErrorOf(value), "unknown"}

\* Fault: the call is made without a value.
NoValue == 0

CorrectValue == price

CaseA ==
    /\ Goto("A", "B")
    /\ a' \in Classified(CorrectValue)
    /\ UNCHANGED <<chainVars, lucky, anchor, price, b>>

\* max(0, price - 1)
WrongValue == IF price > 0 THEN price - 1 ELSE 0

CaseB ==
    /\ Goto("B", "done")
    /\ b' \in Classified(WrongValue)
    /\ UNCHANGED <<chainVars, lucky, anchor, price, a>>

\* An exception of the snapshot is not caught.
Crash ==
    /\ pc \in {"anchor", "price"}
    /\ pc' = "crashed"
    /\ UNCHANGED <<chainVars, lucky, anchor, price, a, b>>

Ended == {"done", "crashed"}

Halted == pc \in Ended /\ UNCHANGED vars

PathStep == ReadAnchor \/ ReadPrice \/ CaseA \/ CaseB \/ Crash

World == ChainNext /\ UNCHANGED pathVars

Next == PathStep \/ Halted \/ World

Spec == Init /\ [][Next]_vars

-----------------------------------------------------------------------------
(* Properties.                                                             *)

\* Type invariant of the script.
TypeOK ==
    /\ ChainTypeOK
    /\ pc \in {"anchor", "price", "A", "B"} \cup Ended
    /\ lucky \subseteq Nat
    /\ anchor \in Nat /\ price \in Nat
    /\ {a, b} \subseteq {"none", "unknown", "did not revert", "BadSolution", "WrongPayment"}

\* What the script tells its reader to conclude is not upset by mints between
\* its calls, except that the correct value is refused once the price has
\* risen: the wrong value stays wrong, for the price never falls.  Only of a
\* mint that costs nothing there is no wrong value below the price.
VerdictsSurviveMints ==
    /\ a = "WrongPayment" => price # MintPrice
    /\ price > 0 => b \in {"none", "unknown", "WrongPayment"}
=============================================================================
