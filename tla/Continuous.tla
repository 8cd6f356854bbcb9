----------------------------- MODULE Continuous ------------------------------
(***************************************************************************)
(* gpu/gpu_hunter_continuous.py: short CUDA slices on a state that is kept *)
(* from turn to turn and read anew when it is old, stale or used.  It does *)
(* not use mint.send: submit builds its own transaction, with the very gas *)
(* price that went into the funds check.                                   *)
(***************************************************************************)
EXTENDS MintTx

CONSTANTS
    MaxBits,        \* --max-bits
    GasMult,        \* --gas-mult, in tenths
    Luck            \* bound: bits a found hash may have beyond the target

VARIABLES
    send,       \* --send
    st,         \* the state the slices work on
    draft,      \* the reads of a fresh_state under way
    started,    \* the first fresh_state, outside the try, is done
    held,       \* bal: the balance last read
    lost        \* an admitted transaction's outcome was swallowed by an error

contVars == <<send, st, draft, started, held, lost>>
vars == <<chainVars, txVars, contVars, pc, sol>>

Reads     == {"anchor", "prevWork", "target"}
SendSteps == {"count", "broadcast", "receipt", "verify"}
Raising   == Reads \cup SendSteps \cup
             {"slice", "recheck", "quote", "price", "balance", "fee"}
Ended     == {"done", "stopped", "crashed"}
Labels    == Raising \cup Ended \cup {"top", "gate", "submit", "call", "gas", "sleep"}

NoState == [anchor |-> 0, prevWork |-> 0, target |-> 0]

Init ==
    /\ ChainInit
    /\ pc = "anchor"
    /\ st = NoState /\ draft = NoState /\ sol = NoSol
    /\ price = 0 /\ bid = 0 /\ txNonce = 0 /\ txid = 0
    /\ held = 0
    /\ started = FALSE /\ lost = FALSE
    /\ send \in BOOLEAN

\* The locals of submit and the nonce of the slice are not used again.
LeaveSubmit ==
    /\ sol' = NoSol
    /\ price' = 0 /\ bid' = 0 /\ txNonce' = 0 /\ txid' = 0
    /\ held' = 0

\* continue, the state kept.
Continue(from) ==
    /\ Goto(from, "top")
    /\ LeaveSubmit
    /\ UNCHANGED <<chainVars, send, st, draft, started, lost>>

\* st = fresh_state(...), after a stale hit or after a submit.
Renew(from) ==
    /\ Goto(from, "anchor")
    /\ LeaveSubmit
    /\ UNCHANGED <<chainVars, send, st, draft, started, lost>>

-----------------------------------------------------------------------------
(* fresh_state: a batch, whose calls the node answers one after the other; *)
(* the state changes hands only when the whole batch is there.             *)

Live == [anchor |-> block, prevWork |-> minted, target |-> Bits]

NextRead == [anchor |-> "prevWork", prevWork |-> "target", target |-> "top"]

Read(field) ==
    /\ Goto(field, NextRead[field])
    /\ LET read == [draft EXCEPT ![field] = Live[field]] IN
         IF NextRead[field] = "top"
         THEN st' = read /\ draft' = NoState /\ started' = TRUE
         ELSE draft' = read /\ UNCHANGED <<st, started>>
    /\ UNCHANGED <<chainVars, txVars, sol, send, held, lost>>

\* The state is older than a slice, or it is not: the clock decides.
Top ==
    /\ Goto("top", "anchor") \/ Goto("top", "gate")
    /\ UNCHANGED <<chainVars, txVars, contVars, sol>>

Gate ==
    \/ st.target > MaxBits /\ Continue("gate")
    \/ /\ st.target <= MaxBits
       /\ Goto("gate", "slice")
       /\ UNCHANGED <<chainVars, txVars, contVars, sol>>

\* run_slice read a FOUND; Continue("slice") is its None.  The binary is not
\* trusted: what it found may be nothing at all.
SliceFound ==
    /\ Goto("slice", "recheck")
    /\ \E q \in {0} \cup (st.target..(st.target + Luck)) :
          sol' = [prev |-> st.prevWork, anchor |-> st.anchor, q |-> q]
    /\ UNCHANGED <<chainVars, txVars, contVars>>

Recheck ==
    \/ /\ minted = st.prevWork
       /\ Goto("recheck", "submit")
       /\ UNCHANGED <<chainVars, txVars, contVars, sol>>
    \/ minted # st.prevWork /\ Renew("recheck")

-----------------------------------------------------------------------------
(* submit                                                                  *)

\* verify_local hashes the nonce again, with the state it was searched for.
\* Then a dry run only quotes the price, and main() renews the state.
LocalCheck ==
    \/ sol.q < st.target /\ Renew("submit")
    \/ /\ sol.q >= st.target
       /\ Goto("submit", IF send THEN "price" ELSE "quote")
       /\ UNCHANGED <<chainVars, txVars, contVars, sol>>

\* Fault: the verdict will_succeed is not looked at.
UncheckedSimulate ==
    \/ ReadMintPrice("price", "call") /\ UNCHANGED contVars
    \/ CallWithoutCheck("call", "balance") /\ UNCHANGED contVars

Simulate ==
    \/ ReadMintPrice("price", "call") /\ UNCHANGED contVars
    \/ CallPasses("call", "gas") /\ UNCHANGED contVars
    \/ CallPasses("gas", "balance") /\ UNCHANGED contVars
    \/ Renew("call")
    \/ Renew("gas")

ReadBalance ==
    /\ Goto("balance", "fee")
    /\ held' = bal
    /\ UNCHANGED <<chainVars, txVars, sol, send, st, draft, started, lost>>

MineGas    == (GasUsed * 13) \div 10
RaceBid(gp) == (gp * GasMult) \div 10

\* Fault: the funds check forgets the margin on the gas.
NeedWithoutMargin(gp) == price + GasUsed * RaceBid(gp)

NeedAt(gp) == price + MineGas * RaceBid(gp)

\* gp = int(gas_price * gas_mult), need, and the comparison.
CheckFunds ==
    \/ /\ held >= NeedAt(gasPrice)
       /\ Goto("fee", "count")
       /\ bid' = RaceBid(gasPrice)
       /\ UNCHANGED <<chainVars, sol, price, txNonce, txid, contVars>>
    \/ held < NeedAt(gasPrice) /\ Renew("fee")

MineTx == [Tx EXCEPT !.gas = MineGas]

SendRaw ==
    /\ Goto("broadcast", "receipt")
    /\ Admit(MineTx)
    /\ txid' = MineTx.id
    /\ UNCHANGED <<sol, price, bid, txNonce, contVars>>

\* Fault: submit's verdict ends the loop of a dry run only.
VerifyThenRenew == Renew("verify")

\* SUCCESS, which main() answers with MISSION COMPLETE, or status 0.
ReceiptRead ==
    \/ Receipt(1, "receipt", "verify") /\ UNCHANGED contVars
    \/ txid \in reverted /\ Renew("receipt")

Verify ==
    /\ Goto("verify", "done")
    /\ LeaveSubmit
    /\ UNCHANGED <<chainVars, send, st, draft, started, lost>>

-----------------------------------------------------------------------------
\* An exception keeps the state as it was and, after two seconds, the loop
\* goes on; one in the first fresh_state leaves main().
Raise ==
    /\ pc \in Raising
    /\ pc' = IF started THEN "sleep" ELSE "crashed"
    /\ lost' = (lost \/ txid # 0)
    /\ draft' = NoState
    /\ LeaveSubmit
    /\ UNCHANGED <<chainVars, send, st, started>>

AnswerLost ==
    /\ Goto("broadcast", "sleep")
    /\ Admit(MineTx)
    /\ lost' = TRUE
    /\ LeaveSubmit
    /\ UNCHANGED <<send, st, draft, started>>

Interrupt ==
    /\ pc \notin Ended
    /\ pc' = "stopped"
    /\ draft' = NoState
    /\ LeaveSubmit
    /\ UNCHANGED <<chainVars, send, st, started, lost>>

Halted == pc \in Ended /\ UNCHANGED vars

ContStep ==
    \/ \E field \in Reads : Read(field)
    \/ Top \/ Gate
    \/ SliceFound \/ Continue("slice")
    \/ Recheck \/ LocalCheck \/ Renew("quote")
    \/ Simulate \/ ReadBalance \/ CheckFunds
    \/ ReadCount("count", "broadcast") /\ UNCHANGED contVars
    \/ SendRaw \/ AnswerLost \/ ReceiptRead \/ Verify
    \/ Raise \/ Continue("sleep")

World == ChainNext /\ UNCHANGED <<txVars, contVars, pc, sol>>

Next == ContStep \/ Interrupt \/ World \/ Halted

Spec == Init /\ [][Next]_vars

-----------------------------------------------------------------------------
(* Properties.                                                             *)

\* Type invariant of gpu_hunter_continuous.py and of its chain.
TypeOK ==
    /\ ChainTypeOK
    /\ pc \in Labels
    /\ st \in [Reads -> Nat] /\ draft \in [Reads -> Nat]
    /\ sol \in Solutions
    /\ price \in Nat /\ bid \in Nat /\ txNonce \in Nat
    /\ txid \in 0..sent
    /\ held \in Nat
    /\ send \in BOOLEAN /\ started \in BOOLEAN /\ lost \in BOOLEAN

Race == INSTANCE MintRace

\* gpu_hunter_continuous.py does to the chain only what MintRace allows.
ImplementsRace == Race!Spec

\* It buys a second cat only when an error swallowed the outcome of the first.
ExtraCatNeedsLostOutcome == Cardinality(landed) > 1 => lost

\* What was asked of the wallet is what the transaction may cost: of all the
\* scripts only this one bids the gas price it checked the funds with.
CheckedFundsCover == pc = "broadcast" => held >= Upfront(MineTx)

\* The set-up guide: as soon as it has a cat, the program stops.
StopsAfterFirstCat == Cardinality(landed) <= 1
=============================================================================
