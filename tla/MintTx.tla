------------------------------- MODULE MintTx -------------------------------
(***************************************************************************)
(* mint.py: simulating mine(nonce, anchorBlock) and sending it.  Every RPC *)
(* is a step of its own, because the chain moves between any two of them.  *)
(* The steps are parameterised by the control label they start from and    *)
(* the one they lead to, so that every script that calls build_and_check   *)
(* and send is built from the same ones.  What an exception does is the    *)
(* caller's business: this module only says which steps may fail.          *)
(***************************************************************************)
EXTENDS Hashcats

VARIABLES
    pc,         \* where the script is
    sol,        \* the solution it holds
    price,      \* result["price"] of the latest build_and_check
    bid,        \* gasPrice of the transaction being built
    txNonce,    \* nonce of the transaction being built
    txid        \* the transaction whose receipt is awaited; 0 for none

txVars == <<price, bid, txNonce, txid>>

\* A quarter more gas than estimated, a fifth more than the quoted gas price,
\* both truncated by int().
GasLimit == (GasUsed * 5) \div 4
Bid(gp)  == (gp * 6) \div 5

Goto(from, to) == pc = from /\ pc' = to

-----------------------------------------------------------------------------
(* build_and_check                                                         *)

ReadMintPrice(from, to) ==
    /\ Goto(from, to)
    /\ price' = MintPrice
    /\ UNCHANGED <<chainVars, sol, bid, txNonce, txid>>

\* Fault: the simulation's verdict is ignored.
CallWithoutCheck(from, to) ==
    /\ Goto(from, to)
    /\ UNCHANGED <<chainVars, sol, txVars>>

\* fn.call and, after it, fn.estimate_gas both run the call on the chain's
\* latest state.  Any exception of either, whether the contract reverted or
\* the RPC failed, ends in will_succeed = False: the caller's failing branch,
\* which is enabled at any time.
CallPasses(from, to) ==
    /\ Goto(from, to)
    /\ MineOK(sol, price)
    /\ UNCHANGED <<chainVars, sol, txVars>>

-----------------------------------------------------------------------------
(* send                                                                    *)

ReadFee(from, to) ==
    /\ Goto(from, to)
    /\ bid' = Bid(gasPrice)
    /\ UNCHANGED <<chainVars, sol, price, txNonce, txid>>

\* Fault: the count of block "pending".
PendingCount == acctNonce + Cardinality(pool)

\* Fault: the count of transactions is taken for the last nonce used.
CountPlusOne == acctNonce + 1

\* get_transaction_count(addr) with no block argument counts executed
\* transactions only.
TransactionCount == acctNonce

ReadCount(from, to) ==
    /\ Goto(from, to)
    /\ txNonce' = TransactionCount
    /\ UNCHANGED <<chainVars, sol, price, bid, txid>>

\* Fault: build_transaction without "value".
TxWithoutValue == [id |-> sent + 1, nonce |-> txNonce, sol |-> sol, value |-> 0,
                   gas |-> GasLimit, bid |-> bid]

Tx == [id |-> sent + 1, nonce |-> txNonce, sol |-> sol, value |-> price,
       gas |-> GasLimit, bid |-> bid]

\* send_raw_transaction returns the hash of an admitted transaction.
Broadcast(from, to) ==
    /\ Goto(from, to)
    /\ Admit(Tx)
    /\ txid' = Tx.id
    /\ UNCHANGED <<sol, price, bid, txNonce>>

\* wait_for_transaction_receipt answered with this status.
Receipt(status, from, to) ==
    /\ Goto(from, to)
    /\ txid \in IF status = 1 THEN landed ELSE reverted
    /\ UNCHANGED <<chainVars, sol, txVars>>
=============================================================================
