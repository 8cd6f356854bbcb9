------------------------------ MODULE Hashcats ------------------------------
(***************************************************************************)
(* The outside world of the miners: the Hashcats contract, the wallet's    *)
(* account and the mempool, as the Python code uses them over JSON-RPC.    *)
(* None of it is code of the repository; it is modelled from the ABI, from *)
(* what the scripts read and send, and from the rules the docs record as   *)
(* verified on the chain.  Every mint changes prevWork and no value of it  *)
(* comes back (it is a 256-bit hash), so prevWork is identified with the   *)
(* number of mints.                                                        *)
(***************************************************************************)
EXTENDS Integers, FiniteSets

CONSTANTS
    FloorBits,      \* difficulty in bits of epoch 0 with no burst
    FloorStep,      \* extra bits of every further epoch
    MaxBurst,       \* BURST_SHIFT_CAP
    EpochSize,      \* mints per epoch
    BasePrice,      \* mint price of epoch 0
    PriceStep,      \* PRICE_STEP
    AnchorWindow,   \* ANCHOR_WINDOW: how many blocks an anchor is accepted
    GasUsed,        \* gas of one mine() call, what estimate_gas answers
    GasPrices,      \* the gas prices the node may quote
    Balances,       \* balances the wallet may start with
    TopUpAmount,    \* what the owner adds to the wallet at a time
    MaxBal,         \* bound: no top-up above this balance
    MaxMinted,      \* bound: rivals stop at this number of mints
    MaxBlock,       \* bound on the block number
    MaxSent         \* bound: transactions of ours the node admits

ASSUME ChainAssumption ==
    /\ {FloorBits, FloorStep, MaxBurst, BasePrice, PriceStep, AnchorWindow,
        GasUsed, TopUpAmount, MaxBal, MaxMinted, MaxBlock, MaxSent} \subseteq Nat
    /\ EpochSize \in Nat \ {0}
    /\ GasPrices \subseteq Nat
    /\ Balances \subseteq Nat

VARIABLES
    minted,     \* mints so far, and so the identity of prevWork
    burst,      \* currentBurst()
    block,      \* the chain's block number
    gasPrice,   \* what eth_gasPrice answers
    bal,        \* the wallet's balance
    acctNonce,  \* our transactions the chain has executed ("latest" count)
    pool,       \* our transactions waiting in the mempool
    sent,       \* how many transactions of ours the node has admitted
    landed,     \* ids of our transactions that minted a cat
    reverted    \* ids of our transactions executed with status 0

chainVars == <<minted, burst, block, gasPrice, bal, acctNonce, pool, sent,
               landed, reverted>>

-----------------------------------------------------------------------------
Epoch(n)      == n \div EpochSize
PriceOf(n)    == BasePrice + PriceStep * Epoch(n)
EpochFloor(n) == FloorBits + FloorStep * Epoch(n)
MintPrice     == PriceOf(minted)
Bits          == EpochFloor(minted) + burst

\* A solution is the prevWork and the anchor block it was searched for and
\* the leading zero bits its hash has.
Solutions == [prev : Nat, anchor : Nat, q : Nat]
NoSol     == [prev |-> 0, anchor |-> 0, q |-> 0]

AnchorOK(a)        == block - a <= AnchorWindow
Wins(s)            == s.prev = minted /\ s.q >= Bits
MineOK(s, value)   == value = MintPrice /\ AnchorOK(s.anchor) /\ Wins(s)

\* A transaction: its id, account nonce, solution, value, gas limit and price
\* per gas.  The sender must be able to pay for the whole limit.
Txs == [id : Nat \ {0}, nonce : Nat, sol : Solutions, value : Nat, gas : Nat,
        bid : Nat]
Upfront(tx)  == tx.value + tx.gas * tx.bid
GasCost(tx)  == (IF tx.gas < GasUsed THEN tx.gas ELSE GasUsed) * tx.bid
Succeeds(tx) == MineOK(tx.sol, tx.value) /\ tx.gas >= GasUsed

-----------------------------------------------------------------------------
(* What the rest of the world does.                                        *)

ChainInit ==
    /\ minted = 0
    /\ burst \in 0..MaxBurst
    /\ block = 0
    /\ gasPrice \in GasPrices
    /\ bal \in Balances
    /\ acctNonce = 0
    /\ pool = {}
    /\ sent = 0
    /\ landed = {}
    /\ reverted = {}

Hotter == IF burst < MaxBurst THEN burst + 1 ELSE burst

RivalMint ==
    /\ minted < MaxMinted
    /\ minted' = minted + 1
    /\ burst' = Hotter
    /\ UNCHANGED <<block, gasPrice, bal, acctNonce, pool, sent, landed, reverted>>

\* Ten seconds without a mint.
Cool ==
    /\ burst > 0
    /\ burst' = burst - 1
    /\ UNCHANGED <<minted, block, gasPrice, bal, acctNonce, pool, sent, landed, reverted>>

NewBlock ==
    /\ block < MaxBlock
    /\ block' = block + 1
    /\ UNCHANGED <<minted, burst, gasPrice, bal, acctNonce, pool, sent, landed, reverted>>

GasMove ==
    /\ gasPrice' \in GasPrices \ {gasPrice}
    /\ UNCHANGED <<minted, burst, block, bal, acctNonce, pool, sent, landed, reverted>>

TopUp ==
    /\ bal + TopUpAmount <= MaxBal
    /\ bal' = bal + TopUpAmount
    /\ UNCHANGED <<minted, burst, block, gasPrice, acctNonce, pool, sent, landed, reverted>>

\* The chain executes our next transaction, at a gas price it still covers.
Execute(tx) ==
    /\ tx.nonce = acctNonce
    /\ tx.bid >= gasPrice
    /\ bal >= Upfront(tx)
    /\ acctNonce' = acctNonce + 1
    /\ pool' = pool \ {tx}
    /\ \/ /\ Succeeds(tx)
          /\ minted' = minted + 1
          /\ burst' = Hotter
          /\ bal' = bal - (tx.value + GasCost(tx))
          /\ landed' = landed \cup {tx.id}
          /\ UNCHANGED reverted
       \/ /\ ~Succeeds(tx)
          /\ bal' = bal - GasCost(tx)
          /\ reverted' = reverted \cup {tx.id}
          /\ UNCHANGED <<minted, burst, landed>>
    /\ UNCHANGED <<block, gasPrice, sent>>

\* The mempool forgets a transaction.
Drop(tx) ==
    /\ pool' = pool \ {tx}
    /\ UNCHANGED <<minted, burst, block, gasPrice, bal, acctNonce, sent, landed, reverted>>

ChainNext ==
    \/ RivalMint \/ Cool \/ NewBlock \/ GasMove \/ TopUp
    \/ \E tx \in pool : Execute(tx) \/ Drop(tx)

-----------------------------------------------------------------------------
(* What the node answers to eth_sendRawTransaction.                        *)

\* A node takes a transaction it can pay for, whose account nonce is not used
\* up, and lets it replace a waiting one only for a tenth more per gas.
Admissible(tx) ==
    /\ sent < MaxSent
    /\ tx.nonce >= acctNonce
    /\ bal >= Upfront(tx)
    /\ \A t \in pool : t.nonce = tx.nonce => tx.bid * 10 >= t.bid * 11

Admit(tx) ==
    /\ Admissible(tx)
    /\ sent' = sent + 1
    /\ pool' = {t \in pool : t.nonce # tx.nonce} \cup {tx}
    /\ UNCHANGED <<minted, burst, block, gasPrice, bal, acctNonce, landed, reverted>>

ChainTypeOK ==
    /\ minted \in Nat
    /\ burst \in 0..MaxBurst
    /\ block \in Nat
    /\ gasPrice \in GasPrices
    /\ bal \in Nat
    /\ acctNonce \in Nat
    /\ sent \in Nat
    /\ pool \subseteq {tx \in Txs : tx.id <= sent}
    /\ landed \subseteq 1..sent
    /\ reverted \subseteq 1..sent
=============================================================================
