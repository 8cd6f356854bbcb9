--------------------------- MODULE HashcatsProofs ---------------------------
(***************************************************************************)
(* Facts about the outside world that the proofs of every program that     *)
(* mints rest on: the types of its steps, what only grows, and what a      *)
(* solution found for one prevWork is worth as long as no mint happens.    *)
(***************************************************************************)
EXTENDS Hashcats, FiniteSetTheorems, TLAPS

-----------------------------------------------------------------------------
(* Arithmetic.                                                             *)

\* The epoch, the price and the difficulty floor of a mint are naturals.
LEMMA ChainNumbers ==
    ASSUME NEW n \in Nat
    PROVE  Epoch(n) \in Nat /\ PriceOf(n) \in Nat /\ EpochFloor(n) \in Nat
<1>1. Epoch(n) \in Nat
  BY ChainAssumption DEF Epoch
<1>2. PriceStep * Epoch(n) \in Nat /\ FloorStep * Epoch(n) \in Nat
  BY <1>1, ChainAssumption
<1> QED
  BY <1>1, <1>2, ChainAssumption DEF PriceOf, EpochFloor

\* The price of a later cat is never lower.
LEMMA PriceGrows ==
    ASSUME NEW m \in Nat, NEW n \in Nat, m <= n
    PROVE  PriceOf(m) <= PriceOf(n)
<1>1. Epoch(m) \in Nat /\ Epoch(n) \in Nat /\ EpochSize \in Nat /\ EpochSize > 0
      /\ PriceStep \in Nat /\ BasePrice \in Nat
  BY ChainNumbers, ChainAssumption
<1>2. Epoch(m) <= Epoch(n)
  BY <1>1 DEF Epoch
<1>3. \A p, q, r \in Nat : q <= r => p * q <= p * r /\ p * q \in Nat /\ p * r \in Nat
  OBVIOUS
<1>4. PriceStep * Epoch(m) <= PriceStep * Epoch(n)
  BY <1>1, <1>2, <1>3
<1>5. PriceStep * Epoch(m) \in Nat /\ PriceStep * Epoch(n) \in Nat
  BY <1>1, <1>3
<1> QED
  BY <1>1, <1>4, <1>5 DEF PriceOf

\* A transaction that the balance covers up front costs no more than that.
LEMMA GasCostBound ==
    ASSUME NEW tx \in Txs
    PROVE  GasCost(tx) \in Nat /\ GasCost(tx) <= tx.gas * tx.bid
           /\ tx.gas * tx.bid \in Nat
<1>1. tx.gas \in Nat /\ tx.bid \in Nat /\ GasUsed \in Nat
  BY ChainAssumption DEF Txs
<1>2. \A a, b, c \in Nat : a <= b => a * c <= b * c /\ a * c \in Nat /\ b * c \in Nat
  OBVIOUS
<1> QED
  BY <1>1, <1>2 DEF GasCost

-----------------------------------------------------------------------------
(* The steps of the chain, and of the node that admits a transaction.      *)

LEMMA HotterType ==
    ASSUME burst \in 0..MaxBurst
    PROVE  Hotter \in 0..MaxBurst
BY ChainAssumption DEF Hotter

LEMMA ChainTypeStep ==
    ASSUME ChainTypeOK, ChainNext
    PROVE  ChainTypeOK'
<1> USE ChainAssumption
<1>1. ASSUME RivalMint PROVE ChainTypeOK'
  BY <1>1, HotterType DEF ChainTypeOK, RivalMint
<1>2. ASSUME Cool PROVE ChainTypeOK'
  BY <1>2 DEF ChainTypeOK, Cool
<1>3. ASSUME NewBlock PROVE ChainTypeOK'
  BY <1>3 DEF ChainTypeOK, NewBlock
<1>4. ASSUME GasMove PROVE ChainTypeOK'
  BY <1>4 DEF ChainTypeOK, GasMove
<1>5. ASSUME TopUp PROVE ChainTypeOK'
  BY <1>5 DEF ChainTypeOK, TopUp
<1>6. ASSUME NEW tx \in pool, Execute(tx) PROVE ChainTypeOK'
  <2>1. tx \in Txs /\ tx.id \in 1..sent /\ tx.value \in Nat
    BY DEF ChainTypeOK, Txs
  <2>2. bal - GasCost(tx) \in Nat /\ bal - (tx.value + GasCost(tx)) \in Nat
    BY <1>6, <2>1, GasCostBound DEF ChainTypeOK, Execute, Upfront
  <2>3. bal' \in Nat
    BY <1>6, <2>2 DEF Execute
  <2>4. minted' \in Nat /\ burst' \in 0..MaxBurst /\ acctNonce' \in Nat
    BY <1>6, HotterType DEF ChainTypeOK, Execute
  <2>5. landed' \subseteq 1..sent /\ reverted' \subseteq 1..sent /\ pool' \subseteq pool
    BY <1>6, <2>1 DEF ChainTypeOK, Execute
  <2> QED
    BY <1>6, <2>3, <2>4, <2>5 DEF ChainTypeOK, Execute
<1>7. ASSUME NEW tx \in pool, Drop(tx) PROVE ChainTypeOK'
  BY <1>7 DEF ChainTypeOK, Drop
<1> QED
  BY <1>1, <1>2, <1>3, <1>4, <1>5, <1>6, <1>7 DEF ChainNext

\* Whatever the chain does, mints only accumulate, and as long as none happens
\* the difficulty does not rise.
LEMMA ChainOnlyCools ==
    ASSUME ChainTypeOK, ChainNext
    PROVE  minted' >= minted /\ (minted' = minted => burst' <= burst)
BY DEF ChainTypeOK, ChainNext, RivalMint, Cool, NewBlock, GasMove, TopUp, Execute, Drop

LEMMA ChainUnchanged ==
    ASSUME ChainTypeOK, UNCHANGED chainVars
    PROVE  ChainTypeOK'
BY DEF ChainTypeOK, chainVars

\* The node admits a well-formed transaction of ours.
LEMMA AdmitType ==
    ASSUME ChainTypeOK, NEW tx \in Txs, tx.id = sent + 1, Admit(tx)
    PROVE  ChainTypeOK' /\ sent' = sent + 1
<1>1. sent' = sent + 1 /\ sent \in Nat /\ tx.id <= sent'
  BY DEF Admit, ChainTypeOK
<1>2. \A t \in pool : t \in Txs /\ t.id <= sent'
  BY <1>1 DEF ChainTypeOK, Txs
<1>3. pool' \subseteq {t \in Txs : t.id <= sent'}
  BY <1>1, <1>2 DEF Admit
<1>4. landed' \subseteq 1..sent' /\ reverted' \subseteq 1..sent'
  BY <1>1 DEF Admit, ChainTypeOK
<1> QED
  BY <1>1, <1>3, <1>4 DEF Admit, ChainTypeOK

LEMMA ChainInitType == ChainInit => ChainTypeOK
BY ChainAssumption DEF ChainInit, ChainTypeOK

-----------------------------------------------------------------------------
(* What a hash is worth.                                                   *)

\* A hash of q bits, searched for prevWork p, wins as long as no mint happens.
\* This is inductive because between two mints the difficulty only cools.
Winning(p, q) == p <= minted /\ (p = minted => q >= Bits)

LEMMA BitsNat ==
    ASSUME ChainTypeOK
    PROVE  Bits \in Nat
<1>1. EpochFloor(minted) \in Nat /\ burst \in Nat
  BY ChainNumbers, ChainAssumption DEF ChainTypeOK
<1> QED
  BY <1>1 DEF Bits

LEMMA WinningUnchanged ==
    ASSUME UNCHANGED <<minted, burst>>, NEW p, NEW q
    PROVE  Winning(p, q)' <=> Winning(p, q)
BY DEF Winning, Bits, EpochFloor, Epoch

LEMMA WinningKept ==
    ASSUME ChainTypeOK, ChainNext, NEW p \in Nat, NEW q \in Nat, Winning(p, q)
    PROVE  Winning(p, q)'
<1>1. minted' >= minted /\ (minted' = minted => burst' <= burst)
  BY ChainOnlyCools
<1>2. minted \in Nat /\ minted' \in Nat /\ burst \in Nat /\ burst' \in Nat
  BY ChainTypeStep, ChainAssumption DEF ChainTypeOK
<1>3. EpochFloor(minted) \in Nat /\ EpochFloor(minted') \in Nat
  BY <1>2, ChainNumbers
<1>4. CASE p < minted
  BY <1>1, <1>2, <1>4 DEF Winning
<1>5. CASE p = minted /\ minted' # minted
  BY <1>1, <1>2, <1>5 DEF Winning
<1>6. CASE p = minted /\ minted' = minted
  <2>1. Bits' = EpochFloor(minted) + burst'
    BY <1>6 DEF Bits, EpochFloor, Epoch
  <2> QED
    BY <1>1, <1>2, <1>3, <1>6, <2>1 DEF Winning, Bits
<1> QED
  BY <1>2, <1>4, <1>5, <1>6 DEF Winning
=============================================================================
