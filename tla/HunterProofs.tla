---------------------------- MODULE HunterProofs ----------------------------
(***************************************************************************)
(* What the CPU hunter does right for every value of the constants: its    *)
(* type invariant and the safety properties of Hunter.tla, by one          *)
(* inductive invariant built from named parts.                             *)
(***************************************************************************)
EXTENDS Hunter, HashcatsProofs

-----------------------------------------------------------------------------
(* The transaction.                                                        *)

\* int(gas * 1.25) is never below the estimate it starts from, and the bid is
\* a natural number.
LEMMA TxNumbers ==
    /\ GasLimit \in Nat /\ GasLimit >= GasUsed
    /\ \A gp \in GasPrices : Bid(gp) \in Nat
<1>1. GasUsed \in Nat /\ GasPrices \subseteq Nat
  BY ChainAssumption
<1>2. \A g \in Nat : (g * 5) \div 4 \in Nat /\ (g * 5) \div 4 >= g
  OBVIOUS
<1>3. \A g \in Nat : (g * 6) \div 5 \in Nat
  OBVIOUS
<1> QED
  BY <1>1, <1>2, <1>3 DEF GasLimit, Bid

\* The transaction send() builds is well formed.
LEMMA TxType ==
    ASSUME TypeOK
    PROVE  Tx \in Txs /\ Tx.id = sent + 1
BY TxNumbers DEF TypeOK, ChainTypeOK, Tx, Txs

LEMMA AdmitTxType ==
    ASSUME TypeOK, Admit(Tx)
    PROVE  ChainTypeOK' /\ sent' = sent + 1
BY TxType, AdmitType DEF TypeOK

-----------------------------------------------------------------------------
(* Type correctness.                                                       *)

\* The steps that end a hunt clear its locals.
LEMMA LeaveHuntType ==
    ASSUME TypeOK, LeaveHunt, ChainTypeOK', pc' \in Labels,
           send' = send, lost' \in BOOLEAN
    PROVE  TypeOK'
<1>1. NoSnap \in [SnapReads -> Nat]
  BY DEF NoSnap, SnapReads
<1>2. NoSol \in Solutions
  BY DEF NoSol, Solutions
<1>3. 0 \in 0..HoldTries /\ 0 \in 0..sent'
  BY HunterAssumption DEF ChainTypeOK
<1> QED
  BY <1>1, <1>2, <1>3 DEF TypeOK, LeaveHunt

LEMMA RetryType ==
    ASSUME TypeOK, NEW from \in Labels, Retry(from)
    PROVE  TypeOK'
BY LeaveHuntType, ChainUnchanged DEF Retry, Goto, TypeOK, Labels, Raising, SnapReads

LEMMA SimulateType ==
    ASSUME TypeOK, NEW p \in Labels, NEW c \in Labels, NEW g \in Labels, NEW to \in Labels,
           Simulate(p, c, g, to)
    PROVE  TypeOK'
<1>1. ASSUME ReadMintPrice(p, c), UNCHANGED huntVars PROVE TypeOK'
  <2>1. MintPrice \in Nat
    BY ChainNumbers DEF TypeOK, ChainTypeOK, MintPrice
  <2> QED
    BY <1>1, <2>1, ChainUnchanged DEF ReadMintPrice, Goto, TypeOK, huntVars, chainVars
<1>2. ASSUME NEW from \in Labels, NEW next \in Labels, CallPasses(from, next), UNCHANGED huntVars
      PROVE  TypeOK'
  BY <1>2, ChainUnchanged DEF CallPasses, Goto, TypeOK, huntVars, txVars, chainVars
<1> QED
  BY <1>1, <1>2, RetryType DEF Simulate

LEMMA SnapshotType ==
    ASSUME TypeOK, NEW field \in SnapReads, Snapshot(field)
    PROVE  TypeOK'
<1>1. Live[field] \in Nat
  BY ChainNumbers, ChainAssumption DEF Live, SnapReads, TypeOK, ChainTypeOK, Bits
<1>2. NextRead[field] \in Labels
  BY DEF NextRead, SnapReads, Labels, Raising
<1>3. snap' \in [SnapReads -> Nat]
  BY <1>1 DEF Snapshot, TypeOK
<1> QED
  BY <1>2, <1>3, ChainUnchanged DEF Snapshot, Goto, TypeOK, txVars, chainVars

LEMMA HunterStepType ==
    ASSUME TypeOK, HunterStep
    PROVE  TypeOK'
<1> USE DEF Goto, txVars, huntVars, chainVars, Labels, Raising, SnapReads, SendSteps
<1>1. ASSUME NEW field \in SnapReads, Snapshot(field) PROVE TypeOK'
  BY <1>1, SnapshotType
<1>2. CASE WindowClosed
  BY <1>2, LeaveHuntType, ChainUnchanged DEF WindowClosed, TypeOK
<1>3. CASE WindowOpen
  BY <1>3, ChainUnchanged DEF WindowOpen, TypeOK
<1>4. CASE SolveFound
  <2>1. sol' \in Solutions
    BY <1>4, HunterAssumption DEF SolveFound, TypeOK, Solutions
  <2> QED
    BY <1>4, <2>1, ChainUnchanged DEF SolveFound, TypeOK
<1>5. ASSUME NEW from \in Labels, Retry(from) PROVE TypeOK'
  BY <1>5, RetryType
<1>6. CASE Simulate("price1", "call1", "gas1", "dry") \/ Simulate("price2", "call2", "gas2", "fee")
  BY <1>6, SimulateType
<1>7. CASE DryOrSend
  BY <1>7, RetryType, ChainUnchanged DEF DryOrSend, TypeOK
<1>8. CASE ReadBalance
  BY <1>8, ChainUnchanged DEF ReadBalance, TypeOK, ChainTypeOK
<1>9. CASE CheckFunds
  <2>1. Bid(gasPrice) \in Nat /\ GasLimit \in Nat /\ price \in Nat
    BY TxNumbers DEF TypeOK, ChainTypeOK
  <2>2. Need \in Nat
    BY <2>1 DEF Need
  <2> QED
    BY <1>9, <2>2, HunterAssumption, ChainUnchanged DEF CheckFunds, TypeOK
<1>10. CASE HoldFunded
  BY <1>10, HunterAssumption, ChainUnchanged DEF HoldFunded, TypeOK, ChainTypeOK
<1>11. CASE HoldOn
  BY <1>11, HunterAssumption, ChainUnchanged DEF HoldOn, TypeOK, ChainTypeOK
<1>12. CASE HoldOver
  BY <1>12, RetryType DEF HoldOver
<1>13. CASE ReadFee("fee", "count") /\ UNCHANGED huntVars
  BY <1>13, TxNumbers, ChainUnchanged DEF ReadFee, TypeOK, ChainTypeOK
<1>14. CASE ReadCount("count", "broadcast") /\ UNCHANGED huntVars
  BY <1>14, ChainUnchanged DEF ReadCount, TransactionCount, TypeOK, ChainTypeOK
<1>15. CASE Broadcast("broadcast", "receipt") /\ UNCHANGED huntVars
  BY <1>15, AdmitTxType, TxType DEF Broadcast, TypeOK, ChainTypeOK
<1>16. CASE AnswerLost
  BY <1>16, AdmitTxType, LeaveHuntType DEF AnswerLost, TypeOK
<1>17. CASE ReceiptRead
  BY <1>17, RetryType, ChainUnchanged DEF ReceiptRead, Receipt, TypeOK
<1>18. CASE Verify
  BY <1>18, LeaveHuntType, ChainUnchanged DEF Verify, TypeOK
<1>19. CASE Raise
  BY <1>19, LeaveHuntType, ChainUnchanged DEF Raise, TypeOK
<1> QED
  BY <1>1, <1>2, <1>3, <1>4, <1>5, <1>6, <1>7, <1>8, <1>9, <1>10, <1>11, <1>12,
     <1>13, <1>14, <1>15, <1>16, <1>17, <1>18, <1>19 DEF HunterStep

LEMMA TypeInit == HunterInit => TypeOK
<1> SUFFICES ASSUME HunterInit PROVE TypeOK
  OBVIOUS
<1>1. NoSnap \in [SnapReads -> Nat] /\ NoSol \in Solutions
  BY DEF NoSnap, SnapReads, NoSol, Solutions
<1>2. 0 \in 0..HoldTries
  BY HunterAssumption
<1>3. ChainTypeOK
  BY ChainAssumption DEF HunterInit, ChainInit, ChainTypeOK
<1>4. sent = 0 /\ pc \in Labels
  BY DEF HunterInit, ChainInit, Labels, Raising, SnapReads
<1>5. send \in BOOLEAN /\ lost \in BOOLEAN
  BY DEF HunterInit
<1>6. /\ snap \in [SnapReads -> Nat] /\ sol \in Solutions
      /\ tries \in 0..HoldTries /\ txid \in 0..sent
  BY <1>1, <1>2, <1>4 DEF HunterInit
<1>7. {price, bid, txNonce, held, need} \subseteq Nat
  BY DEF HunterInit
<1> QED
  BY <1>3, <1>4, <1>5, <1>6, <1>7 DEF TypeOK

LEMMA TypeStep ==
    ASSUME TypeOK, [Next]_vars
    PROVE  TypeOK'
<1>1. CASE HunterStep
  BY <1>1, HunterStepType
<1>2. CASE Interrupt
  BY <1>2, LeaveHuntType, ChainUnchanged DEF Interrupt, TypeOK, Labels
<1>3. CASE World
  <2>1. ChainTypeOK' /\ sent' = sent
    BY <1>3, ChainTypeStep DEF World, TypeOK, ChainNext, RivalMint, Cool, NewBlock,
       GasMove, TopUp, Execute, Drop
  <2> QED
    BY <1>3, <2>1 DEF World, TypeOK, txVars, huntVars
<1>4. CASE UNCHANGED vars
  BY <1>4, ChainUnchanged DEF vars, TypeOK, txVars, huntVars, chainVars
<1> QED
  BY <1>1, <1>2, <1>3, <1>4 DEF Next, Halted

\* The type invariant of the hunter, its transactions and the chain holds for
\* any difficulty, price, wallet and number of polls.
THEOREM HunterTypeCorrect == Spec => []TypeOK
BY TypeInit, TypeStep, PTL DEF Spec

-----------------------------------------------------------------------------
(* The search: what is hunted for is worth sending while prevWork stands.  *)

SolSteps == {"price1", "call1", "gas1", "dry", "balance", "need", "hold",
             "price2", "call2", "gas2"} \cup SendSteps

SearchInv ==
    /\ snap.prevWork <= minted
    /\ pc \in {"total", "gate", "solve"} => Winning(snap.prevWork, snap.target)
    /\ pc \in SolSteps => Winning(sol.prev, sol.q)
    /\ pc \notin SolSteps => sol = NoSol

\* The hunter itself changes nothing of the chain but the mempool.
LEMMA HunterLeavesChain ==
    ASSUME HunterStep \/ Interrupt
    PROVE  UNCHANGED <<minted, burst, block, gasPrice, bal, acctNonce, landed, reverted>>
BY DEF HunterStep, Interrupt, Snapshot, WindowClosed, WindowOpen, SolveFound, Retry,
   Simulate, ReadMintPrice, CallPasses, DryOrSend, ReadBalance, CheckFunds,
   HoldFunded, HoldOn, HoldOver, ReadFee, ReadCount, Broadcast, AnswerLost, Admit,
   ReceiptRead, Receipt, Verify, Raise, chainVars

\* Every step that ends a hunt leaves nothing to be claimed of it.
LEMMA LeaveHuntSearch ==
    ASSUME TypeOK, LeaveHunt, minted' = minted,
           pc' \in {"anchor", "sleep", "done", "stopped"}
    PROVE  SearchInv'
BY DEF TypeOK, ChainTypeOK, LeaveHunt, NoSnap, SearchInv, SolSteps, SendSteps

LEMMA SnapshotSearch ==
    ASSUME TypeOK, SearchInv, NEW field \in SnapReads, Snapshot(field)
    PROVE  SearchInv'
<1>1. snap \in [SnapReads -> Nat] /\ minted \in Nat /\ sol' = sol
  BY DEF TypeOK, ChainTypeOK, Snapshot
<1>2. UNCHANGED <<minted, burst>>
  BY DEF Snapshot, chainVars
<1>3. Bits' = Bits /\ Bits \in Nat
  BY <1>2, BitsNat DEF Bits, EpochFloor, Epoch, TypeOK
<1>4. sol' = NoSol /\ pc' \notin SolSteps
  BY <1>1 DEF SearchInv, Snapshot, Goto, NextRead, SnapReads, SolSteps, SendSteps
<1>5. snap'.prevWork <= minted'
  BY <1>1, <1>2 DEF SearchInv, Snapshot, Live, SnapReads
<1>6. CASE field = "target"
  BY <1>1, <1>2, <1>3, <1>4, <1>5, <1>6
     DEF SearchInv, Snapshot, Goto, NextRead, Live, SnapReads, Winning
<1>7. CASE field = "total"
  BY <1>1, <1>2, <1>3, <1>4, <1>5, <1>7
     DEF SearchInv, Snapshot, Goto, NextRead, Live, SnapReads, Winning
<1>8. CASE field \in {"anchor", "prevWork"}
  BY <1>4, <1>5, <1>8 DEF SearchInv, Snapshot, Goto, NextRead
<1> QED
  BY <1>6, <1>7, <1>8 DEF SnapReads

\* The steps that hold what they have: prevWork, the solution and the target
\* stay, and the control stays on the same side of SolveFound.
LEMMA KeepSearch ==
    ASSUME SearchInv, UNCHANGED <<minted, burst, snap, sol>>,
           pc \in SolSteps <=> pc' \in SolSteps,
           pc' \in {"total", "gate", "solve"} => pc \in {"total", "gate", "solve"}
    PROVE  SearchInv'
BY WinningUnchanged DEF SearchInv

LEMMA SearchStep ==
    ASSUME TypeOK, SearchInv, [Next]_vars
    PROVE  SearchInv'
<1> USE DEF Goto, SolSteps, SendSteps, chainVars
<1>1. ASSUME NEW field \in SnapReads, Snapshot(field) PROVE SearchInv'
  BY <1>1, SnapshotSearch
<1>2. CASE WindowClosed
  BY <1>2, LeaveHuntSearch DEF WindowClosed
<1>3. CASE WindowOpen
  BY <1>3, KeepSearch DEF WindowOpen, huntVars
<1>4. CASE SolveFound
  <2>1. PICK q \in snap.target..(snap.target + Luck) :
           sol' = [prev |-> snap.prevWork, anchor |-> snap.anchor, q |-> q]
    BY <1>4 DEF SolveFound
  <2>2. q >= snap.target /\ q \in Nat /\ snap.target \in Nat
    BY <2>1, HunterAssumption DEF TypeOK, SnapReads
  <2>3. Winning(snap.prevWork, q)
    BY <1>4, <2>2, BitsNat DEF SolveFound, SearchInv, Winning, TypeOK
  <2>4. Winning(snap.prevWork, q)' /\ snap' = snap
    BY <1>4, <2>3, WinningUnchanged DEF SolveFound, huntVars
  <2> QED
    BY <1>4, <2>1, <2>4 DEF SolveFound, SearchInv, Winning
<1>5. ASSUME NEW from, Retry(from) PROVE SearchInv'
  BY <1>5, LeaveHuntSearch DEF Retry
<1>6. ASSUME NEW p \in SolSteps, NEW c \in SolSteps, NEW g \in SolSteps, NEW to \in SolSteps,
             Simulate(p, c, g, to)
      PROVE  SearchInv'
  BY <1>5, <1>6, KeepSearch DEF Simulate, ReadMintPrice, CallPasses, huntVars
<1>7. CASE DryOrSend \/ HoldOver
  BY <1>5, <1>7, KeepSearch DEF DryOrSend, HoldOver, huntVars
<1>8. CASE ReadBalance \/ CheckFunds \/ HoldFunded \/ HoldOn
  BY <1>8, KeepSearch DEF ReadBalance, CheckFunds, HoldFunded, HoldOn
<1>9. CASE \/ ReadFee("fee", "count") /\ UNCHANGED huntVars
           \/ ReadCount("count", "broadcast") /\ UNCHANGED huntVars
           \/ Broadcast("broadcast", "receipt") /\ UNCHANGED huntVars
  BY <1>9, KeepSearch DEF ReadFee, ReadCount, Broadcast, Admit, huntVars
<1>10. CASE ReceiptRead
  BY <1>5, <1>10, KeepSearch DEF ReceiptRead, Receipt, huntVars
<1>11. CASE AnswerLost \/ Verify \/ Raise \/ Interrupt
  BY <1>11, LeaveHuntSearch DEF AnswerLost, Admit, Verify, Raise, Interrupt
<1>12. CASE World
  <2>1. snap.prevWork \in Nat /\ snap.target \in Nat /\ sol.prev \in Nat /\ sol.q \in Nat
    BY DEF TypeOK, SnapReads, Solutions
  <2>2. ChainTypeOK /\ ChainNext /\ UNCHANGED <<snap, sol, pc>>
    BY <1>12 DEF World, TypeOK, huntVars
  <2>3. snap'.prevWork <= minted'
    BY <2>1, <2>2, ChainOnlyCools, ChainTypeStep DEF SearchInv, ChainTypeOK
  <2> QED
    BY <2>1, <2>2, <2>3, WinningKept DEF SearchInv
<1>13. CASE UNCHANGED vars
  BY <1>13, KeepSearch DEF vars, huntVars
<1>14. HunterStep => SearchInv'
  BY <1>1, <1>2, <1>3, <1>4, <1>5, <1>6, <1>7, <1>8, <1>9, <1>10, <1>11 DEF HunterStep
<1> QED
  BY <1>11, <1>12, <1>13, <1>14 DEF Next, Halted

\* hunter.py searches with a target that is still hard enough: see
\* LiveSolutionMeetsTarget.
THEOREM LiveSolutionSafe == Spec => []LiveSolutionMeetsTarget
<1>1. HunterInit => SearchInv
  BY ChainAssumption DEF HunterInit, ChainInit, SearchInv, NoSnap, SolSteps, SendSteps
<1>2. SearchInv => LiveSolutionMeetsTarget
  BY DEF SearchInv, LiveSolutionMeetsTarget, Winning
<1> QED
  BY <1>1, <1>2, HunterTypeCorrect, SearchStep, PTL DEF Spec

-----------------------------------------------------------------------------
(* The payment: what is sent is what the contract asks for.                *)

\* A waiting transaction is the only one, carries the executed count as its
\* nonce, and would succeed if the chain had not moved past its solution.
PoolInv ==
    /\ \A tx \in pool :
          /\ tx.nonce = acctNonce
          /\ tx.gas = GasLimit
          /\ tx.value = PriceOf(tx.sol.prev)
          /\ Winning(tx.sol.prev, tx.sol.q)
    /\ \A tx, other \in pool : tx = other

PayInv ==
    /\ pc \in {"gas2"} \cup SendSteps => price = PriceOf(sol.prev)
    /\ pc = "broadcast" => txNonce <= acctNonce
    /\ PoolInv

LEMMA PoolKept ==
    ASSUME PoolInv, UNCHANGED <<minted, burst, pool, acctNonce>>
    PROVE  PoolInv'
<1>1. UNCHANGED <<minted, burst>>
  OBVIOUS
<1>2. GasLimit' = GasLimit /\ \A n : PriceOf(n)' = PriceOf(n)
  BY DEF GasLimit, PriceOf, Epoch
<1> QED
  BY <1>1, <1>2, WinningUnchanged DEF PoolInv

\* The node admits the new transaction: it replaces the one that waits.
LEMMA PoolAdmit ==
    ASSUME TypeOK, SearchInv, PayInv, pc = "broadcast", Admit(Tx)
    PROVE  PoolInv'
<1>1. txNonce \in Nat /\ acctNonce \in Nat
  BY DEF TypeOK, ChainTypeOK
<1>2. txNonce = acctNonce
  BY <1>1 DEF PayInv, Admit, Admissible, Tx
<1>3. pool' = {Tx}
  BY <1>2 DEF PayInv, PoolInv, Admit, Tx
<1>4. UNCHANGED <<minted, burst, acctNonce>>
  BY DEF Admit
<1>5. ASSUME NEW tx \in pool'
      PROVE  /\ tx.nonce = acctNonce' /\ tx.gas = GasLimit
             /\ tx.value = PriceOf(tx.sol.prev) /\ Winning(tx.sol.prev, tx.sol.q)'
  <2>1. tx = Tx
    BY <1>3
  <2>2. tx.sol = sol /\ tx.nonce = txNonce /\ tx.gas = GasLimit /\ tx.value = price
    BY <2>1 DEF Tx
  <2>3. Winning(tx.sol.prev, tx.sol.q)
    BY <2>2 DEF SearchInv, SolSteps, SendSteps
  <2>4. Winning(tx.sol.prev, tx.sol.q)'
    BY <1>4, <2>3, WinningUnchanged
  <2> QED
    BY <1>2, <1>4, <2>2, <2>4 DEF PayInv, SendSteps
<1>6. GasLimit' = GasLimit /\ \A n : PriceOf(n)' = PriceOf(n)
  BY DEF GasLimit, PriceOf, Epoch
<1> QED
  BY <1>3, <1>5, <1>6 DEF PoolInv

LEMMA PoolWorld ==
    ASSUME TypeOK, PoolInv, ChainNext
    PROVE  PoolInv' /\ acctNonce' >= acctNonce
<1>1. ChainTypeOK /\ acctNonce \in Nat
  BY DEF TypeOK, ChainTypeOK
<1>2. GasLimit' = GasLimit /\ \A n : PriceOf(n)' = PriceOf(n)
  BY DEF GasLimit, PriceOf, Epoch
<1>3. \A tx \in pool : Winning(tx.sol.prev, tx.sol.q)'
  <2> TAKE tx \in pool
  <2>1. tx.sol.prev \in Nat /\ tx.sol.q \in Nat
    BY <1>1 DEF ChainTypeOK, Txs, Solutions
  <2> QED
    BY <1>1, <2>1, WinningKept DEF PoolInv
<1>4. CASE pool' \subseteq pool /\ acctNonce' = acctNonce
  BY <1>1, <1>2, <1>3, <1>4 DEF PoolInv
<1>5. ASSUME NEW tx \in pool, Execute(tx) PROVE PoolInv' /\ acctNonce' >= acctNonce
  <2>1. pool' = {} /\ acctNonce' = acctNonce + 1
    BY <1>5 DEF Execute, PoolInv
  <2> QED
    BY <1>1, <2>1 DEF PoolInv
<1> QED
  BY <1>4, <1>5 DEF ChainNext, RivalMint, Cool, NewBlock, GasMove, TopUp, Drop

\* Steps that leave the send phase or do not reach it keep only the mempool.
LEMMA KeepPay ==
    ASSUME PayInv, UNCHANGED <<minted, burst, pool, acctNonce>>,
           \/ pc' \notin {"gas2"} \cup SendSteps
           \/ pc \in {"gas2"} \cup SendSteps /\ pc' # "broadcast" /\ UNCHANGED <<price, sol>>
           \/ UNCHANGED <<pc, price, sol, txNonce>>
    PROVE  PayInv'
<1>1. PoolInv'
  BY PoolKept DEF PayInv
<1>2. \A n : PriceOf(n)' = PriceOf(n)
  BY DEF PriceOf, Epoch
<1> QED
  BY <1>1, <1>2 DEF PayInv, SendSteps

\* A simulation that passes proves the price right for the held solution.
LEMMA CallProvesPrice ==
    ASSUME MineOK(sol, price)
    PROVE  price = PriceOf(sol.prev)
BY DEF MineOK, MintPrice, Wins

LEMMA SimulatePay ==
    ASSUME PayInv,
           \/ Simulate("price1", "call1", "gas1", "dry")
           \/ Simulate("price2", "call2", "gas2", "fee")
    PROVE  PayInv'
<1>1. UNCHANGED <<minted, burst, pool, acctNonce>>
  BY DEF Simulate, ReadMintPrice, CallPasses, Retry, chainVars
<1>2. CASE pc' \notin {"gas2"} \cup SendSteps
  BY <1>1, <1>2, KeepPay
<1>3. CASE pc' \in {"gas2", "fee"} /\ MineOK(sol, price) /\ UNCHANGED <<sol, price>>
  <2>1. PoolInv'
    BY <1>1, PoolKept DEF PayInv
  <2>2. price' = PriceOf(sol.prev)'
    BY <1>3, CallProvesPrice DEF PriceOf, Epoch
  <2> QED
    BY <1>3, <2>1, <2>2 DEF PayInv
<1> QED
  BY <1>2, <1>3 DEF Simulate, ReadMintPrice, CallPasses, Retry, Goto, SendSteps, txVars

LEMMA PayStep ==
    ASSUME TypeOK, SearchInv, PayInv, [Next]_vars
    PROVE  PayInv'
<1> USE DEF Goto, SendSteps, chainVars
<1>1. ASSUME NEW field \in SnapReads, Snapshot(field) PROVE PayInv'
  BY <1>1, KeepPay DEF Snapshot, NextRead, SnapReads
<1>2. ASSUME NEW from, Retry(from) PROVE PayInv'
  BY <1>2, KeepPay DEF Retry
<1>3. CASE WindowClosed \/ WindowOpen \/ SolveFound \/ DryOrSend
  BY <1>2, <1>3, KeepPay DEF WindowClosed, WindowOpen, SolveFound, DryOrSend
<1>4. CASE ReadBalance \/ CheckFunds \/ HoldFunded \/ HoldOn \/ HoldOver
  BY <1>2, <1>4, KeepPay DEF ReadBalance, CheckFunds, HoldFunded, HoldOn, HoldOver
<1>5. CASE \/ Simulate("price1", "call1", "gas1", "dry")
           \/ Simulate("price2", "call2", "gas2", "fee")
  BY <1>5, SimulatePay
<1>6. CASE ReadFee("fee", "count") /\ UNCHANGED huntVars
  BY <1>6, KeepPay DEF ReadFee
<1>7. CASE ReadCount("count", "broadcast") /\ UNCHANGED huntVars
  <2>1. PoolInv' /\ txNonce' = acctNonce' /\ acctNonce' \in Nat
    BY <1>7, PoolKept DEF PayInv, ReadCount, TransactionCount, TypeOK, ChainTypeOK
  <2>2. price' = PriceOf(sol.prev)'
    BY <1>7 DEF PayInv, ReadCount, PriceOf, Epoch
  <2> QED
    BY <1>7, <2>1, <2>2 DEF PayInv, ReadCount
<1>8. CASE Broadcast("broadcast", "receipt") /\ UNCHANGED huntVars
  <2>1. PoolInv'
    BY <1>8, PoolAdmit DEF Broadcast
  <2>2. price' = PriceOf(sol.prev)'
    BY <1>8 DEF PayInv, Broadcast, PriceOf, Epoch
  <2> QED
    BY <1>8, <2>1, <2>2 DEF PayInv, Broadcast
<1>9. CASE AnswerLost
  <2>1. PoolInv'
    BY <1>9, PoolAdmit DEF AnswerLost
  <2> QED
    BY <1>9, <2>1 DEF PayInv, AnswerLost
<1>10. CASE ReceiptRead
  BY <1>2, <1>10, KeepPay DEF ReceiptRead, Receipt, txVars
<1>11. CASE Verify \/ Raise \/ Interrupt
  BY <1>11, KeepPay DEF Verify, Raise, Interrupt
<1>12. CASE World
  <2>1. PoolInv' /\ acctNonce' >= acctNonce
    BY <1>12, PoolWorld DEF World, PayInv
  <2>2. UNCHANGED <<pc, price, sol, txNonce>>
    BY <1>12 DEF World, txVars
  <2>3. \A n : PriceOf(n)' = PriceOf(n)
    BY DEF PriceOf, Epoch
  <2>4. acctNonce \in Nat /\ acctNonce' \in Nat /\ txNonce \in Nat
    BY <1>12, ChainTypeStep DEF World, TypeOK, ChainTypeOK
  <2> QED
    BY <2>1, <2>2, <2>3, <2>4 DEF PayInv
<1>13. CASE UNCHANGED vars
  BY <1>13, KeepPay DEF vars, txVars
<1>14. HunterStep => PayInv'
  BY <1>1, <1>2, <1>3, <1>4, <1>5, <1>6, <1>7, <1>8, <1>9, <1>10, <1>11 DEF HunterStep
<1> QED
  BY <1>11, <1>12, <1>13, <1>14 DEF Next, Halted

LEMMA PayInit == HunterInit => SearchInv /\ PayInv
BY ChainAssumption DEF HunterInit, ChainInit, SearchInv, NoSnap, SolSteps, SendSteps,
   PayInv, PoolInv

\* A price that the simulation proved right is the one that is sent, and stays
\* right for the cat the solution is for: see PaysExactPrice.
THEOREM PaymentSafe == Spec => []PaysExactPrice
<1>1. PayInv => PaysExactPrice
  BY DEF PayInv, PoolInv, PaysExactPrice
<1> QED
  BY <1>1, PayInit, HunterTypeCorrect, SearchStep, PayStep, PTL DEF Spec

\* Giving up on receipts never puts two transactions into the mempool.
THEOREM OneInFlightSafe == Spec => []OneInFlight
<1>1. PayInv => OneInFlight
  <2> SUFFICES ASSUME PayInv PROVE Cardinality(pool) <= 1
    BY DEF OneInFlight
  <2>1. CASE pool = {}
    BY <2>1, FS_EmptySet
  <2>2. CASE pool # {}
    <3>1. PICK tx \in pool : TRUE
      BY <2>2
    <3>2. pool = {tx}
      BY <3>1 DEF PayInv, PoolInv
    <3>3. Cardinality({tx}) = 1
      BY FS_Singleton
    <3> QED
      BY <3>2, <3>3
  <2> QED
    BY <2>1, <2>2
<1> QED
  BY <1>1, PayInit, HunterTypeCorrect, SearchStep, PayStep, PTL DEF Spec

\* What the second simulation established survives until the transaction is
\* executed unless a mint or the age of the anchor takes it away.
THEOREM RevertsExplained == Spec => RevertOnlyIfOvertaken
<1> DEFINE Overtaken == \A tx \in pool : tx.id \in reverted' \ reverted =>
                           minted # tx.sol.prev \/ ~AnchorOK(tx.sol.anchor)
<1>1. ASSUME TypeOK, PayInv, [Next]_vars PROVE [Overtaken]_vars
  <2>1. CASE reverted' = reverted
    BY <2>1
  <2>2. ASSUME NEW tx \in pool, Execute(tx) PROVE Overtaken
    <3>1. \A other \in pool : other = tx
      BY <1>1 DEF PayInv, PoolInv
    <3>2. /\ tx.value = PriceOf(tx.sol.prev) /\ tx.gas >= GasUsed
          /\ tx.sol.prev = minted => tx.sol.q >= Bits
      BY <1>1, TxNumbers DEF PayInv, PoolInv, Winning
    <3>3. minted = tx.sol.prev /\ AnchorOK(tx.sol.anchor) => Succeeds(tx)
      BY <3>2 DEF Succeeds, MineOK, Wins, MintPrice
    <3>4. Succeeds(tx) => reverted' = reverted
      BY <2>2 DEF Execute
    <3> QED
      BY <3>1, <3>3, <3>4
  <2> QED
    BY <1>1, <2>1, <2>2, HunterLeavesChain DEF Next, World, ChainNext, RivalMint, Cool,
       NewBlock, GasMove, TopUp, Drop, Halted, vars, chainVars
<1> QED
  BY <1>1, PayInit, HunterTypeCorrect, SearchStep, PayStep, PTL DEF Spec, RevertOnlyIfOvertaken

-----------------------------------------------------------------------------
(* The cats: one is bought, unless an outcome was lost.                    *)

\* The transactions that minted or still may.
LiveIds == landed \cup {tx.id : tx \in pool}

Waiting == {"receipt", "verify"}

\* As long as no outcome was lost, the hunter knows of every transaction that
\* minted or may mint: it is the one it waits for, and there is at most one.
CatInv ==
    /\ \A id \in LiveIds : id \notin reverted
    /\ \A tx \in pool : tx.id \notin landed
    /\ pc \in Waiting <=> txid # 0
    /\ pc = "verify" => txid \in landed
    /\ pc = "done" => landed # {}
    /\ ~lost => /\ pc \in Waiting => LiveIds \subseteq {txid}
                /\ pc \notin Waiting \cup {"done", "stopped"} => LiveIds = {}
                /\ \A a, b \in LiveIds : a = b

\* Steps that touch neither the transactions nor what waits for them.
LEMMA KeepCat ==
    ASSUME CatInv, UNCHANGED <<landed, reverted, pool, txid, lost>>,
           \/ pc' = pc
           \/ {pc, pc'} \cap (Waiting \cup {"done", "stopped"}) = {}
    PROVE  CatInv'
<1>1. LiveIds' = LiveIds
  BY DEF LiveIds
<1> QED
  BY <1>1 DEF CatInv, Waiting

\* Ending a hunt before anything was sent.
LEMMA RetryCat ==
    ASSUME CatInv, NEW from, from \notin Waiting \cup {"done", "stopped"}, Retry(from)
    PROVE  CatInv'
<1>1. LiveIds' = LiveIds /\ UNCHANGED <<landed, reverted, pool, lost>>
  BY DEF LiveIds, Retry, chainVars
<1>2. pc = from /\ pc' = "anchor" /\ txid' = 0
  BY DEF Retry, Goto, LeaveHunt
<1> QED
  BY <1>1, <1>2 DEF CatInv, Waiting

\* An admitted transaction has a new id and is the only one that waits.
LEMMA AdmitCat ==
    ASSUME TypeOK, SearchInv, PayInv, CatInv, pc = "broadcast", Admit(Tx)
    PROVE  /\ LiveIds' = landed \cup {Tx.id}
           /\ Tx.id = sent + 1 /\ Tx.id \notin landed \cup reverted
           /\ pool' = {Tx} /\ landed' = landed /\ reverted' = reverted
           /\ ~lost => landed = {}
<1>1. txNonce \in Nat /\ acctNonce \in Nat /\ sent \in Nat
  BY DEF TypeOK, ChainTypeOK
<1>2. pool' = {Tx}
  BY <1>1 DEF PayInv, PoolInv, Admit, Admissible, Tx
<1>3. landed' = landed /\ reverted' = reverted
  BY DEF Admit
<1>4. Tx.id = sent + 1 /\ Tx.id \notin landed \cup reverted
  BY <1>1, TxType DEF TypeOK, ChainTypeOK
<1>5. LiveIds' = landed \cup {Tx.id}
  BY <1>2, <1>3 DEF LiveIds
<1>6. ~lost => landed = {}
  BY DEF CatInv, Waiting, LiveIds
<1> QED
  BY <1>2, <1>3, <1>4, <1>5, <1>6

LEMMA ChainCat ==
    ASSUME TypeOK, PayInv, CatInv, ChainNext
    PROVE  /\ LiveIds' \subseteq LiveIds /\ landed \subseteq landed'
           /\ \A id \in LiveIds' : id \notin reverted'
           /\ \A tx \in pool' : tx.id \notin landed'
<1>1. ASSUME NEW tx \in pool, Execute(tx)
      PROVE  /\ LiveIds' \subseteq LiveIds /\ landed \subseteq landed'
             /\ \A id \in LiveIds' : id \notin reverted'
             /\ pool' = {}
  <2>1. pool' = {}
    BY <1>1 DEF Execute, PayInv, PoolInv
  <2>2. LiveIds' = landed' /\ tx.id \in LiveIds /\ tx.id \notin landed
    BY <2>1 DEF LiveIds, CatInv
  <2>3. CASE landed' = landed \cup {tx.id} /\ reverted' = reverted
    BY <2>1, <2>2, <2>3 DEF CatInv, LiveIds
  <2>4. CASE landed' = landed /\ reverted' = reverted \cup {tx.id}
    BY <2>1, <2>2, <2>4 DEF CatInv, LiveIds
  <2> QED
    BY <1>1, <2>3, <2>4 DEF Execute
<1>2. ASSUME pool' \subseteq pool, landed' = landed, reverted' = reverted
      PROVE  /\ LiveIds' \subseteq LiveIds
             /\ \A id \in LiveIds' : id \notin reverted'
             /\ \A tx \in pool' : tx.id \notin landed'
  BY <1>2 DEF LiveIds, CatInv
<1> QED
  BY <1>1, <1>2 DEF ChainNext, RivalMint, Cool, NewBlock, GasMove, TopUp, Drop

LEMMA CatStep ==
    ASSUME TypeOK, SearchInv, PayInv, CatInv, [Next]_vars
    PROVE  CatInv'
<1> USE DEF Goto, Waiting, chainVars, huntVars, txVars
<1>1. ASSUME NEW field \in SnapReads, Snapshot(field) PROVE CatInv'
  BY <1>1, KeepCat DEF Snapshot, NextRead, SnapReads
<1>2. CASE WindowClosed
  BY <1>2 DEF WindowClosed, LeaveHunt, CatInv, LiveIds
<1>3. CASE WindowOpen \/ SolveFound \/ Retry("solve") \/ DryOrSend \/ Retry("sleep")
  BY <1>3, KeepCat, RetryCat DEF WindowOpen, SolveFound, DryOrSend
<1>4. CASE ReadBalance \/ CheckFunds \/ HoldFunded \/ HoldOn \/ HoldOver
  BY <1>4, KeepCat, RetryCat DEF ReadBalance, CheckFunds, HoldFunded, HoldOn, HoldOver
<1>5. CASE \/ Simulate("price1", "call1", "gas1", "dry")
           \/ Simulate("price2", "call2", "gas2", "fee")
  BY <1>5, KeepCat, RetryCat DEF Simulate, ReadMintPrice, CallPasses
<1>6. CASE \/ ReadFee("fee", "count") /\ UNCHANGED huntVars
           \/ ReadCount("count", "broadcast") /\ UNCHANGED huntVars
  BY <1>6, KeepCat DEF ReadFee, ReadCount
<1>7. CASE Broadcast("broadcast", "receipt") /\ UNCHANGED huntVars
  <2>1. /\ pc = "broadcast" /\ Admit(Tx) /\ sent \in Nat
        /\ txid' = Tx.id /\ pc' = "receipt" /\ lost' = lost
    BY <1>7 DEF Broadcast, TypeOK, ChainTypeOK
  <2>2. /\ LiveIds' = landed \cup {Tx.id} /\ Tx.id # 0
        /\ Tx.id \notin landed \cup reverted /\ pool' = {Tx}
        /\ landed' = landed /\ reverted' = reverted /\ (~lost => landed = {})
    BY <2>1, AdmitCat
  <2>3. \A id \in LiveIds' : id \notin reverted'
    BY <2>2 DEF CatInv, LiveIds
  <2>4. \A tx \in pool' : tx.id \notin landed'
    BY <2>2
  <2> QED
    BY <2>1, <2>2, <2>3, <2>4 DEF CatInv
<1>8. CASE AnswerLost
  <2>1. /\ pc = "broadcast" /\ Admit(Tx)
        /\ txid' = 0 /\ pc' = "sleep" /\ lost' = TRUE
    BY <1>8 DEF AnswerLost, LeaveHunt
  <2>2. /\ LiveIds' = landed \cup {Tx.id}
        /\ Tx.id \notin landed \cup reverted /\ pool' = {Tx}
        /\ landed' = landed /\ reverted' = reverted
    BY <2>1, AdmitCat
  <2>3. \A id \in LiveIds' : id \notin reverted'
    BY <2>2 DEF CatInv, LiveIds
  <2>4. \A tx \in pool' : tx.id \notin landed'
    BY <2>2
  <2> QED
    BY <2>1, <2>2, <2>3, <2>4 DEF CatInv
<1>9. CASE ReceiptRead
  <2>1. LiveIds' = LiveIds /\ landed' = landed /\ reverted' = reverted /\ pool' = pool
    BY <1>9 DEF LiveIds, ReceiptRead, Receipt, Retry
  <2>2. CASE Receipt(1, "receipt", "verify") /\ UNCHANGED huntVars
    BY <2>1, <2>2 DEF Receipt, CatInv
  <2>3. CASE txid \in reverted /\ Retry("receipt")
    <3>1. ~lost => LiveIds = {}
      BY <2>3 DEF CatInv, Retry
    <3> QED
      BY <2>1, <2>3, <3>1 DEF Retry, LeaveHunt, CatInv
  <2> QED
    BY <1>9, <2>2, <2>3 DEF ReceiptRead
<1>10. CASE Verify \/ Raise \/ Interrupt
  <2>1. LiveIds' = LiveIds /\ landed' = landed /\ reverted' = reverted /\ pool' = pool
    BY <1>10 DEF LiveIds, Verify, Raise, Interrupt
  <2> QED
    BY <1>10, <2>1 DEF Verify, Raise, Interrupt, LeaveHunt, CatInv, Raising, SnapReads, SendSteps
<1>11. CASE World
  <2>1. UNCHANGED <<pc, txid, lost>>
    BY <1>11 DEF World
  <2> QED
    BY <1>11, <2>1, ChainCat DEF World, CatInv
<1>12. CASE UNCHANGED vars
  BY <1>12, KeepCat DEF vars
<1>13. HunterStep => CatInv'
  BY <1>1, <1>2, <1>3, <1>4, <1>5, <1>6, <1>7, <1>8, <1>9, <1>10 DEF HunterStep
<1> QED
  BY <1>10, <1>11, <1>12, <1>13 DEF Next, Halted

LEMMA CatInit == HunterInit => CatInv
BY DEF HunterInit, ChainInit, CatInv, LiveIds, Waiting

\* A second cat is bought only after an error hid what became of a transaction.
THEOREM SecondCatExplained == Spec => []ExtraCatNeedsLostOutcome
<1>1. TypeOK /\ CatInv => ExtraCatNeedsLostOutcome
  <2> SUFFICES ASSUME TypeOK, CatInv, ~lost PROVE ~(Cardinality(landed) > 1)
    BY DEF ExtraCatNeedsLostOutcome
  <2>1. \A a, b \in landed : a = b
    BY DEF CatInv, LiveIds
  <2>2. CASE landed = {}
    BY <2>2, FS_EmptySet
  <2>3. ASSUME NEW id \in landed PROVE ~(Cardinality(landed) > 1)
    <3>1. landed = {id} /\ Cardinality({id}) = 1
      BY <2>1, <2>3, FS_Singleton
    <3> QED
      BY <3>1
  <2> QED
    BY <2>2, <2>3
<1> QED
  BY <1>1, PayInit, CatInit, HunterTypeCorrect, SearchStep, PayStep, CatStep, PTL DEF Spec

\* The mission is complete only when one of our transactions minted a cat.
THEOREM DoneMeansCat == Spec => []DoneOnlyWithCat
<1>1. CatInv => DoneOnlyWithCat
  BY DEF CatInv, DoneOnlyWithCat
<1> QED
  BY <1>1, PayInit, CatInit, HunterTypeCorrect, SearchStep, PayStep, CatStep, PTL DEF Spec

-----------------------------------------------------------------------------
(* The funds: what was found in the wallet stays there until it is spent.  *)

Funded == {"price2", "call2", "gas2", "fee", "count", "broadcast"}

\* Unless an outcome was lost no transaction of ours is in the mempool at these
\* labels, and only a transaction of ours takes from the balance.
FundsInv ==
    ~lost => /\ pc = "need" => held <= bal
             /\ pc \in Funded => need <= bal

\* Steps that end a hunt.
LEMMA RetryFunds ==
    ASSUME NEW from, Retry(from)
    PROVE  FundsInv'
BY DEF Retry, Goto, FundsInv, Funded

\* Steps that read neither the balance nor the need.
LEMMA KeepFunds ==
    ASSUME FundsInv, UNCHANGED <<lost, held, need, bal>>,
           pc' # "need" /\ (pc' \in Funded => pc \in Funded)
    PROVE  FundsInv'
BY DEF FundsInv, Funded

LEMMA SimulateFunds ==
    ASSUME FundsInv, NEW p, NEW c, NEW g, NEW to, Simulate(p, c, g, to),
           \/ {c, g, to} \cap (Funded \cup {"need"}) = {}
           \/ {p, c, g} \subseteq Funded /\ {c, g, to} \subseteq Funded
    PROVE  FundsInv'
<1>1. CASE Retry(c) \/ Retry(g)
  BY <1>1, RetryFunds
<1>2. ASSUME UNCHANGED <<lost, held, need, bal>>, pc \in {p, c, g}, pc' \in {c, g, to}
      PROVE  FundsInv'
  BY <1>2, KeepFunds DEF Funded
<1> QED
  BY <1>1, <1>2 DEF Simulate, ReadMintPrice, CallPasses, Goto, huntVars, chainVars

\* The chain leaves the balance alone, or adds to it, while no transaction of
\* ours waits.
LEMMA WorldFunds ==
    ASSUME TypeOK, CatInv, FundsInv, World
    PROVE  FundsInv'
<1> SUFFICES ASSUME ~lost, pc \in Funded \cup {"need"} PROVE bal <= bal'
  <2>1. UNCHANGED <<lost, held, need, pc>>
    BY DEF World, huntVars
  <2>2. bal \in Nat /\ held \in Nat /\ need \in Nat
    BY DEF TypeOK, ChainTypeOK
  <2>3. ASSUME bal <= bal' PROVE FundsInv'
    <3>1. bal' \in Nat
      BY ChainTypeStep DEF World, TypeOK, ChainTypeOK
    <3> QED
      BY <2>1, <2>2, <2>3, <3>1 DEF FundsInv
  <2> QED
    BY <2>1, <2>3 DEF FundsInv
<1>1. pool = {}
  BY DEF CatInv, LiveIds, Waiting, Funded
<1>2. bal \in Nat /\ TopUpAmount \in Nat
  BY ChainAssumption DEF TypeOK, ChainTypeOK
<1> QED
  BY <1>1, <1>2 DEF World, ChainNext, RivalMint, Cool, NewBlock, GasMove, TopUp

LEMMA FundsStep ==
    ASSUME TypeOK, CatInv, FundsInv, [Next]_vars
    PROVE  FundsInv'
<1>1. ASSUME NEW field \in SnapReads, Snapshot(field) PROVE FundsInv'
  BY <1>1, KeepFunds DEF Snapshot, NextRead, SnapReads, Goto, chainVars, Funded
<1>2. CASE WindowClosed \/ WindowOpen \/ SolveFound
  BY <1>2, KeepFunds DEF WindowClosed, WindowOpen, SolveFound, Goto, LeaveHunt, chainVars,
     huntVars, FundsInv, Funded
<1>3. CASE \E from \in {"solve", "sleep"} : Retry(from)
  BY <1>3, RetryFunds
<1>4. CASE Simulate("price1", "call1", "gas1", "dry") \/ Simulate("price2", "call2", "gas2", "fee")
  BY <1>4, SimulateFunds DEF Funded
<1>5. CASE DryOrSend
  BY <1>5, RetryFunds, KeepFunds DEF DryOrSend, Goto, chainVars, huntVars, Funded
<1>6. CASE ReadBalance
  <2>1. bal \in Nat
    BY DEF TypeOK, ChainTypeOK
  <2> QED
    BY <1>6, <2>1 DEF ReadBalance, Goto, chainVars, FundsInv, Funded
<1>7. CASE CheckFunds
  <2>1. Need \in Nat /\ held \in Nat /\ bal \in Nat
    BY TxNumbers DEF Need, TypeOK, ChainTypeOK
  <2>2. pc = "need" /\ UNCHANGED <<lost, held, bal>> /\ need' = Need
        /\ pc' # "need" /\ (pc' \in Funded => held >= Need)
    BY <1>7 DEF CheckFunds, Goto, chainVars, Funded
  <2> QED
    BY <2>1, <2>2 DEF FundsInv
<1>8. CASE HoldFunded
  <2>1. need \in Nat /\ bal \in Nat
    BY DEF TypeOK, ChainTypeOK
  <2> QED
    BY <1>8, <2>1 DEF HoldFunded, Goto, chainVars, FundsInv, Funded
<1>9. CASE HoldOn \/ HoldOver
  BY <1>9, RetryFunds DEF HoldOn, HoldOver, Goto, FundsInv, Funded
<1>10. CASE \/ ReadFee("fee", "count") /\ UNCHANGED huntVars
            \/ ReadCount("count", "broadcast") /\ UNCHANGED huntVars
            \/ Broadcast("broadcast", "receipt") /\ UNCHANGED huntVars
  BY <1>10, KeepFunds DEF ReadFee, ReadCount, Broadcast, Admit, Goto, chainVars, huntVars, Funded
<1>11. CASE AnswerLost \/ ReceiptRead \/ Verify \/ Raise \/ Interrupt
  BY <1>11, RetryFunds DEF AnswerLost, ReceiptRead, Receipt, Verify, Raise, Interrupt, Goto,
     FundsInv, Funded
<1>12. CASE World
  BY <1>12, WorldFunds
<1>13. CASE UNCHANGED vars
  BY <1>13 DEF vars, chainVars, huntVars, FundsInv
<1> QED
  BY <1>1, <1>2, <1>3, <1>4, <1>5, <1>6, <1>7, <1>8, <1>9, <1>10, <1>11, <1>12, <1>13
  DEF Next, HunterStep, Halted

\* Funds that were checked do not vanish: the wallet cannot pay what send()
\* offers only if its price or its gas price rose since.
THEOREM CheckedFundsStay == Spec => []FundsStillThere
<1>1. HunterInit => FundsInv
  BY DEF HunterInit, FundsInv, Funded
<1>2. TypeOK /\ FundsInv => FundsStillThere
  <2> SUFFICES ASSUME TypeOK, FundsInv, pc = "broadcast", ~lost, bal < Upfront(Tx)
               PROVE  Upfront(Tx) > need
    BY DEF FundsStillThere
  <2>1. need <= bal /\ need \in Nat /\ bal \in Nat
    BY DEF FundsInv, Funded, TypeOK, ChainTypeOK
  <2>2. Upfront(Tx) \in Nat
    BY TxNumbers DEF Upfront, Tx, TypeOK
  <2> QED
    BY <2>1, <2>2
<1> QED
  BY <1>1, <1>2, PayInit, CatInit, HunterTypeCorrect, SearchStep, PayStep, CatStep, FundsStep,
     PTL DEF Spec

-----------------------------------------------------------------------------
(* The dry run.                                                            *)

Paying == {"balance", "need", "hold", "price2", "call2", "gas2"} \cup SendSteps

DryInv == ~send => sent = 0 /\ pc \notin Paying

LEMMA DryStep ==
    ASSUME TypeOK, DryInv, [Next]_vars
    PROVE  DryInv'
<1> USE DEF Goto, Paying, SendSteps, chainVars, huntVars
<1>1. send' = send
  BY DEF Next, HunterStep, Interrupt, World, Halted, vars, Snapshot, WindowClosed, WindowOpen,
     SolveFound, Retry, Simulate, ReadMintPrice, CallPasses, DryOrSend, ReadBalance, CheckFunds,
     HoldFunded, HoldOn, HoldOver, ReadFee, ReadCount, Broadcast, AnswerLost, ReceiptRead,
     Receipt, Verify, Raise
<1>2. CASE UNCHANGED vars
  BY <1>2 DEF vars, DryInv
<1>3. ASSUME ~send, HunterStep PROVE sent' = sent /\ pc' \notin Paying
  BY <1>3 DEF DryInv, HunterStep, Snapshot, NextRead, SnapReads, WindowClosed, WindowOpen,
     SolveFound, Retry, Simulate, ReadMintPrice, CallPasses, DryOrSend, ReadBalance, CheckFunds,
     HoldFunded, HoldOn, HoldOver, ReadFee, ReadCount, Broadcast, AnswerLost, ReceiptRead,
     Receipt, Verify, Raise
<1>4. CASE Interrupt
  BY <1>4 DEF Interrupt, DryInv
<1>5. CASE World
  BY <1>5 DEF World, ChainNext, RivalMint, Cool, NewBlock, GasMove, TopUp, Execute, Drop, DryInv
<1> QED
  BY <1>1, <1>2, <1>3, <1>4, <1>5 DEF Next, Halted, DryInv

\* Without --send the node never admits a transaction of ours.
THEOREM DryRunSafe == Spec => []DryRunSendsNothing
<1>1. HunterInit => DryInv
  BY DEF HunterInit, ChainInit, DryInv, Paying, SendSteps
<1>2. DryInv => DryRunSendsNothing
  BY DEF DryInv, DryRunSendsNothing
<1> QED
  BY <1>1, <1>2, HunterTypeCorrect, DryStep, PTL DEF Spec

-----------------------------------------------------------------------------
(* The hunter implements the race.                                         *)

LEMMA RaceChain ==
    /\ ChainInit => Race!ChainInit
    /\ ChainNext => Race!ChainNext
    /\ Admit(Tx) => Race!Admit(Tx)
<1>1. ChainInit => Race!ChainInit
  BY DEF ChainInit, Race!ChainInit
<1>2. Hotter = Race!Hotter
  BY DEF Hotter, Race!Hotter
<1>3. \A tx : Execute(tx) => Race!Execute(tx)
  <2>1. \A tx : Succeeds(tx) <=> Race!Succeeds(tx)
    BY DEF Succeeds, Race!Succeeds, MineOK, Race!MineOK, AnchorOK, Race!AnchorOK,
       Wins, Race!Wins, MintPrice, Race!MintPrice, Bits, Race!Bits, PriceOf,
       Race!PriceOf, EpochFloor, Race!EpochFloor, Epoch, Race!Epoch
  <2>2. \A tx : Upfront(tx) = Race!Upfront(tx) /\ GasCost(tx) = Race!GasCost(tx)
    BY DEF Upfront, Race!Upfront, GasCost, Race!GasCost
  <2> QED
    BY <1>2, <2>1, <2>2 DEF Execute, Race!Execute
<1>4. ChainNext => Race!ChainNext
  BY <1>2, <1>3 DEF ChainNext, Race!ChainNext, RivalMint, Race!RivalMint, Cool, Race!Cool,
     NewBlock, Race!NewBlock, GasMove, Race!GasMove, TopUp, Race!TopUp, Drop, Race!Drop
<1>5. Admit(Tx) => Race!Admit(Tx)
  BY DEF Admit, Race!Admit, Admissible, Race!Admissible, Upfront, Race!Upfront
<1> QED
  BY <1>1, <1>4, <1>5

\* What the hunter hands to the node is sound: the invariants behind the
\* payment, the search and the dry run say so of the transaction it has built.
LEMMA SubmitIsSound ==
    ASSUME TypeOK, SearchInv, PayInv, DryInv, pc = "broadcast", Admit(Tx), send' = send
    PROVE  Race!Submit
<1>1. Winning(sol.prev, sol.q) /\ price = PriceOf(sol.prev) /\ txNonce <= acctNonce
  BY DEF SearchInv, SolSteps, SendSteps, PayInv
<1>2. send
  BY DEF DryInv, Paying, SendSteps
<1>3. Bits = Race!Bits /\ \A n : PriceOf(n) = Race!PriceOf(n)
  BY DEF Bits, Race!Bits, PriceOf, Race!PriceOf, EpochFloor, Race!EpochFloor, Epoch,
     Race!Epoch
<1>4. Race!Sound(Tx) /\ Tx.nonce <= acctNonce
  BY <1>1, <1>3, TxNumbers DEF Race!Sound, Tx, Winning
<1>5. Tx \in pool'
  BY DEF Admit
<1>6. Tx \in Race!Txs /\ Tx.id = sent + 1
  BY TxType DEF Txs, Race!Txs, Solutions, Race!Solutions
<1> QED
  BY <1>2, <1>4, <1>5, <1>6, RaceChain DEF Race!Submit

LEMMA RaceStep ==
    ASSUME TypeOK, SearchInv, PayInv, DryInv, [Next]_vars
    PROVE  [Race!Next]_(Race!raceVars)
<1> USE DEF Goto
<1>1. ASSUME UNCHANGED <<chainVars, send>> PROVE [Race!Next]_(Race!raceVars)
  BY <1>1 DEF Race!raceVars, Race!chainVars, chainVars
<1>2. CASE World
  BY <1>2, RaceChain DEF World, huntVars, Race!Next
<1>3. CASE Broadcast("broadcast", "receipt") /\ UNCHANGED huntVars
  BY <1>3, SubmitIsSound DEF Broadcast, huntVars, Race!Next
<1>4. CASE AnswerLost
  BY <1>4, SubmitIsSound DEF AnswerLost, Race!Next
<1>5. ASSUME HunterStep \/ Interrupt,
             ~(Broadcast("broadcast", "receipt") /\ UNCHANGED huntVars), ~AnswerLost
      PROVE  UNCHANGED <<chainVars, send>>
  BY <1>5 DEF HunterStep, Interrupt, Snapshot, WindowClosed, WindowOpen, SolveFound, Retry,
     Simulate, ReadMintPrice, CallPasses, DryOrSend, ReadBalance, CheckFunds, HoldFunded,
     HoldOn, HoldOver, ReadFee, ReadCount, ReceiptRead, Receipt, Verify, Raise, huntVars
<1>6. CASE UNCHANGED vars
  BY <1>1, <1>6 DEF vars, huntVars
<1> QED
  BY <1>1, <1>2, <1>3, <1>4, <1>5, <1>6 DEF Next, Halted

\* hunter.py does to the chain only what MintRace allows: see ImplementsRace.
THEOREM HunterImplementsRace == Spec => ImplementsRace
<1>1. HunterInit => Race!Init /\ DryInv
  BY RaceChain DEF HunterInit, ChainInit, Race!Init, DryInv, Paying, SendSteps
<1> QED
  BY <1>1, PayInit, HunterTypeCorrect, SearchStep, PayStep, DryStep, RaceStep, PTL
  DEF Spec, ImplementsRace, Race!Spec
=============================================================================
