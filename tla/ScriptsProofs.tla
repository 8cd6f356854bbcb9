---------------------------- MODULE ScriptsProofs ----------------------------
(***************************************************************************)
(* What the scripts that meet the contract do right for every value of the *)
(* constants.  bot.py and the two GPU hunters differ in their loops, but   *)
(* each of their steps is of a kind described here by MintingStep; what    *)
(* such steps keep is proved once.  What the scripts owe to MintRace they  *)
(* inherit from RaceProofs, and hunter.py's part from HunterProofs.        *)
(***************************************************************************)
EXTENDS MCScripts, HashcatsProofs

-----------------------------------------------------------------------------
(* Numbers and types.                                                      *)

\* int() of a product truncates: both numbers are naturals, and the gas limits
\* are never below the estimate.
LEMMA TxNumbers ==
    /\ GasLimit \in Nat /\ GasLimit >= GasUsed
    /\ C!MineGas \in Nat /\ C!MineGas >= GasUsed
    /\ \A gp \in GasPrices : Bid(gp) \in Nat /\ C!RaceBid(gp) \in Nat
<1>1. GasUsed \in Nat /\ GasPrices \subseteq Nat /\ GasMult \in Nat
  BY ChainAssumption, ScriptsAssumption
<1>2. \A g \in Nat : /\ (g * 5) \div 4 \in Nat /\ (g * 5) \div 4 >= g
                     /\ (g * 13) \div 10 \in Nat /\ (g * 13) \div 10 >= g
  OBVIOUS
<1>3. \A g \in Nat : (g * 6) \div 5 \in Nat
  OBVIOUS
<1>4. \A g, m \in Nat : g * m \in Nat
  OBVIOUS
<1>5. \A n \in Nat : n \div 10 \in Nat
  OBVIOUS
<1> QED
  BY <1>1, <1>2, <1>3, <1>4, <1>5 DEF GasLimit, Bid, C!MineGas, C!RaceBid

\* The part of the scripts' type invariants that they have in common.
TxTypeOK ==
    /\ ChainTypeOK
    /\ sol \in Solutions
    /\ price \in Nat /\ bid \in Nat /\ txNonce \in Nat
    /\ txid \in 0..sent
    /\ held \in Nat
    /\ send \in BOOLEAN

Cleared ==
    /\ sol' = NoSol
    /\ price' = 0 /\ bid' = 0 /\ txNonce' = 0 /\ txid' = 0
    /\ held' = 0

\* The transaction a script hands to the node, with this gas limit.
TxWith(gas) == [id |-> sent + 1, nonce |-> txNonce, sol |-> sol, value |-> price,
                gas |-> gas, bid |-> bid]

LEMMA TxType ==
    ASSUME TxTypeOK, NEW gas \in Nat
    PROVE  TxWith(gas) \in Txs /\ TxWith(gas).id = sent + 1
BY DEF TxTypeOK, ChainTypeOK, TxWith, Txs

LEMMA AdmitTxType ==
    ASSUME TxTypeOK, NEW gas \in Nat, Admit(TxWith(gas))
    PROVE  ChainTypeOK' /\ sent' = sent + 1
BY TxType, AdmitType DEF TxTypeOK

-----------------------------------------------------------------------------
(* The kinds of steps.                                                     *)

\* From the simulation's first call that passed to the end of the hunt.
Checked == {"gas", "dry", "balance", "need", "fee", "count", "broadcast", "receipt", "verify"}

\* The simulation's price and first call; a transaction is under way; the
\* script has ended.
Checking == {"price", "call"}
Waiting  == {"receipt", "verify"}
Resting  == {"done", "stopped", "crashed"}

\* Before the simulation: the chain is read, a window awaited, a nonce sought.
Searches(paying) ==
    /\ {pc, pc'} \cap (Checked \cup Resting) = {}
    /\ pc' \in paying => send
    /\ sol' \in Solutions
    /\ UNCHANGED <<chainVars, txVars, send, held, lost>>

\* The simulation: the price is read, a call passes.
ReadsPrice(paying) ==
    /\ ReadMintPrice("price", "call")
    /\ "call" \in paying => "price" \in paying
    /\ UNCHANGED <<send, held, lost>>

Passes(paying) ==
    /\ \E from \in {"call", "gas"}, to \in {"gas", "dry", "balance"} :
          CallPasses(from, to) /\ (to \in paying => from \in paying)
    /\ UNCHANGED <<send, held, lost>>

\* Between the simulation and the transaction.
GoesOn(paying) ==
    /\ pc \in Checked \ Waiting
    /\ pc' \in Checked \ (Waiting \cup {"broadcast"})
    /\ pc' \in paying => send \/ pc \in paying
    /\ bid' \in Nat /\ held' \in Nat
    /\ UNCHANGED <<chainVars, sol, price, txNonce, txid, send, lost>>

Counts == ReadCount("count", "broadcast") /\ UNCHANGED <<send, held, lost>>

\* The node admits the transaction: the script has its hash, or never learns.
Sends(gas) ==
    /\ pc = "broadcast" /\ pc' = "receipt"
    /\ Admit(TxWith(gas))
    /\ txid' = sent + 1
    /\ UNCHANGED <<sol, price, bid, txNonce, send, held, lost>>

LosesAnswer(gas) ==
    /\ pc = "broadcast" /\ pc' \notin Checked \cup Checking
    /\ Admit(TxWith(gas))
    /\ Cleared
    /\ lost' \/ (pc' \in Resting /\ lost' = lost)
    /\ UNCHANGED send

Receives == Receipt(1, "receipt", "verify") /\ UNCHANGED <<send, held, lost>>

\* The turn is over, or the script.  A script that goes on after it waited for
\* a transaction knows that it reverted, or has lost its outcome.
Leaves ==
    /\ pc' \notin Checked \cup Checking
    /\ pc \in Resting => pc' \in Resting
    /\ pc \in Waiting => pc' \in Resting \/ lost' \/ txid = 0 \/ txid \in reverted
    /\ lost => lost'
    /\ Cleared
    /\ UNCHANGED <<chainVars, send>>

ChainMoves == ChainNext /\ UNCHANGED <<txVars, pc, sol, send, held, lost>>

Stays == UNCHANGED <<chainVars, txVars, pc, sol, send, held, lost>>

\* Where a script is only with --send, at least and at most.
PayingOK(paying) ==
    /\ {"count", "broadcast"} \cup Waiting \subseteq paying
    /\ paying \subseteq Checked \cup Checking

\* Where bot.py and gpu_hunter.py are only with --send, and where
\* gpu_hunter_continuous.py is.
Paying     == {"balance", "need", "fee", "count", "broadcast", "receipt", "verify"}
ContPaying == {"price", "call", "gas", "balance", "fee", "count", "broadcast", "receipt", "verify"}

LEMMA PayingSets == PayingOK(Paying) /\ PayingOK(ContPaying)
BY DEF PayingOK, Paying, ContPaying, Checked, Checking, Waiting

\* paying: where the script is only with --send; gas: its gas limit.
MintingStep(paying, gas) ==
    \/ Searches(paying) \/ ReadsPrice(paying) \/ Passes(paying) \/ GoesOn(paying) \/ Counts
    \/ Sends(gas) \/ LosesAnswer(gas) \/ Receives \/ Leaves
    \/ ChainMoves \/ Stays

LEMMA KindType ==
    ASSUME TxTypeOK, NEW paying, NEW gas \in Nat, MintingStep(paying, gas)
    PROVE  TxTypeOK'
<1>1. sent \in Nat
  BY DEF TxTypeOK, ChainTypeOK
<1>2. CASE Searches(paying) \/ Stays
  BY <1>2, ChainUnchanged DEF Searches, Stays, TxTypeOK, txVars, chainVars
<1>3. CASE GoesOn(paying)
  BY <1>3, ChainUnchanged DEF GoesOn, TxTypeOK, chainVars
<1>4. CASE ReadsPrice(paying)
  <2>1. MintPrice \in Nat
    BY ChainNumbers DEF TxTypeOK, ChainTypeOK, MintPrice
  <2> QED
    BY <1>4, <2>1, ChainUnchanged DEF ReadsPrice, ReadMintPrice, TxTypeOK, chainVars
<1>5. CASE Passes(paying) \/ Receives
  BY <1>5, ChainUnchanged DEF Passes, CallPasses, Receives, Receipt, TxTypeOK, txVars, chainVars
<1>6. CASE Counts
  BY <1>6, ChainUnchanged
     DEF Counts, ReadCount, TransactionCount, TxTypeOK, ChainTypeOK, chainVars
<1>7. CASE Sends(gas)
  <2>1. ChainTypeOK' /\ txid' \in 0..sent'
    BY <1>1, <1>7, AdmitTxType DEF Sends
  <2> QED
    BY <1>7, <2>1 DEF Sends, TxTypeOK
<1>8. CASE LosesAnswer(gas) \/ Leaves
  <2>1. ChainTypeOK' /\ Cleared /\ send' = send
    BY <1>8, AdmitTxType, ChainUnchanged DEF LosesAnswer, Leaves, TxTypeOK, chainVars
  <2> QED
    BY <2>1 DEF TxTypeOK, ChainTypeOK, Cleared, NoSol, Solutions
<1>9. CASE ChainMoves
  <2>1. ChainTypeOK' /\ sent' = sent
    BY <1>9, ChainTypeStep DEF ChainMoves, TxTypeOK, ChainNext, RivalMint, Cool, NewBlock,
       GasMove, TopUp, Execute, Drop
  <2> QED
    BY <1>9, <2>1 DEF ChainMoves, TxTypeOK, txVars
<1> QED
  BY <1>2, <1>3, <1>4, <1>5, <1>6, <1>7, <1>8, <1>9 DEF MintingStep

-----------------------------------------------------------------------------
(* What the simulation established, as long as it is relied on.            *)

MintInv(paying) ==
    /\ pc \in Checked => Winning(sol.prev, sol.q) /\ price = PriceOf(sol.prev)
    /\ pc \in paying => send
    /\ pc = "broadcast" => txNonce <= acctNonce

LEMMA PricesFixed == \A n : PriceOf(n)' = PriceOf(n)
BY DEF PriceOf, Epoch

\* A call that passes proves the price and the solution right.
LEMMA CallProves ==
    ASSUME TxTypeOK, NEW from, NEW to, CallPasses(from, to)
    PROVE  Winning(sol.prev, sol.q)' /\ price' = PriceOf(sol.prev)'
<1>1. UNCHANGED <<minted, burst, sol, price>>
  BY DEF CallPasses, chainVars, txVars
<1>2. sol.prev = minted /\ sol.q >= Bits /\ price = PriceOf(sol.prev) /\ minted \in Nat
  BY DEF CallPasses, MineOK, MintPrice, Wins, TxTypeOK, ChainTypeOK
<1>3. Winning(sol.prev, sol.q)
  BY <1>2 DEF Winning
<1> QED
  BY <1>1, <1>2, <1>3, WinningUnchanged, PricesFixed

LEMMA KindMint ==
    ASSUME TxTypeOK, NEW paying, PayingOK(paying), NEW gas, MintInv(paying),
           MintingStep(paying, gas)
    PROVE  MintInv(paying)'
<1> USE DEF Checked, Checking, Waiting
<1>1. ASSUME UNCHANGED <<minted, burst>>
      PROVE  Winning(sol.prev, sol.q)' <=> Winning(sol'.prev, sol'.q)
  BY <1>1, WinningUnchanged DEF Winning, Bits, EpochFloor, Epoch
<1>2. CASE Searches(paying)
  BY <1>2 DEF Searches, MintInv
<1>3. CASE ReadsPrice(paying)
  BY <1>3 DEF ReadsPrice, ReadMintPrice, Goto, MintInv
<1>4. CASE Passes(paying)
  BY <1>4, CallProves DEF Passes, CallPasses, Goto, MintInv
<1>5. CASE \/ GoesOn(paying) \/ Counts \/ Sends(gas) \/ Receives
  <2>1. UNCHANGED <<minted, burst, acctNonce, sol, price, send>> /\ pc \in Checked
    BY <1>5 DEF GoesOn, Counts, ReadCount, Sends, Admit, Receives, Receipt, Goto, chainVars, txVars
  <2>2. Winning(sol.prev, sol.q)' /\ price' = PriceOf(sol.prev)'
    BY <2>1, WinningUnchanged, PricesFixed DEF MintInv
  <2>3. pc' \in paying => send
    BY <1>5 DEF GoesOn, Counts, ReadCount, Sends, Receives, Receipt, Goto, MintInv, PayingOK
  <2>4. pc' = "broadcast" => txNonce' <= acctNonce
    BY <1>5 DEF GoesOn, Counts, ReadCount, TransactionCount, Sends, Receives, Receipt, Goto,
       TxTypeOK, ChainTypeOK
  <2> QED
    BY <2>1, <2>2, <2>3, <2>4 DEF MintInv
<1>6. CASE LosesAnswer(gas) \/ Leaves
  BY <1>6 DEF LosesAnswer, Leaves, MintInv, PayingOK
<1>7. CASE Stays
  BY <1>7, WinningUnchanged, PricesFixed DEF Stays, MintInv, txVars, chainVars
<1>8. CASE ChainMoves
  <2>1. ChainTypeOK /\ ChainTypeOK' /\ sol.prev \in Nat /\ sol.q \in Nat
    BY <1>8, ChainTypeStep DEF ChainMoves, TxTypeOK, Solutions
  <2>2. acctNonce' >= acctNonce
    BY <1>8, <2>1 DEF ChainMoves, ChainNext, RivalMint, Cool, NewBlock, GasMove, TopUp, Execute,
       Drop, ChainTypeOK
  <2>3. pc \in Checked => Winning(sol.prev, sol.q)'
    BY <1>8, <2>1, WinningKept DEF ChainMoves, MintInv
  <2>4. acctNonce \in Nat /\ acctNonce' \in Nat /\ txNonce \in Nat
    BY <2>1 DEF ChainTypeOK, TxTypeOK
  <2> QED
    BY <1>8, <2>2, <2>3, <2>4, PricesFixed DEF ChainMoves, MintInv, txVars
<1> QED
  BY <1>2, <1>3, <1>4, <1>5, <1>6, <1>7, <1>8 DEF MintingStep

-----------------------------------------------------------------------------
(* The race.                                                               *)

LEMMA RaceChain ==
    /\ ChainInit => Race!ChainInit
    /\ ChainNext => Race!ChainNext
    /\ \A tx : Admit(tx) => Race!Admit(tx)
<1>1. ChainInit => Race!ChainInit
  BY DEF ChainInit, Race!ChainInit
<1>2. ChainNext => Race!ChainNext
  BY DEF ChainNext, Race!ChainNext, RivalMint, Race!RivalMint, Cool, Race!Cool, NewBlock,
     Race!NewBlock, GasMove, Race!GasMove, TopUp, Race!TopUp, Drop, Race!Drop, Execute,
     Race!Execute, Hotter, Race!Hotter, Succeeds, Race!Succeeds, MineOK, Race!MineOK,
     AnchorOK, Race!AnchorOK, Wins, Race!Wins, MintPrice, Race!MintPrice, Bits, Race!Bits,
     PriceOf, Race!PriceOf, EpochFloor, Race!EpochFloor, Epoch, Race!Epoch, Upfront,
     Race!Upfront, GasCost, Race!GasCost
<1>3. \A tx : Admit(tx) => Race!Admit(tx)
  BY DEF Admit, Race!Admit, Admissible, Race!Admissible, Upfront, Race!Upfront
<1> QED
  BY <1>1, <1>2, <1>3

\* What a script hands to the node is sound.
LEMMA SubmitIsSound ==
    ASSUME NEW paying, PayingOK(paying), TxTypeOK, MintInv(paying), pc = "broadcast",
           NEW gas \in Nat, gas >= GasUsed, Admit(TxWith(gas)), send' = send
    PROVE  Race!Submit
<1> DEFINE tx == TxWith(gas)
<1>1. tx.sol = sol /\ tx.value = price /\ tx.gas = gas /\ tx.nonce = txNonce
  BY DEF TxWith
<1>2. Winning(sol.prev, sol.q) /\ price = PriceOf(sol.prev) /\ txNonce <= acctNonce /\ send
  BY DEF MintInv, Checked, PayingOK
<1>3. Bits = Race!Bits /\ \A n : PriceOf(n) = Race!PriceOf(n)
  BY DEF Bits, Race!Bits, PriceOf, Race!PriceOf, EpochFloor, Race!EpochFloor, Epoch,
     Race!Epoch
<1>4. Race!Sound(tx) /\ tx.nonce <= acctNonce
  BY <1>1, <1>2, <1>3 DEF Race!Sound, Winning
<1>5. tx \in pool' /\ Race!Admit(tx)
  BY RaceChain DEF Admit
<1>6. tx \in Race!Txs /\ tx.id = sent + 1
  BY TxType DEF Txs, Race!Txs, Solutions, Race!Solutions
<1> QED
  BY <1>2, <1>4, <1>5, <1>6 DEF Race!Submit

LEMMA KindRace ==
    ASSUME TxTypeOK, NEW paying, PayingOK(paying), NEW gas \in Nat, gas >= GasUsed,
           MintInv(paying), MintingStep(paying, gas)
    PROVE  [Race!Next]_(Race!raceVars)
<1>1. CASE Sends(gas) \/ LosesAnswer(gas)
  BY <1>1, SubmitIsSound DEF Sends, LosesAnswer, Race!Next
<1>2. CASE ChainMoves
  BY <1>2, RaceChain DEF ChainMoves, Race!Next
<1>3. ASSUME UNCHANGED <<chainVars, send>> PROVE [Race!Next]_(Race!raceVars)
  BY <1>3 DEF Race!raceVars, Race!chainVars, chainVars
<1> QED
  BY <1>1, <1>2, <1>3 DEF MintingStep, Searches, ReadsPrice, ReadMintPrice, Passes, CallPasses,
     GoesOn, Counts, ReadCount, Receives, Receipt, Leaves, Stays, txVars

-----------------------------------------------------------------------------
(* The cats.                                                               *)

\* The ids of the transactions that minted a cat or still may.
LiveIds == landed \cup {tx.id : tx \in pool}

\* As long as no outcome was lost there is one transaction that is alive, and
\* only while the script waits for it or after it has ended.
CatInv ==
    /\ pc \in Waiting <=> txid # 0
    /\ pc = "verify" => txid \in landed
    /\ ~lost => /\ pc \in Waiting => LiveIds \subseteq {txid}
                /\ pc \notin Waiting \cup Resting => LiveIds = {}
                /\ \A id, other \in LiveIds : id = other

\* A transaction waits, has minted or has reverted: never two of these.
DecidedOnce ==
    /\ \A tx \in pool : tx.id \notin landed \cup reverted
    /\ landed \cap reverted = {}

LEMMA KindCat ==
    ASSUME TxTypeOK, DecidedOnce, CatInv, lost \in BOOLEAN, lost' \in BOOLEAN,
           NEW paying, PayingOK(paying), NEW gas \in Nat, MintingStep(paying, gas)
    PROVE  CatInv'
<1> USE DEF Checked, Checking, Waiting, Resting
<1>1. ASSUME UNCHANGED <<landed, pool>> PROVE LiveIds' = LiveIds
  BY <1>1 DEF LiveIds
<1>2. CASE \/ Searches(paying) \/ ReadsPrice(paying) \/ Passes(paying) \/ GoesOn(paying)
           \/ Counts \/ Stays
  <2>1. /\ UNCHANGED <<landed, pool, txid, lost>>
        /\ pc' = pc \/ {pc, pc'} \cap (Waiting \cup Resting) = {}
    BY <1>2 DEF Searches, ReadsPrice, ReadMintPrice, Passes, CallPasses, GoesOn, Counts, ReadCount,
       Stays, Goto, chainVars, txVars
  <2> QED
    BY <1>1, <2>1 DEF CatInv
<1>3. CASE Sends(gas) \/ LosesAnswer(gas)
  <2>1. /\ landed' = landed /\ pool' = {t \in pool : t.nonce # txNonce} \cup {TxWith(gas)}
        /\ pc = "broadcast" /\ TxWith(gas).id = sent + 1 /\ sent \in Nat
    BY <1>3 DEF Sends, LosesAnswer, Admit, TxWith, TxTypeOK, ChainTypeOK
  <2>2. ~lost => landed = {} /\ pool = {}
    BY <2>1 DEF CatInv, LiveIds
  <2>3. ~lost => LiveIds' = {sent + 1}
    BY <2>1, <2>2 DEF LiveIds
  <2> QED
    BY <1>3, <2>1, <2>3 DEF Sends, LosesAnswer, Cleared, CatInv
<1>4. CASE Receives
  BY <1>1, <1>4 DEF Receives, Receipt, Goto, CatInv, chainVars, txVars
<1>5. CASE Leaves
  <2>1. LiveIds' = LiveIds /\ txid' = 0 /\ pc' \notin Waiting /\ (lost => lost')
    BY <1>1, <1>5 DEF Leaves, Cleared, chainVars
  <2>2. ASSUME ~lost', pc' \notin Resting PROVE LiveIds = {}
    <3>1. CASE pc \in Waiting
      <4>1. txid \in reverted /\ LiveIds \subseteq {txid}
        BY <1>5, <2>2, <3>1 DEF Leaves, CatInv
      <4>2. txid \notin LiveIds
        BY <4>1 DEF DecidedOnce, LiveIds
      <4> QED
        BY <4>1, <4>2
    <3>2. CASE pc \notin Waiting
      BY <1>5, <2>2, <3>2 DEF Leaves, CatInv
    <3> QED
      BY <3>1, <3>2
  <2> QED
    BY <2>1, <2>2 DEF CatInv
<1>6. CASE ChainMoves
  <2>1. LiveIds' \subseteq LiveIds /\ landed \subseteq landed'
    BY <1>6 DEF ChainMoves, ChainNext, RivalMint, Cool, NewBlock, GasMove, TopUp, Execute, Drop,
       LiveIds
  <2> QED
    BY <1>6, <2>1 DEF ChainMoves, CatInv, txVars
<1> QED
  BY <1>2, <1>3, <1>4, <1>5, <1>6 DEF MintingStep

-----------------------------------------------------------------------------
(* bot.py.                                                                 *)

\* An instance of MintTx's definitions is what it is here.
LEMMA BotSame ==
    /\ B!ChainInit <=> ChainInit
    /\ B!ChainNext <=> ChainNext
    /\ B!Bits = Bits /\ B!NoSol = NoSol /\ B!Tx = TxWith(GasLimit)
    /\ B!Admit(TxWith(GasLimit)) <=> Admit(TxWith(GasLimit))
    /\ \A from, to : /\ B!ReadMintPrice(from, to) <=> ReadMintPrice(from, to)
                     /\ B!CallPasses(from, to) <=> CallPasses(from, to)
                     /\ B!ReadFee(from, to) <=> ReadFee(from, to)
                     /\ B!ReadCount(from, to) <=> ReadCount(from, to)
                     /\ B!Receipt(1, from, to) <=> Receipt(1, from, to)
<1> USE DEF B!Bits, Bits, B!EpochFloor, EpochFloor, B!Epoch, Epoch, B!PriceOf, PriceOf,
            B!MintPrice, MintPrice, B!MineOK, MineOK, B!AnchorOK, AnchorOK, B!Wins, Wins,
            B!Upfront, Upfront, B!Goto, Goto, B!chainVars, chainVars, B!txVars, txVars
<1>1. B!ChainInit <=> ChainInit
  BY DEF B!ChainInit, ChainInit
<1>2. B!ChainNext <=> ChainNext
  BY DEF B!ChainNext, ChainNext, B!RivalMint, RivalMint, B!Cool, Cool, B!NewBlock, NewBlock,
     B!GasMove, GasMove, B!TopUp, TopUp, B!Drop, Drop, B!Execute, Execute, B!Hotter, Hotter,
     B!Succeeds, Succeeds, B!GasCost, GasCost
<1>3. /\ B!Bits = Bits /\ B!NoSol = NoSol /\ B!Tx = TxWith(GasLimit)
      /\ B!Admit(TxWith(GasLimit)) <=> Admit(TxWith(GasLimit))
  BY DEF B!NoSol, NoSol, B!Tx, TxWith, B!GasLimit, GasLimit, B!Admit, Admit, B!Admissible,
     Admissible
<1>4. ASSUME NEW from, NEW to
      PROVE  /\ B!ReadMintPrice(from, to) <=> ReadMintPrice(from, to)
             /\ B!CallPasses(from, to) <=> CallPasses(from, to)
             /\ B!ReadFee(from, to) <=> ReadFee(from, to)
             /\ B!ReadCount(from, to) <=> ReadCount(from, to)
             /\ B!Receipt(1, from, to) <=> Receipt(1, from, to)
  BY DEF B!ReadMintPrice, ReadMintPrice, B!CallPasses, CallPasses, B!ReadFee, ReadFee, B!Bid,
     Bid, B!ReadCount, ReadCount, B!TransactionCount, TransactionCount, B!Receipt, Receipt
<1> QED
  BY <1>1, <1>2, <1>3, <1>4

BotOwn ==
    /\ pc \in B!Labels
    /\ snap \in [B!SnapReads -> Nat]
    /\ fresh \in [{"anchor", "prevWork"} -> Nat]
    /\ attempt \in 0..MaxAttempts

LEMMA BotTypeParts == B!TypeOK <=> TxTypeOK /\ BotOwn
BY DEF B!TypeOK, TxTypeOK, BotOwn, B!ChainTypeOK, ChainTypeOK, B!Solutions, Solutions, B!Txs, Txs

\* Where a read of the snapshot leads to, and what it reads.
LEMMA BotReads ==
    ASSUME TxTypeOK
    PROVE  \A field \in B!SnapReads :
              /\ B!NextRead[field] \in B!Labels \ (Checked \cup Checking \cup Resting)
              /\ B!Live[field] \in Nat
<1>1. minted \in Nat /\ block \in Nat /\ B!Bits \in Nat
  BY BitsNat, BotSame DEF TxTypeOK, ChainTypeOK
<1> QED
  BY <1>1 DEF B!NextRead, B!Live, B!SnapReads, B!Labels, B!Raising, Checked, Checking, Resting

\* mine_once is left.
LEMMA BotLeaves ==
    ASSUME BotOwn, B!LeaveAttempt, UNCHANGED <<chainVars, send, attempt, lost>>,
           pc' \in B!Labels \ (Checked \cup Checking),
           pc \in Waiting \cup Resting => pc' \in Resting
    PROVE  Leaves /\ BotOwn'
<1>1. Cleared
  BY BotSame DEF B!LeaveAttempt, Cleared
<1>2. B!NoSnap \in [B!SnapReads -> Nat] /\ B!NoFresh \in [{"anchor", "prevWork"} -> Nat]
  BY DEF B!NoSnap, B!SnapReads, B!NoFresh
<1> QED
  BY <1>1, <1>2 DEF BotOwn, B!LeaveAttempt, Leaves

\* Every step of bot.py is of a kind.
LEMMA BotKind ==
    ASSUME TxTypeOK, BotOwn, [B!Next]_(B!vars), UNCHANGED lost
    PROVE  MintingStep(Paying, GasLimit) /\ BotOwn'
<1> USE DEF B!Goto, B!Labels, B!Raising, B!SnapReads, B!FreshReads, B!SendSteps, B!Ended
<1> USE DEF B!txVars, B!botVars, B!chainVars, txVars, chainVars
<1> USE DEF Checked, Checking, Waiting, Resting
<1>1. sol \in Solutions /\ bid \in Nat /\ held \in Nat
  BY DEF TxTypeOK
<1>3. ASSUME NEW from, B!Again(from), from \notin Waiting \cup Resting PROVE Leaves /\ BotOwn'
  BY <1>3, BotLeaves DEF B!Again
<1>4. ASSUME NEW from, B!Done(from) PROVE Leaves /\ BotOwn'
  BY <1>4, BotLeaves DEF B!Done
<1>5. CASE B!NextAttempt
  <2>1. attempt \in 0..MaxAttempts /\ MaxAttempts \in Nat
    BY ScriptsAssumption DEF BotOwn
  <2>2. (attempt < MaxAttempts /\ attempt' = attempt + 1) \/ attempt' = attempt
    BY <1>5 DEF B!NextAttempt
  <2>3. attempt' \in 0..MaxAttempts
    BY <2>1, <2>2
  <2>4. Searches(Paying)
    BY <1>1, <1>5 DEF B!NextAttempt, Searches, Paying
  <2> QED
    BY <1>5, <2>3, <2>4 DEF B!NextAttempt, BotOwn, MintingStep
<1>6. ASSUME NEW field \in B!SnapReads, B!Snapshot(field)
      PROVE  Searches(Paying) /\ BotOwn'
  <2>1. snap' \in [B!SnapReads -> Nat]
    BY <1>6, BotReads DEF B!Snapshot, BotOwn
  <2>2. pc' \in B!Labels \ (Checked \cup Checking \cup Resting)
    BY <1>6, BotReads DEF B!Snapshot
  <2>3. Searches(Paying)
    BY <1>1, <1>6, <2>2 DEF B!Snapshot, Searches, Paying
  <2> QED
    BY <1>6, <2>1, <2>2, <2>3 DEF B!Snapshot, BotOwn
<1>7. CASE B!WindowClosed \/ B!WindowOpen \/ B!StateKept
  BY <1>1, <1>7 DEF B!WindowClosed, B!WindowOpen, B!StateKept, BotOwn, Searches, Paying,
     MintingStep
<1>8. CASE B!SolveFound
  <2>1. snap.prevWork \in Nat /\ snap.anchor \in Nat /\ snap.target \in Nat /\ Luck \in Nat
    BY ScriptsAssumption DEF BotOwn
  <2>2. PICK q \in snap.target..(snap.target + Luck) :
              sol' = [prev |-> snap.prevWork, anchor |-> snap.anchor, q |-> q]
    BY <1>8 DEF B!SolveFound
  <2>3. sol' \in Solutions
    BY <2>1, <2>2 DEF Solutions
  <2> QED
    BY <1>8, <2>3 DEF B!SolveFound, BotOwn, Searches, Paying, MintingStep
<1>9. ASSUME NEW from \in B!FreshReads, NEW to \in {"fresh prevWork", "compare"},
             NEW field \in {"anchor", "prevWork"}, B!ReadFresh(from, field, to)
      PROVE  Searches(Paying) /\ BotOwn'
  <2>1. fresh' \in [{"anchor", "prevWork"} -> Nat]
    BY <1>9, BotReads DEF B!ReadFresh, BotOwn
  <2>2. Searches(Paying)
    BY <1>1, <1>9 DEF B!ReadFresh, Searches, Paying
  <2> QED
    BY <1>9, <2>1, <2>2 DEF B!ReadFresh, BotOwn
<1>10. CASE B!Simulate
  BY <1>3, <1>10, BotSame
     DEF B!Simulate, ReadsPrice, Passes, ReadMintPrice, CallPasses, Goto, BotOwn, Paying,
         MintingStep
<1>11. CASE B!StateMoved \/ B!NotFunded \/ B!Verify
  BY <1>3, <1>4, <1>11 DEF B!StateMoved, B!NotFunded, B!Verify, MintingStep
<1>12. CASE B!DryOrSend \/ B!Funded
  <2>1. CASE ~send /\ B!Done("dry")
    BY <1>4, <2>1 DEF MintingStep
  <2>2. CASE pc = "dry" /\ pc' = "balance" /\ send /\ UNCHANGED <<chainVars, txVars, B!botVars, sol>>
    BY <1>1, <2>2 DEF GoesOn, BotOwn, MintingStep
  <2>3. CASE pc = "need" /\ pc' = "fee" /\ UNCHANGED <<chainVars, txVars, B!botVars, sol>>
    BY <1>1, <2>3 DEF GoesOn, Paying, BotOwn, MintingStep
  <2> QED
    BY <1>12, <2>1, <2>2, <2>3 DEF B!DryOrSend, B!Funded
<1>13. CASE B!ReadBalance
  BY <1>1, <1>13 DEF B!ReadBalance, GoesOn, Paying, BotOwn, MintingStep, TxTypeOK, ChainTypeOK
<1>14. CASE B!ReadFee("fee", "count") /\ UNCHANGED B!botVars
  <2>1. bid' \in Nat
    BY <1>14, BotSame, TxNumbers DEF ReadFee, TxTypeOK, ChainTypeOK
  <2>2. pc = "fee" /\ pc' = "count" /\ UNCHANGED <<chainVars, sol, price, txNonce, txid, B!botVars>>
    BY <1>14, BotSame DEF ReadFee, Goto
  <2>3. GoesOn(Paying)
    BY <1>1, <2>1, <2>2 DEF GoesOn, Paying
  <2> QED
    BY <2>2, <2>3 DEF BotOwn, MintingStep
<1>15. CASE B!ReadCount("count", "broadcast") /\ UNCHANGED B!botVars
  BY <1>15, BotSame DEF ReadCount, Goto, Counts, BotOwn, MintingStep
<1>16. CASE B!Broadcast("broadcast", "receipt") /\ UNCHANGED B!botVars
  <2>1. Sends(GasLimit)
    BY <1>16, BotSame DEF B!Broadcast, TxWith, Sends
  <2> QED
    BY <1>16, <2>1 DEF B!Broadcast, BotOwn, MintingStep
<1>17. CASE B!AnswerLost
  <2>1. Cleared /\ Admit(TxWith(GasLimit))
    BY <1>17, BotSame DEF B!AnswerLost, B!LeaveAttempt, Cleared
  <2>2. LosesAnswer(GasLimit)
    BY <1>17, <2>1 DEF B!AnswerLost, LosesAnswer
  <2>3. B!NoSnap \in [B!SnapReads -> Nat] /\ B!NoFresh \in [{"anchor", "prevWork"} -> Nat]
    BY DEF B!NoSnap, B!NoFresh
  <2> QED
    BY <1>17, <2>2, <2>3 DEF B!AnswerLost, B!LeaveAttempt, BotOwn, MintingStep
<1>18. CASE B!ReceiptRead
  BY <1>4, <1>18, BotSame DEF B!ReceiptRead, Receipt, Goto, Receives, BotOwn, MintingStep
<1>19. CASE B!Crash \/ B!Interrupt
  BY <1>19, BotLeaves DEF B!Crash, B!Interrupt, MintingStep
<1>20. CASE B!World
  BY <1>20, BotSame DEF B!World, ChainMoves, BotOwn, MintingStep
<1>21. CASE UNCHANGED B!vars
  BY <1>21 DEF B!vars, BotOwn, Stays, MintingStep
<1>22. CASE B!Again("solve")
  BY <1>3, <1>22 DEF MintingStep
<1> QED
  BY <1>5, <1>6, <1>7, <1>8, <1>9, <1>10, <1>11, <1>12, <1>13, <1>14, <1>15, <1>16,
     <1>17, <1>18, <1>19, <1>20, <1>21, <1>22 DEF B!Next, B!BotStep, B!Halted, MintingStep

\* The process that handed over a transaction ends without another attempt.
BotOnce == sent <= 1 /\ (pc \notin Waiting \cup B!Ended => sent = 0)

LEMMA BotOnceStep ==
    ASSUME TxTypeOK, BotOwn, BotOnce, [B!Next]_(B!vars), lost = FALSE, lost' = FALSE
    PROVE  BotOnce'
<1> USE DEF Waiting, B!Ended
<1>1. pc \in Waiting \cup B!Ended => pc' \in Waiting \cup B!Ended
  BY DEF B!Next, B!BotStep, B!NextAttempt, B!Snapshot, B!SnapReads, B!WindowClosed, B!WindowOpen,
     B!SolveFound, B!ReadFresh, B!StateMoved, B!StateKept, B!Simulate, B!ReadMintPrice,
     B!CallPasses, B!DryOrSend, B!ReadBalance, B!Funded, B!NotFunded, B!ReadFee, B!ReadCount,
     B!Broadcast, B!AnswerLost, B!ReceiptRead, B!Receipt, B!Verify, B!Crash, B!Interrupt,
     B!World, B!Halted, B!Again, B!Done, B!Goto, B!vars
<1>2. \/ sent' = sent
      \/ pc = "broadcast" /\ pc' \in Waiting \cup B!Ended /\ sent' = sent + 1
  <2>1. CASE \/ Searches(Paying) \/ ReadsPrice(Paying) \/ Passes(Paying)
             \/ GoesOn(Paying) \/ Counts \/ Receives \/ Leaves \/ Stays
    BY <2>1 DEF Searches, ReadsPrice, ReadMintPrice, Passes, CallPasses, GoesOn, Counts, ReadCount,
       Receives, Receipt, Leaves, Stays, chainVars
  <2>2. CASE Sends(GasLimit)
    BY <2>2 DEF Sends, Admit
  <2>3. CASE LosesAnswer(GasLimit)
    <3>1. pc' \in Resting /\ sent' = sent + 1 /\ pc = "broadcast"
      BY <2>3 DEF LosesAnswer, Admit
    <3> QED
      BY <3>1 DEF Resting
  <2>4. CASE ChainMoves
    BY <2>4 DEF ChainMoves, ChainNext, RivalMint, Cool, NewBlock, GasMove, TopUp, Execute, Drop
  <2> QED
    BY <2>1, <2>2, <2>3, <2>4, BotKind DEF MintingStep
<1> QED
  <2>1. CASE sent' = sent
    BY <1>1, <2>1 DEF BotOnce
  <2>2. CASE pc = "broadcast" /\ pc' \in Waiting \cup B!Ended /\ sent' = sent + 1
    <3>1. sent = 0
      BY <2>2 DEF BotOnce
    <3>2. sent' <= 1
      <4> HIDE DEF Waiting, B!Ended
      <4> QED
        BY <2>2, <3>1
    <3> QED
      BY <2>2, <3>2 DEF BotOnce
  <2> QED
    BY <1>2, <2>1, <2>2

-----------------------------------------------------------------------------
(* gpu_hunter.py.                                                          *)

\* What MintTx defines is the same in this instance.
LEMMA GpuSame ==
    /\ G!ChainInit <=> ChainInit
    /\ G!ChainNext <=> ChainNext
    /\ G!Bits = Bits /\ G!NoSol = NoSol /\ G!Tx = TxWith(GasLimit)
    /\ G!Admit(TxWith(GasLimit)) <=> Admit(TxWith(GasLimit))
    /\ \A from, to : /\ G!ReadMintPrice(from, to) <=> ReadMintPrice(from, to)
                     /\ G!CallPasses(from, to) <=> CallPasses(from, to)
                     /\ G!ReadFee(from, to) <=> ReadFee(from, to)
                     /\ G!ReadCount(from, to) <=> ReadCount(from, to)
                     /\ G!Receipt(1, from, to) <=> Receipt(1, from, to)
<1> USE DEF G!Bits, Bits, G!EpochFloor, EpochFloor, G!Epoch, Epoch, G!PriceOf, PriceOf,
            G!MintPrice, MintPrice, G!MineOK, MineOK, G!AnchorOK, AnchorOK, G!Wins, Wins,
            G!Upfront, Upfront, G!Goto, Goto, G!chainVars, chainVars, G!txVars, txVars
<1>1. G!ChainInit <=> ChainInit
  BY DEF G!ChainInit, ChainInit
<1>2. G!ChainNext <=> ChainNext
  BY DEF G!ChainNext, ChainNext, G!RivalMint, RivalMint, G!Cool, Cool, G!NewBlock, NewBlock,
     G!GasMove, GasMove, G!TopUp, TopUp, G!Drop, Drop, G!Execute, Execute, G!Hotter, Hotter,
     G!Succeeds, Succeeds, G!GasCost, GasCost
<1>3. /\ G!Bits = Bits /\ G!NoSol = NoSol /\ G!Tx = TxWith(GasLimit)
      /\ G!Admit(TxWith(GasLimit)) <=> Admit(TxWith(GasLimit))
  BY DEF G!NoSol, NoSol, G!Tx, TxWith, G!GasLimit, GasLimit, G!Admit, Admit, G!Admissible,
     Admissible
<1>4. ASSUME NEW from, NEW to
      PROVE  /\ G!ReadMintPrice(from, to) <=> ReadMintPrice(from, to)
             /\ G!CallPasses(from, to) <=> CallPasses(from, to)
             /\ G!ReadFee(from, to) <=> ReadFee(from, to)
             /\ G!ReadCount(from, to) <=> ReadCount(from, to)
             /\ G!Receipt(1, from, to) <=> Receipt(1, from, to)
  BY DEF G!ReadMintPrice, ReadMintPrice, G!CallPasses, CallPasses, G!ReadFee, ReadFee, G!Bid,
     Bid, G!ReadCount, ReadCount, G!TransactionCount, TransactionCount, G!Receipt, Receipt
<1> QED
  BY <1>1, <1>2, <1>3, <1>4

GpuOwn ==
    /\ pc \in G!Labels
    /\ snap \in [G!SnapReads -> Nat]
    /\ lost \in BOOLEAN

LEMMA GpuTypeParts == G!TypeOK <=> TxTypeOK /\ GpuOwn
BY DEF G!TypeOK, TxTypeOK, GpuOwn, G!ChainTypeOK, ChainTypeOK, G!Solutions, Solutions, G!Txs, Txs

LEMMA GpuReads ==
    ASSUME TxTypeOK
    PROVE  \A field \in G!SnapReads :
              /\ G!NextRead[field] \in G!Labels \ (Checked \cup Checking \cup Resting)
              /\ G!Live[field] \in Nat
<1>1. minted \in Nat /\ block \in Nat /\ G!Bits \in Nat
  BY BitsNat, GpuSame DEF TxTypeOK, ChainTypeOK
<1> QED
  BY <1>1 DEF G!NextRead, G!Live, G!SnapReads, G!Labels, G!Raising, Checked, Checking, Resting

\* A turn of the loop is over.
LEMMA GpuLeaves ==
    ASSUME GpuOwn, G!EndTurn, UNCHANGED <<chainVars, send>>,
           pc' \in G!Labels \ (Checked \cup Checking), lost' \in BOOLEAN, lost => lost',
           pc \notin Resting,
           pc \in Waiting => pc' \in Resting \/ lost' \/ txid = 0 \/ txid \in reverted
    PROVE  Leaves /\ GpuOwn'
<1>1. Cleared
  BY GpuSame DEF G!EndTurn, Cleared
<1>2. G!NoSnap \in [G!SnapReads -> Nat]
  BY DEF G!NoSnap, G!SnapReads
<1> QED
  BY <1>1, <1>2 DEF GpuOwn, G!EndTurn, Leaves

\* Every step of gpu_hunter.py is of a kind.
LEMMA GpuKind ==
    ASSUME TxTypeOK, GpuOwn, [G!Next]_(G!vars)
    PROVE  MintingStep(Paying, GasLimit) /\ GpuOwn'
<1> USE DEF G!Goto, G!Labels, G!Raising, G!SnapReads, G!SendSteps
<1> USE DEF G!txVars, G!gpuVars, G!chainVars, txVars, chainVars
<1> USE DEF Checked, Checking, Waiting, Resting
<1>1. sol \in Solutions /\ bid \in Nat /\ held \in Nat
  BY DEF TxTypeOK
<1>2. lost \in BOOLEAN
  BY DEF GpuOwn
<1>3. ASSUME NEW from, G!Continue(from), from \notin Waiting \cup Resting
      PROVE  MintingStep(Paying, GasLimit) /\ GpuOwn'
  BY <1>2, <1>3, GpuLeaves DEF G!Continue, MintingStep
<1>4. ASSUME NEW field \in G!SnapReads, G!Snapshot(field)
      PROVE  Searches(Paying) /\ GpuOwn'
  <2>1. snap' \in [G!SnapReads -> Nat]
    BY <1>4, GpuReads DEF G!Snapshot, GpuOwn
  <2>2. pc' \in G!Labels \ (Checked \cup Checking \cup Resting)
    BY <1>4, GpuReads DEF G!Snapshot
  <2>3. Searches(Paying)
    BY <1>1, <1>4, <2>2 DEF G!Snapshot, Searches, Paying
  <2> QED
    BY <1>4, <2>1, <2>2, <2>3 DEF G!Snapshot, GpuOwn
<1>5. CASE G!WindowClosed \/ G!WindowOpen \/ G!Recheck
  <2>1. ASSUME pc \in {"gate", "recheck"}, pc' \in {"slice", "price"},
               UNCHANGED <<chainVars, txVars, G!gpuVars, sol>>
        PROVE  MintingStep(Paying, GasLimit) /\ GpuOwn'
    BY <1>1, <2>1 DEF GpuOwn, Searches, Paying, MintingStep
  <2> QED
    BY <1>3, <1>5, <2>1 DEF G!WindowClosed, G!WindowOpen, G!Recheck
<1>6. CASE G!SliceFound
  <2>1. snap.prevWork \in Nat /\ snap.anchor \in Nat /\ snap.target \in Nat /\ Luck \in Nat
    BY ScriptsAssumption DEF GpuOwn
  <2>2. PICK q \in {0} \cup (snap.target..(snap.target + Luck)) :
              sol' = [prev |-> snap.prevWork, anchor |-> snap.anchor, q |-> q]
    BY <1>6 DEF G!SliceFound
  <2>3. sol' \in Solutions
    BY <2>1, <2>2 DEF Solutions
  <2> QED
    BY <1>6, <2>3 DEF G!SliceFound, GpuOwn, Searches, Paying, MintingStep
<1>7. CASE G!Simulate
  BY <1>3, <1>7, GpuSame
     DEF G!Simulate, ReadsPrice, Passes, ReadMintPrice, CallPasses, Goto, GpuOwn, Paying,
         MintingStep
<1>8. CASE G!DryOrSend \/ G!CheckFunds
  <2>1. CASE pc = "dry" /\ pc' = "balance" /\ send /\ UNCHANGED <<chainVars, txVars, G!gpuVars, sol>>
    BY <1>1, <2>1 DEF GoesOn, GpuOwn, MintingStep
  <2>2. CASE pc = "need" /\ pc' = "fee" /\ UNCHANGED <<chainVars, txVars, G!gpuVars, sol>>
    BY <1>1, <2>2 DEF GoesOn, Paying, GpuOwn, MintingStep
  <2> QED
    BY <1>3, <1>8, <2>1, <2>2 DEF G!DryOrSend, G!CheckFunds
<1>9. CASE G!ReadBalance
  BY <1>1, <1>9 DEF G!ReadBalance, GoesOn, Paying, GpuOwn, MintingStep, TxTypeOK, ChainTypeOK
<1>10. CASE G!ReadFee("fee", "count") /\ UNCHANGED G!gpuVars
  <2>1. bid' \in Nat
    BY <1>10, GpuSame, TxNumbers DEF ReadFee, TxTypeOK, ChainTypeOK
  <2>2. pc = "fee" /\ pc' = "count" /\ UNCHANGED <<chainVars, sol, price, txNonce, txid, G!gpuVars>>
    BY <1>10, GpuSame DEF ReadFee, Goto
  <2>3. GoesOn(Paying)
    BY <1>1, <2>1, <2>2 DEF GoesOn, Paying
  <2> QED
    BY <2>2, <2>3 DEF GpuOwn, MintingStep
<1>11. CASE G!ReadCount("count", "broadcast") /\ UNCHANGED G!gpuVars
  BY <1>11, GpuSame DEF ReadCount, Goto, Counts, GpuOwn, MintingStep
<1>12. CASE G!Broadcast("broadcast", "receipt") /\ UNCHANGED G!gpuVars
  <2>1. Sends(GasLimit)
    BY <1>12, GpuSame DEF G!Broadcast, TxWith, Sends
  <2> QED
    BY <1>12, <2>1 DEF G!Broadcast, GpuOwn, MintingStep
<1>13. CASE G!AnswerLost
  <2>1. Cleared /\ Admit(TxWith(GasLimit))
    BY <1>13, GpuSame DEF G!AnswerLost, G!EndTurn, Cleared
  <2>2. LosesAnswer(GasLimit)
    BY <1>13, <2>1 DEF G!AnswerLost, LosesAnswer
  <2>3. G!NoSnap \in [G!SnapReads -> Nat]
    BY DEF G!NoSnap
  <2> QED
    BY <1>13, <2>2, <2>3 DEF G!AnswerLost, G!EndTurn, GpuOwn, MintingStep
<1>14. CASE G!ReceiptRead
  <2>1. CASE G!Receipt(1, "receipt", "verify") /\ UNCHANGED G!gpuVars
    BY <2>1, GpuSame DEF Receipt, Goto, Receives, GpuOwn, MintingStep
  <2>2. CASE txid \in reverted /\ G!Continue("receipt")
    BY <1>2, <2>2, GpuLeaves DEF G!Continue, MintingStep
  <2> QED
    BY <1>14, <2>1, <2>2 DEF G!ReceiptRead
<1>15. CASE G!Verify \/ G!Interrupt
  <2>1. pc \notin Resting /\ pc' \in {"done", "stopped"} /\ lost' = lost /\ G!EndTurn
        /\ UNCHANGED <<chainVars, send>>
    BY <1>15 DEF G!Verify, G!Interrupt, GpuOwn
  <2> QED
    BY <1>2, <2>1, GpuLeaves DEF MintingStep
<1>16. CASE G!Raise
  <2>1. lost' \in BOOLEAN /\ (lost => lost') /\ (lost' \/ txid = 0)
    BY <1>2, <1>16 DEF G!Raise
  <2> QED
    BY <1>16, <2>1, GpuLeaves DEF G!Raise, MintingStep
<1>17. CASE G!World
  BY <1>17, GpuSame DEF G!World, ChainMoves, GpuOwn, MintingStep
<1>18. CASE UNCHANGED G!vars
  BY <1>18 DEF G!vars, GpuOwn, Stays, MintingStep
<1>19. CASE G!Continue("slice") \/ G!Continue("sleep")
  BY <1>3, <1>19
<1> QED
  BY <1>4, <1>5, <1>6, <1>7, <1>8, <1>9, <1>10, <1>11, <1>12, <1>13, <1>14, <1>15, <1>16,
     <1>17, <1>18, <1>19 DEF G!Next, G!GpuStep, G!Halted, MintingStep

-----------------------------------------------------------------------------
(* gpu_hunter_continuous.py.                                               *)

\* What MintTx defines is the same in this instance.
LEMMA ContSame ==
    /\ C!ChainInit <=> ChainInit
    /\ C!ChainNext <=> ChainNext
    /\ C!Bits = Bits /\ C!NoSol = NoSol /\ C!MineTx = TxWith(C!MineGas)
    /\ C!Admit(TxWith(C!MineGas)) <=> Admit(TxWith(C!MineGas))
    /\ \A from, to : /\ C!ReadMintPrice(from, to) <=> ReadMintPrice(from, to)
                     /\ C!CallPasses(from, to) <=> CallPasses(from, to)
                     /\ C!ReadCount(from, to) <=> ReadCount(from, to)
                     /\ C!Receipt(1, from, to) <=> Receipt(1, from, to)
<1> USE DEF C!Bits, Bits, C!EpochFloor, EpochFloor, C!Epoch, Epoch, C!PriceOf, PriceOf,
            C!MintPrice, MintPrice, C!MineOK, MineOK, C!AnchorOK, AnchorOK, C!Wins, Wins,
            C!Upfront, Upfront, C!Goto, Goto, C!chainVars, chainVars, C!txVars, txVars
<1>1. C!ChainInit <=> ChainInit
  BY DEF C!ChainInit, ChainInit
<1>2. C!ChainNext <=> ChainNext
  BY DEF C!ChainNext, ChainNext, C!RivalMint, RivalMint, C!Cool, Cool, C!NewBlock, NewBlock,
     C!GasMove, GasMove, C!TopUp, TopUp, C!Drop, Drop, C!Execute, Execute, C!Hotter, Hotter,
     C!Succeeds, Succeeds, C!GasCost, GasCost
<1>3. C!Bits = Bits /\ C!NoSol = NoSol
  BY DEF C!NoSol, NoSol
<1>4. C!MineTx = TxWith(C!MineGas)
  BY DEF C!MineTx, C!Tx, TxWith
<1>5. C!Admit(TxWith(C!MineGas)) <=> Admit(TxWith(C!MineGas))
  BY DEF C!Admit, Admit, C!Admissible, Admissible
<1>6. ASSUME NEW from, NEW to
      PROVE  /\ C!ReadMintPrice(from, to) <=> ReadMintPrice(from, to)
             /\ C!CallPasses(from, to) <=> CallPasses(from, to)
             /\ C!ReadCount(from, to) <=> ReadCount(from, to)
             /\ C!Receipt(1, from, to) <=> Receipt(1, from, to)
  BY DEF C!ReadMintPrice, ReadMintPrice, C!CallPasses, CallPasses, C!ReadCount, ReadCount,
     C!TransactionCount, TransactionCount, C!Receipt, Receipt
<1> QED
  BY <1>1, <1>2, <1>3, <1>4, <1>5, <1>6

ContOwn ==
    /\ pc \in C!Labels
    /\ st \in [C!Reads -> Nat] /\ draft \in [C!Reads -> Nat]
    /\ lost \in BOOLEAN /\ started \in BOOLEAN

LEMMA ContTypeParts == C!TypeOK <=> TxTypeOK /\ ContOwn
BY DEF C!TypeOK, TxTypeOK, ContOwn, C!ChainTypeOK, ChainTypeOK, C!Solutions, Solutions, C!Txs, Txs

LEMMA ContReads ==
    ASSUME TxTypeOK
    PROVE  \A field \in C!Reads :
              /\ C!NextRead[field] \in C!Labels \ (Checked \cup Checking \cup Resting)
              /\ C!Live[field] \in Nat
<1>1. minted \in Nat /\ block \in Nat /\ C!Bits \in Nat
  BY BitsNat, ContSame DEF TxTypeOK, ChainTypeOK
<1> QED
  BY <1>1 DEF C!NextRead, C!Live, C!Reads, C!Labels, C!Raising, Checked, Checking, Resting

\* A turn of the loop is over, or submit is.
LEMMA ContLeaves ==
    ASSUME ContOwn, C!LeaveSubmit, UNCHANGED <<chainVars, send, st, started>>,
           draft' \in {draft, C!NoState},
           pc' \in C!Labels \ (Checked \cup Checking), lost' \in BOOLEAN, lost => lost',
           pc \notin Resting,
           pc \in Waiting => pc' \in Resting \/ lost' \/ txid = 0 \/ txid \in reverted
    PROVE  Leaves /\ ContOwn'
<1>1. Cleared
  BY ContSame DEF C!LeaveSubmit, Cleared
<1>2. C!NoState \in [C!Reads -> Nat]
  BY DEF C!NoState, C!Reads
<1> QED
  BY <1>1, <1>2 DEF ContOwn, Leaves

\* Every step of gpu_hunter_continuous.py is of a kind.
LEMMA ContKind ==
    ASSUME TxTypeOK, ContOwn, [C!Next]_(C!vars)
    PROVE  MintingStep(ContPaying, C!MineGas) /\ ContOwn'
<1> USE DEF C!Goto, C!Labels, C!Raising, C!Reads, C!SendSteps, C!Ended
<1> USE DEF C!txVars, C!contVars, C!chainVars, txVars, chainVars
<1> USE DEF Checked, Checking, Waiting, Resting
<1>1. sol \in Solutions /\ bid \in Nat /\ held \in Nat
  BY DEF TxTypeOK
<1>2. lost \in BOOLEAN /\ started \in BOOLEAN
  BY DEF ContOwn
<1>3. ASSUME NEW from, C!Continue(from) \/ C!Renew(from), from \notin Waiting \cup Resting
      PROVE  MintingStep(ContPaying, C!MineGas) /\ ContOwn'
  BY <1>2, <1>3, ContLeaves DEF C!Continue, C!Renew, MintingStep
<1>4. ASSUME NEW field \in C!Reads, C!Read(field)
      PROVE  Searches(ContPaying) /\ ContOwn'
  <2> DEFINE read == [draft EXCEPT ![field] = C!Live[field]]
  <2>1. read \in [C!Reads -> Nat] /\ C!NoState \in [C!Reads -> Nat]
    BY <1>4, ContReads DEF ContOwn, C!NoState
  <2>2. st' \in {st, read} /\ draft' \in {C!NoState, read} /\ started' \in {started, TRUE}
    BY <1>4 DEF C!Read
  <2>3. pc' \in C!Labels \ (Checked \cup Checking \cup Resting)
        /\ UNCHANGED <<chainVars, txVars, sol, send, held, lost>>
    BY <1>4, ContReads DEF C!Read
  <2>4. pc \in C!Reads
    BY <1>4 DEF C!Read
  <2>5. Searches(ContPaying)
    BY <1>1, <2>3, <2>4 DEF Searches, ContPaying
  <2> HIDE DEF read
  <2> QED
    BY <2>1, <2>2, <2>3, <2>5 DEF ContOwn
<1>5. ASSUME pc \in {"top", "gate", "recheck", "submit"},
             pc' \in {"anchor", "gate", "slice", "submit", "quote", "price"},
             pc' = "price" => send,
             UNCHANGED <<chainVars, txVars, C!contVars, sol>>
      PROVE  MintingStep(ContPaying, C!MineGas) /\ ContOwn'
  BY <1>1, <1>5 DEF ContOwn, Searches, ContPaying, MintingStep
<1>6. CASE C!Top \/ C!Gate \/ C!Recheck \/ C!LocalCheck
  BY <1>3, <1>5, <1>6 DEF C!Top, C!Gate, C!Recheck, C!LocalCheck
<1>7. CASE C!SliceFound
  <2>1. st.prevWork \in Nat /\ st.anchor \in Nat /\ st.target \in Nat /\ Luck \in Nat
    BY ScriptsAssumption DEF ContOwn
  <2>2. PICK q \in {0} \cup (st.target..(st.target + Luck)) :
              sol' = [prev |-> st.prevWork, anchor |-> st.anchor, q |-> q]
    BY <1>7 DEF C!SliceFound
  <2>3. sol' \in Solutions
    BY <2>1, <2>2 DEF Solutions
  <2> QED
    BY <1>7, <2>3 DEF C!SliceFound, ContOwn, Searches, ContPaying, MintingStep
<1>8. CASE C!Simulate
  BY <1>3, <1>8, ContSame
     DEF C!Simulate, ReadsPrice, Passes, ReadMintPrice, CallPasses, Goto, ContOwn, ContPaying,
         MintingStep
<1>9. CASE C!ReadBalance
  BY <1>1, <1>9 DEF C!ReadBalance, GoesOn, ContPaying, ContOwn, MintingStep, TxTypeOK, ChainTypeOK
<1>10. CASE C!CheckFunds
  <2>1. CASE /\ pc = "fee" /\ pc' = "count" /\ bid' = C!RaceBid(gasPrice)
             /\ UNCHANGED <<chainVars, sol, price, txNonce, txid, C!contVars>>
    <3>1. bid' \in Nat
      BY <2>1, TxNumbers DEF TxTypeOK, ChainTypeOK
    <3>2. GoesOn(ContPaying)
      BY <1>1, <2>1, <3>1 DEF GoesOn, ContPaying
    <3> QED
      BY <2>1, <3>2 DEF ContOwn, MintingStep
  <2> QED
    BY <1>3, <1>10, <2>1 DEF C!CheckFunds
<1>11. CASE C!ReadCount("count", "broadcast") /\ UNCHANGED C!contVars
  BY <1>11, ContSame DEF ReadCount, Goto, Counts, ContOwn, MintingStep
<1>12. CASE C!SendRaw
  <2>1. Sends(C!MineGas)
    BY <1>12, ContSame DEF C!SendRaw, TxWith, Sends
  <2> QED
    BY <1>12, <2>1 DEF C!SendRaw, ContOwn, MintingStep
<1>13. CASE C!AnswerLost
  <2>1. Cleared /\ Admit(TxWith(C!MineGas))
    BY <1>13, ContSame DEF C!AnswerLost, C!LeaveSubmit, Cleared
  <2>2. LosesAnswer(C!MineGas)
    BY <1>13, <2>1 DEF C!AnswerLost, LosesAnswer
  <2> QED
    BY <1>13, <2>2 DEF C!AnswerLost, ContOwn, MintingStep
<1>14. CASE C!ReceiptRead
  <2>1. CASE C!Receipt(1, "receipt", "verify") /\ UNCHANGED C!contVars
    BY <2>1, ContSame DEF Receipt, Goto, Receives, ContOwn, MintingStep
  <2>2. CASE txid \in reverted /\ C!Renew("receipt")
    BY <1>2, <2>2, ContLeaves DEF C!Renew, MintingStep
  <2> QED
    BY <1>14, <2>1, <2>2 DEF C!ReceiptRead
<1>15. CASE C!Verify \/ C!Interrupt
  <2>1. /\ pc \notin Resting /\ pc' \in {"done", "stopped"} /\ lost' = lost /\ C!LeaveSubmit
        /\ UNCHANGED <<chainVars, send, st, started>> /\ draft' \in {draft, C!NoState}
    BY <1>15 DEF C!Verify, C!Interrupt
  <2> QED
    BY <1>2, <2>1, ContLeaves DEF MintingStep
<1>16. CASE C!Raise
  <2>1. lost' \in BOOLEAN /\ (lost => lost') /\ (lost' \/ txid = 0)
    BY <1>2, <1>16 DEF C!Raise
  <2>2. /\ pc \notin Resting /\ pc' \in {"sleep", "crashed"} /\ C!LeaveSubmit
        /\ UNCHANGED <<chainVars, send, st, started>> /\ draft' \in {draft, C!NoState}
    BY <1>2, <1>16 DEF C!Raise
  <2> QED
    BY <2>1, <2>2, ContLeaves DEF MintingStep
<1>17. CASE C!World
  BY <1>17, ContSame DEF C!World, ChainMoves, ContOwn, MintingStep
<1>18. CASE UNCHANGED C!vars
  BY <1>18 DEF C!vars, ContOwn, Stays, MintingStep
<1>19. CASE C!Continue("slice") \/ C!Continue("sleep") \/ C!Renew("quote")
  BY <1>3, <1>19
<1> QED
  BY <1>4, <1>6, <1>7, <1>8, <1>9, <1>10, <1>11, <1>12, <1>13, <1>14, <1>15, <1>16,
     <1>17, <1>18, <1>19 DEF C!Next, C!ContStep, C!Halted, MintingStep

\* From the funds check on, what was found in the wallet covers what is bid.
FundsInv == pc \in {"count", "broadcast"} => held >= price + C!MineGas * bid

LEMMA ContFundsStep ==
    ASSUME TxTypeOK, ContOwn, FundsInv, [C!Next]_(C!vars)
    PROVE  FundsInv'
<1>1. ASSUME NEW field \in C!Reads, C!Read(field) PROVE pc' \notin {"count", "broadcast"}
  BY <1>1, ContReads DEF C!Read, C!Goto, Checked
<1>2. pc' \in {"count", "broadcast"} =>
         \/ /\ held >= price + C!MineGas * C!RaceBid(gasPrice)
            /\ bid' = C!RaceBid(gasPrice) /\ UNCHANGED <<held, price>>
         \/ pc \in {"count", "broadcast"} /\ UNCHANGED <<held, price, bid>>
  BY <1>1 DEF C!Next, C!ContStep, C!Top, C!Gate, C!SliceFound, C!Recheck, C!LocalCheck, C!Simulate,
     C!ReadMintPrice, C!CallPasses, C!ReadBalance, C!CheckFunds, C!NeedAt, C!ReadCount, C!SendRaw,
     C!AnswerLost, C!ReceiptRead, C!Receipt, C!Verify, C!Raise, C!Interrupt, C!World, C!Halted,
     C!Continue, C!Renew, C!Goto, C!vars, C!contVars, C!txVars
<1>3. C!MineGas' = C!MineGas
  BY DEF C!MineGas
<1> QED
  BY <1>2, <1>3 DEF FundsInv

LEMMA FundsCover ==
    ASSUME FundsInv
    PROVE  C!CheckedFundsCover
<1>1. C!MineTx = TxWith(C!MineGas)
  BY ContSame
<1> QED
  BY <1>1 DEF C!CheckedFundsCover, C!Upfront, TxWith, FundsInv

-----------------------------------------------------------------------------
(* verify_tx_path.py.                                                      *)

\* What Hashcats defines is the same in this instance.
LEMMA PathSame ==
    /\ V!ChainInit <=> ChainInit
    /\ V!ChainNext <=> ChainNext
    /\ V!ChainTypeOK <=> ChainTypeOK
    /\ V!MintPrice = MintPrice
<1> USE DEF V!Bits, Bits, V!EpochFloor, EpochFloor, V!Epoch, Epoch, V!PriceOf, PriceOf,
            V!MintPrice, MintPrice, V!MineOK, MineOK, V!AnchorOK, AnchorOK, V!Wins, Wins,
            V!Upfront, Upfront
<1>1. V!ChainInit <=> ChainInit
  BY DEF V!ChainInit, ChainInit
<1>2. V!ChainNext <=> ChainNext
  BY DEF V!ChainNext, ChainNext, V!RivalMint, RivalMint, V!Cool, Cool, V!NewBlock, NewBlock,
     V!GasMove, GasMove, V!TopUp, TopUp, V!Drop, Drop, V!Execute, Execute, V!Hotter, Hotter,
     V!Succeeds, Succeeds, V!GasCost, GasCost
<1>3. V!ChainTypeOK <=> ChainTypeOK
  BY DEF V!ChainTypeOK, ChainTypeOK, V!Solutions, Solutions, V!Txs, Txs
<1> QED
  BY <1>1, <1>2, <1>3

\* The price never falls, so that what was once too little stays too little.
\* Before it is read there are no verdicts.
PathInv ==
    /\ price <= MintPrice
    /\ a = "WrongPayment" => price < MintPrice
    /\ price > 0 => b \in {"none", "unknown", "WrongPayment"}
    /\ pc \in {"anchor", "price"} => a = "none" /\ b = "none"

LEMMA PathInvInit == V!Init => V!TypeOK /\ PathInv
<1> SUFFICES ASSUME V!Init PROVE V!TypeOK /\ PathInv
  OBVIOUS
<1>1. ChainTypeOK /\ MintPrice \in Nat /\ lucky \subseteq Nat
  BY PathSame, ChainInitType, ChainNumbers, ChainAssumption DEF V!Init, ChainTypeOK, MintPrice
<1> QED
  BY <1>1, PathSame DEF V!Init, V!TypeOK, PathInv

\* The contract looks at the payment first.
LEMMA PathErrors ==
    ASSUME NEW value
    PROVE  /\ V!Classified(value) \subseteq
                  {"unknown", "did not revert", "BadSolution", "WrongPayment"}
           /\ "WrongPayment" \in V!Classified(value) => value # MintPrice
           /\ value # MintPrice => V!Classified(value) \subseteq {"unknown", "WrongPayment"}
BY PathSame DEF V!Classified, V!ErrorOf

LEMMA PathInvStep ==
    ASSUME V!TypeOK, PathInv, [V!Next]_(V!vars)
    PROVE  V!TypeOK' /\ PathInv'
<1>1. ChainTypeOK /\ block \in Nat /\ minted \in Nat /\ MintPrice \in Nat /\ price \in Nat
  BY PathSame, ChainNumbers DEF V!TypeOK, ChainTypeOK, MintPrice
<1>2. ASSUME UNCHANGED chainVars
      PROVE  ChainTypeOK' /\ V!ChainTypeOK' /\ MintPrice' = MintPrice
  <2>1. ChainTypeOK' /\ MintPrice' = MintPrice
    BY <1>1, <1>2, ChainUnchanged DEF chainVars, MintPrice, PriceOf, Epoch
  <2> QED
    BY <2>1, PathSame DEF V!ChainTypeOK, ChainTypeOK, V!Txs, Txs, V!Solutions, Solutions
<1> USE DEF V!Goto, V!Ended
<1>3. CASE V!ReadAnchor \/ V!Crash
  BY <1>1, <1>2, <1>3 DEF V!ReadAnchor, V!Crash, V!chainVars, chainVars, V!TypeOK, PathInv
<1>4. CASE V!ReadPrice
  BY <1>1, <1>2, <1>4, PathSame DEF V!ReadPrice, V!chainVars, chainVars, V!TypeOK, PathInv
<1>5. CASE V!CaseA
  <2>1. a' \in {"unknown", "did not revert", "BadSolution", "WrongPayment"}
        /\ (a' = "WrongPayment" => price # MintPrice)
    BY <1>5, PathErrors DEF V!CaseA, V!CorrectValue
  <2> QED
    <3>1. V!TypeOK'
      BY <1>1, <1>2, <1>5, <2>1 DEF V!CaseA, V!chainVars, chainVars, V!TypeOK
    <3>2. a' = "WrongPayment" => price < MintPrice
      BY <1>1, <2>1 DEF PathInv
    <3> QED
      BY <1>2, <1>5, <3>1, <3>2 DEF V!CaseA, V!chainVars, chainVars, PathInv
<1>6. CASE V!CaseB
  <2>1. price > 0 => V!WrongValue # MintPrice
    BY <1>1 DEF V!WrongValue, PathInv
  <2>2. b' \in {"unknown", "did not revert", "BadSolution", "WrongPayment"}
        /\ (price > 0 => b' \in {"unknown", "WrongPayment"})
    BY <1>6, <2>1, PathErrors DEF V!CaseB
  <2> QED
    BY <1>1, <1>2, <1>6, <2>2 DEF V!CaseB, V!chainVars, chainVars, V!TypeOK, PathInv
<1>7. CASE V!World
  <2>1. ChainTypeOK' /\ minted' \in Nat /\ minted' >= minted
    BY <1>1, <1>7, PathSame, ChainTypeStep, ChainOnlyCools DEF V!World, ChainTypeOK
  <2>2. PriceOf(minted) <= PriceOf(minted') /\ PriceOf(minted') \in Nat
    BY <1>1, <2>1, PriceGrows, ChainNumbers
  <2>3. MintPrice' = PriceOf(minted')
    BY DEF MintPrice, PriceOf, Epoch
  <2>4. MintPrice <= MintPrice' /\ MintPrice' \in Nat
    BY <2>2, <2>3 DEF MintPrice
  <2>5. V!ChainTypeOK'
    BY <2>1 DEF V!ChainTypeOK, ChainTypeOK, V!Txs, Txs, V!Solutions, Solutions
  <2> QED
    <3>1. V!TypeOK' /\ UNCHANGED <<pc, price, a, b>>
      BY <1>7, <2>5 DEF V!World, V!pathVars, V!TypeOK
    <3>2. price <= MintPrice' /\ (a = "WrongPayment" => price < MintPrice')
      BY <1>1, <2>4 DEF PathInv
    <3> QED
      BY <3>1, <3>2 DEF PathInv
<1>8. CASE UNCHANGED V!vars
  BY <1>1, <1>2, <1>8 DEF V!vars, V!pathVars, V!chainVars, chainVars, V!TypeOK, PathInv
<1> QED
  BY <1>3, <1>4, <1>5, <1>6, <1>7, <1>8 DEF V!Next, V!PathStep, V!Halted

-----------------------------------------------------------------------------
(* hunter.py, whose proofs are those of HunterProofs, and the race.        *)

HP == INSTANCE HunterProofs
RP == INSTANCE RaceProofs

\* Hunter's definitions are the same in both instances of it.
LEMMA HunterSame ==
    /\ H!HunterInit <=> HP!HunterInit
    /\ H!TypeOK <=> HP!TypeOK
    /\ [H!Next]_(H!vars) <=> [HP!Next]_(HP!vars)
BY DEF H!chainVars, HP!chainVars, H!Epoch, HP!Epoch, H!PriceOf, HP!PriceOf, H!EpochFloor,
       HP!EpochFloor, H!MintPrice, HP!MintPrice, H!Bits, HP!Bits, H!Solutions, HP!Solutions,
       H!NoSol, HP!NoSol, H!AnchorOK, HP!AnchorOK, H!Wins, HP!Wins, H!MineOK, HP!MineOK, H!Txs,
       HP!Txs, H!Upfront, HP!Upfront, H!GasCost, HP!GasCost, H!Succeeds, HP!Succeeds,
       H!ChainInit, HP!ChainInit, H!Hotter, HP!Hotter, H!RivalMint, HP!RivalMint, H!Cool,
       HP!Cool, H!NewBlock, HP!NewBlock, H!GasMove, HP!GasMove, H!TopUp, HP!TopUp, H!Execute,
       HP!Execute, H!Drop, HP!Drop, H!ChainNext, HP!ChainNext, H!Admissible, HP!Admissible,
       H!Admit, HP!Admit, H!ChainTypeOK, HP!ChainTypeOK, H!txVars, HP!txVars, H!GasLimit,
       HP!GasLimit, H!Bid, HP!Bid, H!Goto, HP!Goto, H!ReadMintPrice, HP!ReadMintPrice,
       H!CallPasses, HP!CallPasses, H!ReadFee, HP!ReadFee, H!TransactionCount,
       HP!TransactionCount, H!ReadCount, HP!ReadCount, H!Tx, HP!Tx, H!Broadcast, HP!Broadcast,
       H!Receipt, HP!Receipt, H!huntVars, HP!huntVars, H!vars, HP!vars, H!SnapReads,
       HP!SnapReads, H!SendSteps, HP!SendSteps, H!Raising, HP!Raising, H!Labels, HP!Labels,
       H!NoSnap, HP!NoSnap, H!HunterInit, HP!HunterInit, H!LeaveHunt, HP!LeaveHunt, H!Retry,
       HP!Retry, H!Live, HP!Live, H!NextRead, HP!NextRead, H!Snapshot, HP!Snapshot,
       H!WindowClosed, HP!WindowClosed, H!WindowOpen, HP!WindowOpen, H!SolveFound,
       HP!SolveFound, H!Simulate, HP!Simulate, H!DryOrSend, HP!DryOrSend, H!ReadBalance,
       HP!ReadBalance, H!Need, HP!Need, H!CheckFunds, HP!CheckFunds, H!HoldFunded,
       HP!HoldFunded, H!HoldOn, HP!HoldOn, H!HoldOver, HP!HoldOver, H!ReceiptRead,
       HP!ReceiptRead, H!Verify, HP!Verify, H!Raise, HP!Raise, H!AnswerLost, HP!AnswerLost,
       H!Interrupt, HP!Interrupt, H!Halted, HP!Halted, H!HunterStep, HP!HunterStep, H!World,
       HP!World, H!Next, HP!Next, H!TypeOK, HP!TypeOK

\* MintRace's definitions are the same in its three instances.
LEMMA RaceSame ==
    /\ Race!Init <=> HP!Race!Init
    /\ [Race!Next]_(Race!raceVars) <=> [HP!Race!Next]_(HP!Race!raceVars)
    /\ Race!Init <=> RP!Init
    /\ [Race!Next]_(Race!raceVars) <=> [RP!Next]_(RP!raceVars)
<1>1. /\ Race!Init <=> HP!Race!Init
      /\ [Race!Next]_(Race!raceVars) <=> [HP!Race!Next]_(HP!Race!raceVars)
  BY DEF Race!chainVars, HP!Race!chainVars, Race!Epoch, HP!Race!Epoch, Race!PriceOf, HP!Race!PriceOf,
         Race!EpochFloor, HP!Race!EpochFloor, Race!MintPrice, HP!Race!MintPrice, Race!Bits,
         HP!Race!Bits, Race!Solutions, HP!Race!Solutions, Race!NoSol, HP!Race!NoSol,
         Race!AnchorOK, HP!Race!AnchorOK, Race!Wins, HP!Race!Wins, Race!MineOK, HP!Race!MineOK,
         Race!Txs, HP!Race!Txs, Race!Upfront, HP!Race!Upfront, Race!GasCost, HP!Race!GasCost,
         Race!Succeeds, HP!Race!Succeeds, Race!ChainInit, HP!Race!ChainInit, Race!Hotter,
         HP!Race!Hotter, Race!RivalMint, HP!Race!RivalMint, Race!Cool, HP!Race!Cool,
         Race!NewBlock, HP!Race!NewBlock, Race!GasMove, HP!Race!GasMove, Race!TopUp,
         HP!Race!TopUp, Race!Execute, HP!Race!Execute, Race!Drop, HP!Race!Drop, Race!ChainNext,
         HP!Race!ChainNext, Race!Admissible, HP!Race!Admissible, Race!Admit, HP!Race!Admit,
         Race!raceVars, HP!Race!raceVars, Race!Sound, HP!Race!Sound, Race!Init, HP!Race!Init,
         Race!Submit, HP!Race!Submit, Race!Next, HP!Race!Next
<1>2. /\ Race!Init <=> RP!Init
      /\ [Race!Next]_(Race!raceVars) <=> [RP!Next]_(RP!raceVars)
  BY DEF Race!chainVars, RP!chainVars, Race!Epoch, RP!Epoch, Race!PriceOf, RP!PriceOf, Race!EpochFloor,
         RP!EpochFloor, Race!MintPrice, RP!MintPrice, Race!Bits, RP!Bits, Race!Solutions,
         RP!Solutions, Race!NoSol, RP!NoSol, Race!AnchorOK, RP!AnchorOK, Race!Wins, RP!Wins,
         Race!MineOK, RP!MineOK, Race!Txs, RP!Txs, Race!Upfront, RP!Upfront, Race!GasCost,
         RP!GasCost, Race!Succeeds, RP!Succeeds, Race!ChainInit, RP!ChainInit, Race!Hotter,
         RP!Hotter, Race!RivalMint, RP!RivalMint, Race!Cool, RP!Cool, Race!NewBlock, RP!NewBlock,
         Race!GasMove, RP!GasMove, Race!TopUp, RP!TopUp, Race!Execute, RP!Execute, Race!Drop,
         RP!Drop, Race!ChainNext, RP!ChainNext, Race!Admissible, RP!Admissible, Race!Admit,
         RP!Admit, Race!raceVars, RP!raceVars, Race!Sound, RP!Sound, Race!Init, RP!Init,
         Race!Submit, RP!Submit, Race!Next, RP!Next
<1> QED
  BY <1>1, <1>2

HunterInv == HP!TypeOK /\ HP!SearchInv /\ HP!PayInv /\ HP!DryInv

LEMMA HunterKept ==
    ASSUME HunterInv, [H!Next]_(H!vars)
    PROVE  HunterInv' /\ [Race!Next]_(Race!raceVars)
<1>1. [HP!Next]_(HP!vars)
  BY HunterSame
<1>2. HP!TypeOK'
  BY <1>1, HP!TypeStep, ChainAssumption, ScriptsAssumption DEF HunterInv
<1>3. HP!SearchInv'
  BY <1>1, HP!SearchStep, ChainAssumption, ScriptsAssumption DEF HunterInv
<1>4. HP!PayInv'
  BY <1>1, HP!PayStep, ChainAssumption, ScriptsAssumption DEF HunterInv
<1>5. HP!DryInv'
  BY <1>1, HP!DryStep, ChainAssumption, ScriptsAssumption DEF HunterInv
<1>6. [HP!Race!Next]_(HP!Race!raceVars)
  BY <1>1, HP!RaceStep, ChainAssumption, ScriptsAssumption DEF HunterInv
<1> QED
  BY <1>2, <1>3, <1>4, <1>5, <1>6, RaceSame DEF HunterInv

-----------------------------------------------------------------------------
(* The script that runs.                                                   *)

BotInv  == TxTypeOK /\ BotOwn /\ MintInv(Paying) /\ BotOnce /\ lost = FALSE
GpuInv  == TxTypeOK /\ GpuOwn /\ MintInv(Paying)
ContInv == TxTypeOK /\ ContOwn /\ MintInv(ContPaying) /\ FundsInv

ScriptInv ==
    /\ Is("hunter") => HunterInv
    /\ Is("bot") => BotInv
    /\ Is("gpu") => GpuInv
    /\ Is("continuous") => ContInv
    /\ Is("verify") => V!TypeOK /\ PathInv

\* What the scripts that mint begin with.
LEMMA MintingInit ==
    ASSUME ChainInit, sol = NoSol, price = 0, bid = 0, txNonce = 0, txid = 0, held = 0,
           send \in BOOLEAN, pc \notin Checked \cup Checking
    PROVE  TxTypeOK /\ MintInv(Paying) /\ MintInv(ContPaying)
<1>1. TxTypeOK
  BY ChainInitType DEF TxTypeOK, ChainInit, NoSol, Solutions
<1> QED
  BY <1>1, PayingSets DEF MintInv, PayingOK, Checked

LEMMA ScriptInvInit == Init => ScriptInv /\ Race!Init
<1> SUFFICES ASSUME Init PROVE ScriptInv /\ Race!Init
  OBVIOUS
<1> USE DEF Checked, Checking, Waiting
<1>1. ASSUME Is("hunter") PROVE HunterInv /\ Race!Init
  <2>1. HP!HunterInit
    BY <1>1, HunterSame DEF Init, Is
  <2>2. HP!TypeOK /\ HP!SearchInv /\ HP!PayInv
    BY <2>1, HP!TypeInit, HP!PayInit, ChainAssumption, ScriptsAssumption
  <2>3. HP!DryInv
    BY <2>1 DEF HP!HunterInit, HP!ChainInit, HP!DryInv, HP!Paying, HP!SendSteps
  <2>4. Race!Init
    BY <2>1 DEF HP!HunterInit, HP!ChainInit, Race!Init, Race!ChainInit
  <2> QED
    BY <2>2, <2>3, <2>4 DEF HunterInv
<1>2. ASSUME Is("bot") PROVE BotInv /\ Race!Init
  <2>1. B!Init /\ ChainInit /\ lost = FALSE
    BY <1>2, BotSame DEF Init, Unused, Is, B!Init
  <2>2. TxTypeOK /\ MintInv(Paying)
    BY <2>1, BotSame, MintingInit DEF B!Init
  <2>3. BotOwn
    BY <2>1, ScriptsAssumption
       DEF B!Init, BotOwn, B!Labels, B!NoSnap, B!SnapReads, B!NoFresh
  <2>4. BotOnce
    BY <2>1 DEF BotOnce, ChainInit
  <2>5. Race!Init
    BY <2>1, RaceChain DEF Race!Init, B!Init
  <2> QED
    BY <2>1, <2>2, <2>3, <2>4, <2>5 DEF BotInv
<1>3. ASSUME Is("gpu") PROVE GpuInv /\ Race!Init
  <2>1. G!Init /\ ChainInit
    BY <1>3, GpuSame DEF Init, Is, G!Init
  <2>2. TxTypeOK /\ MintInv(Paying)
    BY <2>1, GpuSame, MintingInit DEF G!Init
  <2>3. GpuOwn
    <3>1. G!NoSnap \in [G!SnapReads -> Nat] /\ "anchor" \in G!Labels
      BY DEF G!NoSnap, G!SnapReads, G!Labels, G!Raising
    <3> QED
      BY <2>1, <3>1 DEF G!Init, GpuOwn
  <2>4. Race!Init
    BY <2>1, RaceChain DEF Race!Init, G!Init
  <2> QED
    BY <2>1, <2>2, <2>3, <2>4 DEF GpuInv
<1>4. ASSUME Is("continuous") PROVE ContInv /\ Race!Init
  <2>1. C!Init /\ ChainInit
    BY <1>4, ContSame DEF Init, Is, C!Init
  <2>2. TxTypeOK /\ MintInv(ContPaying)
    BY <2>1, ContSame, MintingInit DEF C!Init
  <2>3. ContOwn /\ FundsInv
    <3>1. C!NoState \in [C!Reads -> Nat] /\ "anchor" \in C!Labels
      BY DEF C!NoState, C!Reads, C!Labels, C!Raising
    <3> QED
      BY <2>1, <3>1 DEF C!Init, ContOwn, FundsInv
  <2>4. Race!Init
    BY <2>1, RaceChain DEF Race!Init, C!Init
  <2> QED
    BY <2>1, <2>2, <2>3, <2>4 DEF ContInv
<1>5. ASSUME Is("verify") PROVE V!TypeOK /\ PathInv /\ Race!Init
  <2>1. V!Init /\ ChainInit /\ send = FALSE
    BY <1>5, PathSame DEF Init, Unused, Is, V!Init
  <2> QED
    BY <2>1, PathInvInit, RaceChain DEF Race!Init
<1> QED
  BY <1>1, <1>2, <1>3, <1>4, <1>5 DEF Init, ScriptInv, Is

\* What a kind of step keeps, and what it is to the race.
LEMMA KindKept ==
    ASSUME TxTypeOK, NEW paying, PayingOK(paying), NEW gas \in Nat, gas >= GasUsed,
           MintInv(paying), MintingStep(paying, gas)
    PROVE  TxTypeOK' /\ MintInv(paying)' /\ [Race!Next]_(Race!raceVars)
BY KindType, KindMint, KindRace

LEMMA ScriptInvStep ==
    ASSUME ScriptInv, [Next]_vars
    PROVE  ScriptInv' /\ [Race!Next]_(Race!raceVars)
<1>0. script' = script
  <2>1. Next => script' = script
    BY DEF Next
  <2>2. UNCHANGED vars => script' = script
    BY DEF vars
  <2> QED
    BY <2>1, <2>2
<1> USE DEF holdVars, contVars, pathVars, Is
<1>1. ASSUME Is("hunter") PROVE HunterInv' /\ [Race!Next]_(Race!raceVars)
  <2>1. [H!Next]_(H!vars)
    BY <1>1 DEF Next, vars, H!vars, H!chainVars, chainVars, H!txVars, txVars, H!huntVars
  <2> QED
    BY <1>1, <2>1, HunterKept DEF ScriptInv
<1>2. ASSUME Is("bot") PROVE BotInv' /\ [Race!Next]_(Race!raceVars)
  <2>1. [B!Next]_(B!vars) /\ UNCHANGED lost
    BY <1>2 DEF Next, vars, B!vars, B!chainVars, chainVars, B!txVars, txVars, B!botVars, botRest
  <2>2. MintingStep(Paying, GasLimit) /\ BotOwn' /\ BotOnce' /\ lost' = FALSE
    BY <1>2, <2>1, BotKind, BotOnceStep DEF ScriptInv, BotInv
  <2> QED
    BY <1>2, <2>2, KindKept, PayingSets, TxNumbers DEF ScriptInv, BotInv
<1>3. ASSUME Is("gpu") PROVE GpuInv' /\ [Race!Next]_(Race!raceVars)
  <2>1. [G!Next]_(G!vars)
    BY <1>3 DEF Next, vars, G!vars, G!chainVars, chainVars, G!txVars, txVars, G!gpuVars
  <2>2. MintingStep(Paying, GasLimit) /\ GpuOwn'
    BY <1>3, <2>1, GpuKind DEF ScriptInv, GpuInv
  <2> QED
    BY <1>3, <2>2, KindKept, PayingSets, TxNumbers DEF ScriptInv, GpuInv
<1>4. ASSUME Is("continuous") PROVE ContInv' /\ [Race!Next]_(Race!raceVars)
  <2>1. [C!Next]_(C!vars)
    BY <1>4 DEF Next, vars, C!vars, C!chainVars, chainVars, C!txVars, txVars, C!contVars
  <2>2. MintingStep(ContPaying, C!MineGas) /\ ContOwn' /\ FundsInv'
    BY <1>4, <2>1, ContKind, ContFundsStep DEF ScriptInv, ContInv
  <2> QED
    BY <1>4, <2>2, KindKept, PayingSets, TxNumbers DEF ScriptInv, ContInv
<1>5. ASSUME Is("verify") PROVE V!TypeOK' /\ PathInv' /\ [Race!Next]_(Race!raceVars)
  <2>1. [V!Next]_(V!vars) /\ send' = send
    BY <1>5 DEF Next, vars, V!vars, V!chainVars, chainVars, txVars, V!pathVars, pathRest
  <2>2. [Race!Next]_(Race!raceVars)
    <3>1. CASE UNCHANGED <<chainVars, send>>
      BY <3>1 DEF Race!raceVars, Race!chainVars, chainVars
    <3>2. CASE V!World
      BY <2>1, <3>2, PathSame, RaceChain DEF V!World, Race!Next
    <3> QED
      BY <2>1, <3>1, <3>2 DEF V!Next, V!PathStep, V!Halted, V!ReadAnchor, V!ReadPrice, V!CaseA,
         V!CaseB, V!Crash, V!vars, V!chainVars, chainVars
  <2> QED
    BY <1>5, <2>1, <2>2, PathInvStep DEF ScriptInv
<1>6. CASE script \notin {"hunter", "bot", "gpu", "continuous", "verify"}
  <2>1. UNCHANGED vars
    BY <1>6 DEF Next
  <2> QED
    BY <1>0, <1>6, <2>1 DEF ScriptInv, vars, Race!raceVars, Race!chainVars, chainVars
<1> QED
  BY <1>0, <1>1, <1>2, <1>3, <1>4, <1>5, <1>6 DEF ScriptInv

LEMMA ScriptSafe == Spec => []ScriptInv
<1>1. Init => ScriptInv
  BY ScriptInvInit
<1>2. ScriptInv /\ [Next]_vars => ScriptInv'
  BY ScriptInvStep
<1> QED
  BY <1>1, <1>2, PTL DEF Spec

\* The types of every script's state and of its chain, for any constants.
THEOREM ScriptTypesCorrect == Spec => []TypeOK
<1>1. ScriptInv => TypeOK
  BY HunterSame, BotTypeParts, GpuTypeParts, ContTypeParts
     DEF ScriptInv, HunterInv, BotInv, GpuInv, ContInv, TypeOK
<1> QED
  BY <1>1, ScriptSafe, PTL

\* Whichever script runs, it does to the chain only what MintRace allows: see
\* ImplementsRace.
THEOREM ScriptsImplementRace == Spec => ImplementsRace
<1>1. Init => Race!Init
  BY ScriptInvInit
<1>2. ScriptInv /\ [Next]_vars => [Race!Next]_(Race!raceVars)
  BY ScriptInvStep
<1> QED
  BY <1>1, <1>2, ScriptSafe, PTL DEF Spec, ImplementsRace, Race!Spec

\* One life of bot.py hands over one transaction at most.
THEOREM BotSendsOnce == Spec => []SendsOnce
<1>1. ScriptInv => SendsOnce
  BY DEF ScriptInv, BotInv, BotOnce, SendsOnce, B!SendsOnce
<1> QED
  BY <1>1, ScriptSafe, PTL

\* gpu_hunter_continuous.py offers only what the balance it read can pay.
THEOREM ContinuousPaysWhatItChecked == Spec => []CheckedFundsCover
<1>1. ScriptInv => CheckedFundsCover
  BY FundsCover DEF ScriptInv, ContInv, CheckedFundsCover
<1> QED
  BY <1>1, ScriptSafe, PTL

\* Mints between its calls do not upset the verdicts of verify_tx_path.py.
THEOREM PathVerdictsSafe == Spec => []VerdictsSurviveMints
<1>1. V!TypeOK /\ PathInv => V!VerdictsSurviveMints
  <2>1. V!TypeOK => MintPrice \in Nat /\ price \in Nat
    BY PathSame, ChainNumbers DEF V!TypeOK, ChainTypeOK, MintPrice
  <2> QED
    BY <2>1, PathSame DEF PathInv, V!VerdictsSurviveMints
<1>2. ScriptInv => VerdictsSurviveMints
  BY <1>1 DEF ScriptInv, VerdictsSurviveMints
<1> QED
  BY <1>2, ScriptSafe, PTL

-----------------------------------------------------------------------------
(* What the scripts inherit from the race, and the cats they buy.          *)

LEMMA ScriptRaceSafe == Spec => []RP!RaceInv
<1>1. Init => RP!RaceInv
  BY ScriptInvInit, RaceSame, RP!RaceInit, ChainAssumption
<1>2. ScriptInv /\ RP!RaceInv /\ [Next]_vars => RP!RaceInv'
  BY ScriptInvStep, RaceSame, RP!RaceStep, ChainAssumption
<1> QED
  BY <1>1, <1>2, ScriptSafe, PTL DEF Spec

\* At most one transaction of the script's waits in the mempool.
THEOREM ScriptsOneInFlight == Spec => []Race!OneInFlight
<1>1. RP!Cardinality(pool) = Race!Cardinality(pool)
  BY DEF RP!Cardinality, Race!Cardinality
<1>2. RP!RaceInv => Race!OneInFlight
  BY <1>1, RP!RaceInvOneInFlight, ChainAssumption DEF RP!OneInFlight, Race!OneInFlight
<1> QED
  BY <1>2, ScriptRaceSafe, PTL

\* A transaction of theirs that reverts was overtaken while it was under way.
THEOREM ScriptsRevertsExplained == Spec => Race!RevertOnlyIfOvertaken
<1>1. ScriptInv /\ RP!RaceInv /\ [Next]_vars => [RP!Overtaken]_(RP!raceVars)
  BY ScriptInvStep, RaceSame, RP!RaceStepOvertaken, ChainAssumption
<1>2. [RP!Overtaken]_(RP!raceVars) =>
         [\A tx \in pool : tx.id \in reverted' \ reverted =>
            minted # tx.sol.prev \/ ~Race!AnchorOK(tx.sol.anchor)]_(Race!raceVars)
  BY DEF RP!Overtaken, RP!AnchorOK, Race!AnchorOK, RP!raceVars, Race!raceVars, RP!chainVars,
     Race!chainVars
<1> QED
  BY <1>1, <1>2, ScriptSafe, ScriptRaceSafe, PTL DEF Spec, Race!RevertOnlyIfOvertaken

\* Without --send none of the scripts hands anything to the node.
THEOREM ScriptsDryRunSafe == Spec => []Race!DryRunSendsNothing
<1>1. RP!RaceInv => Race!DryRunSendsNothing
  BY DEF RP!RaceInv, RP!DryRunSendsNothing, Race!DryRunSendsNothing
<1> QED
  BY <1>1, ScriptRaceSafe, PTL

Cats == script \in {"gpu", "continuous"} => CatInv

LEMMA CatsInit == Init => Cats
<1> SUFFICES ASSUME Init, script \in {"gpu", "continuous"} PROVE CatInv
  BY DEF Cats
<1>1. pc = "anchor" /\ txid = 0 /\ landed = {} /\ pool = {}
  BY DEF Init, Is, G!Init, G!ChainInit, C!Init, C!ChainInit
<1> QED
  BY <1>1 DEF CatInv, LiveIds, Waiting

LEMMA CatsStep ==
    ASSUME ScriptInv, RP!RaceInv, Cats, [Next]_vars
    PROVE  Cats'
<1> SUFFICES ASSUME script' \in {"gpu", "continuous"} PROVE CatInv'
  BY DEF Cats
<1>1. script' = script
  <2>1. Next => script' = script
    BY DEF Next
  <2>2. UNCHANGED vars => script' = script
    BY DEF vars
  <2> QED
    BY <2>1, <2>2
<1>2. DecidedOnce /\ CatInv
  BY <1>1 DEF RP!RaceInv, RP!DecidedOnce, DecidedOnce, Cats
<1> USE DEF holdVars, contVars, pathVars, Is
<1>3. CASE Is("gpu")
  <2>1. [G!Next]_(G!vars)
    BY <1>3 DEF Next, vars, G!vars, G!chainVars, chainVars, G!txVars, txVars, G!gpuVars
  <2>2. TxTypeOK /\ GpuOwn
    BY <1>3 DEF ScriptInv, GpuInv
  <2>3. MintingStep(Paying, GasLimit) /\ GpuOwn'
    BY <2>1, <2>2, GpuKind
  <2>4. lost \in BOOLEAN /\ lost' \in BOOLEAN
    BY <2>2, <2>3 DEF GpuOwn
  <2> QED
    BY <1>2, <2>2, <2>3, <2>4, KindCat, PayingSets, TxNumbers
<1>4. CASE Is("continuous")
  <2>1. [C!Next]_(C!vars)
    BY <1>4 DEF Next, vars, C!vars, C!chainVars, chainVars, C!txVars, txVars, C!contVars
  <2>2. TxTypeOK /\ ContOwn
    BY <1>4 DEF ScriptInv, ContInv
  <2>3. MintingStep(ContPaying, C!MineGas) /\ ContOwn'
    BY <2>1, <2>2, ContKind
  <2>4. lost \in BOOLEAN /\ lost' \in BOOLEAN
    BY <2>2, <2>3 DEF ContOwn
  <2> QED
    BY <1>2, <2>2, <2>3, <2>4, KindCat, PayingSets, TxNumbers
<1> QED
  BY <1>1, <1>3, <1>4

\* The GPU hunters buy a second cat only when an error swallowed the outcome of
\* an admitted transaction.
THEOREM SecondCatNeedsLostOutcome == Spec => []ExtraCatNeedsLostOutcome
<1>1. CatInv => G!ExtraCatNeedsLostOutcome
  <2>0. G!Cardinality(landed) = Cardinality(landed)
    BY DEF G!Cardinality, Cardinality
  <2> SUFFICES ASSUME CatInv, ~lost PROVE ~(Cardinality(landed) > 1)
    BY <2>0 DEF G!ExtraCatNeedsLostOutcome
  <2>1. \A id, other \in landed : id = other
    BY DEF CatInv, LiveIds
  <2>2. CASE landed = {}
    BY <2>2, FS_EmptySet
  <2>3. ASSUME NEW id \in landed PROVE ~(Cardinality(landed) > 1)
    <3>1. landed = {id} /\ Cardinality({id}) = 1
      BY <2>1, <2>3, FS_Singleton
    <3> QED
      BY <3>1
  <2> QED
    BY <2>2, <2>3
<1>2. Cats => ExtraCatNeedsLostOutcome
  BY <1>1 DEF Cats, ExtraCatNeedsLostOutcome
<1> QED
  BY <1>2, CatsInit, CatsStep, ScriptSafe, ScriptRaceSafe, PTL DEF Spec
=============================================================================
