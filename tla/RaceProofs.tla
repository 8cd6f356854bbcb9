----------------------------- MODULE RaceProofs -----------------------------
(***************************************************************************)
(* What MintRace promises, whatever the constants are: every script that   *)
(* implements it inherits the invariant RaceInv and what follows from it.  *)
(***************************************************************************)
EXTENDS MintRace, HashcatsProofs

\* A waiting transaction carries the executed count as its nonce and would
\* succeed if the chain had not moved past its solution.
PoolSound ==
    \A tx \in pool :
       /\ tx.nonce = acctNonce
       /\ tx.gas >= GasUsed
       /\ tx.value = PriceOf(tx.sol.prev)
       /\ Winning(tx.sol.prev, tx.sol.q)

OnlyOne == \A tx, other \in pool : tx = other

\* A transaction waits, has minted or has reverted: never two of these.
DecidedOnce ==
    /\ \A tx \in pool : tx.id \notin landed \cup reverted
    /\ landed \cap reverted = {}

RaceInv == ChainTypeOK /\ PoolSound /\ OnlyOne /\ DecidedOnce /\ DryRunSendsNothing

LEMMA RaceInit == Init => RaceInv
BY ChainInitType DEF Init, ChainInit, RaceInv, PoolSound, OnlyOne, DecidedOnce,
   DryRunSendsNothing

\* The prices of the cats are constants.
LEMMA PriceFixed == GasUsed' = GasUsed /\ \A n : PriceOf(n)' = PriceOf(n)
BY DEF PriceOf, Epoch

\* A new transaction replaces the one that waits, whose nonce it shares.
LEMMA SubmitRace ==
    ASSUME RaceInv, Submit
    PROVE  RaceInv'
<1>1. PICK tx \in pool' : /\ tx \in Txs /\ tx.id = sent + 1
                          /\ Sound(tx) /\ tx.nonce <= acctNonce /\ Admit(tx)
  BY DEF Submit
<1>2. ChainTypeOK' /\ sent' = sent + 1
  BY <1>1, AdmitType DEF RaceInv
<1>3. tx.nonce = acctNonce
  BY <1>1 DEF RaceInv, ChainTypeOK, Txs, Admit, Admissible
<1>4. pool' = {tx}
  BY <1>1, <1>3 DEF RaceInv, PoolSound, Admit
<1>5. UNCHANGED <<minted, burst, acctNonce, landed, reverted, send>>
  BY <1>1 DEF Admit, Submit
<1>6. Winning(tx.sol.prev, tx.sol.q)'
  BY <1>1, <1>5, WinningUnchanged DEF Sound, Winning
<1>7. tx.gas >= GasUsed /\ tx.value = PriceOf(tx.sol.prev)
  BY <1>1 DEF Sound
<1>8. PoolSound' /\ OnlyOne'
  BY <1>3, <1>4, <1>5, <1>6, <1>7, PriceFixed DEF PoolSound, OnlyOne
<1>9. tx.id \notin landed \cup reverted
  BY <1>1 DEF RaceInv, ChainTypeOK
<1> QED
  BY <1>2, <1>4, <1>5, <1>8, <1>9 DEF RaceInv, DecidedOnce, DryRunSendsNothing, Submit

LEMMA ChainRace ==
    ASSUME RaceInv, ChainNext, UNCHANGED send
    PROVE  RaceInv'
<1>1. ChainTypeOK /\ ChainTypeOK'
  BY ChainTypeStep DEF RaceInv
<1>2. \A tx \in pool : Winning(tx.sol.prev, tx.sol.q)'
  <2> TAKE tx \in pool
  <2>1. tx.sol.prev \in Nat /\ tx.sol.q \in Nat
    BY <1>1 DEF ChainTypeOK, Txs, Solutions
  <2> QED
    BY <1>1, <2>1, WinningKept DEF RaceInv, PoolSound
<1>3. sent' = sent
  BY DEF ChainNext, RivalMint, Cool, NewBlock, GasMove, TopUp, Execute, Drop
<1>4. ASSUME pool' \subseteq pool, UNCHANGED <<acctNonce, landed, reverted>> PROVE RaceInv'
  BY <1>1, <1>2, <1>3, <1>4, PriceFixed
     DEF RaceInv, PoolSound, OnlyOne, DecidedOnce, DryRunSendsNothing
<1>5. ASSUME NEW tx \in pool, Execute(tx) PROVE RaceInv'
  <2>1. pool' = {}
    BY <1>5 DEF Execute, RaceInv, OnlyOne
  <2>2. \/ landed' = landed \cup {tx.id} /\ reverted' = reverted
        \/ landed' = landed /\ reverted' = reverted \cup {tx.id}
    BY <1>5 DEF Execute
  <2>3. landed' \cap reverted' = {}
    BY <2>2 DEF RaceInv, DecidedOnce
  <2> QED
    BY <1>1, <1>3, <2>1, <2>3
       DEF RaceInv, PoolSound, OnlyOne, DecidedOnce, DryRunSendsNothing
<1> QED
  BY <1>4, <1>5 DEF ChainNext, RivalMint, Cool, NewBlock, GasMove, TopUp, Drop

LEMMA RaceStep ==
    ASSUME RaceInv, [Next]_raceVars
    PROVE  RaceInv'
<1>1. CASE UNCHANGED raceVars
  <2>1. ChainTypeOK' /\ UNCHANGED <<minted, burst>>
    BY <1>1, ChainUnchanged DEF RaceInv, raceVars, chainVars
  <2>2. PoolSound'
    BY <1>1, <2>1, WinningUnchanged, PriceFixed DEF RaceInv, PoolSound, raceVars, chainVars
  <2> QED
    BY <1>1, <2>1, <2>2 DEF RaceInv, OnlyOne, DecidedOnce, DryRunSendsNothing, raceVars, chainVars
<1> QED
  BY <1>1, SubmitRace, ChainRace DEF Next

\* The inductive invariant of the race: see RaceInv.
THEOREM RaceSafe == Spec => []RaceInv
BY RaceInit, RaceStep, PTL DEF Spec

LEMMA RaceInvOneInFlight ==
    ASSUME RaceInv
    PROVE  OneInFlight
<1>1. CASE pool = {}
  BY <1>1, FS_EmptySet DEF OneInFlight
<1>2. ASSUME NEW tx \in pool PROVE OneInFlight
  <2>1. pool = {tx} /\ Cardinality({tx}) = 1
    BY <1>2, FS_Singleton DEF RaceInv, OnlyOne
  <2> QED
    BY <2>1 DEF OneInFlight
<1> QED
  BY <1>1, <1>2

\* At most one transaction of a script waits in the mempool.
THEOREM RaceOneInFlight == Spec => []OneInFlight
BY RaceInvOneInFlight, RaceSafe, PTL

\* Those that revert in this step were overtaken, or their anchor grew too old.
Overtaken ==
    \A tx \in pool : tx.id \in reverted' \ reverted =>
       minted # tx.sol.prev \/ ~AnchorOK(tx.sol.anchor)

LEMMA RaceStepOvertaken ==
    ASSUME RaceInv, [Next]_raceVars
    PROVE  [Overtaken]_raceVars
<1>1. CASE reverted' = reverted
  BY <1>1 DEF Overtaken
<1>2. ASSUME NEW tx \in pool, Execute(tx) PROVE Overtaken
  <2>1. \A other \in pool : other = tx
    BY DEF RaceInv, OnlyOne
  <2>2. /\ tx.value = PriceOf(tx.sol.prev) /\ tx.gas >= GasUsed
        /\ tx.sol.prev = minted => tx.sol.q >= Bits
    BY DEF RaceInv, PoolSound, Winning
  <2>3. minted = tx.sol.prev /\ AnchorOK(tx.sol.anchor) => Succeeds(tx)
    BY <2>2 DEF Succeeds, MineOK, Wins, MintPrice
  <2>4. Succeeds(tx) => reverted' = reverted
    BY <1>2 DEF Execute
  <2> QED
    BY <2>1, <2>3, <2>4 DEF Overtaken
<1> QED
  BY <1>1, <1>2 DEF Next, Submit, Admit, ChainNext, RivalMint, Cool, NewBlock, GasMove, TopUp,
     Drop, raceVars, chainVars

\* A transaction that reverts was overtaken while it was under way: what the
\* simulation established is lost in no other way.
THEOREM RaceRevertsExplained == Spec => RevertOnlyIfOvertaken
BY RaceStepOvertaken, RaceSafe, PTL DEF Spec, RevertOnlyIfOvertaken, Overtaken

\* Without --send nothing ever reaches the node.
THEOREM RaceDryRunSafe == Spec => []DryRunSendsNothing
<1>1. RaceInv => DryRunSendsNothing
  BY DEF RaceInv
<1> QED
  BY <1>1, RaceSafe, PTL
=============================================================================
