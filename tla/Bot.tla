--------------------------------- MODULE Bot ---------------------------------
(***************************************************************************)
(* bot.py: wait for a quiet window, search with solver_mp under a budget,  *)
(* compare with a second snapshot, simulate, send.  Unlike hunter.py it    *)
(* catches no exception outside build_and_check: the first one ends it.    *)
(***************************************************************************)
EXTENDS MintTx

CONSTANTS
    MaxBits,        \* --max-bits
    MaxAttempts,    \* --attempts
    Luck            \* bound: bits a found hash may have beyond the target

VARIABLES
    send,       \* --send
    snap,       \* the snapshot wait_for_window returned
    fresh,      \* the second snapshot, read after the search
    held,       \* bal: the balance last read
    attempt     \* attempts of main()'s loop used up

botVars == <<send, snap, fresh, held, attempt>>
vars == <<chainVars, txVars, botVars, pc, sol>>

SnapReads  == {"anchor", "prevWork", "target"}
FreshReads == {"fresh anchor", "fresh prevWork"}
SendSteps  == {"fee", "count", "broadcast", "receipt", "verify"}
Raising    == SnapReads \cup FreshReads \cup SendSteps \cup
              {"solve", "price", "balance", "need"}
Ended      == {"done", "gave up", "crashed", "stopped"}
Labels     == Raising \cup Ended \cup {"loop", "gate", "compare", "call", "gas", "dry"}

NoSnap  == [anchor |-> 0, prevWork |-> 0, target |-> 0]
NoFresh == [anchor |-> 0, prevWork |-> 0]

Init ==
    /\ ChainInit
    /\ pc = "loop"
    /\ snap = NoSnap /\ fresh = NoFresh /\ sol = NoSol
    /\ price = 0 /\ bid = 0 /\ txNonce = 0 /\ txid = 0
    /\ held = 0 /\ attempt = 0
    /\ send \in BOOLEAN

\* mine_once returns or raises: its locals are gone.
LeaveAttempt ==
    /\ snap' = NoSnap /\ fresh' = NoFresh /\ sol' = NoSol
    /\ price' = 0 /\ bid' = 0 /\ txNonce' = 0 /\ txid' = 0
    /\ held' = 0

\* Fault: the attempts are counted from zero up to and including the last.
OneMoreAttempt ==
    /\ \/ attempt <= MaxAttempts /\ Goto("loop", "anchor") /\ attempt' = attempt + 1
       \/ attempt > MaxAttempts /\ Goto("loop", "gave up") /\ UNCHANGED attempt
    /\ UNCHANGED <<chainVars, txVars, sol, send, snap, fresh, held>>

\* Fault: a failed attempt is not counted.
UncountedAttempt ==
    /\ Goto("loop", "anchor")
    /\ UNCHANGED <<chainVars, txVars, botVars, sol>>

\* for i in range(args.attempts)
NextAttempt ==
    /\ \/ attempt < MaxAttempts /\ Goto("loop", "anchor") /\ attempt' = attempt + 1
       \/ attempt = MaxAttempts /\ Goto("loop", "gave up") /\ UNCHANGED attempt
    /\ UNCHANGED <<chainVars, txVars, sol, send, snap, fresh, held>>

\* mine_once returns False: the next attempt, if there is one.
Again(from) ==
    /\ Goto(from, "loop")
    /\ LeaveAttempt
    /\ UNCHANGED <<chainVars, send, attempt>>

\* mine_once returns True: main() leaves its loop, with --send or without.
Done(from) ==
    /\ Goto(from, "done")
    /\ LeaveAttempt
    /\ UNCHANGED <<chainVars, send, attempt>>

-----------------------------------------------------------------------------
(* wait_for_window, the search and the second snapshot.  Of the values a   *)
(* snapshot reads, only those that are looked at are kept.                 *)

NextRead == [anchor |-> "prevWork", prevWork |-> "target", target |-> "gate"]

Live == [anchor |-> block, prevWork |-> minted, target |-> Bits]

Snapshot(field) ==
    /\ Goto(field, NextRead[field])
    /\ snap' = [snap EXCEPT ![field] = Live[field]]
    /\ UNCHANGED <<chainVars, txVars, sol, send, fresh, held, attempt>>

\* The window is closed: poll again, within the same attempt.
WindowClosed ==
    /\ snap.target > MaxBits
    /\ Goto("gate", "anchor")
    /\ UNCHANGED <<chainVars, txVars, botVars, sol>>

WindowOpen ==
    /\ snap.target <= MaxBits
    /\ Goto("gate", "solve")
    /\ UNCHANGED <<chainVars, txVars, botVars, sol>>

\* solver_mp.solve found a nonce; Again("solve") is its None.
SolveFound ==
    /\ Goto("solve", "fresh anchor")
    /\ \E q \in snap.target..(snap.target + Luck) :
          sol' = [prev |-> snap.prevWork, anchor |-> snap.anchor, q |-> q]
    /\ UNCHANGED <<chainVars, txVars, botVars>>

ReadFresh(from, field, to) ==
    /\ Goto(from, to)
    /\ fresh' = [fresh EXCEPT ![field] = Live[field]]
    /\ UNCHANGED <<chainVars, txVars, sol, send, snap, held, attempt>>

Unmoved == fresh.anchor = snap.anchor /\ fresh.prevWork = snap.prevWork

\* "state moved during search", or on to the simulation.
StateMoved == ~Unmoved /\ Again("compare")

StateKept ==
    /\ Unmoved
    /\ Goto("compare", "price")
    /\ UNCHANGED <<chainVars, txVars, botVars, sol>>

-----------------------------------------------------------------------------
(* The simulation, the funds, the transaction.                             *)

Simulate ==
    \/ ReadMintPrice("price", "call") /\ UNCHANGED botVars
    \/ CallPasses("call", "gas") /\ UNCHANGED botVars
    \/ CallPasses("gas", "dry") /\ UNCHANGED botVars
    \/ Again("call")
    \/ Again("gas")

DryOrSend ==
    \/ ~send /\ Done("dry")
    \/ /\ send
       /\ Goto("dry", "balance")
       /\ UNCHANGED <<chainVars, txVars, botVars, sol>>

ReadBalance ==
    /\ Goto("balance", "need")
    /\ held' = bal
    /\ UNCHANGED <<chainVars, txVars, sol, send, snap, fresh, attempt>>

\* Unlike the transaction's gas limit, without a quarter on top.
Need == price + GasUsed * Bid(gasPrice)

Funded ==
    /\ held >= Need
    /\ Goto("need", "fee")
    /\ UNCHANGED <<chainVars, txVars, botVars, sol>>

\* "Fund the wallet first": mine_once returns True all the same.
NotFunded == held < Need /\ Done("need")

\* Fault: a reverted mine() is tried again like a failed search.
RevertedAgain ==
    \/ Receipt(1, "receipt", "verify") /\ UNCHANGED botVars
    \/ txid \in reverted /\ Again("receipt")

\* rcpt.status 1 goes on to verify_nft; with 0 mine_once returns True, too.
ReceiptRead ==
    \/ Receipt(1, "receipt", "verify") /\ UNCHANGED botVars
    \/ txid \in reverted /\ Done("receipt")

Verify == Done("verify")

\* An exception leaves main().
Crash ==
    /\ pc \in Raising
    /\ pc' = "crashed"
    /\ LeaveAttempt
    /\ UNCHANGED <<chainVars, send, attempt>>

\* The node admitted the transaction but its answer did not arrive.
AnswerLost ==
    /\ Goto("broadcast", "crashed")
    /\ Admit(Tx)
    /\ LeaveAttempt
    /\ UNCHANGED <<send, attempt>>

Interrupt ==
    /\ pc \notin Ended
    /\ pc' = "stopped"
    /\ LeaveAttempt
    /\ UNCHANGED <<chainVars, send, attempt>>

Halted == pc \in Ended /\ UNCHANGED vars

BotStep ==
    \/ NextAttempt
    \/ \E field \in SnapReads : Snapshot(field)
    \/ WindowClosed \/ WindowOpen
    \/ SolveFound \/ Again("solve")
    \/ ReadFresh("fresh anchor", "anchor", "fresh prevWork")
    \/ ReadFresh("fresh prevWork", "prevWork", "compare")
    \/ StateMoved \/ StateKept
    \/ Simulate \/ DryOrSend \/ ReadBalance
    \/ Funded \/ NotFunded
    \/ ReadFee("fee", "count") /\ UNCHANGED botVars
    \/ ReadCount("count", "broadcast") /\ UNCHANGED botVars
    \/ Broadcast("broadcast", "receipt") /\ UNCHANGED botVars
    \/ AnswerLost
    \/ ReceiptRead \/ Verify
    \/ Crash

World == ChainNext /\ UNCHANGED <<txVars, botVars, pc, sol>>

Next == BotStep \/ Interrupt \/ World \/ Halted

Spec == Init /\ [][Next]_vars

-----------------------------------------------------------------------------
(* Properties.                                                             *)

\* Type invariant of the bot and of the chain it works on.
TypeOK ==
    /\ ChainTypeOK
    /\ pc \in Labels
    /\ snap \in [SnapReads -> Nat]
    /\ fresh \in [{"anchor", "prevWork"} -> Nat]
    /\ sol \in Solutions
    /\ price \in Nat /\ bid \in Nat /\ txNonce \in Nat
    /\ txid \in 0..sent
    /\ held \in Nat
    /\ attempt \in 0..MaxAttempts
    /\ send \in BOOLEAN

Race == INSTANCE MintRace

\* bot.py does to the chain only what MintRace allows.
ImplementsRace == Race!Spec

\* One life of the bot sends one transaction at most: every way out of a
\* broadcast ends the process, so that no second one can buy another cat while
\* the first is undecided.
SendsOnce == sent <= 1

\* "Solution is for the old anchor": what bot.py throws away after the second
\* snapshot is of no use, because its prevWork is gone or the contract accepts
\* its anchor no more.
DropsOnlyDeadSolutions ==
    [][StateMoved => ~Wins(sol) \/ ~AnchorOK(sol.anchor)]_vars
=============================================================================
