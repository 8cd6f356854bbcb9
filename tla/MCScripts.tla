------------------------------ MODULE MCScripts ------------------------------
(***************************************************************************)
(* The scripts that meet the contract, one of which is started: the four   *)
(* that mint implement MintRace, and each has promises of its own.         *)
(***************************************************************************)
EXTENDS MintTx

CONSTANTS
    Scripts,                            \* those that may be started
    MaxBits, MaxAttempts, HoldTries, GasMult, Luck

ASSUME ScriptsAssumption == {MaxBits, MaxAttempts, HoldTries, GasMult, Luck} \subseteq Nat

VARIABLES
    script,                             \* which one was started
    send, held, lost,
    snap, fresh, attempt,               \* bot.py, gpu_hunter.py, hunter.py
    need, tries,                        \* hunter.py
    st, draft, started,                 \* gpu_hunter_continuous.py
    lucky, anchor, a, b                 \* verify_tx_path.py

H == INSTANCE Hunter
B == INSTANCE Bot
G == INSTANCE GpuHunter
C == INSTANCE Continuous
V == INSTANCE TxPath

Is(s) == script = s

holdVars == <<need, tries>>
contVars == <<st, draft, started>>
pathVars == <<lucky, anchor, a, b>>

hunterRest == <<fresh, attempt, contVars, pathVars>>
botRest    == <<lost, holdVars, contVars, pathVars>>
gpuRest    == <<fresh, attempt, holdVars, contVars, pathVars>>
contRest   == <<snap, fresh, attempt, holdVars, pathVars>>
pathRest   == <<sol, bid, txNonce, txid, send, held, lost, snap, fresh, attempt,
                holdVars, contVars>>

Unused ==
    /\ ~Is("bot") => fresh = B!NoFresh /\ attempt = 0
    /\ ~Is("hunter") => need = 0 /\ tries = 0
    /\ script \in {"continuous", "verify"} => snap = G!NoSnap
    /\ ~Is("continuous") => st = C!NoState /\ draft = C!NoState /\ started = FALSE
    /\ script \in {"bot", "verify"} => lost = FALSE
    /\ ~Is("verify") => lucky = {} /\ anchor = 0 /\ a = "none" /\ b = "none"
    /\ Is("verify") => /\ sol = NoSol /\ bid = 0 /\ txNonce = 0 /\ txid = 0
                       /\ send = FALSE /\ held = 0

Init ==
    /\ script \in Scripts
    /\ \/ Is("hunter") /\ H!HunterInit
       \/ Is("bot") /\ B!Init
       \/ Is("gpu") /\ G!Init
       \/ Is("continuous") /\ C!Init
       \/ Is("verify") /\ V!Init
    /\ Unused

Next ==
    /\ \/ Is("hunter") /\ H!Next /\ UNCHANGED hunterRest
       \/ Is("bot") /\ B!Next /\ UNCHANGED botRest
       \/ Is("gpu") /\ G!Next /\ UNCHANGED gpuRest
       \/ Is("continuous") /\ C!Next /\ UNCHANGED contRest
       \/ Is("verify") /\ V!Next /\ UNCHANGED pathRest
    /\ UNCHANGED script

vars == <<chainVars, txVars, pc, sol, script, send, held, lost, snap, fresh,
          attempt, holdVars, contVars, pathVars>>

Spec == Init /\ [][Next]_vars

\* What the script that runs does by itself, Ctrl-C and the world left out.
ScriptStep ==
    /\ \/ Is("hunter") /\ H!HunterStep /\ UNCHANGED hunterRest
       \/ Is("bot") /\ B!BotStep /\ UNCHANGED botRest
       \/ Is("gpu") /\ G!GpuStep /\ UNCHANGED gpuRest
       \/ Is("continuous") /\ C!ContStep /\ UNCHANGED contRest
       \/ Is("verify") /\ V!PathStep /\ UNCHANGED pathRest
    /\ UNCHANGED script

\* RPCs and receipts time out, and a search has a budget or a slice that ends
\* it.  Nothing is assumed of the chain.
FairSpec == Spec /\ WF_vars(ScriptStep)

-----------------------------------------------------------------------------
\* Type invariants of the script that runs.
TypeOK ==
    /\ Is("hunter") => H!TypeOK
    /\ Is("bot") => B!TypeOK
    /\ Is("gpu") => G!TypeOK
    /\ Is("continuous") => C!TypeOK
    /\ Is("verify") => V!TypeOK

Race == INSTANCE MintRace

\* Every script does to the chain only what MintRace allows.
ImplementsRace == Race!Spec

\* One life of bot.py sends one transaction at most.
SendsOnce == Is("bot") => B!SendsOnce

\* The GPU hunters, which go on after an error, buy a second cat only when an
\* error swallowed the outcome of an admitted transaction.
ExtraCatNeedsLostOutcome ==
    script \in {"gpu", "continuous"} => G!ExtraCatNeedsLostOutcome

\* gpu_hunter_continuous.py offers only transactions the balance it read pays.
CheckedFundsCover == Is("continuous") => C!CheckedFundsCover

\* Mints between the calls of verify_tx_path.py do not upset its verdicts.
VerdictsSurviveMints == Is("verify") => V!VerdictsSurviveMints

\* No turn of a script hangs: from the hold loop, from the receipt of a
\* transaction the chain never executes, and from every exception, it comes
\* back to its top or ends.
NoTurnHangs ==
    /\ Is("hunter") => []<>(pc \in {"anchor", "done", "stopped"})
    /\ Is("bot") => []<>(pc \in {"loop", "anchor"} \cup B!Ended)
    /\ Is("gpu") => []<>(pc \in {"anchor", "done", "stopped"})
    /\ Is("continuous") => []<>(pc \in {"top"} \cup C!Ended)
    /\ Is("verify") => <>(pc \in V!Ended)

\* bot.py ends: once the window stays open its attempts run out, whatever
\* becomes of each; only a closed window can keep it waiting.
BotGivesUp == Is("bot") /\ <>[](Bits <= MaxBits) => <>(pc \in B!Ended)
=============================================================================
