------------------------------ MODULE SolverMp -------------------------------
(***************************************************************************)
(* solver_mp.py: one worker process per core, each on the nonces of its    *)
(* lane, a flag in shared memory that is looked at between batches, and a  *)
(* queue from which the parent takes as many messages as there are workers.*)
(* A worker may be interrupted, which it answers with a message while it is*)
(* in its try and with none outside of it, or killed.                      *)
(***************************************************************************)
EXTENDS Naturals, FiniteSets

CONSTANTS
    NWorkers,       \* workers
    Check,          \* CHECK: hashes between two looks at the flag
    MaxBatches,     \* bound on the batches of a worker
    MaxSignals      \* bound on the workers that are interrupted or killed

Workers == 0..(NWorkers - 1)

VARIABLES
    wins,       \* the nonces whose hash is below the target
    tried,      \* the nonces hashed so far
    expired,    \* the deadline has passed
    flag,       \* found.value
    worker,     \* per worker: where it is, its next nonce, its hash counts
    signalled,  \* the workers that were interrupted or killed
    queue,      \* messages under way
    parent,     \* where solve is
    remaining,  \* messages solve still waits for
    result,     \* result_nonce, as a set of one or none
    total       \* hashes reported

vars == <<wins, tried, expired, flag, worker, signalled, queue, parent, remaining,
          result, total>>
parentVars == <<parent, remaining, result, total>>

\* Nonces a worker tries within the bound.
Nonces == 0..(NWorkers * Check * MaxBatches - 1)

\* A worker ends with its first winner, so one winner per lane is enough.
OnePerLane(w) == \A m, n \in w : m % NWorkers = n % NWorkers => m = n

Init ==
    /\ wins \in {w \in SUBSET Nonces : OnePerLane(w)}
    /\ tried = {} /\ expired = FALSE /\ flag = FALSE
    /\ worker = [i \in Workers |-> [at |-> "look", nonce |-> i, batch |-> 0, done |-> 0]]
    /\ signalled = {} /\ queue = {}
    /\ parent = "get"
    /\ remaining = NWorkers
    /\ result = {} /\ total = 0

At(i, label) == worker[i].at = label

Message(i, kind, done, nonce) ==
    [kind |-> kind, from |-> i, done |-> done, nonce |-> nonce, second |-> FALSE]

DoneMessage(i) == Message(i, "done", worker[i].done, {})

\* Between batches: the flag is set or the deadline has passed, ...
Leave(i) ==
    /\ At(i, "look") /\ (flag \/ expired)
    /\ worker' = [worker EXCEPT ![i].at = "leave"]
    /\ queue' = queue \cup {DoneMessage(i)}
    /\ UNCHANGED <<wins, tried, expired, flag, signalled, parentVars>>

\* ... or another batch begins.
Begin(i) ==
    /\ At(i, "look") /\ ~flag /\ ~expired
    /\ worker[i].batch < MaxBatches
    /\ worker' = [worker EXCEPT ![i].at = "hash", ![i].batch = @ + 1]
    /\ UNCHANGED <<wins, tried, expired, flag, signalled, queue, parentVars>>

\* nonce += stride
Stride(nonce) == nonce + NWorkers

Hash(i) ==
    LET w == worker[i] IN
    /\ At(i, "hash")
    /\ tried' = tried \cup {w.nonce}
    /\ worker' = [worker EXCEPT ![i] =
          IF w.nonce \in wins THEN [w EXCEPT !.at = "won"]
          ELSE [w EXCEPT !.nonce = Stride(@), !.done = @ + 1,
                         !.at = IF (w.done + 1) % Check = 0 THEN "look" ELSE "hash"]]
    /\ UNCHANGED <<wins, expired, flag, signalled, queue, parentVars>>

\* found.value = True
RaiseFlag(i) ==
    /\ At(i, "won")
    /\ flag' = TRUE
    /\ worker' = [worker EXCEPT ![i].at = "tell"]
    /\ UNCHANGED <<wins, tried, expired, signalled, queue, parentVars>>

\* Fault: the hash that won is not counted.
WinnerUncounted(i) == worker[i].done

HashesOfWinner(i) == worker[i].done + 1

\* q.put(("found", done + 1, nonce))
Tell(i) ==
    /\ At(i, "tell")
    /\ worker' = [worker EXCEPT ![i].at = "leave"]
    /\ queue' = queue \cup {Message(i, "found", HashesOfWinner(i), {worker[i].nonce})}
    /\ UNCHANGED <<wins, tried, expired, flag, signalled, parentVars>>

\* The process ends when its message is out.
Exit(i) ==
    /\ At(i, "leave")
    /\ worker' = [worker EXCEPT ![i].at = "gone"]
    /\ UNCHANGED <<wins, tried, expired, flag, signalled, queue, parentVars>>

Signal(i) ==
    /\ ~At(i, "gone") /\ i \notin signalled
    /\ Cardinality(signalled) < MaxSignals
    /\ signalled' = signalled \cup {i}
    /\ UNCHANGED <<wins, tried, expired, flag, parentVars>>

\* Fault: the interrupted worker puts no message.
InterruptSilently(i) ==
    /\ Signal(i)
    /\ worker' = [worker EXCEPT ![i].at = "gone"]
    /\ UNCHANGED queue

\* KeyboardInterrupt or SystemExit anywhere in the try: the handler puts a
\* "done", whatever the worker has found or put already.
Interrupted(i) ==
    /\ Signal(i)
    /\ queue' = queue \cup {[DoneMessage(i) EXCEPT !.second = At(i, "leave")]}
    /\ worker' = [worker EXCEPT ![i].at = "leave"]

\* What the worker's queue had not written yet is lost.
MayLose(i) == UNCHANGED queue \/ queue' = {m \in queue : m.from # i}

\* An interrupt before the try, or after the return while the process flushes
\* its queue, is handled by nobody: no message is put.
CutShort(i) ==
    /\ Signal(i)
    /\ (At(i, "look") /\ worker[i].batch = 0) \/ At(i, "leave")
    /\ MayLose(i)
    /\ worker' = [worker EXCEPT ![i].at = "cut"]

\* A killed worker puts nothing.
Killed(i) ==
    /\ Signal(i)
    /\ MayLose(i)
    /\ worker' = [worker EXCEPT ![i].at = "killed"]

\* The parent takes a message; messages of two workers arrive in any order.
Get ==
    /\ parent = "get" /\ remaining > 0
    /\ \E m \in queue :
          /\ queue' = queue \ {m}
          /\ total' = total + m.done
          /\ remaining' = remaining - 1
          /\ \/ m.kind = "found" /\ result' = m.nonce /\ flag' = TRUE
             \/ m.kind = "done" /\ UNCHANGED <<result, flag>>
    /\ UNCHANGED <<wins, tried, expired, worker, signalled, parent>>

\* join or terminate every worker, and return.
Return ==
    /\ parent = "get" /\ remaining = 0
    /\ parent' = "returned"
    /\ worker' = [i \in Workers |-> [worker[i] EXCEPT !.at = "gone"]]
    /\ UNCHANGED <<wins, tried, expired, flag, signalled, queue, remaining, result, total>>

\* Ctrl-C in solve itself is nobody's to handle: bot.py ends, and with it the
\* workers, which are daemons.
Abort ==
    /\ parent = "get"
    /\ parent' = "raised"
    /\ UNCHANGED <<wins, tried, expired, flag, worker, signalled, queue, remaining,
                   result, total>>

StopDaemons ==
    /\ parent = "raised"
    /\ parent' = "dead"
    /\ worker' = [i \in Workers |-> [worker[i] EXCEPT !.at = "gone"]]
    /\ UNCHANGED <<wins, tried, expired, flag, signalled, queue, remaining, result, total>>

Expire ==
    /\ ~expired
    /\ expired' = TRUE
    /\ UNCHANGED <<wins, tried, flag, worker, signalled, queue, parentVars>>

WorkerStep(i) ==
    Leave(i) \/ Begin(i) \/ Hash(i) \/ RaiseFlag(i) \/ Tell(i) \/ Exit(i)

ParentStep == Get \/ Return \/ StopDaemons

Next ==
    \/ \E i \in Workers : WorkerStep(i) \/ Interrupted(i) \/ CutShort(i) \/ Killed(i)
    \/ ParentStep \/ Abort \/ Expire

Spec == Init /\ [][Next]_vars

-----------------------------------------------------------------------------
(* Properties.                                                             *)

\* Type invariant of the solver.
TypeOK ==
    /\ wins \subseteq Nonces /\ tried \subseteq Nonces
    /\ expired \in BOOLEAN /\ flag \in BOOLEAN
    /\ worker \in [Workers -> [at : {"look", "hash", "won", "tell", "leave", "gone",
                                      "cut", "killed"},
                               nonce : Nat, batch : 0..MaxBatches, done : Nat]]
    /\ signalled \subseteq Workers
    /\ queue \subseteq [kind : {"done", "found"}, from : Workers, done : Nat,
                        nonce : SUBSET Nonces, second : BOOLEAN]
    /\ parent \in {"get", "returned", "raised", "dead"}
    /\ remaining \in 0..NWorkers
    /\ result \subseteq Nonces /\ total \in Nat

\* Some worker was interrupted or killed.
Disturbed == signalled # {}

\* A nonce counts as handed over when the parent has it.
HowEnded ==
    IF parent = "dead" \/ (parent = "returned" /\ Disturbed) THEN "failed"
    ELSE IF parent = "returned" THEN "ended" ELSE "no"

\* The hashes solve reports are the hashes that were made, those of the worker
\* that won included.
TotalIsTried == parent = "returned" /\ ~Disturbed => total = Cardinality(tried)
=============================================================================
