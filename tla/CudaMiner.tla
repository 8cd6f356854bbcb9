------------------------------ MODULE CudaMiner ------------------------------
(***************************************************************************)
(* gpu/keccak_cuda.cu: the host launches a kernel, waits for all of its    *)
(* threads and looks at the found flag; every thread hashes the nonces of  *)
(* its lane until one wins or it sees the flag.  The flag is read by plain *)
(* loads while others swap it, so a thread may go on seeing the old value. *)
(***************************************************************************)
EXTENDS Naturals, FiniteSets

CONSTANTS
    NThreads,       \* blocks * threads: the stride
    Iters,          \* nonces per thread and launch
    MaxLaunches     \* bound on the launches of a slice

Threads == 0..(NThreads - 1)
Nonces  == 0..(NThreads * Iters * MaxLaunches - 1)
Garbage == NThreads * Iters * MaxLaunches    \* what cudaMalloc left there

VARIABLES
    wins,       \* the nonces whose hash is below the target
    tried,      \* the nonces hashed so far
    expired,    \* max_seconds have passed
    flag,       \* *found_flag
    slot,       \* *found_nonce
    thread,     \* per thread: where it is in the kernel and its iteration
    cursor,     \* nonce_cursor
    host,       \* where the host loop is
    printed,    \* the nonce of the FOUND line, as a set of one or none
    skipped     \* history: the nonces of launches that were refused

vars == <<wins, tried, expired, flag, slot, thread, cursor, host, printed, skipped>>
hostVars == <<cursor, host, printed, skipped>>

Idle == [at |-> "out", it |-> 0]

\* A nonce is counted from the base_nonce of the slice.
Init ==
    /\ wins \in SUBSET Nonces
    /\ tried = {} /\ expired = FALSE
    /\ flag = FALSE /\ slot = Garbage
    /\ thread = [t \in Threads |-> Idle]
    /\ cursor = 0 /\ host = "launch" /\ printed = {} /\ skipped = {}

-----------------------------------------------------------------------------
(* mine_kernel                                                             *)

At(t, label) == thread[t].at = label

NonceOf(t) == cursor + t + thread[t].it * NThreads

\* if (*found_flag) return: a thread may miss the flag, and does not see one
\* that is not set.
Look(t) ==
    /\ At(t, "look")
    /\ \/ thread' = [thread EXCEPT ![t].at = "hash"]
       \/ flag /\ thread' = [thread EXCEPT ![t].at = "out"]
    /\ UNCHANGED <<wins, tried, expired, flag, slot, hostVars>>

\* Fault: the losers of the swap write the nonce of their next iteration.
Loses(t) == thread' = [thread EXCEPT ![t].at = "store", ![t].it = @ + 1]

\* atomicCAS did not return 0.
Beaten(t) == thread' = [thread EXCEPT ![t].at = "out"]

\* Fault: one iteration too many.
OneMoreIteration(t) ==
    thread' = [thread EXCEPT ![t].it = @ + 1,
                             ![t].at = IF thread[t].it < Iters THEN "look" ELSE "out"]

\* nonce += stride, and the next iteration if there is one.
Misses(t) ==
    thread' = [thread EXCEPT ![t].it = @ + 1,
                             ![t].at = IF thread[t].it + 1 < Iters THEN "look" ELSE "out"]

\* Hash one nonce, and swap the flag when it wins.
Hash(t) ==
    /\ At(t, "hash")
    /\ tried' = tried \cup {NonceOf(t)}
    /\ \/ NonceOf(t) \notin wins /\ Misses(t) /\ UNCHANGED flag
       \/ NonceOf(t) \in wins /\ flag /\ Beaten(t) /\ UNCHANGED flag
       \/ /\ NonceOf(t) \in wins /\ ~flag
          /\ flag' = TRUE
          /\ thread' = [thread EXCEPT ![t].at = "store"]
    /\ UNCHANGED <<wins, expired, slot, hostVars>>

\* *found_nonce = nonce
Store(t) ==
    /\ At(t, "store")
    /\ slot' = NonceOf(t)
    /\ thread' = [thread EXCEPT ![t].at = "out"]
    /\ UNCHANGED <<wins, tried, expired, flag, hostVars>>

KernelStep(t) == Look(t) \/ Hash(t) \/ Store(t)

-----------------------------------------------------------------------------
(* The host loop.                                                          *)

Launch ==
    /\ host = "launch"
    /\ cursor < Garbage
    /\ host' = "sync"
    /\ thread' = [t \in Threads |-> [at |-> IF Iters > 0 THEN "look" ELSE "out", it |-> 0]]
    /\ UNCHANGED <<wins, tried, expired, flag, slot, cursor, printed, skipped>>

\* cudaDeviceSynchronize returned.
KernelOver == \A t \in Threads : At(t, "out")

\* Fault: the cursor moves by one nonce of every thread.
OneRow == NThreads

Advance == NThreads * Iters

\* The kernel is over: move on, look at the flag, print FOUND.
SyncFound ==
    /\ host = "sync" /\ KernelOver /\ flag
    /\ cursor' = cursor + Advance
    /\ printed' = {slot}
    /\ host' = "FOUND"
    /\ UNCHANGED <<wins, tried, expired, flag, slot, thread, skipped>>

\* Nothing found: NONE when the time is over, else the next launch.
SyncNothing ==
    /\ host = "sync" /\ KernelOver /\ ~flag
    /\ cursor' = cursor + Advance
    /\ host' = IF expired THEN "NONE" ELSE "launch"
    /\ UNCHANGED <<wins, tried, expired, flag, slot, thread, printed, skipped>>

\* A launch that is refused at once (a configuration the device does not have,
\* no kernel for it) starts no thread; cudaDeviceSynchronize, which has nothing
\* to wait for, does not report it and cudaGetLastError is not asked: the host
\* moves on as if the slice had been hashed.
LaunchRefused ==
    /\ host = "launch"
    /\ cursor < Garbage
    /\ skipped' = skipped \cup (cursor..(cursor + Advance - 1))
    /\ cursor' = cursor + Advance
    /\ host' = IF expired THEN "NONE" ELSE "launch"
    /\ UNCHANGED <<wins, tried, expired, flag, slot, thread, printed>>

\* "CUDA error": the process ends with neither FOUND nor NONE.
CudaError ==
    /\ host = "sync"
    /\ host' = "error"
    /\ thread' = [t \in Threads |-> Idle]
    /\ UNCHANGED <<wins, tried, expired, flag, slot, cursor, printed, skipped>>

HostStep == Launch \/ LaunchRefused \/ SyncFound \/ SyncNothing \/ CudaError

Expire ==
    /\ ~expired
    /\ expired' = TRUE
    /\ UNCHANGED <<wins, tried, flag, slot, thread, hostVars>>

Next == (\E t \in Threads : KernelStep(t)) \/ HostStep \/ Expire

Spec == Init /\ [][Next]_vars

-----------------------------------------------------------------------------
(* Properties.                                                             *)

\* Type invariant of the kernel and its host.
TypeOK ==
    /\ wins \subseteq Nonces /\ tried \subseteq Nonces
    /\ expired \in BOOLEAN /\ flag \in BOOLEAN
    /\ slot \in Nonces \cup {Garbage}
    /\ thread \in [Threads -> [at : {"look", "hash", "store", "out"}, it : 0..Iters]]
    /\ cursor \in 0..Garbage
    /\ host \in {"launch", "sync", "FOUND", "NONE", "error"}
    /\ printed \subseteq Nonces /\ skipped \subseteq Nonces

\* A nonce is handed over with the FOUND line.
HowEnded == IF host = "NONE" THEN "ended" ELSE IF host = "error" THEN "failed" ELSE "no"

\* What NONE leaves unhashed are the slices of refused launches and nothing else:
\* every other nonce before the cursor was hashed, whichever threads hashed them
\* and in however many launches.
OnlyRefusedLaunchesLeaveGaps == host = "NONE" => tried = (0..(cursor - 1)) \ skipped
=============================================================================
