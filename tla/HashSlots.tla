------------------------------ MODULE HashSlots ------------------------------
(***************************************************************************)
(* withHashSlot: at most MAX_CONCURRENT_HASHES password hashes run at once *)
(* and further ones queue.  A woken waiter takes its slot without looking  *)
(* at the counter again, so the cap rests on the order in which promise    *)
(* continuations run.  An action is therefore one of                       *)
(*   - an event of the event loop (a request arrives, a hash comes back    *)
(*     from the thread pool), which the loop handles only when no          *)
(*     continuation is left to run;                                        *)
(*   - one continuation, taken from the head of the microtask queue.       *)
(*                                                                         *)
(* A request verifies a password and may, once that is over, hash one: the *)
(* rehash of a login, the second half of a password change.                *)
(***************************************************************************)
EXTENDS Naturals, Sequences, FiniteSets

CONSTANTS
    Request,                \* requests that verify a password
    MAX_CONCURRENT_HASHES,
    OutcomeSets             \* what verify tasks do, one set for each behaviour

Outcomes ==
    { "hash",    \* the KDF runs on the thread pool
      "return",  \* the stored row is malformed: the task is over at once
      "throw" }  \* the KDF refuses the stored parameters as it is called

ASSUME HashSlotsAssumption ==
    /\ MAX_CONCURRENT_HASHES \in Nat \ {0}
    /\ OutcomeSets \subseteq SUBSET Outcomes

VARIABLES
    activeHashes,
    hashQueue,   \* requests whose resolve function waits in hashQueue
    jobs,        \* continuations that are ready, oldest first
    at,          \* where each request is
    hashing,     \* requests in their second call, hashPassword
    outcomes     \* what verify tasks may do in this behaviour

vars == <<activeHashes, hashQueue, jobs, at, hashing, outcomes>>

Places ==
    { "idle",
      "waiting",    \* in hashQueue
      "woken",      \* resolved, its continuation has not run
      "pool",       \* its KDF is on the thread pool
      "returning",  \* its task is over, withHashSlot has not resumed
      "released",   \* its slot is given back, its caller has not resumed
      "done" }

Job(kind, r) == [kind |-> kind, request |-> r]
JobKinds == {"woken", "rejected", "settled", "verified", "resumed"}

Running == {r \in Request : at[r] \in {"pool", "returning"}}

Init ==
    /\ activeHashes = 0
    /\ hashQueue = <<>>
    /\ jobs = <<>>
    /\ at = [r \in Request |-> "idle"]
    /\ hashing = {}
    /\ outcomes \in OutcomeSets

\* What a task may do: the second call of a request always runs a KDF.
Tasks(r) == IF r \in hashing THEN {"hash"} ELSE outcomes

\* The task is called: it starts a KDF, or is over before it ever waits.  ready
\* is what is left of the microtask queue.
StartTask(r, tasks, ready) ==
    \/ /\ "hash" \in tasks
       /\ at' = [at EXCEPT ![r] = "pool"]
       /\ jobs' = ready
    \/ /\ "return" \in tasks
       /\ at' = [at EXCEPT ![r] = "returning"]
       /\ jobs' = Append(ready, Job("settled", r))
    \/ /\ "throw" \in tasks
       /\ at' = [at EXCEPT ![r] = "returning"]
       /\ jobs' = Append(ready, Job("rejected", r))

\* The part of withHashSlot before its first await.
WithHashSlot(r, tasks, ready) ==
    IF activeHashes >= MAX_CONCURRENT_HASHES
    THEN /\ hashQueue' = Append(hashQueue, r)
         /\ at' = [at EXCEPT ![r] = "waiting"]
         /\ jobs' = ready
         /\ UNCHANGED activeHashes
    ELSE /\ activeHashes' = activeHashes + 1
         /\ StartTask(r, tasks, ready)
         /\ UNCHANGED hashQueue

-----------------------------------------------------------------------------
(* Events of the loop *)

Arrive(r) ==
    /\ jobs = <<>>
    /\ at[r] = "idle"
    /\ WithHashSlot(r, outcomes, <<>>)
    /\ UNCHANGED <<hashing, outcomes>>

\* The KDF calls back, with a tag or an error: the task settles either way.
HashReturns(r) ==
    /\ jobs = <<>>
    /\ at[r] = "pool"
    /\ at' = [at EXCEPT ![r] = "returning"]
    /\ jobs' = <<Job("settled", r)>>
    /\ UNCHANGED <<activeHashes, hashQueue, hashing, outcomes>>

-----------------------------------------------------------------------------
(* Continuations *)

Runs(kind, r) == jobs # <<>> /\ Head(jobs) = Job(kind, r)

\* Mutant: the waiter runs without being counted.
TakeSlot_Uncounted == UNCHANGED activeHashes

TakeSlot == activeHashes' = activeHashes + 1

\* A waiter resumes behind its await and takes the slot it was woken for.
Woken(r) ==
    /\ Runs("woken", r)
    /\ TakeSlot
    /\ StartTask(r, Tasks(r), Tail(jobs))
    /\ UNCHANGED <<hashQueue, hashing, outcomes>>

\* Mutant: without finally, a rejected task never gives its slot back.
Rejected_WithoutFinally(r) ==
    /\ Runs("rejected", r)
    /\ at' = [at EXCEPT ![r] = "released"]
    /\ jobs' = Append(Tail(jobs), Job("verified", r))
    /\ UNCHANGED <<activeHashes, hashQueue, hashing, outcomes>>

\* The rejected KDF promise reaches the task, whose own promise is rejected.
Rejected(r) ==
    /\ Runs("rejected", r)
    /\ jobs' = Append(Tail(jobs), Job("settled", r))
    /\ UNCHANGED <<activeHashes, hashQueue, at, hashing, outcomes>>

\* Mutant: the first waiter is not woken.
WakeFirst_Forgotten(r, ready) ==
    /\ at' = [at EXCEPT ![r] = "released"]
    /\ jobs' = Append(ready, Job("verified", r))
    /\ UNCHANGED hashQueue

\* next() makes the waiter's continuation ready; then the finally block ends and
\* the caller's continuation is ready too.
WakeFirst(r, ready) ==
    IF hashQueue = <<>>
    THEN /\ at' = [at EXCEPT ![r] = "released"]
         /\ jobs' = Append(ready, Job("verified", r))
         /\ UNCHANGED hashQueue
    ELSE /\ at' = [at EXCEPT ![r] = "released", ![Head(hashQueue)] = "woken"]
         /\ jobs' = ready \o <<Job("woken", Head(hashQueue)), Job("verified", r)>>
         /\ hashQueue' = Tail(hashQueue)

\* Mutant: the catch path gives the slot back as well.
Settled_GivenBackTwice(r) ==
    /\ Runs("settled", r)
    /\ activeHashes' = activeHashes - 2
    /\ WakeFirst(r, Tail(jobs))
    /\ UNCHANGED <<hashing, outcomes>>

\* The finally block.
Settled(r) ==
    /\ Runs("settled", r)
    /\ activeHashes' = activeHashes - 1
    /\ WakeFirst(r, Tail(jobs))
    /\ UNCHANGED <<hashing, outcomes>>

\* verifyPassword compares the tags and its own promise is resolved.
Verified(r) ==
    /\ Runs("verified", r)
    /\ jobs' = Append(Tail(jobs), Job("resumed", r))
    /\ UNCHANGED <<activeHashes, hashQueue, at, hashing, outcomes>>

\* The caller is over, or hashes the new password at once.
Resumed(r) ==
    /\ Runs("resumed", r)
    /\ \/ /\ at' = [at EXCEPT ![r] = "done"]
          /\ jobs' = Tail(jobs)
          /\ UNCHANGED <<activeHashes, hashQueue, hashing>>
       \/ /\ r \notin hashing
          /\ hashing' = hashing \cup {r}
          /\ WithHashSlot(r, {"hash"}, Tail(jobs))
    /\ UNCHANGED outcomes

Continue(r) == Woken(r) \/ Rejected(r) \/ Settled(r) \/ Verified(r) \/ Resumed(r)

Next == \E r \in Request : Arrive(r) \/ HashReturns(r) \/ Continue(r)

\* The loop runs every ready continuation and every KDF comes back.  Nobody has to
\* sign in.
Fairness == \A r \in Request : WF_vars(HashReturns(r)) /\ WF_vars(Continue(r))

SafeSpec == Init /\ [][Next]_vars
Spec     == SafeSpec /\ Fairness

-----------------------------------------------------------------------------
(* Properties *)

\* Every variable holds what withHashSlot puts there.
TypeOK ==
    /\ activeHashes \in Nat
    /\ hashQueue \in Seq(Request)
    /\ jobs \in Seq([kind : JobKinds, request : Request])
    /\ at \in [Request -> Places]
    /\ hashing \subseteq Request
    /\ outcomes \in OutcomeSets

\* docs/security-decisions.md: concurrency is limited to MAX_CONCURRENT_HASHES.
CapHolds == Cardinality(Running) <= MAX_CONCURRENT_HASHES

\* The cap holds as long as every task waits for a KDF.
CapHoldsForRealHashes == outcomes = {"hash"} => CapHolds

\* The counter is the number of tasks that run, whatever they do: no path leaks a
\* slot or gives one back twice.
SlotsCounted == activeHashes = Cardinality(Running)

\* When the loop is about to wait for events, nobody waits beside a free slot.
NoIdleSlot == jobs = <<>> /\ hashQueue # <<>> => activeHashes >= MAX_CONCURRENT_HASHES

\* Every request that has arrived is answered: no wake-up is lost.
Answered == \A r \in Request : at[r] = "waiting" ~> at[r] = "done"
=============================================================================
