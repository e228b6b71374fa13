--------------------------- MODULE HashSlotsProofs ---------------------------
(* Proofs about HashSlots, for any number of requests and any cap. *)
EXTENDS HashSlots, FiniteSetTheorems, TLAPS

-----------------------------------------------------------------------------
(* Who is where: every job and every queue entry has a request of its own,  *)
(* at the place the job or the queue is for.                                *)

JobSet == [kind : JobKinds, request : Request]

PlaceOf(kind) ==
    IF kind = "woken" THEN "woken"
    ELSE IF kind \in {"rejected", "settled"} THEN "returning"
    ELSE "released"

\* The jobs js are those of the requests that are at the jobs' places.
Fits(js, place) ==
    /\ js \in Seq(JobSet)
    /\ \A i \in 1 .. Len(js) : place[js[i].request] = PlaceOf(js[i].kind)
    /\ \A i, j \in 1 .. Len(js) : js[i].request = js[j].request => i = j

Free(js, r) == \A i \in 1 .. Len(js) : js[i].request # r

Waits(q, place) ==
    /\ q \in Seq(Request)
    /\ \A i \in 1 .. Len(q) : place[q[i]] = "waiting"
    /\ \A i, j \in 1 .. Len(q) : q[i] = q[j] => i = j

PlaceInv ==
    /\ at \in [Request -> Places]
    /\ hashing \subseteq Request
    /\ outcomes \in OutcomeSets
    /\ Fits(jobs, at)
    /\ Waits(hashQueue, at)

-----------------------------------------------------------------------------
(* Lemmas about the two queues *)

LEMMA JobIsInJobSet ==
    ASSUME NEW kind \in JobKinds, NEW r \in Request
    PROVE  /\ Job(kind, r) \in JobSet
           /\ Job(kind, r).kind = kind
           /\ Job(kind, r).request = r
BY DEF Job, JobSet

LEMMA Appended ==
    ASSUME NEW S, NEW s \in Seq(S), NEW e \in S
    PROVE  /\ Append(s, e) \in Seq(S)
           /\ Len(s) \in Nat
           /\ Len(Append(s, e)) = Len(s) + 1
           /\ \A i \in 1 .. Len(s) : Append(s, e)[i] = s[i]
           /\ Append(s, e)[Len(s) + 1] = e
           /\ \A i \in 1 .. Len(Append(s, e)) : i \in 1 .. Len(s) \/ i = Len(s) + 1
OBVIOUS

LEMMA Tailed ==
    ASSUME NEW S, NEW s \in Seq(S), s # <<>>
    PROVE  /\ Tail(s) \in Seq(S)
           /\ Head(s) \in S /\ Head(s) = s[1]
           /\ Len(s) \in Nat /\ 1 \in 1 .. Len(s)
           /\ \A i \in 1 .. Len(Tail(s)) :
                 Tail(s)[i] = s[i + 1] /\ i + 1 \in 1 .. Len(s) /\ i + 1 # 1 /\ i \in Nat
OBVIOUS

LEMMA AppendFits ==
    ASSUME NEW js, NEW place, NEW kind \in JobKinds, NEW r \in Request,
           Fits(js, place), Free(js, r), place[r] = PlaceOf(kind)
    PROVE  Fits(Append(js, Job(kind, r)), place)
<1> DEFINE e == Job(kind, r)
           s == Append(js, e)
<1>1. e \in JobSet /\ e.kind = kind /\ e.request = r
  BY JobIsInJobSet
<1>2. js \in Seq(JobSet)
  BY DEF Fits
<1> HIDE DEF e
<1>3. /\ s \in Seq(JobSet)
      /\ \A i \in 1 .. Len(js) : s[i] = js[i]
      /\ s[Len(js) + 1] = e
      /\ \A i \in 1 .. Len(s) : i \in 1 .. Len(js) \/ i = Len(js) + 1
  BY <1>1, <1>2, Appended
<1> HIDE DEF s
<1>4. \A i \in 1 .. Len(s) : place[s[i].request] = PlaceOf(s[i].kind)
  BY <1>1, <1>3 DEF Fits
<1>5. \A i, j \in 1 .. Len(s) : s[i].request = s[j].request => i = j
  BY <1>1, <1>3 DEF Fits, Free
<1>6. Fits(s, place)
  BY <1>3, <1>4, <1>5 DEF Fits
<1> QED
  BY <1>6 DEF s, e

LEMMA AppendFree ==
    ASSUME NEW js \in Seq(JobSet), NEW kind \in JobKinds, NEW r \in Request, NEW p,
           Free(js, p), p # r
    PROVE  Free(Append(js, Job(kind, r)), p)
<1> DEFINE e == Job(kind, r)
           s == Append(js, e)
<1>1. e \in JobSet /\ e.request = r
  BY JobIsInJobSet
<1> HIDE DEF e
<1>2. /\ \A i \in 1 .. Len(js) : s[i] = js[i]
      /\ s[Len(js) + 1] = e
      /\ \A i \in 1 .. Len(s) : i \in 1 .. Len(js) \/ i = Len(js) + 1
  BY <1>1, Appended
<1> HIDE DEF s
<1>3. Free(s, p)
  BY <1>1, <1>2 DEF Free
<1> QED
  BY <1>3 DEF s, e

LEMMA TailFits ==
    ASSUME NEW js, NEW place, Fits(js, place), js # <<>>
    PROVE  /\ Fits(Tail(js), place)
           /\ Head(js) \in JobSet
           /\ place[Head(js).request] = PlaceOf(Head(js).kind)
           /\ Free(Tail(js), Head(js).request)
<1> DEFINE t == Tail(js)
<1>1. js \in Seq(JobSet)
  BY DEF Fits
<1>2. /\ t \in Seq(JobSet)
      /\ Head(js) \in JobSet /\ Head(js) = js[1] /\ 1 \in 1 .. Len(js)
      /\ \A i \in 1 .. Len(t) :
            t[i] = js[i + 1] /\ i + 1 \in 1 .. Len(js) /\ i + 1 # 1 /\ i \in Nat
  BY <1>1, Tailed
<1> HIDE DEF t
<1>3. \A i \in 1 .. Len(t) : place[t[i].request] = PlaceOf(t[i].kind)
  BY <1>2 DEF Fits
<1>4. ASSUME NEW i \in 1 .. Len(t), NEW j \in 1 .. Len(t), t[i].request = t[j].request
      PROVE  i = j
  <2>1. i + 1 = j + 1
    BY <1>2, <1>4 DEF Fits
  <2> QED
    BY <1>2, <2>1
<1>5. Free(t, Head(js).request)
  BY <1>2 DEF Fits, Free
<1>6. Fits(t, place) /\ place[Head(js).request] = PlaceOf(Head(js).kind)
  BY <1>2, <1>3, <1>4 DEF Fits
<1> QED
  BY <1>2, <1>5, <1>6 DEF t

\* Jobs of requests that did not move still fit.
LEMMA MoveFits ==
    ASSUME NEW js, NEW place, NEW new, Fits(js, place),
           \A p \in Request : new[p] = place[p] \/ Free(js, p)
    PROVE  Fits(js, new)
<1>1. js \in Seq(JobSet)
  BY DEF Fits
<1>2. ASSUME NEW i \in 1 .. Len(js)
      PROVE  new[js[i].request] = place[js[i].request]
  <2>1. js[i] \in JobSet
    BY <1>1
  <2>2. js[i].request \in Request
    BY <2>1 DEF JobSet
  <2> QED
    BY <2>2 DEF Free
<1> QED
  BY <1>2 DEF Fits

LEMMA FreeByPlace ==
    ASSUME NEW js, NEW place, NEW r, Fits(js, place),
           place[r] \notin {"woken", "returning", "released"}
    PROVE  Free(js, r)
BY DEF Fits, Free, PlaceOf

LEMMA AppendWaits ==
    ASSUME NEW q, NEW place, NEW r \in Request, NEW new, Waits(q, place),
           place[r] # "waiting", new[r] = "waiting",
           \A p \in Request \ {r} : new[p] = place[p]
    PROVE  Waits(Append(q, r), new)
<1> DEFINE s == Append(q, r)
<1>1. q \in Seq(Request)
  BY DEF Waits
<1>2. /\ s \in Seq(Request)
      /\ \A i \in 1 .. Len(q) : s[i] = q[i]
      /\ s[Len(q) + 1] = r
      /\ \A i \in 1 .. Len(s) : i \in 1 .. Len(q) \/ i = Len(q) + 1
  BY <1>1, Appended
<1>3. \A i \in 1 .. Len(q) : q[i] \in Request /\ q[i] # r
  BY <1>1 DEF Waits
<1> HIDE DEF s
<1>4. \A i \in 1 .. Len(s) : new[s[i]] = "waiting"
  BY <1>2, <1>3 DEF Waits
<1>5. \A i, j \in 1 .. Len(s) : s[i] = s[j] => i = j
  BY <1>2, <1>3 DEF Waits
<1>6. Waits(s, new)
  BY <1>2, <1>4, <1>5 DEF Waits
<1> QED
  BY <1>6 DEF s

LEMMA TailWaits ==
    ASSUME NEW q, NEW place, Waits(q, place), q # <<>>
    PROVE  /\ Waits(Tail(q), place)
           /\ Head(q) \in Request
           /\ place[Head(q)] = "waiting"
           /\ \A i \in 1 .. Len(Tail(q)) : Tail(q)[i] # Head(q)
<1> DEFINE t == Tail(q)
<1>1. q \in Seq(Request)
  BY DEF Waits
<1>2. /\ t \in Seq(Request)
      /\ Head(q) \in Request /\ Head(q) = q[1] /\ 1 \in 1 .. Len(q)
      /\ \A i \in 1 .. Len(t) :
            t[i] = q[i + 1] /\ i + 1 \in 1 .. Len(q) /\ i + 1 # 1 /\ i \in Nat
  BY <1>1, Tailed
<1> HIDE DEF t
<1>3. \A i \in 1 .. Len(t) : place[t[i]] = "waiting" /\ t[i] # Head(q)
  BY <1>2 DEF Waits
<1>4. ASSUME NEW i \in 1 .. Len(t), NEW j \in 1 .. Len(t), t[i] = t[j]
      PROVE  i = j
  <2>1. i + 1 = j + 1
    BY <1>2, <1>4 DEF Waits
  <2> QED
    BY <1>2, <2>1
<1>5. Waits(t, place) /\ place[Head(q)] = "waiting"
  BY <1>2, <1>3, <1>4 DEF Waits
<1> QED
  BY <1>2, <1>3, <1>5 DEF t

LEMMA MoveWaits ==
    ASSUME NEW q, NEW place, NEW new, Waits(q, place),
           \A i \in 1 .. Len(q) : new[q[i]] = place[q[i]]
    PROVE  Waits(q, new)
BY DEF Waits

LEMMA AppendNotFree ==
    ASSUME NEW js \in Seq(JobSet), NEW kind \in JobKinds, NEW r \in Request
    PROVE  /\ ~Free(Append(js, Job(kind, r)), r)
           /\ \A p \in Request : ~Free(js, p) => ~Free(Append(js, Job(kind, r)), p)
<1> DEFINE e == Job(kind, r)
           s == Append(js, e)
<1>1. e \in JobSet /\ e.request = r
  BY JobIsInJobSet
<1> HIDE DEF e
<1>2. /\ \A i \in 1 .. Len(js) : s[i] = js[i]
      /\ s[Len(js) + 1] = e
      /\ Len(s) = Len(js) + 1 /\ Len(js) \in Nat
  BY <1>1, Appended
<1>3. Len(js) + 1 \in 1 .. Len(s) /\ \A i \in 1 .. Len(js) : i \in 1 .. Len(s)
  BY <1>2
<1> HIDE DEF s
<1>4. ~Free(s, r) /\ \A p \in Request : ~Free(js, p) => ~Free(s, p)
  BY <1>1, <1>2, <1>3 DEF Free
<1> QED
  BY <1>4 DEF s, e

LEMMA TailNotFree ==
    ASSUME NEW js \in Seq(JobSet), js # <<>>, NEW p, ~Free(js, p), Head(js).request # p
    PROVE  ~Free(Tail(js), p)
<1>1. PICK i \in 1 .. Len(js) : js[i].request = p
  BY DEF Free
<1>2. i \in Nat /\ i > 1 /\ i - 1 \in 1 .. Len(Tail(js)) /\ Tail(js)[i - 1] = js[i]
  BY <1>1
<1> QED
  BY <1>1, <1>2 DEF Free

-----------------------------------------------------------------------------
(* The inductive invariant: the counter is the number of running tasks, and a *)
(* queue is only there beside enough requests that hold a slot or have been   *)
(* promised one.  Whoever has been promised one has its continuation ready.   *)

Holders == {r \in Request : at[r] \in {"pool", "returning", "woken"}}

Promised(js, place) == \A p \in Request : place[p] = "woken" => ~Free(js, p)

SlotInv ==
    /\ PlaceInv
    /\ Promised(jobs, at)
    /\ IsFiniteSet(Running) /\ activeHashes = Cardinality(Running)
    /\ IsFiniteSet(Holders)
    /\ hashQueue # <<>> => Cardinality(Holders) >= MAX_CONCURRENT_HASHES

LEMMA SlotInit == Init => SlotInv
<1> SUFFICES ASSUME Init PROVE SlotInv
  OBVIOUS
<1>1. PlaceInv /\ Promised(jobs, at)
  BY DEF Init, PlaceInv, Promised, Fits, Waits, Places
<1>2. Running = {} /\ Holders = {}
  BY DEF Init, Running, Holders
<1>3. activeHashes = 0 /\ hashQueue = <<>>
  BY DEF Init
<1> QED
  BY <1>1, <1>2, <1>3, FS_EmptySet DEF SlotInv

\* A request, in neither queue, starts its task with the jobs js left.
LEMMA StartKeeps ==
    ASSUME at \in [Request -> Places],
           NEW r \in Request, at[r] \in {"idle", "woken", "released"},
           NEW js, Fits(js, at), Free(js, r),
           \A p \in Request \ {r} : at[p] = "woken" => ~Free(js, p),
           Waits(hashQueue, at), outcomes \in OutcomeSets,
           NEW tasks, StartTask(r, tasks, js),
           hashing' \subseteq Request, outcomes' = outcomes, hashQueue' = hashQueue
    PROVE  /\ PlaceInv' /\ Promised(jobs, at)'
           /\ r \notin Running
           /\ Running' = Running \cup {r} /\ Holders' = Holders \cup {r}
<1>0. js \in Seq(JobSet)
  BY DEF Fits
<1>1. ASSUME NEW place \in {"pool", "returning"}, at' = [at EXCEPT ![r] = place]
      PROVE  /\ at' \in [Request -> Places] /\ at'[r] = place
             /\ Fits(js, at')
             /\ Waits(hashQueue', at')
             /\ Promised(js, at')
             /\ Running' = Running \cup {r} /\ Holders' = Holders \cup {r}
  <2>1. at' \in [Request -> Places] /\ at'[r] = place
    BY <1>1 DEF Places
  <2>2. \A p \in Request \ {r} : at'[p] = at[p]
    BY <1>1
  <2>3. Fits(js, at')
    <3>1. \A p \in Request : at'[p] = at[p] \/ Free(js, p)
      BY <2>2
    <3> QED
      BY <3>1, MoveFits
  <2>4. \A i \in 1 .. Len(hashQueue) : hashQueue[i] \in Request \ {r}
    BY DEF Waits
  <2>5. Waits(hashQueue, at')
    BY <2>2, <2>4, MoveWaits
  <2>6. Promised(js, at')
    BY <1>1, <2>1, <2>2 DEF Promised
  <2>7. Running' = Running \cup {r} /\ Holders' = Holders \cup {r}
    BY <1>1, <2>1, <2>2 DEF Running, Holders
  <2> QED
    BY <2>1, <2>3, <2>5, <2>6, <2>7
<1>2. r \notin Running
  BY DEF Running
<1>3. CASE jobs' = js /\ at' = [at EXCEPT ![r] = "pool"]
  BY <1>1, <1>2, <1>3 DEF PlaceInv
<1>4. ASSUME NEW kind \in {"settled", "rejected"},
             jobs' = Append(js, Job(kind, r)), at' = [at EXCEPT ![r] = "returning"]
      PROVE  PlaceInv' /\ Promised(jobs, at)'
  <2>1. kind \in JobKinds /\ PlaceOf(kind) = "returning"
    BY <1>4 DEF JobKinds, PlaceOf
  <2>2. at'[r] = "returning" /\ Fits(js, at') /\ Promised(js, at')
        /\ Waits(hashQueue', at') /\ at' \in [Request -> Places]
    BY <1>1, <1>4
  <2>3. Fits(jobs', at')
    BY <1>4, <2>1, <2>2, AppendFits
  <2>4. Promised(jobs', at')
    BY <1>0, <1>4, <2>1, <2>2, AppendNotFree DEF Promised
  <2> QED
    BY <2>2, <2>3, <2>4 DEF PlaceInv
<1>5. CASE jobs' = Append(js, Job("settled", r)) /\ at' = [at EXCEPT ![r] = "returning"]
  BY <1>1, <1>2, <1>4, <1>5
<1>6. CASE jobs' = Append(js, Job("rejected", r)) /\ at' = [at EXCEPT ![r] = "returning"]
  BY <1>1, <1>2, <1>4, <1>6
<1> QED
  BY <1>3, <1>5, <1>6 DEF StartTask

\* A request that finds every slot taken joins the queue.
LEMMA QueueKeeps ==
    ASSUME at \in [Request -> Places],
           NEW r \in Request, at[r] \in {"idle", "released"},
           NEW js, Fits(js, at), Free(js, r), Promised(js, at),
           Waits(hashQueue, at), outcomes \in OutcomeSets,
           hashQueue' = Append(hashQueue, r),
           at' = [at EXCEPT ![r] = "waiting"], jobs' = js,
           hashing' \subseteq Request, outcomes' = outcomes
    PROVE  /\ PlaceInv' /\ Promised(jobs, at)'
           /\ Running' = Running /\ Holders' = Holders
<1>1. at' \in [Request -> Places] /\ at'[r] = "waiting"
  BY DEF Places
<1>2. \A p \in Request \ {r} : at'[p] = at[p]
  OBVIOUS
<1>3. Fits(js, at')
  <2>1. \A p \in Request : at'[p] = at[p] \/ Free(js, p)
    BY <1>2
  <2> QED
    BY <2>1, MoveFits
<1>4. Waits(hashQueue', at')
  BY <1>1, <1>2, AppendWaits
<1>5. Promised(js, at')
  BY <1>1, <1>2 DEF Promised
<1>6. Running' = Running /\ Holders' = Holders
  BY <1>1, <1>2 DEF Running, Holders
<1> QED
  BY <1>1, <1>3, <1>4, <1>5, <1>6 DEF PlaceInv

\* A job that hands on to the next job of the same request moves nobody.
LEMMA HandOnKeeps ==
    ASSUME SlotInv, NEW r \in Request, NEW kind \in JobKinds, NEW next \in JobKinds,
           Runs(kind, r), kind # "woken", PlaceOf(next) = PlaceOf(kind),
           jobs' = Append(Tail(jobs), Job(next, r)),
           UNCHANGED <<activeHashes, hashQueue, at, hashing, outcomes>>
    PROVE  SlotInv'
<1>0. jobs # <<>> /\ Head(jobs) = Job(kind, r) /\ Fits(jobs, at) /\ Promised(jobs, at)
  BY DEF Runs, SlotInv, PlaceInv
<1>1. Head(jobs).request = r /\ Head(jobs).kind = kind
  BY <1>0, JobIsInJobSet
<1>2. Fits(Tail(jobs), at) /\ at[r] = PlaceOf(next) /\ Free(Tail(jobs), r)
  BY <1>0, <1>1, TailFits
<1>3. Fits(jobs', at)
  BY <1>2, AppendFits
<1>4. jobs \in Seq(JobSet) /\ Tail(jobs) \in Seq(JobSet)
  BY <1>0, <1>2 DEF Fits
<1>5. ASSUME NEW p \in Request, at[p] = "woken"
      PROVE  ~Free(jobs', p)
  <2>1. p # r
    BY <1>1, <1>2, <1>5 DEF PlaceOf, JobKinds
  <2>2. ~Free(Tail(jobs), p)
    BY <1>0, <1>1, <1>4, <1>5, <2>1, TailNotFree DEF Promised
  <2> QED
    BY <1>4, <2>2, AppendNotFree
<1>6. PlaceInv' /\ Promised(jobs, at)'
  BY <1>3, <1>5 DEF SlotInv, PlaceInv, Promised
<1>7. Running' = Running /\ Holders' = Holders
  BY DEF Running, Holders
<1> QED
  BY <1>6, <1>7 DEF SlotInv

\* What TailFits says of the job that runs now.
LEMMA RunsJob ==
    ASSUME SlotInv, NEW r \in Request, NEW kind \in JobKinds, Runs(kind, r)
    PROVE  /\ Fits(Tail(jobs), at) /\ Tail(jobs) \in Seq(JobSet)
           /\ at[r] = PlaceOf(kind) /\ Free(Tail(jobs), r)
           /\ \A p \in Request \ {r} : at[p] = "woken" => ~Free(Tail(jobs), p)
<1>0. jobs # <<>> /\ Head(jobs) = Job(kind, r) /\ Fits(jobs, at) /\ Promised(jobs, at)
  BY DEF Runs, SlotInv, PlaceInv
<1>1. Head(jobs).request = r /\ Head(jobs).kind = kind
  BY <1>0, JobIsInJobSet
<1>2. Fits(Tail(jobs), at) /\ at[r] = PlaceOf(kind) /\ Free(Tail(jobs), r)
  BY <1>0, <1>1, TailFits
<1>3. jobs \in Seq(JobSet) /\ Tail(jobs) \in Seq(JobSet)
  BY <1>0, <1>2 DEF Fits
<1>4. ASSUME NEW p \in Request \ {r}, at[p] = "woken"
      PROVE  ~Free(Tail(jobs), p)
  BY <1>0, <1>1, <1>3, <1>4, TailNotFree DEF Promised
<1> QED
  BY <1>2, <1>3, <1>4

\* Counting: a request that starts to run is one more, and a holder.
LEMMA StartCounts ==
    ASSUME SlotInv, NEW r \in Request, r \notin Running,
           Running' = Running \cup {r}, Holders' = Holders \cup {r},
           activeHashes' = activeHashes + 1, hashQueue' = hashQueue,
           PlaceInv', Promised(jobs, at)'
    PROVE  SlotInv'
<1>1. /\ IsFiniteSet(Running) /\ activeHashes = Cardinality(Running)
      /\ IsFiniteSet(Holders)
      /\ hashQueue # <<>> => Cardinality(Holders) >= MAX_CONCURRENT_HASHES
  BY DEF SlotInv
<1>2. IsFiniteSet(Running') /\ activeHashes' = Cardinality(Running')
  <2>1. /\ IsFiniteSet(Running \cup {r})
        /\ Cardinality(Running \cup {r}) = Cardinality(Running) + 1
    BY <1>1, FS_AddElement
  <2> QED
    BY <1>1, <2>1
<1>3. IsFiniteSet(Holders') /\ Cardinality(Holders) \in Nat
      /\ Cardinality(Holders') >= Cardinality(Holders)
  <2>1. /\ IsFiniteSet(Holders \cup {r})
        /\ Cardinality(Holders \cup {r}) =
              IF r \in Holders THEN Cardinality(Holders) ELSE Cardinality(Holders) + 1
    BY <1>1, FS_AddElement
  <2>2. Cardinality(Holders) \in Nat
    BY <1>1, FS_CardinalityType
  <2> QED
    BY <2>1, <2>2
<1>4. Cardinality(Holders') \in Nat /\ MAX_CONCURRENT_HASHES \in Nat
  BY <1>3, FS_CardinalityType, HashSlotsAssumption
<1> QED
  BY <1>1, <1>2, <1>3, <1>4 DEF SlotInv

\* The part of withHashSlot before its first await, for a request in neither queue.
LEMMA WithHashSlotKeeps ==
    ASSUME SlotInv, NEW r \in Request, at[r] \in {"idle", "released"},
           NEW js, Fits(js, at), Free(js, r), Promised(js, at),
           NEW tasks, WithHashSlot(r, tasks, js),
           hashing' \subseteq Request, outcomes' = outcomes
    PROVE  SlotInv'
<1>0. /\ at \in [Request -> Places] /\ outcomes \in OutcomeSets /\ Waits(hashQueue, at)
      /\ \A p \in Request \ {r} : at[p] = "woken" => ~Free(js, p)
  BY DEF SlotInv, PlaceInv, Promised
<1>1. CASE activeHashes >= MAX_CONCURRENT_HASHES
  <2>1. /\ hashQueue' = Append(hashQueue, r)
        /\ at' = [at EXCEPT ![r] = "waiting"]
        /\ jobs' = js /\ activeHashes' = activeHashes
    BY <1>1 DEF WithHashSlot
  <2>2. PlaceInv' /\ Promised(jobs, at)' /\ Running' = Running /\ Holders' = Holders
    BY <1>0, <2>1, QueueKeeps
  <2>3. Running \subseteq Holders
    BY DEF Running, Holders
  <2>4. Cardinality(Holders) >= activeHashes /\ Cardinality(Holders) \in Nat
        /\ activeHashes \in Nat
    BY <2>3, FS_Subset, FS_CardinalityType DEF SlotInv
  <2>5. Cardinality(Holders) >= MAX_CONCURRENT_HASHES
    BY <1>1, <2>4, HashSlotsAssumption
  <2> QED
    BY <2>1, <2>2, <2>5 DEF SlotInv
<1>2. CASE ~(activeHashes >= MAX_CONCURRENT_HASHES)
  <2>1. activeHashes' = activeHashes + 1 /\ StartTask(r, tasks, js)
        /\ hashQueue' = hashQueue
    BY <1>2 DEF WithHashSlot
  <2>2. /\ PlaceInv' /\ Promised(jobs, at)' /\ r \notin Running
        /\ Running' = Running \cup {r} /\ Holders' = Holders \cup {r}
    BY <1>0, <2>1, StartKeeps
  <2> QED
    BY <2>1, <2>2, StartCounts
<1> QED
  BY <1>1, <1>2

-----------------------------------------------------------------------------
(* One lemma per action *)

LEMMA ArriveKeeps == ASSUME SlotInv, NEW r \in Request, Arrive(r) PROVE SlotInv'
<1>1. /\ jobs = <<>> /\ at[r] = "idle" /\ WithHashSlot(r, outcomes, <<>>)
      /\ hashing' = hashing /\ outcomes' = outcomes
  BY DEF Arrive
<1>2. Fits(<<>>, at) /\ Promised(<<>>, at) /\ hashing \subseteq Request
  BY <1>1 DEF SlotInv, PlaceInv
<1>3. Free(<<>>, r)
  BY <1>1, <1>2, FreeByPlace
<1> QED
  BY <1>1, <1>2, <1>3, WithHashSlotKeeps

LEMMA HashReturnsKeeps ==
    ASSUME SlotInv, NEW r \in Request, HashReturns(r) PROVE SlotInv'
<1>0. /\ at \in [Request -> Places] /\ Fits(jobs, at) /\ Waits(hashQueue, at)
      /\ Promised(jobs, at)
  BY DEF SlotInv, PlaceInv
<1>1. /\ jobs = <<>> /\ at[r] = "pool" /\ at' = [at EXCEPT ![r] = "returning"]
      /\ jobs' = <<Job("settled", r)>>
      /\ UNCHANGED <<activeHashes, hashQueue, hashing, outcomes>>
  BY DEF HashReturns
<1>2. /\ at' \in [Request -> Places] /\ at'[r] = "returning"
      /\ \A p \in Request \ {r} : at'[p] = at[p]
  BY <1>0, <1>1 DEF Places
<1>3. Fits(jobs, at') /\ Free(jobs, r) /\ jobs \in Seq(JobSet)
  <2>1. Free(jobs, r)
    BY <1>0, <1>1, FreeByPlace
  <2>2. \A p \in Request : at'[p] = at[p] \/ Free(jobs, p)
    BY <1>2, <2>1
  <2> QED
    BY <1>0, <2>1, <2>2, MoveFits DEF Fits
<1>4. "settled" \in JobKinds /\ PlaceOf("settled") = "returning"
  BY DEF JobKinds, PlaceOf
<1>5. jobs' = Append(jobs, Job("settled", r))
  BY <1>1
<1>6. Fits(jobs', at')
  BY <1>2, <1>3, <1>4, <1>5, AppendFits
<1>7. Waits(hashQueue, at')
  <2>1. \A i \in 1 .. Len(hashQueue) : hashQueue[i] \in Request \ {r}
    BY <1>0, <1>1 DEF Waits
  <2> QED
    BY <1>0, <1>2, <2>1, MoveWaits
<1>8. Promised(jobs', at')
  BY <1>0, <1>2, <1>3, <1>4, <1>5, AppendNotFree DEF Promised
<1>9. Running' = Running /\ Holders' = Holders
  BY <1>1, <1>2 DEF Running, Holders
<1> QED
  BY <1>1, <1>2, <1>6, <1>7, <1>8, <1>9 DEF SlotInv, PlaceInv

LEMMA WokenKeeps == ASSUME SlotInv, NEW r \in Request, Woken(r) PROVE SlotInv'
<1>1. /\ Runs("woken", r) /\ activeHashes' = activeHashes + 1
      /\ StartTask(r, Tasks(r), Tail(jobs))
      /\ hashQueue' = hashQueue /\ hashing' = hashing /\ outcomes' = outcomes
  BY DEF Woken, TakeSlot
<1>2. "woken" \in JobKinds /\ PlaceOf("woken") = "woken"
  BY DEF JobKinds, PlaceOf
<1>3. /\ Fits(Tail(jobs), at) /\ at[r] = "woken" /\ Free(Tail(jobs), r)
      /\ \A p \in Request \ {r} : at[p] = "woken" => ~Free(Tail(jobs), p)
  BY <1>1, <1>2, RunsJob
<1>4. /\ at \in [Request -> Places] /\ Waits(hashQueue, at)
      /\ hashing' \subseteq Request /\ outcomes \in OutcomeSets
  BY <1>1 DEF SlotInv, PlaceInv
<1>5. /\ PlaceInv' /\ Promised(jobs, at)' /\ r \notin Running
      /\ Running' = Running \cup {r} /\ Holders' = Holders \cup {r}
  BY <1>1, <1>3, <1>4, StartKeeps
<1> QED
  BY <1>1, <1>5, StartCounts

LEMMA RejectedKeeps == ASSUME SlotInv, NEW r \in Request, Rejected(r) PROVE SlotInv'
<1>1. /\ "rejected" \in JobKinds /\ "settled" \in JobKinds
      /\ PlaceOf("settled") = PlaceOf("rejected")
  BY DEF JobKinds, PlaceOf
<1> QED
  BY <1>1, HandOnKeeps DEF Rejected

LEMMA VerifiedKeeps == ASSUME SlotInv, NEW r \in Request, Verified(r) PROVE SlotInv'
<1>1. /\ "verified" \in JobKinds /\ "resumed" \in JobKinds
      /\ PlaceOf("resumed") = PlaceOf("verified")
  BY DEF JobKinds, PlaceOf
<1> QED
  BY <1>1, HandOnKeeps DEF Verified

LEMMA ResumedKeeps == ASSUME SlotInv, NEW r \in Request, Resumed(r) PROVE SlotInv'
<1>0. /\ Runs("resumed", r) /\ "resumed" \in JobKinds /\ PlaceOf("resumed") = "released"
      /\ outcomes' = outcomes
  BY DEF Resumed, JobKinds, PlaceOf
<1>1. /\ Fits(Tail(jobs), at) /\ at[r] = "released" /\ Free(Tail(jobs), r)
      /\ \A p \in Request \ {r} : at[p] = "woken" => ~Free(Tail(jobs), p)
  BY <1>0, RunsJob
<1>2. /\ at \in [Request -> Places] /\ Waits(hashQueue, at)
      /\ hashing \subseteq Request /\ outcomes \in OutcomeSets
  BY DEF SlotInv, PlaceInv
<1>3. CASE /\ at' = [at EXCEPT ![r] = "done"]
           /\ jobs' = Tail(jobs)
           /\ UNCHANGED <<activeHashes, hashQueue, hashing>>
  <2>1. /\ at' \in [Request -> Places] /\ at'[r] = "done"
        /\ \A p \in Request \ {r} : at'[p] = at[p]
    BY <1>2, <1>3 DEF Places
  <2>2. Fits(jobs', at')
    <3>1. \A p \in Request : at'[p] = at[p] \/ Free(Tail(jobs), p)
      BY <1>1, <2>1
    <3>2. Fits(Tail(jobs), at')
      BY <1>1, <3>1, MoveFits
    <3> QED
      BY <1>3, <3>2
  <2>3. Waits(hashQueue, at')
    <3>1. \A i \in 1 .. Len(hashQueue) : hashQueue[i] \in Request \ {r}
      BY <1>1, <1>2 DEF Waits
    <3> QED
      BY <1>2, <2>1, <3>1, MoveWaits
  <2>4. Promised(jobs', at')
    BY <1>1, <1>3, <2>1 DEF Promised
  <2>5. Running' = Running /\ Holders' = Holders
    BY <1>1, <2>1 DEF Running, Holders
  <2> QED
    BY <1>0, <1>2, <1>3, <2>1, <2>2, <2>3, <2>4, <2>5 DEF SlotInv, PlaceInv
<1>4. CASE /\ r \notin hashing
           /\ hashing' = hashing \cup {r}
           /\ WithHashSlot(r, {"hash"}, Tail(jobs))
  <2>1. hashing' \subseteq Request /\ Promised(Tail(jobs), at)
    BY <1>1, <1>2, <1>4 DEF Promised
  <2> QED
    BY <1>0, <1>1, <1>4, <2>1, WithHashSlotKeeps
<1> QED
  BY <1>3, <1>4 DEF Resumed

LEMMA SettledKeeps == ASSUME SlotInv, NEW r \in Request, Settled(r) PROVE SlotInv'
<1> DEFINE js == Tail(jobs)
<1>0. /\ Runs("settled", r) /\ activeHashes' = activeHashes - 1 /\ WakeFirst(r, js)
      /\ UNCHANGED <<hashing, outcomes>>
  BY DEF Settled
<1>1. /\ "settled" \in JobKinds /\ "woken" \in JobKinds /\ "verified" \in JobKinds
      /\ PlaceOf("settled") = "returning" /\ PlaceOf("woken") = "woken"
      /\ PlaceOf("verified") = "released"
  BY DEF JobKinds, PlaceOf
<1>2. /\ Fits(js, at) /\ js \in Seq(JobSet) /\ at[r] = "returning" /\ Free(js, r)
      /\ \A p \in Request \ {r} : at[p] = "woken" => ~Free(js, p)
  BY <1>0, <1>1, RunsJob
<1>3. /\ at \in [Request -> Places] /\ Waits(hashQueue, at)
      /\ hashing \subseteq Request /\ outcomes \in OutcomeSets
      /\ IsFiniteSet(Running) /\ activeHashes = Cardinality(Running)
      /\ IsFiniteSet(Holders)
      /\ hashQueue # <<>> => Cardinality(Holders) >= MAX_CONCURRENT_HASHES
  BY DEF SlotInv, PlaceInv
<1> HIDE DEF js
<1>4. \A i \in 1 .. Len(hashQueue) : hashQueue[i] \in Request \ {r}
  BY <1>2, <1>3 DEF Waits
<1>5. IsFiniteSet(Running \ {r}) /\ Cardinality(Running \ {r}) = Cardinality(Running) - 1
  <2>1. r \in Running
    BY <1>2 DEF Running
  <2> QED
    BY <1>3, <2>1, FS_RemoveElement
<1>6. IsFiniteSet(Holders \ {r}) /\ Cardinality(Holders \ {r}) = Cardinality(Holders) - 1
  <2>1. r \in Holders
    BY <1>2 DEF Holders
  <2> QED
    BY <1>3, <2>1, FS_RemoveElement
<1>7. CASE hashQueue = <<>>
  <2>1. /\ at' = [at EXCEPT ![r] = "released"]
        /\ jobs' = Append(js, Job("verified", r))
        /\ hashQueue' = hashQueue
    BY <1>0, <1>7 DEF WakeFirst
  <2>2. /\ at' \in [Request -> Places] /\ at'[r] = "released"
        /\ \A p \in Request \ {r} : at'[p] = at[p]
    BY <1>3, <2>1 DEF Places
  <2>3. Fits(js, at')
    <3>1. \A p \in Request : at'[p] = at[p] \/ Free(js, p)
      BY <1>2, <2>2
    <3> QED
      BY <1>2, <3>1, MoveFits
  <2>4. Fits(jobs', at')
    BY <1>1, <1>2, <2>1, <2>2, <2>3, AppendFits
  <2>5. Promised(jobs', at')
    BY <1>1, <1>2, <2>1, <2>2, AppendNotFree DEF Promised
  <2>6. Waits(hashQueue', at')
    <3>1. \A i \in 1 .. Len(hashQueue) : at'[hashQueue[i]] = at[hashQueue[i]]
      BY <1>4, <2>2
    <3>2. Waits(hashQueue, at')
      BY <1>3, <3>1, MoveWaits
    <3> QED
      BY <2>1, <3>2
  <2>7. Running' = Running \ {r} /\ Holders' = Holders \ {r}
    BY <2>2 DEF Running, Holders
  <2>8. PlaceInv'
    BY <1>0, <1>3, <2>2, <2>4, <2>6 DEF PlaceInv
  <2>9. IsFiniteSet(Running') /\ activeHashes' = Cardinality(Running')
    BY <1>0, <1>3, <1>5, <2>7
  <2>10. IsFiniteSet(Holders')
    BY <1>6, <2>7
  <2> QED
    BY <1>7, <2>1, <2>5, <2>8, <2>9, <2>10 DEF SlotInv
<1>8. CASE hashQueue # <<>>
  <2> DEFINE h == Head(hashQueue)
             mid == Append(js, Job("woken", h))
  <2>1. /\ at' = [at EXCEPT ![r] = "released", ![h] = "woken"]
        /\ jobs' = js \o <<Job("woken", h), Job("verified", r)>>
        /\ hashQueue' = Tail(hashQueue)
    BY <1>0, <1>8 DEF WakeFirst
  <2>2. /\ Waits(hashQueue', at) /\ h \in Request /\ at[h] = "waiting"
        /\ \A i \in 1 .. Len(hashQueue') : hashQueue'[i] # h
    BY <1>3, <1>8, <2>1, TailWaits
  <2>3. h # r
    BY <1>2, <2>2
  <2>4. Job("woken", h) \in JobSet /\ Job("verified", r) \in JobSet
    BY <1>1, <2>2, JobIsInJobSet
  <2>5. jobs' = Append(mid, Job("verified", r))
    BY <1>2, <2>1, <2>4
  <2> HIDE DEF h
  <2>6. /\ at' \in [Request -> Places] /\ at'[r] = "released" /\ at'[h] = "woken"
        /\ \A p \in Request \ {r, h} : at'[p] = at[p]
    BY <1>3, <2>1, <2>2, <2>3 DEF Places
  <2>7. Free(js, h)
    BY <1>2, <2>2, FreeByPlace
  <2>8. Fits(js, at')
    <3>1. \A p \in Request : at'[p] = at[p] \/ Free(js, p)
      BY <1>2, <2>6, <2>7
    <3> QED
      BY <1>2, <3>1, MoveFits
  <2>9. Fits(mid, at') /\ Free(mid, r)
    BY <1>1, <1>2, <2>2, <2>3, <2>6, <2>7, <2>8, AppendFits, AppendFree
  <2>10. mid \in Seq(JobSet)
    BY <2>9 DEF Fits
  <2>11. ~Free(mid, h) /\ \A p \in Request : ~Free(js, p) => ~Free(mid, p)
    BY <1>1, <1>2, <2>2, AppendNotFree
  <2> HIDE DEF mid
  <2>12. Fits(jobs', at')
    BY <1>1, <2>5, <2>6, <2>9, AppendFits
  <2>13. Promised(jobs', at')
    <3>1. \A p \in Request : ~Free(mid, p) => ~Free(jobs', p)
      BY <1>1, <2>5, <2>10, AppendNotFree
    <3> QED
      BY <1>2, <2>6, <2>11, <3>1 DEF Promised
  <2>14. Waits(hashQueue', at')
    <3>1. \A i \in 1 .. Len(hashQueue') : hashQueue'[i] \in Request \ {r, h}
      BY <1>2, <2>2 DEF Waits
    <3> QED
      BY <2>2, <2>6, <3>1, MoveWaits
  <2>15. Running' = Running \ {r}
    BY <2>2, <2>3, <2>6 DEF Running
  <2>16. Holders' = (Holders \ {r}) \cup {h} /\ h \notin Holders \ {r}
    BY <2>2, <2>3, <2>6 DEF Holders
  <2>17. PlaceInv'
    BY <1>0, <1>3, <2>6, <2>12, <2>14 DEF PlaceInv
  <2>18. IsFiniteSet(Running') /\ activeHashes' = Cardinality(Running')
    BY <1>0, <1>3, <1>5, <2>15
  <2>19. IsFiniteSet(Holders') /\ Cardinality(Holders') = Cardinality(Holders)
    <3>1. /\ IsFiniteSet((Holders \ {r}) \cup {h})
          /\ Cardinality((Holders \ {r}) \cup {h}) = Cardinality(Holders \ {r}) + 1
      BY <1>6, <2>16, FS_AddElement
    <3>2. Cardinality(Holders) \in Nat
      BY <1>3, FS_CardinalityType
    <3>3. Cardinality(Holders') = Cardinality(Holders \ {r}) + 1
      BY <2>16, <3>1
    <3> QED
      BY <1>6, <2>16, <3>1, <3>2, <3>3
  <2> QED
    BY <1>3, <1>8, <2>13, <2>17, <2>18, <2>19 DEF SlotInv
<1> QED
  BY <1>7, <1>8

LEMMA SlotNext == SlotInv /\ [Next]_vars => SlotInv'
<1> SUFFICES ASSUME SlotInv, [Next]_vars PROVE SlotInv'
  OBVIOUS
<1>1. CASE Next
  <2>1. PICK r \in Request : Arrive(r) \/ HashReturns(r) \/ Continue(r)
    BY <1>1 DEF Next
  <2> QED
    BY <2>1, ArriveKeeps, HashReturnsKeeps, WokenKeeps, RejectedKeeps, SettledKeeps,
       VerifiedKeeps, ResumedKeeps DEF Continue
<1>2. CASE UNCHANGED vars
  BY <1>2 DEF vars, SlotInv, PlaceInv, Running, Holders
<1> QED
  BY <1>1, <1>2

-----------------------------------------------------------------------------
(* The theorems *)

\* Every variable holds what withHashSlot puts there; above all the counter never
\* goes below zero.
THEOREM TypeCorrect == SafeSpec => []TypeOK
<1>1. SlotInv => TypeOK
  BY FS_CardinalityType DEF SlotInv, PlaceInv, Fits, Waits, TypeOK, JobSet
<1> QED
  BY <1>1, SlotInit, SlotNext, PTL DEF SafeSpec

\* Whatever verify tasks do (wait for their KDF, return at once, throw), activeHashes
\* is the number of tasks that run: the finally block gives back each slot once.
THEOREM SlotsAreCounted == SafeSpec => []SlotsCounted
<1>1. SlotInv => SlotsCounted
  BY DEF SlotInv, SlotsCounted
<1> QED
  BY <1>1, SlotInit, SlotNext, PTL DEF SafeSpec

\* Whatever verify tasks do, once the ready continuations have run no request waits
\* in hashQueue while a slot is free.
THEOREM NoSlotIsIdle == SafeSpec => []NoIdleSlot
<1>1. SlotInv => NoIdleSlot
  <2> SUFFICES ASSUME SlotInv, jobs = <<>>, hashQueue # <<>>
               PROVE  activeHashes >= MAX_CONCURRENT_HASHES
    BY DEF NoIdleSlot
  <2>1. \A p \in Request : Free(jobs, p)
    BY DEF Free
  <2>2. Holders = Running
    BY <2>1 DEF SlotInv, Promised, Holders, Running
  <2> QED
    BY <2>2 DEF SlotInv
<1> QED
  BY <1>1, SlotInit, SlotNext, PTL DEF SafeSpec
-----------------------------------------------------------------------------
(* The cap. Where every task waits for a KDF, no two chains of continuations *)
(* are ready at once: the woken waiter runs right behind the finally block   *)
(* that made room for it, before any other caller can look at the counter.   *)

OneChain(js) ==
    \/ js = <<>>
    \/ \E kind \in {"settled", "verified", "resumed"}, r \in Request : js = <<Job(kind, r)>>
    \/ \E w, r \in Request : js = <<Job("woken", w), Job("verified", r)>>

CapInv ==
    outcomes = {"hash"} =>
        /\ OneChain(jobs)
        /\ activeHashes <= MAX_CONCURRENT_HASHES
        /\ \A w, r \in Request : jobs = <<Job("woken", w), Job("verified", r)>> =>
               activeHashes < MAX_CONCURRENT_HASHES

LEMMA ShortSequences ==
    ASSUME NEW a, NEW b
    PROVE  /\ Head(<<a>>) = a /\ Tail(<<a>>) = <<>> /\ <<a>> # <<>>
           /\ Head(<<a, b>>) = a /\ Tail(<<a, b>>) = <<b>>
           /\ Append(<<>>, a) = <<a>> /\ <<>> \o <<a, b>> = <<a, b>>
<1>1. /\ Head(<<a>>) = a /\ Tail(<<a>>) = <<>> /\ <<a>> # <<>>
  OBVIOUS
<1>2. Head(<<a, b>>) = a /\ Tail(<<a, b>>) = <<b>>
  OBVIOUS
<1>3. Append(<<>>, a) = <<a>>
  OBVIOUS
<1>4. <<>> \o <<a, b>> = <<a, b>>
  OBVIOUS
<1> QED
  BY <1>1, <1>2, <1>3, <1>4

LEMMA DifferentLengths == \A a, b, c : <<c>> # <<a, b>> /\ <<>> # <<a, b>>
OBVIOUS

\* What is ready, by the continuation that runs.
LEMMA ChainHead ==
    ASSUME OneChain(jobs), NEW r \in Request, NEW kind \in JobKinds, Runs(kind, r)
    PROVE  /\ kind # "rejected"
           /\ kind # "woken" => jobs = <<Job(kind, r)>> /\ Tail(jobs) = <<>>
           /\ kind = "woken" => \E q \in Request :
                  /\ jobs = <<Job("woken", r), Job("verified", q)>>
                  /\ Tail(jobs) = <<Job("verified", q)>>
<1>1. jobs # <<>> /\ Head(jobs) = Job(kind, r)
  BY DEF Runs
<1>2. \A k, l, p, q : Job(k, p) = Job(l, q) => k = l /\ p = q
  BY DEF Job
<1>3. CASE \E k \in {"settled", "verified", "resumed"}, q \in Request : jobs = <<Job(k, q)>>
  <2>1. PICK k \in {"settled", "verified", "resumed"}, q \in Request : jobs = <<Job(k, q)>>
    BY <1>3
  <2>2. Head(jobs) = Job(k, q) /\ Tail(jobs) = <<>>
    BY <2>1, ShortSequences
  <2> QED
    BY <1>1, <1>2, <2>1, <2>2
<1>4. CASE \E w, q \in Request : jobs = <<Job("woken", w), Job("verified", q)>>
  <2>1. PICK w, q \in Request : jobs = <<Job("woken", w), Job("verified", q)>>
    BY <1>4
  <2>2. Head(jobs) = Job("woken", w) /\ Tail(jobs) = <<Job("verified", q)>>
    BY <2>1, ShortSequences
  <2> QED
    BY <1>1, <1>2, <2>1, <2>2
<1> QED
  BY <1>1, <1>3, <1>4 DEF OneChain

\* A caller that looks at the counter, when nothing else is ready.
LEMMA CallKeepsCap ==
    ASSUME CapInv, outcomes = {"hash"}, activeHashes \in Nat, outcomes' = outcomes,
           NEW r \in Request, WithHashSlot(r, {"hash"}, <<>>)
    PROVE  CapInv'
<1>1. jobs' = <<>> /\ activeHashes' <= MAX_CONCURRENT_HASHES
  BY HashSlotsAssumption DEF WithHashSlot, StartTask, CapInv
<1> QED
  BY <1>1 DEF CapInv, OneChain

LEMMA CapNext == SlotInv /\ CapInv /\ [Next]_vars => CapInv'
<1> SUFFICES ASSUME SlotInv, CapInv, [Next]_vars, outcomes' = {"hash"}
             PROVE  CapInv'
  BY DEF CapInv
<1>1. outcomes = {"hash"} /\ outcomes' = outcomes
  BY DEF Next, vars, Arrive, HashReturns, Continue, Woken, Rejected, Settled, Verified, Resumed
<1>2. OneChain(jobs) /\ activeHashes <= MAX_CONCURRENT_HASHES /\ activeHashes \in Nat
  BY <1>1, FS_CardinalityType DEF CapInv, SlotInv
<1>3. CASE UNCHANGED vars
  BY <1>3 DEF CapInv, vars
<1>4. ASSUME NEW r \in Request, Arrive(r) PROVE CapInv'
  BY <1>1, <1>2, <1>4, CallKeepsCap DEF Arrive
<1>5. ASSUME NEW r \in Request, HashReturns(r) PROVE CapInv'
  BY <1>2, <1>5 DEF HashReturns, CapInv, OneChain, Job
<1>6. ASSUME NEW r \in Request, Woken(r) PROVE CapInv'
  <2>1. PICK q \in Request : /\ jobs = <<Job("woken", r), Job("verified", q)>>
                             /\ Tail(jobs) = <<Job("verified", q)>>
    BY <1>2, <1>6, ChainHead DEF Woken, JobKinds
  <2>2. activeHashes < MAX_CONCURRENT_HASHES
    BY <1>1, <2>1 DEF CapInv
  <2>3. Tasks(r) = {"hash"}
    BY <1>1 DEF Tasks
  <2>4. jobs' = <<Job("verified", q)>> /\ activeHashes' = activeHashes + 1
    BY <1>6, <2>1, <2>3 DEF Woken, TakeSlot, StartTask
  <2> QED
    BY <1>2, <2>2, <2>4, HashSlotsAssumption DEF CapInv, OneChain, Job
<1>7. ASSUME NEW r \in Request PROVE ~Rejected(r)
  BY <1>2, ChainHead DEF Rejected, JobKinds
<1>8. ASSUME NEW r \in Request, Settled(r) PROVE CapInv'
  <2>1. Tail(jobs) = <<>>
    BY <1>2, <1>8, ChainHead DEF Settled, JobKinds
  <2>2. activeHashes' < MAX_CONCURRENT_HASHES
    BY <1>2, <1>8, HashSlotsAssumption DEF Settled
  <2>3. CASE hashQueue = <<>>
    <3>1. jobs' = <<Job("verified", r)>>
      BY <1>8, <2>1, <2>3, ShortSequences DEF Settled, WakeFirst
    <3>2. activeHashes' <= MAX_CONCURRENT_HASHES
      BY <1>2, <1>8, HashSlotsAssumption DEF Settled
    <3> QED
      BY <3>1, <3>2, DifferentLengths DEF CapInv, OneChain
  <2>4. CASE hashQueue # <<>>
    <3>1. Head(hashQueue) \in Request
      BY <2>4, Tailed DEF SlotInv, PlaceInv, Waits
    <3>2. jobs' = <<Job("woken", Head(hashQueue)), Job("verified", r)>>
      BY <1>8, <2>1, <2>4, ShortSequences DEF Settled, WakeFirst
    <3>3. activeHashes' <= MAX_CONCURRENT_HASHES
      BY <1>2, <1>8, HashSlotsAssumption DEF Settled
    <3> QED
      BY <2>2, <3>1, <3>2, <3>3 DEF CapInv, OneChain
  <2> QED
    BY <2>3, <2>4
<1>9. ASSUME NEW r \in Request, Verified(r) PROVE CapInv'
  <2>1. Tail(jobs) = <<>>
    BY <1>2, <1>9, ChainHead DEF Verified, JobKinds
  <2>2. jobs' = <<Job("resumed", r)>> /\ activeHashes' = activeHashes
    BY <1>9, <2>1, ShortSequences DEF Verified
  <2> QED
    BY <1>2, <2>2 DEF CapInv, OneChain, Job
<1>10. ASSUME NEW r \in Request, Resumed(r) PROVE CapInv'
  <2>1. Tail(jobs) = <<>>
    BY <1>2, <1>10, ChainHead DEF Resumed, JobKinds
  <2>2. CASE jobs' = <<>> /\ activeHashes' = activeHashes
    BY <1>2, <2>2 DEF CapInv, OneChain
  <2>3. CASE WithHashSlot(r, {"hash"}, <<>>)
    BY <1>1, <1>2, <2>3, CallKeepsCap
  <2> QED
    BY <1>10, <2>1, <2>2, <2>3 DEF Resumed
<1> QED
  BY <1>3, <1>4, <1>5, <1>6, <1>7, <1>8, <1>9, <1>10 DEF Next, Continue

\* The cap that docs/security-decisions.md promises holds, for any number of requests
\* and any cap, as long as every verify task waits for its KDF; it rests on the
\* order in which continuations run, since a woken waiter takes its slot blindly.
THEOREM CapOfRealHashes == SafeSpec => []CapHoldsForRealHashes
<1>1. Init => CapInv
  BY HashSlotsAssumption DEF Init, CapInv, OneChain
<1>2. SlotInv /\ CapInv => CapHoldsForRealHashes
  BY DEF SlotInv, CapInv, CapHoldsForRealHashes, CapHolds
<1> QED
  BY <1>1, <1>2, SlotInit, SlotNext, CapNext, PTL DEF SafeSpec
=============================================================================
