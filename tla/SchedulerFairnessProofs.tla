---------------------- MODULE SchedulerFairnessProofs -----------------------
(***************************************************************************)
(* Round robin: how often a worker that waits is passed over, for every    *)
(* number of threads, queue size and number of iterations.                 *)
(***************************************************************************)
EXTENDS SchedulerProofs, SchedulerFairness

\* The place of an element in a list, and the order of two.
Place(s, x) == CHOOSE i \in DOMAIN s : s[i] = x
Ahead(s, x, y) == Contains(s, x) /\ Contains(s, y) /\ Place(s, x) < Place(s, y)

\* The place of an element of a list that holds it once.
LEMMA PlaceProperties ==
    ASSUME NEW S, NEW s \in Seq(S), IsInjective(s), NEW x, Contains(s, x)
    PROVE  /\ Place(s, x) \in 1 .. Len(s) /\ s[Place(s, x)] = x
           /\ \A i \in 1 .. Len(s) : s[i] = x => i = Place(s, x)
<1>1. \E i \in DOMAIN s : s[i] = x
  BY DEF Contains
<1>2. Place(s, x) \in DOMAIN s /\ s[Place(s, x)] = x
  BY <1>1 DEF Place
<1> QED BY <1>2 DEF IsInjective

\* insert_item_tail: nobody's place changes.
LEMMA PlaceAppended ==
    ASSUME NEW s \in Seq(Workers), IsInjective(s), NEW e \in Workers, ~Contains(s, e),
           NEW t, t = Append(s, e)
    PROVE  /\ \A x : Contains(s, x) => Place(t, x) = Place(s, x)
           /\ \A x, y : Contains(s, y) => (Ahead(t, x, y) <=> Ahead(s, x, y))
<1>1. /\ t \in Seq(Workers) /\ IsInjective(t) /\ Len(t) = Len(s) + 1
      /\ \A x : Contains(t, x) <=> (Contains(s, x) \/ x = e)
  BY InsertTailProperties
<1>2. (\A j \in 1 .. Len(s) : t[j] = s[j]) /\ t[Len(s) + 1] = e /\ Len(s) \in Nat
  OBVIOUS
<1>3. ASSUME NEW x, Contains(s, x) PROVE Place(t, x) = Place(s, x)
  <2>1. Place(s, x) \in 1 .. Len(s) /\ s[Place(s, x)] = x
    BY <1>3, PlaceProperties
  <2>2. PICK i \in 1 .. Len(s) : i = Place(s, x) /\ s[i] = x
    BY <2>1
  <2>3. i \in 1 .. Len(t) /\ t[i] = x
    BY <1>1, <1>2, <2>2
  <2>4. Contains(t, x)
    BY <1>1, <1>3
  <2>5. \A j \in 1 .. Len(t) : t[j] = x => j = Place(t, x)
    <3>1. t \in Seq(Workers) /\ IsInjective(t)
      BY <1>1
    <3> QED BY <2>4, <3>1, PlaceProperties
  <2> QED BY <2>2, <2>3, <2>5
<1>4. Place(t, e) = Len(s) + 1
  <2>1. Contains(t, e) /\ Len(s) + 1 \in 1 .. Len(t)
    BY <1>1, <1>2
  <2> QED BY <1>1, <1>2, <2>1, PlaceProperties
<1>5. ASSUME NEW x, NEW y, Contains(s, y) PROVE Ahead(t, x, y) <=> Ahead(s, x, y)
  <2>1. Place(t, y) = Place(s, y) /\ Place(s, y) \in 1 .. Len(s) /\ Contains(t, y)
    BY <1>1, <1>3, <1>5, PlaceProperties
  <2>2. CASE Contains(s, x)
    <3>1. PICK k, l : k = Place(s, x) /\ k = Place(t, x) /\ l = Place(s, y) /\ l = Place(t, y)
      BY <1>3, <2>1, <2>2
    <3>2. Contains(t, x) /\ Contains(t, y)
      BY <1>1, <1>5, <2>2
    <3> QED BY <1>5, <2>2, <3>1, <3>2 DEF Ahead
  <2>3. CASE x = e
    <3>1. ~(Place(t, x) < Place(t, y))
      BY <1>2, <1>4, <2>1, <2>3
    <3> QED BY <2>3, <3>1 DEF Ahead
  <2>4. CASE ~Contains(s, x) /\ x # e
    BY <1>1, <2>4 DEF Ahead
  <2> QED BY <2>2, <2>3, <2>4
<1> QED BY <1>3, <1>4, <1>5

\* remove_item: the elements behind the one that goes move up by one place.
LEMMA PlaceRemoved ==
    ASSUME NEW s \in Seq(Workers), IsInjective(s), NEW e, Contains(s, e),
           NEW t, t = RemoveFirst(s, e)
    PROVE  /\ \A y : Contains(s, y) /\ y # e =>
                 Place(t, y) = IF Ahead(s, e, y) THEN Place(s, y) - 1 ELSE Place(s, y)
           /\ \A x, y : x # e /\ y # e => (Ahead(t, x, y) <=> Ahead(s, x, y))
<1>1. /\ t \in Seq(Workers) /\ IsInjective(t) /\ Len(t) = Len(s) - 1 /\ Len(s) \in Nat
      /\ \A x : Contains(t, x) <=> (Contains(s, x) /\ x # e)
  BY RemoveFirstProperties
<1>2. PICK i \in 1 .. Len(s) : i = Place(s, e) /\ s[i] = e
  BY PlaceProperties
<1>3. \A j \in 1 .. Len(s) - 1 : t[j] = IF j < i THEN s[j] ELSE s[j + 1]
  BY <1>2, RemoveFirstProperties
<1>4. ASSUME NEW y, Contains(s, y), y # e
      PROVE  Place(t, y) = IF Ahead(s, e, y) THEN Place(s, y) - 1 ELSE Place(s, y)
  <2>1. PICK k \in 1 .. Len(s) : k = Place(s, y) /\ s[k] = y
    BY <1>4, PlaceProperties
  <2>2. k # i /\ Contains(t, y) /\ (Ahead(s, e, y) <=> i < k)
    BY <1>1, <1>2, <1>4, <2>1 DEF Ahead
  <2>3. CASE k < i
    <3>1. k \in 1 .. Len(t) /\ t[k] = y
      BY <1>1, <1>2, <1>3, <2>1, <2>3
    <3>2. k = Place(t, y)
      BY <1>1, <2>2, <3>1, PlaceProperties
    <3> QED BY <2>1, <2>2, <2>3, <3>2
  <2>4. CASE i < k
    <3>1. PICK l \in 1 .. Len(t) : l = k - 1
      BY <1>1, <1>2, <2>1, <2>4
    <3>2. t[l] = y
      BY <1>1, <1>2, <1>3, <2>1, <2>4, <3>1
    <3>3. l = Place(t, y)
      BY <1>1, <2>2, <3>2, PlaceProperties
    <3> QED BY <2>1, <2>2, <2>4, <3>1, <3>3
  <2> QED BY <2>1, <2>2, <2>3, <2>4
<1>5. ASSUME NEW x, NEW y, x # e, y # e PROVE Ahead(t, x, y) <=> Ahead(s, x, y)
  <2>1. CASE ~(Contains(s, x) /\ Contains(s, y))
    BY <1>1, <1>5, <2>1 DEF Ahead
  <2>2. CASE Contains(s, x) /\ Contains(s, y)
    <3>1. PICK k \in 1 .. Len(s), l \in 1 .. Len(s) :
             k = Place(s, x) /\ s[k] = x /\ l = Place(s, y) /\ s[l] = y
      BY <2>2, PlaceProperties
    <3>2. k # i /\ l # i
      BY <1>2, <1>5, <3>1
    <3>3. (Ahead(s, e, x) <=> i < k) /\ (Ahead(s, e, y) <=> i < l)
      BY <1>2, <2>2, <3>1 DEF Ahead
    <3>4. /\ Place(t, x) = IF i < k THEN k - 1 ELSE k
          /\ Place(t, y) = IF i < l THEN l - 1 ELSE l
      BY <1>4, <1>5, <2>2, <3>1, <3>3
    <3>5. Place(t, x) < Place(t, y) <=> k < l
      BY <3>2, <3>4
    <3> QED BY <1>1, <1>5, <2>2, <3>1, <3>5 DEF Ahead
  <2> QED BY <2>1, <2>2
<1> QED BY <1>4, <1>5

\* elt->next: everybody behind an element is its successor or behind that.
LEMMA PlaceNext ==
    ASSUME NEW S, NEW s \in Seq(S), IsInjective(s), NEW c, Contains(s, c),
           NEW i, i = Place(s, c)
    PROVE  /\ i \in 1 .. Len(s)
           /\ i = Len(s) => \A z : ~Ahead(s, c, z)
           /\ i # Len(s) =>
                 /\ s[i + 1] \in S
                 /\ \A z : Ahead(s, c, z) => z = s[i + 1] \/ Ahead(s, s[i + 1], z)
                 /\ \A z : z = s[i + 1] \/ Ahead(s, s[i + 1], z) => Ahead(s, c, z)
<1>1. i \in 1 .. Len(s) /\ s[i] = c
  BY PlaceProperties
<1>2. ASSUME NEW z, Ahead(s, c, z) PROVE Place(s, z) \in i + 1 .. Len(s) /\ s[Place(s, z)] = z
  BY <1>1, <1>2, PlaceProperties DEF Ahead
<1>3. CASE i = Len(s)
  BY <1>1, <1>2, <1>3
<1>4. CASE i # Len(s)
  <2>1. PICK n \in 1 .. Len(s), y \in S : n = i + 1 /\ y = s[n]
    BY <1>1, <1>4
  <2>2. Contains(s, y)
    BY <2>1 DEF Contains
  <2>3. n = Place(s, y)
    BY <2>1, <2>2, PlaceProperties
  <2>4. ASSUME NEW z, Ahead(s, c, z) PROVE z = y \/ Ahead(s, y, z)
    <3>1. PICK k \in n .. Len(s) : k = Place(s, z) /\ s[k] = z
      BY <1>1, <1>2, <2>1, <2>4
    <3> QED BY <2>1, <2>2, <2>3, <2>4, <3>1 DEF Ahead
  <2>5. ASSUME NEW z, z = y \/ Ahead(s, y, z) PROVE Ahead(s, c, z)
    <3>1. CASE z = y
      BY <1>1, <2>1, <2>2, <2>3, <3>1 DEF Ahead
    <3>2. CASE Ahead(s, y, z)
      <4>1. PICK k \in 1 .. Len(s) : k = Place(s, z) /\ n < k
        BY <2>3, <3>2, PlaceProperties DEF Ahead
      <4> QED BY <1>1, <2>1, <3>2, <4>1 DEF Ahead
    <3> QED BY <2>5, <3>1, <3>2
  <2> QED BY <1>1, <1>4, <2>1, <2>4, <2>5
<1> QED BY <1>3, <1>4

\* Nobody is ahead of the head.
LEMMA PlaceHead ==
    ASSUME NEW S, NEW s \in Seq(S), IsInjective(s), NEW v, Contains(s, v)
    PROVE  /\ s # <<>> /\ Head(s) \in S
           /\ v = Head(s) \/ Ahead(s, Head(s), v)
           /\ \A z : ~Ahead(s, z, Head(s))
<1>1. PICK k \in 1 .. Len(s) : k = Place(s, v) /\ s[k] = v
  BY PlaceProperties
<1>2. PICK h : h = Head(s)
  OBVIOUS
<1>3. s # <<>> /\ h = s[1] /\ 1 \in 1 .. Len(s) /\ h \in S
  BY <1>1, <1>2
<1>4. Contains(s, h)
  BY <1>3 DEF Contains
<1>5. Place(s, h) = 1
  BY <1>3, <1>4, PlaceProperties
<1>6. v = h \/ Ahead(s, h, v)
  BY <1>1, <1>3, <1>4, <1>5 DEF Ahead
<1>7. ASSUME NEW z PROVE ~Ahead(s, z, h)
  <2> SUFFICES ASSUME Ahead(s, z, h) PROVE FALSE
    OBVIOUS
  <2>1. Place(s, z) \in 1 .. Len(s) /\ Place(s, z) < 1
    BY <1>5, PlaceProperties DEF Ahead
  <2> QED BY <2>1
<1> QED BY <1>2, <1>3, <1>6, <1>7

-----------------------------------------------------------------------------
\* next_worker is looking for a worker to wake.
Searches == spc \in {"test", "advance", "insert"}

\* The grants w may still get from its place ahead of v: the one it has not got,
\* and one more if it does not leave its place after that.
Due(v, w) ==
    IF ~Ahead(queue, w, v) THEN 0
    ELSE (IF Contains(running, w) THEN 0 ELSE 1) + (IF wpc[w] = "requeue_out" THEN 0 ELSE 1)

\* The search has gone past v, and may wake somebody behind it.
Past(v) ==
    IF Searches /\ ~Ahead(queue, cand, v) /\ ~(spc # "advance" /\ cand = v) THEN 1 ELSE 0

\* The search goes on from its element to the next one.
GoesOn == spc = "advance" \/ (spc = "test" /\ Contains(running, cand))

\* This search, gone past v, may still wake w.
Reaches(v, w) ==
    \/ spc \in {"test", "insert"} /\ cand = w /\ ~Ahead(queue, w, v)
    \/ GoesOn /\ ~Ahead(queue, cand, v) /\ Ahead(queue, cand, w)

\* The type of the history variable.
Tracked == bypass \in [Workers -> [Workers -> Nat]]

\* Nothing is counted of a worker that is not passed over, of itself, or of one
\* that has not been in the queue.
CountsGrants ==
    \A v, w \in Workers :
        (~Passed(v) \/ v = w \/ wpc[w] \in {"none", "enter"}) => bypass[v][w] = 0

\* The cursor was taken from the queue.
CursorEntered == Searches => wpc[cand] \notin {"none", "enter"}

\* With two slots a search that goes on has met the only worker with a slot.
OneOther ==
    (MaxRunning <= 2 /\ GoesOn) =>
        \A z \in Workers : z # cand => ~GivingBack(z) /\ ~Contains(running, z)

\* Whatever the number of slots: a grant of w while v waits uses up one that w was
\* due, or the search that had gone past v.  A search goes past v only when the
\* element under its cursor leaves its place ahead of v, which v then gains.
ManyAt(v, w) ==
    bypass[v][w] + Due(v, w) + Place(queue, v) + Past(v) <= NumThreads + 3
\* With one or two slots: the one element that can be moved under the cursor is
\* that of the only other worker with a slot, so no search past v wakes a third.
FewAt(v, w) ==
    bypass[v][w] + Due(v, w) + (IF Reaches(v, w) THEN 1 ELSE 0)
        <= IF Ahead(queue, w, v) THEN 2 ELSE MaxRunning

Within(v, w) == ManyAt(v, w) /\ (MaxRunning <= 2 => FewAt(v, w))

\* The two bounds, for every worker that is passed over.
PassedFew == \A v, w \in Workers : Passed(v) /\ v # w => Within(v, w)

\* The inductive invariant of SchedulerFairness, on top of IInv.
BInv == Tracked /\ CountsGrants /\ CursorEntered /\ OneOther /\ PassedFew

\* A queue of distinct workers is no longer than there are workers.
LEMMA PlaceBound ==
    ASSUME IInv, NEW v, Contains(queue, v)
    PROVE  Place(queue, v) \in 1 .. NumThreads
<1>1. queue \in Seq(Workers) /\ IsInjective(queue) /\ Len(queue) \in Nat
  BY DEF IInv, TypeOK, WaitersStayQueued
<1>2. Place(queue, v) \in 1 .. Len(queue)
  BY <1>1, PlaceProperties
<1>3. Len(queue) <= NumThreads
  <2>1. queue \in Injection(1 .. Len(queue), Workers)
    BY <1>1 DEF IsInjective, Injection
  <2>2. Cardinality(1 .. Len(queue)) = Len(queue)
    <3>1. Len(queue) \in Nat
      BY <1>1
    <3> QED BY <3>1, FS_Interval
  <2>3. IsFiniteSet(Workers) /\ Cardinality(Workers) = NumThreads
    BY ConstantsAssumption, FS_Interval DEF ConstantsAssumption, Workers
  <2>4. Cardinality(1 .. Len(queue)) <= Cardinality(Workers)
    BY <2>1, <2>3, FS_Injection
  <2> QED BY <2>2, <2>3, <2>4
<1> QED BY <1>1, <1>2, <1>3, ConstantsAssumption DEF ConstantsAssumption

\* What the bounds add up.
LEMMA PotentialTypes ==
    ASSUME IInv, BInv, NEW v \in Workers, NEW w \in Workers
    PROVE  /\ bypass[v][w] \in Nat /\ Due(v, w) \in 0 .. 2 /\ Past(v) \in 0 .. 1
           /\ ~Ahead(queue, w, v) => Due(v, w) = 0
BY DEF BInv, Tracked, Due, Past

\* bypass counts what has happened to a worker that is still passed over.
LEMMA CountStepped ==
    ASSUME Tracked, BNext
    PROVE  /\ Tracked'
           /\ \A v, w \in Workers :
                 bypass'[v][w] = IF ~(Passed(v) /\ Passed(v)') THEN 0
                                 ELSE IF Granted(w) THEN bypass[v][w] + 1
                                 ELSE bypass[v][w]
BY DEF Tracked, BNext

\* The step takes nothing from what bounds the grants of w.
Keeps(v, w) ==
    /\ bypass'[v][w] = bypass[v][w]
    /\ Place(queue', v) = Place(queue, v)
    /\ Due(v, w)' = Due(v, w)
    /\ Past(v)' <= Past(v)
    /\ Ahead(queue', w, v) <=> Ahead(queue, w, v)
    /\ Reaches(v, w)' => Reaches(v, w)

\* Such a step stays within the bounds.
LEMMA KeptWithin ==
    ASSUME IInv, BInv, Tracked', NEW v \in Workers, NEW w \in Workers,
           v # w, Passed(v), Keeps(v, w)
    PROVE  Within(v, w)'
<1>1. /\ bypass[v][w] \in Nat /\ Due(v, w) \in 0 .. 2 /\ Past(v) \in 0 .. 1
      /\ Within(v, w)
  BY PotentialTypes DEF BInv, PassedFew
<1>2. Past(v)' \in 0 .. 1
  BY DEF Past
<1>3. Place(queue, v) \in 1 .. NumThreads
  BY PlaceBound DEF Passed
<1>4. PICK b \in Nat, d \in 0 .. 2, q \in Nat, p \in 0 .. 1, pp \in 0 .. 1 :
         /\ b = bypass[v][w] /\ d = Due(v, w) /\ q = Place(queue, v) /\ p = Past(v)
         /\ b = bypass'[v][w] /\ d = Due(v, w)' /\ q = Place(queue', v) /\ pp = Past(v)'
  BY <1>1, <1>2, <1>3 DEF Keeps
<1>5. b + d + q + p <= NumThreads + 3 /\ pp <= p /\ NumThreads \in Nat
  BY <1>1, <1>4, ConstantsAssumption DEF Keeps, Within, ManyAt, ConstantsAssumption
<1>6. ManyAt(v, w)'
  BY <1>4, <1>5 DEF ManyAt
<1>7. ASSUME MaxRunning <= 2 PROVE FewAt(v, w)'
  <2>1. b + d + (IF Reaches(v, w) THEN 1 ELSE 0) <= IF Ahead(queue, w, v) THEN 2 ELSE MaxRunning
    BY <1>1, <1>4, <1>7 DEF Within, FewAt
  <2>2. b + d + (IF Reaches(v, w)' THEN 1 ELSE 0) <= IF Ahead(queue', w, v) THEN 2 ELSE MaxRunning
    BY <2>1, MaxRunningType DEF Keeps
  <2> QED BY <1>4, <2>2 DEF FewAt
<1> QED BY <1>6, <1>7 DEF Within

\* A worker that begins to wait, or waits again, is within the bounds.
LEMMA FreshWithin ==
    ASSUME IInv, NEW v \in Workers, NEW w \in Workers, v # w, Passed(v), bypass[v][w] = 0
    PROVE  Within(v, w)
<1>1. Due(v, w) \in 0 .. 2 /\ Past(v) \in 0 .. 1 /\ (~Ahead(queue, w, v) => Due(v, w) = 0)
  BY DEF Due, Past
<1>2. Place(queue, v) \in 1 .. NumThreads
  BY PlaceBound DEF Passed
<1>3. ManyAt(v, w)
  BY <1>1, <1>2, ConstantsAssumption DEF ManyAt, ConstantsAssumption
<1>4. Ahead(queue, w, v) => ~Reaches(v, w)
  <2>1. ASSUME Ahead(queue, w, v), Ahead(queue, cand, w), ~Ahead(queue, cand, v) PROVE FALSE
    <3>1. /\ Place(queue, v) \in 1 .. NumThreads /\ Place(queue, w) \in 1 .. NumThreads
          /\ Place(queue, cand) \in 1 .. NumThreads
      BY <2>1, PlaceBound DEF Ahead
    <3> QED BY <2>1, <3>1 DEF Ahead
  <2> QED BY <2>1 DEF Reaches
<1>5. MaxRunning <= 2 => FewAt(v, w)
  BY <1>1, <1>4, MaxRunningType DEF FewAt
<1> QED BY <1>3, <1>5 DEF Within

\* A step that neither the lists nor the search take part in.
Silent ==
    /\ UNCHANGED <<queue, running>>
    /\ UNCHANGED <<spc, cand>> \/ (~Searches /\ ~Searches')
    /\ \A w \in Workers : wpc'[w] = "requeue_out" <=> wpc[w] = "requeue_out"

\* Such a step keeps everything the bounds speak of.
LEMMA SilentKeeps ==
    ASSUME Silent, NEW v \in Workers, NEW w \in Workers, bypass'[v][w] = bypass[v][w]
    PROVE  Keeps(v, w)
<1>1. UNCHANGED queue /\ (wpc'[w] = "requeue_out" <=> wpc[w] = "requeue_out")
  BY DEF Silent
<1>2. Due(v, w)' = Due(v, w)
  BY <1>1 DEF Silent, Due
<1>3. Past(v)' <= Past(v) /\ (Reaches(v, w)' => Reaches(v, w))
  BY <1>1 DEF Silent, Past, Reaches, GoesOn, Searches
<1> QED BY <1>1, <1>2, <1>3 DEF Keeps

\* The steps of main, the semaphores and the counter.
LEMMA SilentSteps ==
    ASSUME IInv, NEW x \in Workers,
           \/ StartScheduler \/ SetCount \/ CreateWorker \/ AllCreated \/ CleanUp
           \/ WaitForQueue \/ CheckRemaining \/ WakePost \/ WaitForWorker
           \/ WaitForCpu(x) \/ LoadCount(x) \/ StoreCount(x) \/ ReleasePost(x)
           \/ UseFreed(x) \/ UNCHANGED vars
    PROVE  Silent /\ \A w : ~Granted(w)
<1>1. wpc \in [Workers -> WorkerPc] /\ StartedByMain
  BY DEF IInv, TypeOK
<1>2. CASE SetCount \/ AllCreated \/ CleanUp \/ UseFreed(x) \/ UNCHANGED vars
  BY <1>2 DEF SetCount, AllCreated, CleanUp, UseFreed, vars, sharedVars, schedVars, workerVars,
     Silent, Granted
<1>3. CASE StartScheduler
  BY <1>1, <1>3 DEF StartScheduler, MainAt, StartedByMain, sharedVars, schedVars, workerVars,
     Silent, Granted, Searches
<1>4. CASE CreateWorker
  <2>1. UNCHANGED <<queue, running, spc, cand>>
    BY <1>4 DEF CreateWorker, sharedVars, schedVars
  <2>2. CASE UNCHANGED wpc
    BY <2>1, <2>2 DEF Silent, Granted
  <2>3. CASE created < NumThreads /\ wpc' = [wpc EXCEPT ![created + 1] = "enter"]
    <3>1. created + 1 \in Workers /\ wpc[created + 1] = "none"
      BY <2>3, ConstantsAssumption
         DEF IInv, TypeOK, Workers, ConstantsAssumption, CreatedInOrder
    <3> QED BY <1>1, <2>1, <2>3, <3>1 DEF Silent, Granted
  <2> QED BY <1>4, <2>2, <2>3 DEF CreateWorker, ExitError
<1>5. CASE WaitForQueue \/ CheckRemaining \/ WakePost \/ WaitForWorker
  BY <1>5 DEF WaitForQueue, CheckRemaining, WakePost, WaitForWorker, SchedAt, sharedVars,
     workerVars, Silent, Granted, Searches
<1>6. CASE WaitForCpu(x) \/ LoadCount(x) \/ StoreCount(x) \/ ReleasePost(x)
  BY <1>1, <1>6 DEF WaitForCpu, LoadCount, StoreCount, ReleasePost, GoTo, sharedVars, schedVars,
     Silent, Granted
<1> QED BY <1>2, <1>3, <1>4, <1>5, <1>6

\* next_worker begins at the head, so that it has gone past nobody.
LEMMA PeekKeeps ==
    ASSUME IInv, PeekHead, NEW v \in Workers, NEW w \in Workers, v # w, Passed(v), Passed(v)',
           bypass'[v][w] = bypass[v][w]
    PROVE  Keeps(v, w)
<1>1. /\ queue \in Seq(Workers) /\ IsInjective(queue) /\ Contains(queue, v)
      /\ ~Contains(running, v)
  BY DEF IInv, TypeOK, WaitersStayQueued, Passed
<1>2. UNCHANGED <<queue, running, wpc>> /\ spc = "peek"
  BY DEF PeekHead, SchedAt, sharedVars, workerVars
<1>3. PICK h : h = Head(queue)
  OBVIOUS
<1>4. /\ queue # <<>> /\ h \in Workers
      /\ v = h \/ Ahead(queue, h, v)
      /\ \A z : ~Ahead(queue, z, h)
  BY <1>1, <1>3, PlaceHead
<1>5. cand' = h /\ spc' = "test"
  BY <1>3, <1>4, NoWorkerAssumption DEF PeekHead, NextWorkerFrom
<1>6. Due(v, w)' = Due(v, w)
  BY <1>2 DEF Due
<1>7. Past(v)' = 0 /\ Past(v) = 0
  BY <1>2, <1>4, <1>5 DEF Past, Searches
<1>8. ~Reaches(v, w)'
  BY <1>1, <1>2, <1>4, <1>5 DEF Reaches, GoesOn
<1> QED BY <1>2, <1>6, <1>7, <1>8 DEF Keeps

\* A worker that waits and is not running is woken, not gone past.
LEMMA TestKeeps ==
    ASSUME IInv, TestRunning, NEW v \in Workers, NEW w \in Workers, v # w, Passed(v),
           bypass'[v][w] = bypass[v][w]
    PROVE  Keeps(v, w)
<1>1. UNCHANGED <<queue, running, wpc, cand>> /\ spc = "test" /\ ~Contains(running, v)
  BY DEF TestRunning, SchedAt, sharedVars, workerVars, Passed
<1>2. spc' = IF Contains(running, cand) THEN "advance" ELSE "insert"
  BY DEF TestRunning
<1>3. Due(v, w)' = Due(v, w)
  BY <1>1 DEF Due
<1>4. Past(v)' = Past(v) /\ (Reaches(v, w)' => Reaches(v, w))
  BY <1>1, <1>2 DEF Past, Searches, Reaches, GoesOn
<1>5. Past(v) \in 0 .. 1
  BY DEF Past
<1> QED BY <1>1, <1>3, <1>4, <1>5 DEF Keeps

\* elt->next of an element ahead of v is v or ahead of v.
LEMMA AdvanceKeeps ==
    ASSUME IInv, Advance, NEW v \in Workers, NEW w \in Workers, v # w, Passed(v),
           bypass'[v][w] = bypass[v][w]
    PROVE  Keeps(v, w)
<1>1. /\ queue \in Seq(Workers) /\ IsInjective(queue)
      /\ ~Contains(running, v)
  BY DEF IInv, TypeOK, WaitersStayQueued, Passed
<1>2. UNCHANGED <<queue, running, wpc>> /\ spc = "advance"
  BY DEF Advance, SchedAt, sharedVars, workerVars
<1>3. Due(v, w)' = Due(v, w)
  BY <1>2 DEF Due
<1>4. Past(v)' \in 0 .. 1 /\ Past(v) \in 0 .. 1
  BY DEF Past
<1>5. CASE UNCHANGED <<spc, cand>>
  BY <1>2, <1>3, <1>5, SilentKeeps DEF Silent
<1>6. CASE cand' = NoWorker /\ spc' = "wait_queue"
  <2>1. Past(v)' = 0 /\ ~Reaches(v, w)'
    BY <1>6 DEF Past, Searches, Reaches, GoesOn
  <2> QED BY <1>2, <1>3, <1>4, <2>1 DEF Keeps
<1>7. CASE Contains(queue, cand) /\ NextWorkerFrom(Successor(cand)) /\ Successor(cand) # NoWorker
  <2>1. PICK i, c : c = cand /\ i = Place(queue, c)
    OBVIOUS
  <2>2. PICK y : y = Successor(cand)
    OBVIOUS
  <2>3. y = IF i = Len(queue) THEN NoWorker ELSE queue[i + 1]
    <3>1. Successor(cand) = IF Place(queue, cand) = Len(queue) THEN NoWorker
                            ELSE queue[Place(queue, cand) + 1]
      BY DEF Successor, Place
    <3> QED BY <2>1, <2>2, <3>1
  <2>4. cand' = y /\ spc' = "test" /\ i # Len(queue) /\ y = queue[i + 1]
    BY <1>7, <2>2, <2>3 DEF NextWorkerFrom
  <2>5. /\ \A z : Ahead(queue, c, z) => z = y \/ Ahead(queue, y, z)
        /\ \A z : z = y \/ Ahead(queue, y, z) => Ahead(queue, c, z)
    BY <1>1, <1>7, <2>1, <2>4, PlaceNext
  <2>6. Past(v) = 0 => Past(v)' = 0
    BY <1>2, <2>1, <2>4, <2>5 DEF Past, Searches
  <2>7. Reaches(v, w)' => Reaches(v, w)
    <3> SUFFICES ASSUME Reaches(v, w)' PROVE Reaches(v, w)
      OBVIOUS
    <3>1. CASE y = w /\ ~Ahead(queue, w, v)
      BY <1>2, <2>1, <2>5, <3>1 DEF Reaches, GoesOn
    <3>2. CASE Contains(running, y) /\ ~Ahead(queue, y, v) /\ Ahead(queue, y, w)
      BY <1>1, <1>2, <2>1, <2>5, <3>2 DEF Reaches, GoesOn
    <3> QED BY <1>2, <2>4, <3>1, <3>2 DEF Reaches, GoesOn
  <2> QED BY <1>2, <1>3, <1>4, <2>6, <2>7 DEF Keeps
<1> QED BY <1>5, <1>6, <1>7 DEF Advance, NextWorkerFrom

\* wake_up_worker: the grant w gets is one it was due, or the one that the search
\* has gone past v for.
LEMMA WakeWithin ==
    ASSUME IInv, BInv, WakeInsert, NEW v \in Workers, NEW w \in Workers, v # w, Passed(v),
           Passed(v)', bypass'[v][w] = IF Granted(w) THEN bypass[v][w] + 1 ELSE bypass[v][w]
    PROVE  Within(v, w)'
<1>1. /\ UNCHANGED <<queue, cand, wpc>> /\ spc = "insert" /\ spc' = "post"
      /\ running' = Append(running, cand)
  BY DEF WakeInsert, SchedAt, workerVars
<1>2. /\ running \in Seq(Workers) /\ IsInjective(running) /\ cand \in Workers
      /\ ~Contains(running, cand)
  BY <1>1 DEF IInv, TypeOK, GrantAccounting, WakesTheIdle
<1>3. \A x : Contains(running', x) <=> (Contains(running, x) \/ x = cand)
  BY <1>1, <1>2, InsertTailProperties
<1>4. v # cand
  BY <1>3 DEF Passed
<1>5. /\ bypass[v][w] \in Nat /\ Due(v, w) \in 0 .. 2 /\ Past(v) \in 0 .. 1
      /\ Within(v, w) /\ NumThreads \in Nat
  BY PotentialTypes, ConstantsAssumption DEF BInv, PassedFew, ConstantsAssumption
<1>6. Place(queue, v) \in 1 .. NumThreads
  BY PlaceBound DEF Passed
<1>7. Past(v)' = 0 /\ ~Reaches(v, w)'
  BY <1>1 DEF Past, Searches, Reaches, GoesOn
<1>8. /\ Granted(w) <=> cand = w
      /\ Past(v) = IF Ahead(queue, cand, v) THEN 0 ELSE 1
  BY <1>1, <1>4 DEF Granted, Past, Searches
<1>9. CASE cand # w
  <2>1. Due(v, w)' = Due(v, w)
    BY <1>1, <1>3, <1>9 DEF Due
  <2>2. ManyAt(v, w)'
    BY <1>1, <1>5, <1>6, <1>7, <1>8, <1>9, <2>1 DEF ManyAt, Within
  <2>3. ASSUME MaxRunning <= 2 PROVE FewAt(v, w)'
    BY <1>1, <1>5, <1>7, <1>8, <1>9, <2>1, <2>3, MaxRunningType DEF FewAt, Within
  <2> QED BY <2>2, <2>3 DEF Within
<1>10. CASE cand = w
  <2>1. bypass'[v][w] = bypass[v][w] + 1
    BY <1>8, <1>10
  <2>2. CASE Ahead(queue, w, v)
    <3>1. Due(v, w)' + 1 = Due(v, w) /\ Due(v, w)' \in 0 .. 2
      BY <1>1, <1>2, <1>3, <1>10, <2>2 DEF Due
    <3>2. ManyAt(v, w)'
      BY <1>1, <1>5, <1>6, <1>7, <1>8, <1>10, <2>1, <2>2, <3>1 DEF ManyAt, Within
    <3>3. ASSUME MaxRunning <= 2 PROVE FewAt(v, w)'
      BY <1>1, <1>5, <1>7, <2>1, <2>2, <3>1, <3>3, MaxRunningType DEF FewAt, Within
    <3> QED BY <3>2, <3>3 DEF Within
  <2>3. CASE ~Ahead(queue, w, v)
    <3>1. Due(v, w)' = 0 /\ Due(v, w) = 0 /\ Reaches(v, w)
      BY <1>1, <1>10, <2>3 DEF Due, Reaches
    <3>2. ManyAt(v, w)'
      BY <1>1, <1>5, <1>6, <1>7, <1>8, <1>10, <2>1, <2>3, <3>1 DEF ManyAt, Within
    <3>3. ASSUME MaxRunning <= 2 PROVE FewAt(v, w)'
      BY <1>1, <1>5, <1>7, <2>1, <2>3, <3>1, <3>3, MaxRunningType DEF FewAt, Within
    <3> QED BY <3>2, <3>3 DEF Within
  <2> QED BY <2>2, <2>3
<1> QED BY <1>9, <1>10

\* release_cpu takes a worker out of running and, under round robin, is then about
\* to move it: it is due a grant before it leaves its place, and none after.
LEMMA ReleaseKeeps ==
    ASSUME IInv, Policy = "rr", NEW x \in Workers, ReleaseRunning(x),
           NEW v \in Workers, NEW w \in Workers, v # w, Passed(v), bypass'[v][w] = bypass[v][w]
    PROVE  Keeps(v, w)
<1>1. /\ running' = RemoveFirst(running, x) /\ UNCHANGED <<queue, spc, cand>>
      /\ wpc[x] \in {"work", "release"} /\ wpc'[x] = "requeue_out"
      /\ \A z \in Workers : z # x => wpc'[z] = wpc[z]
  BY DEF IInv, TypeOK, ReleaseRunning, GoTo, schedVars
<1>2. running \in Seq(Workers) /\ IsInjective(running) /\ Contains(running, x)
  BY <1>1 DEF IInv, TypeOK, GrantAccounting, HasCpu
<1>3. \A z : Contains(running', z) <=> (Contains(running, z) /\ z # x)
  BY <1>1, <1>2, RemoveFirstProperties
<1>4. Due(v, w)' = Due(v, w)
  <2>1. CASE w = x
    BY <1>1, <1>2, <1>3, <2>1 DEF Due
  <2>2. CASE w # x
    BY <1>1, <1>3, <2>2 DEF Due
  <2> QED BY <2>1, <2>2
<1>5. Past(v)' = Past(v) /\ (Reaches(v, w)' => Reaches(v, w))
  BY <1>1, <1>3 DEF Past, Searches, Reaches, GoesOn
<1>6. Past(v) \in 0 .. 1
  BY DEF Past
<1> QED BY <1>1, <1>4, <1>5, <1>6 DEF Keeps

\* insert_item_tail puts a worker behind v.
LEMMA AppendWithin ==
    ASSUME IInv, BInv, Tracked', NEW x \in Workers, EnterQueue(x) \/ RequeueIn(x),
           NEW v \in Workers, NEW w \in Workers, v # w, Passed(v), bypass'[v][w] = bypass[v][w]
    PROVE  Within(v, w)'
<1>1. /\ queue' = Append(queue, x) /\ UNCHANGED <<running, spc, cand>>
      /\ wpc[x] \in {"enter", "requeue_in"} /\ wpc'[x] # "requeue_out"
      /\ \A z \in Workers : z # x => wpc'[z] = wpc[z]
  BY DEF IInv, TypeOK, EnterQueue, RequeueIn, GoTo, schedVars
<1>2. /\ queue \in Seq(Workers) /\ IsInjective(queue) /\ Contains(queue, v)
      /\ ~Contains(queue, x)
  BY <1>1 DEF IInv, TypeOK, WaitersStayQueued, EnterersAreOut, Passed
<1>3. /\ Place(queue', v) = Place(queue, v)
      /\ \A z, y : Contains(queue, y) => (Ahead(queue', z, y) <=> Ahead(queue, z, y))
  <2>1. PICK s, t : s = queue /\ t = queue'
    OBVIOUS
  <2>2. s \in Seq(Workers) /\ IsInjective(s) /\ ~Contains(s, x) /\ t = Append(s, x)
    BY <1>1, <1>2, <2>1
  <2>3. /\ \A z : Contains(s, z) => Place(t, z) = Place(s, z)
        /\ \A z, y : Contains(s, y) => (Ahead(t, z, y) <=> Ahead(s, z, y))
    <3>1. \A z : Contains(s, z) => Place(t, z) = Place(s, z)
      BY <2>2, PlaceAppended
    <3>2. \A z, y : Contains(s, y) => (Ahead(t, z, y) <=> Ahead(s, z, y))
      BY <2>2, PlaceAppended
    <3> QED BY <3>1, <3>2
  <2> QED BY <1>2, <2>1, <2>3
<1>4. Due(v, w)' = Due(v, w)
  <2>1. CASE w = x
    <3>1. ~Ahead(queue, w, v)
      BY <1>2, <2>1 DEF Ahead
    <3> QED BY <1>2, <1>3, <3>1 DEF Due
  <2>2. CASE w # x
    BY <1>1, <1>2, <1>3, <2>2 DEF Due
  <2> QED BY <2>1, <2>2
<1>5. Past(v)' = Past(v) /\ Past(v) \in 0 .. 1
  BY <1>1, <1>2, <1>3 DEF Past, Searches
<1>6. CASE Reaches(v, w)' => Reaches(v, w)
  BY <1>2, <1>3, <1>4, <1>5, <1>6, KeptWithin DEF Keeps
<1>7. CASE Reaches(v, w)' /\ ~Reaches(v, w)
  <2>1. GoesOn /\ w = x /\ Ahead(queue', cand, w)
    <3>1. GoesOn /\ Ahead(queue', cand, w) /\ ~Ahead(queue, cand, w)
      BY <1>1, <1>2, <1>3, <1>7 DEF Reaches, GoesOn
    <3>2. \A z : Contains(queue', z) <=> (Contains(queue, z) \/ z = x)
      BY <1>1, <1>2, InsertTailProperties
    <3>3. Contains(queue', w)
      BY <3>1 DEF Ahead
    <3>4. Contains(queue, w) => (Ahead(queue', cand, w) <=> Ahead(queue, cand, w))
      BY <1>3
    <3> QED BY <3>1, <3>2, <3>3, <3>4
  <2>2. ~Ahead(queue, w, v) /\ ~Ahead(queue', w, v)
    <3>1. ~Ahead(queue, w, v)
      BY <1>2, <2>1 DEF Ahead
    <3> QED BY <1>2, <1>3, <3>1
  <2>3. Due(v, w)' = 0 /\ Due(v, w) = 0
    BY <1>4, <2>2 DEF Due
  <2>4. ASSUME MaxRunning <= 2 PROVE bypass[v][w] = 0
    <3>1. w # cand
      <4>1. queue' \in Seq(Workers) /\ IsInjective(queue')
        BY <1>1, <1>2, InsertTailProperties
      <4>2. Place(queue', w) \in 1 .. Len(queue')
        BY <2>1, <4>1, PlaceProperties DEF Ahead
      <4> QED BY <2>1, <4>2 DEF Ahead
    <3>2. ~GivingBack(w)
      BY <2>1, <2>4, <3>1 DEF BInv, OneOther
    <3>3. wpc[w] = "enter"
      BY <1>1, <2>1, <3>2 DEF GivingBack
    <3> QED BY <3>3 DEF BInv, CountsGrants
  <2>5. ASSUME MaxRunning <= 2 PROVE FewAt(v, w)'
    BY <2>2, <2>3, <2>4, <2>5, MaxRunningType DEF FewAt
  <2>6. ManyAt(v, w)'
    <3>1. ManyAt(v, w)
      BY DEF BInv, PassedFew, Within
    <3> QED BY <1>3, <1>4, <1>5, <3>1 DEF ManyAt
  <2> QED BY <2>5, <2>6 DEF Within
<1> QED BY <1>6, <1>7

\* remove_item takes a worker other than v out of the queue.  If it was ahead of v
\* then v moves up, and if the cursor is on it the search has gone past v.
LEMMA RemoveWithin ==
    ASSUME IInv, BInv, Tracked', NEW x \in Workers, LeaveQueue(x) \/ RequeueOut(x),
           NEW v \in Workers, NEW w \in Workers, v # w, Passed(v), bypass'[v][w] = bypass[v][w]
    PROVE  Within(v, w)'
<1>1. /\ queue' = RemoveFirst(queue, x) /\ UNCHANGED <<running, spc, cand>>
      /\ wpc[x] \in {"leave", "requeue_out"} /\ wpc'[x] # "requeue_out"
      /\ \A z \in Workers : z # x => wpc'[z] = wpc[z]
  BY DEF IInv, TypeOK, LeaveQueue, RequeueOut, GoTo, schedVars
<1>2. /\ queue \in Seq(Workers) /\ IsInjective(queue) /\ Contains(queue, v)
  BY DEF IInv, TypeOK, WaitersStayQueued, Passed
<1>3. v # x
  BY <1>1 DEF Passed
<1>4. Past(v)' \in 0 .. 1 /\ Past(v) \in 0 .. 1
  BY DEF Past
<1>5. CASE ~Contains(queue, x)
  <2>1. queue' = queue
    BY <1>1, <1>2, <1>5 DEF RemoveFirst, Contains
  <2>2. Due(v, w)' = Due(v, w)
    <3>1. CASE w = x
      BY <1>5, <2>1, <3>1 DEF Due, Ahead
    <3>2. CASE w # x
      BY <1>1, <2>1, <3>2 DEF Due
    <3> QED BY <3>1, <3>2
  <2>3. Past(v)' = Past(v) /\ (Reaches(v, w)' => Reaches(v, w))
    BY <1>1, <2>1 DEF Past, Searches, Reaches, GoesOn
  <2> QED BY <1>4, <2>1, <2>2, <2>3, KeptWithin DEF Keeps
<1>6. CASE Contains(queue, x)
  <2>1. /\ Place(queue', v) = IF Ahead(queue, x, v) THEN Place(queue, v) - 1 ELSE Place(queue, v)
        /\ \A y, z : y # x /\ z # x => (Ahead(queue', y, z) <=> Ahead(queue, y, z))
    <3>1. PICK s, t : s = queue /\ t = queue'
      OBVIOUS
    <3>2. s \in Seq(Workers) /\ IsInjective(s) /\ Contains(s, x) /\ t = RemoveFirst(s, x)
      BY <1>1, <1>2, <1>6, <3>1
    <3>3. Place(t, v) = IF Ahead(s, x, v) THEN Place(s, v) - 1 ELSE Place(s, v)
      BY <1>2, <1>3, <3>1, <3>2, PlaceRemoved
    <3>4. \A y, z : y # x /\ z # x => (Ahead(t, y, z) <=> Ahead(s, y, z))
      BY <3>2, PlaceRemoved
    <3> QED BY <3>1, <3>3, <3>4
  <2>2. \A z : ~Ahead(queue', x, z) /\ ~Ahead(queue', z, x)
    <3>1. ~Contains(queue', x)
      BY <1>1, <1>2, RemoveFirstProperties
    <3> QED BY <3>1 DEF Ahead
  <2>3. /\ bypass[v][w] \in Nat /\ Due(v, w) \in 0 .. 2 /\ Within(v, w)
        /\ bypass'[v][w] = bypass[v][w]
    BY PotentialTypes DEF BInv, PassedFew
  <2>4. PICK q \in Nat, p \in 0 .. 1, qq \in Int, pp \in 0 .. 1 :
           /\ q = Place(queue, v) /\ p = Past(v) /\ qq = Place(queue', v) /\ pp = Past(v)'
           /\ qq = IF Ahead(queue, x, v) THEN q - 1 ELSE q
    <3>1. Place(queue, v) \in 1 .. NumThreads
      BY PlaceBound DEF Passed
    <3> QED BY <1>4, <2>1, <3>1
  <2>5. qq + pp <= q + p
    <3>1. CASE Ahead(queue, x, v)
      BY <2>4, <3>1
    <3>2. CASE ~Ahead(queue, x, v)
      <4>1. ~Ahead(queue', cand, v) => ~Ahead(queue, cand, v)
        BY <1>3, <2>1, <2>2, <3>2
      <4>2. Past(v) = 0 => Past(v)' = 0
        BY <1>1, <4>1 DEF Past, Searches
      <4> QED BY <2>4, <3>2, <4>2
    <3> QED BY <3>1, <3>2
  <2>6. CASE w # x
    <3>1. Ahead(queue', w, v) <=> Ahead(queue, w, v)
      BY <1>3, <2>1, <2>6
    <3>2. Due(v, w)' = Due(v, w)
      BY <1>1, <2>6, <3>1 DEF Due
    <3>3. Reaches(v, w)' => Reaches(v, w)
      <4> SUFFICES ASSUME Reaches(v, w)' PROVE Reaches(v, w)
        OBVIOUS
      <4>1. CASE spc \in {"test", "insert"} /\ cand = w /\ ~Ahead(queue', w, v)
        BY <3>1, <4>1 DEF Reaches
      <4>2. CASE GoesOn /\ ~Ahead(queue', cand, v) /\ Ahead(queue', cand, w)
        <5>1. cand # x
          BY <2>2, <4>2
        <5> QED BY <1>3, <2>1, <2>6, <4>2, <5>1 DEF Reaches
      <4> QED BY <1>1, <4>1, <4>2 DEF Reaches, GoesOn
    <3>4. ManyAt(v, w)'
      BY <2>3, <2>4, <2>5, <3>2, ConstantsAssumption DEF ManyAt, Within, ConstantsAssumption
    <3>5. ASSUME MaxRunning <= 2 PROVE FewAt(v, w)'
      BY <2>3, <3>1, <3>2, <3>3, <3>5, MaxRunningType DEF FewAt, Within
    <3> QED BY <3>4, <3>5 DEF Within
  <2>7. CASE w = x
    <3>1. Due(v, w)' = 0 /\ ~Ahead(queue', w, v)
      BY <2>2, <2>7 DEF Due
    <3>2. ManyAt(v, w)'
      BY <2>3, <2>4, <2>5, <3>1, ConstantsAssumption DEF ManyAt, Within, ConstantsAssumption
    <3>3. Reaches(v, w)' => spc \in {"test", "insert"} /\ cand = w
      BY <1>1, <2>2, <2>7 DEF Reaches
    <3>4. ASSUME MaxRunning <= 2 PROVE FewAt(v, w)'
      <4>1. CASE ~Ahead(queue, w, v)
        <5>1. Reaches(v, w)' => Reaches(v, w)
          BY <3>3, <4>1 DEF Reaches
        <5> QED BY <2>3, <3>1, <3>4, <4>1, <5>1, MaxRunningType DEF FewAt, Within
      <4>2. CASE Ahead(queue, w, v)
        <5>1. Reaches(v, w)' => ~SchedHoldsGrant
          BY <3>3 DEF SchedHoldsGrant
        <5>2. Contains(running, w) \/ GivingBack(w)
          BY <1>1, <2>7 DEF IInv, GrantAccounting, HasCpu, GivingBack
        <5>3. MaxRunning = 1 => ~Reaches(v, w)'
          BY <5>1, <5>2, OneSlotUsed, MaxRunningType
        <5>4. ASSUME MaxRunning = 1 \/ Reaches(v, w)' PROVE Due(v, w) >= 1
          <6>1. Tokens + (IF SchedHoldsGrant THEN 1 ELSE 0) <= 1
            BY <3>4, <5>1, <5>4, MaxRunningType
          <6>2. wpc[w] = "requeue_out" => ~Contains(running, w)
            BY <6>1, OneSlotUsed DEF GivingBack
          <6> QED BY <4>2, <6>2 DEF Due
        <5>5. bypass[v][w] + Due(v, w) <= 2
          BY <2>3, <3>4, <4>2 DEF FewAt, Within
        <5>6. bypass[v][w] + (IF Reaches(v, w)' THEN 1 ELSE 0) <= MaxRunning
          BY <2>3, <3>4, <5>3, <5>4, <5>5, MaxRunningType
        <5> QED BY <2>3, <3>1, <5>6 DEF FewAt
      <4> QED BY <4>1, <4>2
    <3> QED BY <3>2, <3>4 DEF Within
  <2> QED BY <2>6, <2>7
<1> QED BY <1>5, <1>6

\* FreshWithin, for every two workers of a state.
FreshFew ==
    \A v, w \in Workers :
        v # w /\ Passed(v) /\ bypass[v][w] = 0 => Within(v, w)

\* It holds in every state of IInv.
LEMMA FreshAlways == IInv => FreshFew
BY FreshWithin DEF FreshFew

\* Only wake_up_worker grants.
LEMMA GrantIsWake ==
    ASSUME IInv, Next, NEW w, Granted(w)
    PROVE  WakeInsert
<1>1. spc = "insert" /\ spc' = "post"
  BY DEF Granted
<1>2. CASE MainStep
  BY <1>1, <1>2, SilentSteps DEF MainStep, StartScheduler, SetCount, CreateWorker, AllCreated,
     CleanUp, schedVars
<1>3. CASE SchedStep
  BY <1>1, <1>3 DEF SchedStep, SchedAt, WaitForQueue, CheckRemaining, PeekHead, TestRunning,
     Advance, WakePost, WaitForWorker
<1>4. ASSUME NEW x \in Workers, WorkerStep(x) \/ UseFreed(x) PROVE FALSE
  BY <1>1, <1>4 DEF WorkerStep, EnterQueue, WaitForCpu, LeaveQueue, LoadCount, StoreCount,
     ReleaseRunning, RequeueOut, RequeueIn, ReleasePost, UseFreed, schedVars
<1>5. CASE UNCHANGED vars
  BY <1>1, <1>5 DEF vars, schedVars
<1> QED BY <1>2, <1>3, <1>4, <1>5 DEF Next, Rest

\* A thread that has entered stays so.
LEMMA EnteredStays ==
    ASSUME IInv, Next, NEW z \in Workers, wpc'[z] \in {"none", "enter"}
    PROVE  wpc[z] \in {"none", "enter"}
<1>1. wpc \in [Workers -> WorkerPc]
  BY DEF IInv, TypeOK
<1>2. CASE MainStep
  <2>1. CASE UNCHANGED wpc
    BY <2>1
  <2>2. CASE created < NumThreads /\ wpc' = [wpc EXCEPT ![created + 1] = "enter"]
    <3>1. created + 1 \in Workers /\ wpc[created + 1] = "none"
      BY <2>2, ConstantsAssumption
         DEF IInv, TypeOK, Workers, ConstantsAssumption, CreatedInOrder
    <3> QED BY <1>1, <2>2, <3>1
  <2> QED BY <1>2, <2>1, <2>2 DEF MainStep, StartScheduler, SetCount, CreateWorker, AllCreated,
             CleanUp, ExitError, workerVars
<1>3. CASE SchedStep \/ UNCHANGED vars
  BY <1>3 DEF SchedStep, WaitForQueue, CheckRemaining, PeekHead, TestRunning, Advance,
     WakeInsert, WakePost, WaitForWorker, vars, workerVars
<1>4. ASSUME NEW x \in Workers, WorkerStep(x) \/ UseFreed(x)
      PROVE  wpc[z] \in {"none", "enter"}
  BY <1>1, <1>4 DEF WorkerStep, EnterQueue, WaitForCpu, LeaveQueue, LoadCount, StoreCount,
     ReleaseRunning, RequeueOut, RequeueIn, ReleasePost, UseFreed, GoTo, workerVars
<1> QED BY <1>2, <1>3, <1>4 DEF Next, Rest

\* The cursor stays where it is or goes to an element of the queue.
LEMMA CursorMoves ==
    ASSUME IInv, Next, Searches'
    PROVE  (Searches /\ cand' = cand) \/ Contains(queue, cand')
<1>1. queue \in Seq(Workers) /\ IsInjective(queue)
  BY DEF IInv, TypeOK, WaitersStayQueued
<1>2. CASE UNCHANGED <<spc, cand>>
  BY <1>2 DEF Searches
<1>3. CASE MainStep
  BY <1>2, <1>3 DEF Searches, MainStep, StartScheduler, SetCount, CreateWorker, AllCreated,
     CleanUp, schedVars
<1>4. CASE PeekHead
  <2>1. PICK h : h = Head(queue)
    OBVIOUS
  <2>2. queue # <<>> /\ cand' = h
    BY <1>4, <2>1 DEF PeekHead, NextWorkerFrom, Searches
  <2>3. 1 \in DOMAIN queue /\ queue[1] = h
    BY <1>1, <2>1, <2>2
  <2> QED BY <2>2, <2>3 DEF Contains
<1>5. CASE Advance
  <2>1. CASE Contains(queue, cand) /\ NextWorkerFrom(Successor(cand))
    <3>1. Successor(cand) = IF Place(queue, cand) = Len(queue) THEN NoWorker
                            ELSE queue[Place(queue, cand) + 1]
      BY DEF Successor, Place
    <3>2. PICK i : i = Place(queue, cand)
      OBVIOUS
    <3>3. i \in 1 .. Len(queue)
      BY <1>1, <2>1, <3>2, PlaceProperties
    <3>4. i # Len(queue) /\ cand' = queue[i + 1]
      BY <2>1, <3>1, <3>2 DEF NextWorkerFrom, Searches
    <3>5. i + 1 \in DOMAIN queue
      BY <1>1, <3>3, <3>4
    <3> QED BY <3>4, <3>5 DEF Contains
  <2> QED BY <1>2, <1>5, <2>1 DEF Advance, NextWorkerFrom, Searches
<1>6. CASE SchedStep /\ ~PeekHead /\ ~Advance
  BY <1>6 DEF SchedStep, WaitForQueue, CheckRemaining, TestRunning, WakeInsert, WakePost,
     WaitForWorker, SchedAt, Searches
<1>7. ASSUME NEW x \in Workers, WorkerStep(x) \/ UseFreed(x) PROVE UNCHANGED <<spc, cand>>
  BY <1>7 DEF WorkerStep, EnterQueue, WaitForCpu, LeaveQueue, LoadCount, StoreCount,
     ReleaseRunning, RequeueOut, RequeueIn, ReleasePost, UseFreed, schedVars
<1> QED BY <1>2, <1>3, <1>4, <1>5, <1>6, <1>7 DEF Next, Rest, vars, schedVars

\* A search that tests a running worker has met the only one with a slot.
AloneAtTest ==
    (MaxRunning <= 2 /\ spc = "test" /\ Contains(running, cand)) =>
        \A z \in Workers : z # cand => ~GivingBack(z) /\ ~Contains(running, z)

\* It follows from the count of the slots.
LEMMA TestsAlone == IInv => AloneAtTest
<1> SUFFICES ASSUME IInv, MaxRunning <= 2, spc = "test", Contains(running, cand),
                    NEW z \in Workers, z # cand
             PROVE  ~GivingBack(z) /\ ~Contains(running, z)
  BY DEF AloneAtTest
<1>1. ~SchedHoldsGrant /\ cand \in Workers
  BY DEF SchedHoldsGrant, IInv, TypeOK
<1>2. Tokens + (IF SchedHoldsGrant THEN 1 ELSE 0) <= 1
  BY <1>1, MaxRunningType
<1> QED BY <1>1, <1>2, OneSlotUsed

\* Nobody gets a slot while the search goes on.
LEMMA OneOtherStep ==
    ASSUME IInv, IInv', OneOther, Next
    PROVE  OneOther'
<1> SUFFICES ASSUME MaxRunning <= 2, GoesOn', NEW z \in Workers, z # cand'
             PROVE  ~GivingBack(z)' /\ ~Contains(running', z)
  BY DEF OneOther, MaxRunning, Tokens
<1>1. CASE spc' = "test"
  <2>1. AloneAtTest'
    BY TestsAlone, PTL
  <2> QED BY <1>1, <2>1 DEF AloneAtTest, GoesOn, MaxRunning, Tokens
<1>2. CASE spc' = "advance"
  <2> SUFFICES /\ GoesOn /\ cand' = cand
               /\ GivingBack(z)' => GivingBack(z) \/ Contains(running, z)
               /\ Contains(running', z) => Contains(running, z)
    BY DEF OneOther
  <2>1. wpc \in [Workers -> WorkerPc] /\ running \in Seq(Workers) /\ IsInjective(running)
    BY DEF IInv, TypeOK, GrantAccounting
  <2>2. CASE TestRunning
    BY <1>2, <2>2 DEF TestRunning, SchedAt, GoesOn, GivingBack, sharedVars, workerVars
  <2>3. CASE SchedStep /\ ~TestRunning
    <3>1. spc = "advance" /\ UNCHANGED <<cand, running, wpc>>
      BY <1>2, <2>3 DEF SchedStep, WaitForQueue, CheckRemaining, PeekHead, Advance, WakeInsert,
         WakePost, WaitForWorker, SchedAt, NextWorkerFrom, sharedVars, workerVars
    <3> QED BY <3>1 DEF GoesOn, GivingBack
  <2>4. CASE MainStep
    <3>1. spc = "advance" /\ UNCHANGED <<cand, running>>
      BY <1>2, <2>4 DEF MainStep, StartScheduler, SetCount, CreateWorker, AllCreated, CleanUp,
         schedVars, sharedVars
    <3>2. wpc'[z] = wpc[z] \/ wpc'[z] = "enter"
      BY <2>1, <2>4 DEF MainStep, StartScheduler, SetCount, CreateWorker, AllCreated, CleanUp,
         workerVars
    <3> QED BY <3>1, <3>2 DEF GoesOn, GivingBack
  <2>5. ASSUME NEW x \in Workers, ReleaseRunning(x)
        PROVE  /\ GoesOn /\ cand' = cand
               /\ GivingBack(z)' => GivingBack(z) \/ Contains(running, z)
               /\ Contains(running', z) => Contains(running, z)
    <3>1. /\ running' = RemoveFirst(running, x) /\ UNCHANGED <<spc, cand>>
          /\ wpc[x] \in {"work", "release"}
          /\ \A y \in Workers : y # x => wpc'[y] = wpc[y]
      BY <2>1, <2>5 DEF ReleaseRunning, GoTo, schedVars
    <3>2. Contains(running, x)
      BY <3>1 DEF IInv, GrantAccounting, HasCpu
    <3>3. Contains(running', z) => Contains(running, z)
      BY <2>1, <3>1, RemoveFirstProperties
    <3> QED BY <1>2, <3>1, <3>2, <3>3 DEF GoesOn, GivingBack
  <2>6. ASSUME NEW x \in Workers, (WorkerStep(x) /\ ~ReleaseRunning(x)) \/ UseFreed(x)
        PROVE  /\ GoesOn /\ cand' = cand
               /\ GivingBack(z)' => GivingBack(z) \/ Contains(running, z)
               /\ Contains(running', z) => Contains(running, z)
    <3>1. UNCHANGED <<running, spc, cand>>
      BY <2>6 DEF WorkerStep, EnterQueue, WaitForCpu, LeaveQueue, LoadCount, StoreCount,
         RequeueOut, RequeueIn, ReleasePost, UseFreed, schedVars, sharedVars
    <3>2. GivingBack(z)' => GivingBack(z)
      BY <2>1, <2>6 DEF WorkerStep, EnterQueue, WaitForCpu, LeaveQueue, LoadCount, StoreCount,
         RequeueOut, RequeueIn, ReleasePost, UseFreed, GoTo, workerVars, GivingBack
    <3> QED BY <1>2, <3>1, <3>2 DEF GoesOn
  <2>7. CASE UNCHANGED vars
    BY <1>2, <2>7 DEF vars, sharedVars, schedVars, workerVars, GoesOn, GivingBack
  <2> QED BY <2>2, <2>3, <2>4, <2>5, <2>6, <2>7 DEF Next, Rest
<1> QED BY <1>1, <1>2 DEF GoesOn

\* What is counted, and where the cursor comes from.
LEMMA CountsStep ==
    ASSUME IInv, IInv', Tracked, CountsGrants, CursorEntered, BNext
    PROVE  CountsGrants' /\ CursorEntered'
<1>1. Next
  BY DEF BNext
<1>2. ASSUME NEW v \in Workers, NEW w \in Workers,
             ~Passed(v)' \/ v = w \/ wpc'[w] \in {"none", "enter"}
      PROVE  bypass'[v][w] = 0
  <2>1. CASE ~(Passed(v) /\ Passed(v)')
    BY <2>1, CountStepped
  <2>2. CASE Passed(v) /\ Passed(v)' /\ ~Granted(w)
    <3>1. bypass'[v][w] = bypass[v][w]
      BY <2>2, CountStepped
    <3>2. wpc'[w] \in {"none", "enter"} => wpc[w] \in {"none", "enter"}
      BY <1>1, EnteredStays
    <3> QED BY <1>2, <2>2, <3>1, <3>2 DEF CountsGrants
  <2>3. CASE Passed(v) /\ Passed(v)' /\ Granted(w)
    <3>1. WakeInsert /\ cand = w /\ spc = "insert"
      BY <1>1, <2>3, GrantIsWake DEF Granted
    <3>2. wpc[w] \notin {"none", "enter"} /\ UNCHANGED wpc
      BY <3>1 DEF CursorEntered, Searches, WakeInsert, workerVars
    <3>3. Contains(running', w)
      <4>1. running \in Seq(Workers) /\ IsInjective(running) /\ ~Contains(running, w)
        BY <3>1 DEF IInv, TypeOK, GrantAccounting, WakesTheIdle
      <4>2. running' = Append(running, w)
        BY <3>1 DEF WakeInsert
      <4> QED BY <4>1, <4>2, InsertTailProperties
    <3>4. v # w
      BY <2>3, <3>3 DEF Passed
    <3> QED BY <1>2, <2>3, <3>2, <3>4
  <2> QED BY <2>1, <2>2, <2>3
<1>3. CountsGrants'
  BY <1>2 DEF CountsGrants
<1>4. ASSUME Searches', wpc'[cand'] \in {"none", "enter"} PROVE FALSE
  <2>1. cand' \in Workers
    BY <1>4 DEF IInv, TypeOK, Searches
  <2>2. wpc[cand'] \in {"none", "enter"}
    BY <1>1, <1>4, <2>1, EnteredStays
  <2>3. (Searches /\ cand' = cand) \/ Contains(queue, cand')
    BY <1>1, <1>4, CursorMoves
  <2> QED BY <2>1, <2>2, <2>3 DEF CursorEntered, IInv, EnterersAreOut
<1> QED BY <1>3, <1>4 DEF CursorEntered

\* Under round robin every step keeps a worker that waits within the bounds.
LEMMA PassedStep ==
    ASSUME Policy = "rr", IInv, IInv', BInv, BNext
    PROVE  PassedFew'
<1> SUFFICES ASSUME NEW v \in Workers, NEW w \in Workers, Passed(v)', v # w
             PROVE  Within(v, w)'
  BY DEF PassedFew
<1>1. Next
  BY DEF BNext
<1>2. /\ Tracked'
      /\ bypass'[v][w] = IF ~(Passed(v) /\ Passed(v)') THEN 0
                         ELSE IF Granted(w) THEN bypass[v][w] + 1
                         ELSE bypass[v][w]
  BY CountStepped DEF BInv
<1>3. CASE ~Passed(v)
  <2>1. FreshFew'
    BY FreshAlways, PTL
  <2> QED BY <1>2, <1>3, <2>1 DEF FreshFew
<1>4. CASE Passed(v) /\ WakeInsert
  BY <1>2, <1>4, WakeWithin
<1>5. CASE Passed(v) /\ ~WakeInsert
  <2>1. bypass'[v][w] = bypass[v][w]
    BY <1>1, <1>2, <1>5, GrantIsWake
  <2>2. CASE PeekHead \/ TestRunning \/ Advance
    <3>1. Keeps(v, w)
      BY <1>5, <2>1, <2>2, PeekKeeps, TestKeeps, AdvanceKeeps
    <3> QED BY <1>2, <1>5, <3>1, KeptWithin
  <2>3. ASSUME NEW x \in Workers, ReleaseRunning(x) PROVE Within(v, w)'
    <3>1. Keeps(v, w)
      BY <1>5, <2>1, <2>3, ReleaseKeeps
    <3> QED BY <1>2, <1>5, <3>1, KeptWithin
  <2>4. ASSUME NEW x \in Workers, EnterQueue(x) \/ RequeueIn(x) PROVE Within(v, w)'
    BY <1>2, <1>5, <2>1, <2>4, AppendWithin
  <2>5. ASSUME NEW x \in Workers, LeaveQueue(x) \/ RequeueOut(x) PROVE Within(v, w)'
    BY <1>2, <1>5, <2>1, <2>5, RemoveWithin
  <2>6. ASSUME NEW x \in Workers,
               \/ MainStep \/ WaitForQueue \/ CheckRemaining \/ WakePost \/ WaitForWorker
               \/ WaitForCpu(x) \/ LoadCount(x) \/ StoreCount(x) \/ ReleasePost(x)
               \/ UseFreed(x) \/ UNCHANGED vars
        PROVE  Within(v, w)'
    <3>1. Silent
      BY <2>6, SilentSteps DEF MainStep
    <3>2. Keeps(v, w)
      BY <2>1, <3>1, SilentKeeps
    <3> QED BY <1>2, <1>5, <3>2, KeptWithin
  <2>7. (\E x \in Workers : WorkerStep(x) \/ UseFreed(x)) => Within(v, w)'
    BY <2>3, <2>4, <2>5, <2>6 DEF WorkerStep
  <2> QED BY <1>1, <1>5, <2>2, <2>6, <2>7 DEF Next, SchedStep, Rest
<1> QED BY <1>3, <1>4, <1>5

\* Every step keeps the invariant.
LEMMA BInvStep ==
    ASSUME Policy = "rr"
    PROVE  IInv /\ IInv' /\ BInv /\ [BNext]_<<vars, bypass>> => BInv'
<1> SUFFICES ASSUME IInv, IInv', BInv, [BNext]_<<vars, bypass>> PROVE BInv'
  OBVIOUS
<1>1. CASE BNext
  <2>1. Tracked' /\ CountsGrants' /\ CursorEntered' /\ OneOther'
    BY <1>1, CountStepped, CountsStep, OneOtherStep DEF BInv, BNext
  <2> QED BY <1>1, <2>1, PassedStep DEF BInv
<1>2. CASE UNCHANGED <<vars, bypass>>
  BY <1>2 DEF BInv, Tracked, CountsGrants, CursorEntered, OneOther, PassedFew, Within, ManyAt,
     FewAt, Due, Past, Reaches, GoesOn, Searches, Passed, GivingBack, vars, sharedVars, schedVars,
     workerVars, mainVars
<1> QED BY <1>1, <1>2

\* Nobody waits when the program starts.
LEMMA BInvInit == BInit => IInv /\ BInv
<1> SUFFICES ASSUME BInit PROVE IInv /\ BInv
  OBVIOUS
<1>1. IInv
  BY IInvInit DEF BInit
<1>2. Tracked /\ CountsGrants
  BY DEF BInit, Tracked, CountsGrants
<1>3. CursorEntered /\ OneOther
  BY DEF BInit, Init, CursorEntered, OneOther, GoesOn, Searches
<1>4. \A v : ~Passed(v)
  BY DEF BInit, Init, Passed, Contains
<1> QED BY <1>1, <1>2, <1>3, <1>4 DEF BInv, PassedFew

\* The bounds leave at most MostGrants for what has been granted.
LEMMA BInvBounds == IInv /\ BInv => BoundedBypass
<1> SUFFICES ASSUME IInv, BInv, NEW v \in Workers, NEW w \in Workers
             PROVE  bypass[v][w] <= MostGrants
  BY DEF BoundedBypass
<1>1. MaxRunning \in Nat /\ MaxRunning >= 1 /\ NumThreads \in Nat
  BY MaxRunningType, ConstantsAssumption DEF ConstantsAssumption
<1>2. CASE bypass[v][w] = 0
  BY <1>1, <1>2 DEF MostGrants
<1>3. CASE Passed(v) /\ v # w
  <2>1. bypass[v][w] \in Nat /\ Due(v, w) \in 0 .. 2 /\ Past(v) \in 0 .. 1 /\ Within(v, w)
    BY <1>3, PotentialTypes DEF BInv, PassedFew
  <2>2. Place(queue, v) \in 1 .. NumThreads
    BY <1>3, PlaceBound DEF Passed
  <2>3. bypass[v][w] <= NumThreads + 2
    BY <1>1, <2>1, <2>2 DEF Within, ManyAt
  <2>4. ASSUME MaxRunning <= 2 PROVE bypass[v][w] <= MaxRunning
    <3>1. Ahead(queue, w, v) /\ MaxRunning = 1 => Due(v, w) >= 1
      <4> SUFFICES ASSUME Ahead(queue, w, v), MaxRunning = 1 PROVE Due(v, w) >= 1
        OBVIOUS
      <4>1. wpc[w] = "requeue_out" => ~Contains(running, w)
        <5>1. Tokens + (IF SchedHoldsGrant THEN 1 ELSE 0) <= 1
          BY MaxRunningType
        <5> QED BY <5>1, OneSlotUsed DEF GivingBack
      <4> QED BY <4>1 DEF Due
    <3> QED BY <1>1, <2>1, <2>4, <3>1 DEF Within, FewAt
  <2> QED BY <1>1, <2>3, <2>4 DEF MostGrants
<1> QED BY <1>2, <1>3 DEF BInv, CountsGrants

\* Round robin starves nobody, however the threads interleave and however many
\* iterations each of them runs: the grants the others get while a worker waits
\* are bounded.
THEOREM WaitersAreServed ==
    ASSUME Policy = "rr"
    PROVE  BSpec => []BoundedBypass
<1>1. BInit => Init
  BY DEF BInit
<1>2. [BNext]_<<vars, bypass>> => [Next]_vars
  BY DEF BNext
<1>3. IInv /\ [BNext]_<<vars, bypass>> => IInv'
  BY <1>2, IInvStep
<1> QED BY <1>1, <1>3, BInvInit, BInvStep, BInvBounds, PTL DEF BSpec
=============================================================================
