-------------------------- MODULE Animation_proofs --------------------------
(***************************************************************************)
(* Proofs about Workers and Animation, for every set of threads, jobs,     *)
(* items and nodes.  First the workers alone: what is removed is quiet,    *)
(* and a round serves all.  Then: the interface uses them as Workers       *)
(* allows, a shut-down leaves nothing behind, what will step again is on   *)
(* an item that exists, and animations put after others start after them.  *)
(***************************************************************************)
EXTENDS Animation, FiniteSetTheorems, WellFoundedInduction, SequenceTheorems, TLAPS

Once(s, j) == \A i, k \in 1..Len(s) : s[i] = j /\ s[k] = j => i = k

\* list_rm_at: the items behind the place move up.
LEMMA RemoveAtShifts ==
    ASSUME NEW S, NEW s \in Seq(S), NEW k \in 1..Len(s)
    PROVE  /\ RemoveAt(s, k) \in Seq(S)
           /\ Len(RemoveAt(s, k)) = Len(s) - 1
           /\ \A i \in 1..Len(s) - 1 :
                RemoveAt(s, k)[i] = IF i < k THEN s[i] ELSE s[i + 1]
<1> DEFINE before == SubSeq(s, 1, k - 1)
           after == SubSeq(s, k + 1, Len(s))
<1>1. Len(s) \in Nat /\ \A i \in 1..Len(s) : s[i] \in S
    BY LenProperties, ElementOfSeq
<1>2. /\ before \in Seq(S) /\ Len(before) = k - 1
      /\ \A i \in 1..k - 1 : before[i] = s[i]
    BY <1>1, SubSeqProperties
<1>3. /\ after \in Seq(S) /\ Len(after) = Len(s) - k
      /\ \A i \in 1..Len(s) - k : after[i] = s[k + i]
    BY <1>1, SubSeqProperties
<1> HIDE DEF before, after
<1>4. /\ before \o after \in Seq(S) /\ Len(before \o after) = Len(before) + Len(after)
      /\ \A i \in 1..Len(before) + Len(after) :
            (before \o after)[i] = IF i <= Len(before) THEN before[i]
                                   ELSE after[i - Len(before)]
    BY <1>2, <1>3, ConcatProperties
<1>5. Len(before) + Len(after) = Len(s) - 1
    BY <1>1, <1>2, <1>3
<1>6. ASSUME NEW i \in 1..Len(s) - 1
      PROVE  (before \o after)[i] = IF i < k THEN s[i] ELSE s[i + 1]
  <2>1. CASE i < k
    <3>1. (before \o after)[i] = before[i]
        BY <1>1, <1>2, <1>4, <1>5, <2>1
    <3> QED BY <1>1, <1>2, <2>1, <3>1
  <2>2. CASE ~(i < k)
    <3> DEFINE m == i - (k - 1)
    <3>1. m \in 1..Len(s) - k /\ k + m = i + 1
        BY <1>1, <2>2
    <3>2. (before \o after)[i] = after[m]
        BY <1>1, <1>2, <1>4, <1>5, <2>2
    <3> HIDE DEF m
    <3>3. after[m] = s[i + 1]
        BY <1>3, <3>1
    <3> QED BY <2>2, <3>2, <3>3
  <2> QED BY <2>1, <2>2
<1> QED BY <1>4, <1>5, <1>6 DEF RemoveAt, before, after

\* What is removed from a list was in it, and what is in it once goes.
LEMMA RemoveAtRemoves ==
    ASSUME NEW S, NEW s \in Seq(S), NEW k \in 1..Len(s)
    PROVE  /\ Range(RemoveAt(s, k)) \subseteq Range(s)
           /\ Once(s, s[k]) => s[k] \notin Range(RemoveAt(s, k))
           /\ \A j : Once(s, j) => Once(RemoveAt(s, k), j)
<1> DEFINE r == RemoveAt(s, k)
           from(i) == IF i < k THEN i ELSE i + 1
<1>1. Len(s) \in Nat /\ DOMAIN s = 1..Len(s)
    BY LenProperties
<1>2. r \in Seq(S) /\ Len(r) = Len(s) - 1 /\ \A i \in 1..Len(s) - 1 : r[i] = s[from(i)]
    BY RemoveAtShifts
<1>3. DOMAIN r = 1..Len(s) - 1
    BY <1>2, LenProperties
<1>4. \A i \in 1..Len(s) - 1 : from(i) \in 1..Len(s) /\ from(i) # k
    BY <1>1
<1>5. \A i, m \in 1..Len(s) - 1 : from(i) = from(m) => i = m
    BY <1>1
<1> HIDE DEF r, from
<1>6. Range(r) \subseteq Range(s)
    BY <1>1, <1>2, <1>3, <1>4 DEF Range
<1>7. Once(s, s[k]) => s[k] \notin Range(r)
    BY <1>1, <1>2, <1>3, <1>4 DEF Range, Once
<1>8. \A j : Once(s, j) => Once(r, j)
    BY <1>1, <1>2, <1>3, <1>4, <1>5 DEF Once
<1> QED BY <1>6, <1>7, <1>8 DEF r

\* The first match of a job that is in the list at most once.
LEMMA RemoveFirstRemoves ==
    ASSUME NEW S, NEW s \in Seq(S), NEW j, Once(s, j)
    PROVE  /\ RemoveFirst(s, j) \in Seq(S)
           /\ Range(RemoveFirst(s, j)) \subseteq Range(s) \ {j}
           /\ \A m : Once(s, m) => Once(RemoveFirst(s, j), m)
<1>1. Len(s) \in Nat /\ DOMAIN s = 1..Len(s)
    BY LenProperties
<1>2. CASE \E k \in 1..Len(s) : s[k] = j
  <2>1. PICK k \in 1..Len(s) : s[k] = j
    BY <1>2
  <2>2. {i \in 1..Len(s) : s[i] = j} = {k}
    BY <2>1 DEF Once
  <2>3. Min({k}) = k
    BY <1>1 DEF Min
  <2>4. SelectInSeq(s, LAMBDA v : v = j) = k
    BY <2>2, <2>3 DEF SelectInSeq
  <2>5. RemoveFirst(s, j) = RemoveAt(s, k)
    BY <1>2, <2>4 DEF RemoveFirst
  <2> QED BY <2>1, <2>5, RemoveAtShifts, RemoveAtRemoves
<1>3. CASE ~\E k \in 1..Len(s) : s[k] = j
  <2>1. RemoveFirst(s, j) = s
    BY <1>3 DEF RemoveFirst
  <2> QED BY <1>1, <1>3, <2>1 DEF Range
<1> QED BY <1>2, <1>3

\* list_add.
LEMMA AppendAdds ==
    ASSUME NEW S, NEW s \in Seq(S), NEW j \in S
    PROVE  /\ Append(s, j) \in Seq(S)
           /\ Range(Append(s, j)) = Range(s) \cup {j}
           /\ \A m : Once(s, m) /\ (m = j => j \notin Range(s)) => Once(Append(s, j), m)
<1>1. Len(s) \in Nat /\ DOMAIN s = 1..Len(s)
    BY LenProperties
<1>2. /\ Append(s, j) \in Seq(S)
      /\ Len(Append(s, j)) = Len(s) + 1
      /\ \A i \in 1..Len(s) : Append(s, j)[i] = s[i]
      /\ Append(s, j)[Len(s) + 1] = j
    BY AppendProperties
<1>3. DOMAIN Append(s, j) = 1..Len(s) + 1
    BY <1>2, LenProperties
<1> DEFINE r == Append(s, j)
<1> HIDE DEF r
<1>4. Range(r) = Range(s) \cup {j}
    BY <1>1, <1>2, <1>3 DEF Range, r
<1>5. \A m : Once(s, m) /\ (m = j => j \notin Range(s)) => Once(r, m)
    BY <1>1, <1>2 DEF Range, Once, r
<1> QED BY <1>2, <1>4, <1>5 DEF r
-----------------------------------------------------------------------------
Adds(t, j) == want[t] = [op |-> "add", job |-> j]

\* A job that stays is registered, or about to be, at most once.
AtMostOnce ==
    \A j \in Jobs \ OneShot :
        /\ Once(jobs, j)
        /\ \A t, u \in Threads : Adds(t, j) /\ Adds(u, j) => t = u
        /\ \A t \in Threads : Adds(t, j) => j \notin Range(jobs)

\* Where the worker is in the list, what is asked for, and what the histories hold.
PlaceInv ==
    /\ worker = "call" => at <= Len(jobs) /\ jobs[at] = call
    /\ \A t \in Threads : want[t].op = "remove" => want[t].job \notin OneShot
    /\ gone \cap OneShot = {}

WorkersInv == WorkersTypeOK /\ AtMostOnce /\ PlaceInv /\ RemovedIsQuiet

LEMMA EmptyList == Range(<<>>) = {} /\ <<>> \in Seq(Jobs) /\ \A j : Once(<<>>, j)
<1>1. <<>> \in Seq(Jobs)
    OBVIOUS
<1>2. Range(<<>>) = {} /\ \A j : Once(<<>>, j)
    BY DEF Range, Once
<1> QED BY <1>1, <1>2

LEMMA WantsShape ==
    /\ \A w \in Wants : w.op \in {"free", "join", "add", "remove"}
    /\ \A w \in Wants : w.op \in {"add", "remove"}
            => w.job \in Jobs /\ w = [op |-> w.op, job |-> w.job]
    /\ \A w \in Wants : w.op = "free" => w = Free
    /\ Free \in Wants /\ Free.op = "free" /\ [op |-> "join"] \in Wants
    /\ \A j \in Jobs, o \in {"add", "remove"} :
            /\ [op |-> o, job |-> j] \in Wants
            /\ [op |-> o, job |-> j].op = o /\ [op |-> o, job |-> j].job = j
BY DEF Wants, Free

LEMMA InitWorkersInv == WorkersInit => WorkersInv
<1> SUFFICES ASSUME WorkersInit PROVE WorkersInv
    OBVIOUS
<1>1. Range(<<>>) = {} /\ <<>> \in Seq(Jobs)
    BY EmptyList
<1>2. WorkersTypeOK
  <2>1. want \in [Threads -> Wants]
    BY WantsShape DEF WorkersInit
  <2>2. jobs \in Seq(Jobs) /\ called \in Seq(Jobs)
    BY <1>1 DEF WorkersInit
  <2>3. run = FALSE /\ at = 1 /\ call = "none" /\ worker = "none"
    BY DEF WorkersInit
  <2>4. gone \in SUBSET Jobs
    BY DEF WorkersInit
  <2>5. run \in BOOLEAN
    BY Zenon DEF WorkersInit
  <2>6. at \in Nat \ {0} /\ ((worker = "call") <=> (call # "none"))
    BY <2>3
  <2> QED BY <2>1, <2>2, <2>3, <2>4, <2>5, <2>6 DEF WorkersTypeOK
<1>3. AtMostOnce
    BY <1>1 DEF WorkersInit, AtMostOnce, Adds, Once, Free
<1>4. PlaceInv
    BY WantsShape DEF WorkersInit, PlaceInv
<1>5. RemovedIsQuiet
    BY <1>1 DEF WorkersInit, RemovedIsQuiet
<1> QED BY <1>2, <1>3, <1>4, <1>5 DEF WorkersInv

\* One step per action; the lemmas above say what the actions do to the list.
LEMMA StepKeepsWorkersInv == WorkersInv /\ [WorkersNext]_workersVars => WorkersInv'
<1> SUFFICES ASSUME WorkersInv, [WorkersNext]_workersVars PROVE WorkersInv'
    OBVIOUS
<1> USE DEF WorkersInv
<1>1. ASSUME UNCHANGED workersVars PROVE WorkersInv'
    BY <1>1 DEF workersVars, WorkersTypeOK, AtMostOnce, Adds, PlaceInv, RemovedIsQuiet
<1>2. ASSUME NEW t \in Threads, workers_start(t) \/ workers_stop(t) PROVE WorkersInv'
  <2>1. CASE workers_start(t)
    <3>1. WorkersTypeOK'
        BY <2>1 DEF workers_start, WorkersTypeOK
    <3>2. AtMostOnce' /\ RemovedIsQuiet'
        BY <2>1 DEF workers_start, AtMostOnce, Adds, RemovedIsQuiet
    <3>3. PlaceInv'
        BY <2>1 DEF workers_start, PlaceInv
    <3> QED BY <3>1, <3>2, <3>3
  <2>2. CASE workers_stop(t)
    <3>1. WorkersTypeOK'
        BY <2>2, WantsShape DEF workers_stop, WorkersTypeOK
    <3>2. \A u \in Threads, j \in Jobs : Adds(u, j)' => Adds(u, j)
        BY <2>2, WantsShape DEF workers_stop, WorkersTypeOK, Adds
    <3>3. AtMostOnce' /\ RemovedIsQuiet'
        BY <2>2, <3>2 DEF workers_stop, AtMostOnce, RemovedIsQuiet
    <3>4. PlaceInv'
        BY <2>2, WantsShape DEF workers_stop, PlaceInv, WorkersTypeOK
    <3> QED BY <3>1, <3>3, <3>4
  <2> QED BY <1>2, <2>1, <2>2
<1>3. ASSUME NEW t \in Threads, Joined(t) PROVE WorkersInv'
  <2> QED BY <1>3, EmptyList, WantsShape DEF Joined, WorkersTypeOK, AtMostOnce, Adds,
            PlaceInv, RemovedIsQuiet
<1>4. ASSUME NEW t \in Threads, NEW j \in Jobs, workers_add(t, j) \/ workers_remove(t, j)
      PROVE  WorkersInv'
  <2>1. CASE workers_add(t, j)
    <3>1. WorkersTypeOK'
        BY <2>1, WantsShape DEF workers_add, Ask, WorkersTypeOK
    <3>2. \A u \in Threads, m \in Jobs : Adds(u, m)' => Adds(u, m) \/ (u = t /\ m = j)
        BY <2>1, WantsShape DEF workers_add, Ask, WorkersTypeOK, Adds
    <3>3. j \notin OneShot
            => j \notin Range(jobs) /\ \A u \in Threads : ~Adds(u, j)
        BY <2>1 DEF workers_add, Adding, Adds
    <3>4. AtMostOnce' /\ RemovedIsQuiet'
        BY <2>1, <3>2, <3>3 DEF workers_add, Ask, AtMostOnce, RemovedIsQuiet
    <3>5. PlaceInv'
        BY <2>1, WantsShape DEF workers_add, Ask, PlaceInv, WorkersTypeOK
    <3> QED BY <3>1, <3>4, <3>5
  <2>2. CASE workers_remove(t, j)
    <3>1. WorkersTypeOK'
        BY <2>2, WantsShape DEF workers_remove, Ask, WorkersTypeOK
    <3>2. \A u \in Threads, m \in Jobs : Adds(u, m)' => Adds(u, m)
        BY <2>2, WantsShape DEF workers_remove, Ask, WorkersTypeOK, Adds
    <3>3. AtMostOnce' /\ RemovedIsQuiet'
        BY <2>2, <3>2 DEF workers_remove, Ask, AtMostOnce, RemovedIsQuiet
    <3>4. PlaceInv'
        BY <2>2, WantsShape DEF workers_remove, Ask, PlaceInv, WorkersTypeOK
    <3> QED BY <3>1, <3>3, <3>4
  <2> QED BY <1>4, <2>1, <2>2
<1>5. ASSUME NEW t \in Threads, Added(t) PROVE WorkersInv'
  <2> DEFINE j == want[t].job
  <2>1. j \in Jobs /\ Adds(t, j) /\ jobs' = Append(jobs, j) /\ jobs \in Seq(Jobs)
    BY <1>5, WantsShape DEF Added, Adds, WorkersTypeOK
  <2>2. /\ jobs' \in Seq(Jobs) /\ Range(jobs') = Range(jobs) \cup {j}
        /\ \A m : Once(jobs, m) /\ (m = j => j \notin Range(jobs)) => Once(jobs', m)
    BY <2>1, AppendAdds
  <2>3. WorkersTypeOK'
    BY <1>5, <2>2, WantsShape DEF Added, WorkersTypeOK
  <2>4. AtMostOnce'
    <3>1. \A u \in Threads, m \in Jobs : Adds(u, m)' => u # t /\ Adds(u, m)
        BY <1>5, WantsShape DEF Added, WorkersTypeOK, Adds
    <3>2. \A m \in Jobs \ OneShot : Once(jobs', m)
        BY <2>1, <2>2 DEF AtMostOnce
    <3>3. \A m \in Jobs \ OneShot, u \in Threads : Adds(u, m)' => m # j
        BY <2>1, <3>1 DEF AtMostOnce
    <3> QED BY <2>2, <3>1, <3>2, <3>3 DEF AtMostOnce
  <2>5. PlaceInv'
    BY <1>5, WantsShape DEF Added, Locked, PlaceInv, WorkersTypeOK
  <2>6. RemovedIsQuiet'
    BY <1>5, <2>2 DEF Added, RemovedIsQuiet
  <2> QED BY <2>3, <2>4, <2>5, <2>6
<1>6. ASSUME NEW t \in Threads, Removed(t) PROVE WorkersInv'
  <2> DEFINE j == want[t].job
  <2>1. j \in Jobs \ OneShot /\ jobs' = RemoveFirst(jobs, j) /\ jobs \in Seq(Jobs)
    BY <1>6, WantsShape DEF Removed, PlaceInv, WorkersTypeOK
  <2>2. /\ jobs' \in Seq(Jobs) /\ Range(jobs') \subseteq Range(jobs) \ {j}
        /\ \A m : Once(jobs, m) => Once(jobs', m)
    BY <2>1, RemoveFirstRemoves DEF AtMostOnce
  <2>3. WorkersTypeOK'
    BY <1>6, <2>1, <2>2, WantsShape DEF Removed, WorkersTypeOK
  <2>4. AtMostOnce'
    <3>1. \A u \in Threads, m \in Jobs : Adds(u, m)' => Adds(u, m)
        BY <1>6, WantsShape DEF Removed, WorkersTypeOK, Adds
    <3> QED BY <2>2, <3>1 DEF AtMostOnce
  <2>5. PlaceInv'
    BY <1>6, <2>1, WantsShape DEF Removed, Locked, PlaceInv, WorkersTypeOK
  <2>6. RemovedIsQuiet'
    <3>1. call = "none" /\ j # "none"
        BY <1>6, <2>1, WorkersAssumption DEF Removed, Locked, WorkersTypeOK
    <3> QED BY <1>6, <2>2, <3>1 DEF Removed, RemovedIsQuiet
  <2> QED BY <2>3, <2>4, <2>5, <2>6
<1>7. ASSUME Check \/ Lock \/ Unlock PROVE WorkersInv'
  <2>1. /\ jobs' = jobs /\ want' = want /\ gone' = gone /\ call' = call /\ run' = run
        /\ worker # "call" /\ worker' \in {"check", "lock", "walk", "ended"}
        /\ at' \in {at, 1} /\ called' \in {called, <<>>}
    BY <1>7 DEF Check, Lock, Unlock
  <2>2. WorkersTypeOK'
    <3>1. called' \in Seq(Jobs)
        BY <2>1, EmptyList DEF WorkersTypeOK
    <3>2. (worker' = "call") <=> (call' # "none")
        BY <2>1 DEF WorkersTypeOK
    <3>3. run' \in BOOLEAN /\ want' \in [Threads -> Wants] /\ at' \in Nat \ {0}
        BY <2>1 DEF WorkersTypeOK
    <3> QED BY <2>1, <3>1, <3>2, <3>3 DEF WorkersTypeOK
  <2>3. AtMostOnce' /\ RemovedIsQuiet'
    BY <2>1 DEF AtMostOnce, Adds, RemovedIsQuiet
  <2>4. PlaceInv'
    BY <2>1 DEF PlaceInv
  <2> QED BY <2>2, <2>3, <2>4
<1>8. ASSUME Call PROVE WorkersInv'
  <2>1. at \in 1..Len(jobs) /\ jobs[at] \in Jobs /\ jobs[at] \in Range(jobs)
    BY <1>8, ElementOfSeq, LenProperties DEF Call, WorkersTypeOK, Range
  <2>2. WorkersTypeOK'
    BY <1>8, <2>1, WorkersAssumption, AppendAdds DEF Call, WorkersTypeOK
  <2>3. RemovedIsQuiet'
    BY <1>8, <2>1 DEF Call, RemovedIsQuiet
  <2> QED BY <1>8, <2>1, <2>2, <2>3 DEF Call, AtMostOnce, Adds, PlaceInv
<1>9. ASSUME Return PROVE WorkersInv'
  <2>1. at \in 1..Len(jobs) /\ jobs \in Seq(Jobs)
    BY <1>9, LenProperties DEF Return, PlaceInv, WorkersTypeOK
  <2>2. /\ jobs' \in Seq(Jobs) /\ Range(jobs') \subseteq Range(jobs)
        /\ \A m : Once(jobs, m) => Once(jobs', m)
    BY <1>9, <2>1, RemoveAtShifts, RemoveAtRemoves DEF Return
  <2>3. WorkersTypeOK'
    BY <1>9, <2>2, WorkersAssumption DEF Return, WorkersTypeOK
  <2>4. AtMostOnce'
    BY <1>9, <2>2 DEF Return, AtMostOnce, Adds
  <2>5. PlaceInv'
    BY <1>9 DEF Return, PlaceInv
  <2>6. RemovedIsQuiet'
    BY <1>9, <2>2, WorkersAssumption DEF Return, RemovedIsQuiet, WorkersTypeOK
  <2> QED BY <2>3, <2>4, <2>5, <2>6
<1> QED
    BY <1>1, <1>2, <1>3, <1>4, <1>5, <1>6, <1>7, <1>8, <1>9
    DEF WorkersNext, WorkerStep, ClientStep

\* Type correctness of the workers, for any threads and jobs (workers.c:33-45).
THEOREM WorkersTypeCorrect == WorkersSpec => []WorkersTypeOK
<1>1. WorkersInv => WorkersTypeOK
    BY DEF WorkersInv
<1> QED BY <1>1, InitWorkersInv, StepKeepsWorkersInv, PTL DEF WorkersSpec

\* A removed job is neither registered nor running when workers_remove has returned
\* (workers.c:123-147).
THEOREM Quietness == WorkersSpec => []RemovedIsQuiet
<1>1. WorkersInv => RemovedIsQuiet
    BY DEF WorkersInv
<1> QED BY <1>1, InitWorkersInv, StepKeepsWorkersInv, PTL DEF WorkersSpec

-----------------------------------------------------------------------------
\* A round: what the worker has passed in the list is what stays of its calls, and while
\* a callback runs its call is the last one.
RoundInv ==
    /\ worker \notin {"walk", "call"} => at = 1 /\ called = <<>>
    /\ worker = "walk" => at <= Len(jobs) + 1 /\ Served(jobs, at - 1, called)
    /\ worker = "call" =>
         \E c \in Seq(Jobs) : called = Append(c, call) /\ Served(jobs, at - 1, c)

\* What Served asks of the places of the jobs in the calls.
Placing(s, n, c, place) ==
    /\ place \in [1..n -> 1..Len(c)]
    /\ \A i, k \in 1..n : i < k => place[i] < place[k]
    /\ \A i \in 1..n : s[i] = c[place[i]] /\ s[i] \notin OneShot
    /\ \A m \in 1..Len(c) : c[m] \in OneShot \/ \E i \in 1..n : place[i] = m

LEMMA PlacingServes ==
    ASSUME NEW s, NEW n, NEW c
    PROVE  Served(s, n, c) <=> \E place : Placing(s, n, c, place)
BY DEF Served, Placing

\* Nothing was called and nothing passed.
LEMMA NothingServed == ASSUME NEW s PROVE Served(s, 0, <<>>)
<1> DEFINE place == [i \in 1..0 |-> 1]
<1>1. Len(<<>>) = 0 /\ \A i : i \notin 1..0
  OBVIOUS
<1>2. place \in [1..0 -> 1..Len(<<>>)]
  BY <1>1
<1>3. Placing(s, 0, <<>>, place)
  BY <1>1, <1>2 DEF Placing
<1> QED
  BY <1>3, PlacingServes

\* A job that drops out leaves what was passed.
LEMMA ServedDrop ==
    ASSUME NEW s, NEW n \in Nat, NEW c \in Seq(Jobs), NEW j \in OneShot, Served(s, n, c),
           j \in Jobs
    PROVE  Served(s, n, Append(c, j))
<1>1. PICK place : Placing(s, n, c, place)
  BY PlacingServes
<1> DEFINE d == Append(c, j)
<1>2. /\ Len(c) \in Nat /\ Len(d) = Len(c) + 1 /\ d[Len(c) + 1] = j
      /\ \A m \in 1..Len(c) : d[m] = c[m]
  BY AppendProperties, LenProperties
<1> HIDE DEF d
<1>3. \A m : m \in 1..Len(c) => m \in 1..Len(d)
  BY <1>2
<1>4. \A m : m \in 1..Len(d) => m \in 1..Len(c) \/ m = Len(c) + 1
  BY <1>2
<1>5. place \in [1..n -> 1..Len(d)]
  BY <1>1, <1>3 DEF Placing
<1>6. \A i \in 1..n : s[i] = d[place[i]] /\ s[i] \notin OneShot
  BY <1>1, <1>2 DEF Placing
<1>7. \A m \in 1..Len(d) : d[m] \in OneShot \/ \E i \in 1..n : place[i] = m
  BY <1>1, <1>2, <1>4 DEF Placing
<1>8. Placing(s, n, d, place)
  BY <1>1, <1>5, <1>6, <1>7 DEF Placing
<1> QED
  BY <1>8, PlacingServes DEF d

\* A job that stays extends it.
LEMMA ServedNext ==
    ASSUME NEW s, NEW n \in Nat, NEW c \in Seq(Jobs), NEW j \in Jobs, Served(s, n, c),
           j \notin OneShot, s[n + 1] = j
    PROVE  Served(s, n + 1, Append(c, j))
<1>1. PICK place : Placing(s, n, c, place)
  BY PlacingServes
<1> DEFINE d == Append(c, j)
<1>2. /\ Len(c) \in Nat /\ Len(d) = Len(c) + 1 /\ d[Len(c) + 1] = j
      /\ \A m \in 1..Len(c) : d[m] = c[m]
  BY AppendProperties, LenProperties
<1> HIDE DEF d
<1>3. \A m : m \in 1..Len(c) => m \in 1..Len(d) /\ m < Len(c) + 1 /\ m \in Int
  BY <1>2
<1>4. \A m : m \in 1..Len(d) => m \in 1..Len(c) \/ m = Len(c) + 1
  BY <1>2
<1>5. \A i \in 1..n : place[i] \in 1..Len(c)
  BY <1>1 DEF Placing
<1> DEFINE to == [i \in 1..(n + 1) |-> IF i = n + 1 THEN Len(c) + 1 ELSE place[i]]
<1>6. \A i \in 1..n : i \in 1..(n + 1) /\ to[i] = place[i]
  OBVIOUS
<1>7. n + 1 \in 1..(n + 1) /\ to[n + 1] = Len(c) + 1
  OBVIOUS
<1>8. \A i : i \in 1..(n + 1) => i \in 1..n \/ i = n + 1
  OBVIOUS
<1>9. Len(c) + 1 \in 1..Len(d)
  BY <1>2
<1>10. to \in [1..(n + 1) -> 1..Len(d)]
  BY <1>3, <1>5, <1>9
<1> HIDE DEF to
<1>11. ASSUME NEW i \in 1..(n + 1), NEW k \in 1..(n + 1), i < k PROVE to[i] < to[k]
  <2>1. i \in 1..n
    BY <1>8, <1>11
  <2>2. CASE k = n + 1
    BY <1>3, <1>5, <1>6, <1>7, <2>1, <2>2
  <2>3. CASE k \in 1..n
    BY <1>1, <1>6, <1>11, <2>1, <2>3 DEF Placing
  <2> QED
    BY <1>8, <2>2, <2>3
<1>12. ASSUME NEW i \in 1..(n + 1) PROVE s[i] = d[to[i]] /\ s[i] \notin OneShot
  <2>1. CASE i = n + 1
    BY <1>2, <1>7, <2>1
  <2>2. CASE i \in 1..n
    BY <1>1, <1>2, <1>5, <1>6, <2>2 DEF Placing
  <2> QED
    BY <1>8, <2>1, <2>2
<1>13. ASSUME NEW m \in 1..Len(d) PROVE d[m] \in OneShot \/ \E i \in 1..(n + 1) : to[i] = m
  <2>1. CASE m = Len(c) + 1
    BY <1>7, <2>1
  <2>2. CASE m \in 1..Len(c)
    BY <1>1, <1>2, <1>6, <2>2 DEF Placing
  <2> QED
    BY <1>4, <2>1, <2>2
<1>14. Placing(s, n + 1, d, to)
  BY <1>10, <1>11, <1>12, <1>13 DEF Placing
<1> QED
  BY <1>14, PlacingServes DEF d

\* What was passed does not depend on the rest of the list.
LEMMA ServedSame ==
    ASSUME NEW s, NEW r, NEW n, NEW c, \A i \in 1..n : r[i] = s[i], Served(s, n, c)
    PROVE  Served(r, n, c)
<1>1. PICK place : Placing(s, n, c, place)
  BY PlacingServes
<1>2. Placing(r, n, c, place)
  BY <1>1 DEF Placing
<1> QED
  BY <1>2, PlacingServes

LEMMA StepKeepsRoundInv ==
    WorkersInv /\ RoundInv /\ [WorkersNext]_workersVars => RoundInv'
<1> SUFFICES ASSUME WorkersInv, RoundInv, [WorkersNext]_workersVars PROVE RoundInv'
    OBVIOUS
<1>0. WorkersTypeOK /\ PlaceInv
  BY DEF WorkersInv
<1>1. ASSUME UNCHANGED <<worker, at, called, call, jobs>> PROVE RoundInv'
  BY <1>1 DEF RoundInv, Served
<1>2. ASSUME NEW t \in Threads, ClientStep(t) PROVE RoundInv'
  <2>1. CASE workers_start(t)
    BY <2>1 DEF workers_start, RoundInv
  <2>2. CASE workers_stop(t) \/ \E j \in Jobs : workers_add(t, j) \/ workers_remove(t, j)
    BY <1>1, <2>2 DEF workers_stop, workers_add, workers_remove, Ask
  <2>3. CASE Joined(t)
    BY <2>3 DEF Joined, RoundInv
  <2>4. CASE Added(t) \/ Removed(t)
    BY <2>4 DEF Added, Removed, Locked, RoundInv
  <2> QED
    BY <1>2, <2>1, <2>2, <2>3, <2>4 DEF ClientStep
<1>3. CASE Check
  BY <1>3 DEF Check, RoundInv
<1>4. CASE Lock
  <2>1. worker' = "walk" /\ at' = 1 /\ called' = <<>> /\ jobs' = jobs /\ Len(jobs) \in Nat
    BY <1>0, <1>4, LenProperties DEF Lock, RoundInv, WorkersTypeOK
  <2>2. Served(jobs', 0, <<>>)
    BY NothingServed
  <2>3. at' - 1 = 0 /\ at' <= Len(jobs') + 1
    BY <2>1
  <2>4. Served(jobs', at' - 1, called')
    BY <2>1, <2>2, <2>3
  <2> QED
    BY <2>1, <2>3, <2>4 DEF RoundInv, Served
<1>5. CASE Call
  <2>1. /\ worker = "walk" /\ worker' = "call" /\ call' = jobs[at]
        /\ called' = Append(called, jobs[at]) /\ UNCHANGED <<jobs, at>>
        /\ called \in Seq(Jobs)
    BY <1>0, <1>5 DEF Call, WorkersTypeOK
  <2>2. called' = Append(called, call') /\ Served(jobs', at' - 1, called)
    BY <2>1 DEF RoundInv
  <2> QED
    BY <2>1, <2>2 DEF RoundInv, Served
<1>6. CASE Return
  <2>1. /\ worker = "call" /\ worker' = "walk" /\ called' = called
        /\ at \in 1..Len(jobs) /\ jobs[at] = call /\ jobs \in Seq(Jobs) /\ Len(jobs) \in Nat
        /\ call \in Jobs
    BY <1>0, <1>6, LenProperties, ElementOfSeq DEF Return, PlaceInv, WorkersTypeOK
  <2>2. PICK c \in Seq(Jobs) : called = Append(c, call) /\ Served(jobs, at - 1, c)
    BY <2>1 DEF RoundInv
  <2>3. at - 1 \in Nat /\ (at - 1) + 1 = at
    BY <2>1
  <2>4. CASE call \in OneShot
    <3>1. jobs' = RemoveAt(jobs, at) /\ at' = at
      BY <1>6, <2>4 DEF Return
    <3>2. Len(jobs') = Len(jobs) - 1 /\ \A i \in 1..Len(jobs) - 1 : i < at => jobs'[i] = jobs[i]
      BY <2>1, <3>1, RemoveAtShifts
    <3>3. \A i \in 1..(at - 1) : jobs'[i] = jobs[i]
      <4> TAKE i \in 1..(at - 1)
      <4>1. i \in 1..(Len(jobs) - 1) /\ i < at
        BY <2>1
      <4> QED
        BY <3>2, <4>1
    <3>4. Served(jobs, at - 1, called)
      BY <2>1, <2>2, <2>3, <2>4, ServedDrop
    <3>5. Served(jobs', at' - 1, called')
      BY <2>1, <3>1, <3>3, <3>4, ServedSame
    <3>6. at' <= Len(jobs') + 1
      BY <2>1, <3>1, <3>2
    <3> QED
      BY <2>1, <3>5, <3>6 DEF RoundInv, Served
  <2>5. CASE call \notin OneShot
    <3>1. jobs' = jobs /\ at' = at + 1
      BY <1>6, <2>5 DEF Return
    <3>2. Served(jobs, (at - 1) + 1, called)
      BY <2>1, <2>2, <2>3, <2>5, ServedNext
    <3>3. at' - 1 = (at - 1) + 1
      BY <2>1, <3>1
    <3>4. Served(jobs', at' - 1, called')
      BY <2>1, <3>1, <3>2, <3>3
    <3>5. at' <= Len(jobs') + 1
      BY <2>1, <3>1
    <3> QED
      BY <2>1, <3>4, <3>5 DEF RoundInv, Served
  <2> QED
    BY <2>4, <2>5
<1>7. CASE Unlock
  BY <1>7 DEF Unlock, RoundInv
<1>8. CASE UNCHANGED workersVars
  BY <1>1, <1>8 DEF workersVars
<1> QED
  BY <1>2, <1>3, <1>4, <1>5, <1>6, <1>7, <1>8 DEF WorkersNext, WorkerStep

\* Every round calls every registered job once and in order, whichever jobs drop out of
\* the list under the walk (workers.c:64-70).
THEOREM RoundsServe == WorkersSpec => []RoundServesAll
<1>1. WorkersInit => RoundInv
  BY DEF WorkersInit, RoundInv
<1>2. WorkersInv /\ RoundInv => RoundServesAll
  <2> SUFFICES ASSUME WorkersInv, RoundInv, worker = "walk", at > Len(jobs)
               PROVE  Served(jobs, Len(jobs), called)
    BY DEF RoundServesAll
  <2>1. at \in Nat /\ Len(jobs) \in Nat
    BY LenProperties DEF WorkersInv, WorkersTypeOK
  <2>2. at - 1 = Len(jobs)
    BY <2>1 DEF RoundInv
  <2> QED
    BY <2>2 DEF RoundInv
<1> QED
  BY <1>1, <1>2, InitWorkersInv, StepKeepsWorkersInv, StepKeepsRoundInv, PTL DEF WorkersSpec

-----------------------------------------------------------------------------
\* The animations.

AddsUpdate == [op |-> "add", job |-> Update]
RemovesUpdate == [op |-> "remove", job |-> Update]

\* Only multirom_ui() calls the workers, and where it is says which call it is in.
WantInv ==
    /\ \A t \in Threads \ {Main} : want[t] = Free
    /\ phase = "registering" => want[Main] = AddsUpdate
    /\ phase = "removing" => want[Main] = RemovesUpdate
    /\ phase = "joining" => want[Main] = [op |-> "join"]
    /\ phase \notin {"registering", "removing", "joining"} => want[Main] = Free

\* The phases without the job.
Bare == {"down", "starting", "registering", "clearing", "quiet", "joining"}

JobInv ==
    /\ phase \in Bare => jobs = <<>> /\ upd = "out" /\ call = "none"
    /\ phase \notin Bare => jobs = <<Update>>
    /\ upd # "out" => call = Update

ListInv ==
    /\ phase \in Bare \ {"clearing"} => list = <<>>
    /\ phase # "pong" => contexts = <<>>
    /\ phase = "pong" => \E l : contexts = <<l>>
    /\ running <=> phase \in {"registering", "up", "pong", "closing"}

\* After stop_input_thread() the other threads are in no call; once the animations are
\* stopped, Main only removes items.
DoesInv ==
    /\ does = [t \in Threads |-> does[t]]
    /\ phase \notin {"up", "pong"} => \A t \in Threads \ {Main} : does[t] = Idle
    /\ phase \notin {"up", "closing", "quiet"} => does[Main] = Idle
    /\ phase = "quiet" => \/ does[Main] = Idle
                          \/ does[Main].op = "cancel" /\ does[Main].how = "remove"

StopInv == WantInv /\ JobInv /\ ListInv /\ DoesInv
AnimInv == WorkersInv /\ StopInv

LEMMA OneJob == \A j : Append(<<>>, j) = <<j>> /\ RemoveFirst(<<j>>, j) = <<>>
<1> TAKE j
<1>1. Append(<<>>, j) = <<j>>
    OBVIOUS
<1>2. <<j>> \in Seq({j}) /\ Len(<<j>>) = 1 /\ <<j>>[1] = j
    OBVIOUS
<1>3. Once(<<j>>, j)
    BY <1>2 DEF Once
<1>4. RemoveFirst(<<j>>, j) \in Seq({j}) /\ Range(RemoveFirst(<<j>>, j)) = {}
  <2>1. Range(<<j>>) = {j}
    BY <1>2 DEF Range
  <2> QED BY <1>2, <1>3, <2>1, RemoveFirstRemoves
<1>5. \A s \in Seq({j}) : Range(s) = {} => s = <<>>
  <2> SUFFICES ASSUME NEW s \in Seq({j}), Range(s) = {} PROVE s = <<>>
    OBVIOUS
  <2>1. DOMAIN s = 1..Len(s) /\ Len(s) \in Nat
    BY LenProperties
  <2>2. ASSUME Len(s) # 0 PROVE FALSE
    <3>1. 1 \in DOMAIN s
        BY <2>1, <2>2
    <3>2. s[1] \in Range(s)
        BY <3>1 DEF Range
    <3> QED BY <3>2
  <2> QED BY <2>2, EmptySeq
<1> QED BY <1>1, <1>4, <1>5

LEMMA FrontOfOne == \A l : Front(<<l>>) = <<>>
BY DEF Front

LEMMA InitAnimInv == AnimInit => AnimInv
<1> SUFFICES ASSUME AnimInit PROVE AnimInv
    OBVIOUS
<1>1. WorkersInv
    BY InitWorkersInv DEF AnimInit
<1>2. WantInv
    BY AnimationAssumption DEF AnimInit, WorkersInit, WantInv
<1>3. JobInv /\ ListInv
    BY DEF AnimInit, WorkersInit, JobInv, ListInv, Bare
<1>4. DoesInv
    BY AnimationAssumption DEF AnimInit, DoesInv
<1> QED BY <1>1, <1>2, <1>3, <1>4 DEF AnimInv, StopInv

\* What the conjuncts look at.
LEMMA AnimInvReads ==
    /\ WantInv /\ UNCHANGED <<want, phase>> => WantInv'
    /\ JobInv /\ UNCHANGED <<jobs, upd, call, phase>> => JobInv'
    /\ ListInv /\ UNCHANGED <<list, contexts, running, phase>> => ListInv'
    /\ DoesInv /\ UNCHANGED <<does, phase>> => DoesInv'
BY DEF WantInv, JobInv, ListInv, DoesInv

-----------------------------------------------------------------------------
\* Every step is a step of the workers, or leaves them alone.

LEMMA StepUsesWorkers == AnimInv /\ [Next]_vars => [WorkersNext]_workersVars
<1> SUFFICES ASSUME AnimInv, [Next]_vars PROVE [WorkersNext]_workersVars
    OBVIOUS
<1>1. CASE UNCHANGED vars
    BY <1>1 DEF vars
<1>2. CASE Round
    BY <1>2 DEF Round, WorkersNext, WorkerStep
<1>3. CASE UpdateStep
  <2>1. CASE UpdateReturns
    BY <2>1 DEF UpdateReturns, WorkersNext, WorkerStep
  <2>2. CASE UpdateBegins
    BY <2>2 DEF UpdateBegins, Quiet
  <2>3. CASE \E n \in Nodes : \/ Wait(n) \/ Step(n) \/ OnStepReturns(n) \/ Continues(n)
                              \/ Finishes(n) \/ OnFinished(n) \/ AddsSuccessor(n)
                              \/ ItemFinished(n) \/ RemovesFinished(n)
    BY <2>3 DEF Wait, Step, OnStepReturns, Continues, Finishes, OnFinished, AddsSuccessor,
                ItemFinished, RemovesFinished, Current, Quiet
  <2> QED BY <1>3, <2>1, <2>2, <2>3 DEF UpdateStep
<1>4. CASE Startup
  <2>1. CASE StartsWorkers
    BY <2>1, AnimationAssumption DEF StartsWorkers, WorkersNext, ClientStep
  <2>2. CASE anim_init
    <3>1. jobs = <<>> /\ \A t \in Threads : want[t] = Free
        BY <2>2 DEF anim_init, Phase, AnimInv, StopInv, JobInv, WantInv, Bare
    <3>2. Adding = {} /\ Range(jobs) = {} /\ Len(jobs) = 0
        BY <3>1 DEF Adding, Free, Range
    <3>3. Len(jobs) + Cardinality(Adding) < MaxJobs
        BY <3>2, FS_EmptySet, WorkersAssumption
    <3>4. workers_add(Main, Update)
        BY <2>2, <3>2, <3>3 DEF anim_init, workers_add
    <3> QED BY <3>4, AnimationAssumption DEF WorkersNext, ClientStep
  <2>3. CASE Registers
    BY <2>3, AnimationAssumption DEF Registers, WorkersNext, ClientStep
  <2> QED BY <1>4, <2>1, <2>2, <2>3 DEF Startup
<1>5. CASE Pong \/ StopsInput \/ \E t \in Threads : AnimCall(t)
    BY <1>5 DEF Pong, StopsInput, AnimCall
<1>6. CASE Shutdown
  <2>1. CASE anim_stop \/ anim_list_clear
    BY <2>1 DEF anim_stop, anim_list_clear
  <2>2. CASE Drained
    <3>1. workers_remove(Main, Update)
        BY <2>2, AnimationAssumption DEF Drained, workers_remove
    <3> QED BY <3>1, AnimationAssumption DEF WorkersNext, ClientStep
  <2>3. CASE Unregisters \/ StopsWorkers \/ WorkersEnded
    BY <2>3, AnimationAssumption DEF Unregisters, StopsWorkers, WorkersEnded, WorkersNext,
            ClientStep
  <2> QED BY <1>6, <2>1, <2>2, <2>3 DEF Shutdown
<1> QED BY <1>1, <1>2, <1>3, <1>4, <1>5, <1>6 DEF Next, Broken

-----------------------------------------------------------------------------
\* Every step keeps the strengthening: one lemma per part of Next.

LEMMA RoundKeepsStopInv == AnimInv /\ Round => StopInv'
<1> SUFFICES ASSUME AnimInv, Round PROVE StopInv'
    OBVIOUS
<1>1. UNCHANGED animVars
    BY DEF Round
<1>2. UNCHANGED <<jobs, want>>
    BY DEF Round, Check, Lock, Call, Unlock
<1>3. call' = call \/ Call
    BY DEF Round, Check, Lock, Unlock
<1>4. JobInv'
  <2>1. CASE call' = call
    BY <1>1, <1>2, <2>1, AnimInvReads DEF AnimInv, StopInv, animVars
  <2>2. CASE Call
    <3>1. at \in Nat \ {0} /\ at <= Len(jobs) /\ call' = jobs[at]
        BY <2>2 DEF Call, AnimInv, WorkersInv, WorkersTypeOK
    <3>2. jobs = <<Update>> /\ phase \notin Bare
        BY <3>1 DEF AnimInv, StopInv, JobInv
    <3>3. call' = Update
        BY <3>1, <3>2
    <3> QED BY <1>1, <1>2, <3>2, <3>3 DEF JobInv, animVars
  <2> QED BY <1>3, <2>1, <2>2
<1> QED BY <1>1, <1>2, <1>4, AnimInvReads DEF AnimInv, StopInv, animVars

LEMMA UpdateKeepsStopInv == AnimInv /\ UpdateStep => StopInv'
<1> SUFFICES ASSUME AnimInv, UpdateStep PROVE StopInv'
    OBVIOUS
<1> USE DEF AnimInv, StopInv
<1>1. CASE UpdateBegins
  <2>1. UNCHANGED <<jobs, call, want, running, contexts, does, phase, list>> /\ call = Update
    BY <1>1 DEF UpdateBegins, Quiet, workersVars
  <2>2. phase \notin Bare
    BY <2>1 DEF JobInv, Update
  <2>3. JobInv'
    BY <2>1, <2>2 DEF JobInv
  <2> QED BY <2>1, <2>3, AnimInvReads
<1>2. CASE UpdateReturns
  <2>1. /\ UNCHANGED <<want, running, contexts, does, phase, list>> /\ upd = "at"
        /\ upd' = "out" /\ worker = "call"
    BY <1>2 DEF UpdateReturns, Return
  <2>2. phase \notin Bare
    BY <2>1 DEF JobInv
  <2>3. jobs' = jobs
    <3>1. call = Update
        BY <2>1 DEF JobInv
    <3>2. call \notin OneShot
        BY <3>1, AnimationAssumption
    <3> QED BY <1>2, <3>2 DEF UpdateReturns, Return
  <2>4. JobInv'
    BY <2>1, <2>2, <2>3 DEF JobInv
  <2> QED BY <2>1, <2>4, AnimInvReads
<1>3. ASSUME NEW n \in Nodes,
             \/ Wait(n) \/ Step(n) \/ OnStepReturns(n) \/ Continues(n) \/ Finishes(n)
             \/ OnFinished(n) \/ AddsSuccessor(n) \/ ItemFinished(n) \/ RemovesFinished(n)
      PROVE  StopInv'
  <2>1. /\ UNCHANGED <<jobs, call, want, running, contexts, does, phase>>
        /\ upd # "out"
    BY <1>3 DEF Wait, Step, OnStepReturns, Continues, Finishes, OnFinished, AddsSuccessor,
                ItemFinished, RemovesFinished, Current, Quiet, workersVars
  <2>2. phase \notin Bare /\ call = Update
    BY <2>1 DEF JobInv
  <2>3. JobInv'
    BY <2>1, <2>2 DEF JobInv
  <2>4. ListInv'
    BY <2>1, <2>2 DEF ListInv
  <2> QED BY <2>1, <2>3, <2>4, AnimInvReads
<1> QED BY <1>1, <1>2, <1>3 DEF UpdateStep

LEMMA CallKeepsStopInv ==
    ASSUME NEW t \in Threads, AnimInv, AnimCall(t)
    PROVE  StopInv'
<1> USE DEF AnimInv, StopInv
<1>1. UNCHANGED <<jobs, want, call>>
    BY DEF AnimCall, workersVars
<1>2. /\ UNCHANGED <<running, contexts, upd, phase>>
      /\ \A u \in Threads \ {t} : does'[u] = does[u]
      /\ does' = [u \in Threads |-> does'[u]]
    BY DEF AnimCall, Show, item_anim_add, item_anim_add_after, Replace, call_anim_add,
           anim_cancel, Appended, Cancelled, Put, Does, DoesInv
<1>3. ListInv'
  <2>1. list' = list \/ phase \notin Bare
    <3>1. CASE Appended(t)
        BY <3>1, AnimationAssumption DEF Appended, DoesInv, Idle, Bare
    <3>2. CASE Cancelled(t)
        BY <3>2, AnimationAssumption DEF Cancelled, anim_cancel_for, ListInv, DoesInv, Idle, Bare
    <3>3. CASE anim_cancel(t)
        BY <3>3 DEF anim_cancel, Bare
    <3> QED BY <3>1, <3>2, <3>3 DEF AnimCall, Show, item_anim_add, item_anim_add_after,
                Replace, call_anim_add
  <2> QED BY <1>2, <2>1 DEF ListInv
<1>4. \/ Appended(t) \/ Cancelled(t)
      \/ phase = "up" \/ (phase = "closing" /\ t = Main)
      \/ \E i \in Items : t = Main /\ phase = "quiet" /\ Replace(t, i, "remove")
    BY DEF AnimCall, Show, item_anim_add, item_anim_add_after, Replace, MayUse, Destroying,
           call_anim_add, anim_cancel
<1>5. (Appended(t) \/ Cancelled(t)) => does[t] # Idle
    BY DEF Appended, Cancelled, Idle
<1>6. DoesInv'
  <2>1. CASE t # Main
    <3>1. phase \in {"up", "pong"}
        BY <1>4, <1>5, <2>1 DEF DoesInv
    <3>2. does'[Main] = does[Main]
        BY <1>2, <2>1, AnimationAssumption
    <3> QED BY <1>2, <3>1, <3>2 DEF DoesInv
  <2>2. CASE t = Main
    <3>1. phase \in {"up", "closing", "quiet"}
        BY <1>4, <1>5, <2>2 DEF DoesInv
    <3>2. CASE phase \in {"up", "closing"}
        BY <1>2, <2>2, <3>2 DEF DoesInv
    <3>3. CASE phase = "quiet"
      <4>1. CASE \E i \in Items : Replace(Main, i, "remove")
        BY <4>1, <1>2, <2>2, <3>3, AnimationAssumption DEF Replace, Does, DoesInv
      <4>2. CASE Cancelled(Main)
        <5>1. does[Main].how = "remove"
            BY <1>5, <2>2, <3>3, <4>2 DEF DoesInv
        <5>2. does'[Main] = Idle
            BY <4>2, <5>1, AnimationAssumption DEF Cancelled, Does, DoesInv
        <5> QED BY <1>2, <2>2, <3>3, <5>2 DEF DoesInv
      <4>3. ~Appended(Main)
        BY <3>3 DEF Appended, DoesInv, Idle
      <4> QED BY <1>4, <2>2, <3>3, <4>1, <4>2, <4>3
    <3> QED BY <3>1, <3>2, <3>3
  <2> QED BY <2>1, <2>2
<1> QED BY <1>1, <1>2, <1>3, <1>6, AnimInvReads

LEMMA MainKeepsStopInv ==
    AnimInv /\ (Startup \/ Pong \/ StopsInput \/ Shutdown) => StopInv'
<1> SUFFICES ASSUME AnimInv, Startup \/ Pong \/ StopsInput \/ Shutdown PROVE StopInv'
    OBVIOUS
<1> USE AnimationAssumption DEF AnimInv, StopInv
<1>want. /\ want \in [Threads -> Wants]
         /\ WantInv => \A t \in Threads \ {Main} : want[t] = Free
    BY DEF WorkersInv, WorkersTypeOK, WantInv
<1>1. CASE StartsWorkers
  <2>1. JobInv'
    BY <1>1 DEF StartsWorkers, Phase, KeepAnims, workers_start, JobInv, Bare
  <2>2. WantInv'
    BY <1>1 DEF StartsWorkers, Phase, KeepAnims, workers_start, WantInv
  <2>3. ListInv' /\ DoesInv'
    BY <1>1 DEF StartsWorkers, Phase, KeepAnims, ListInv, DoesInv, Bare
  <2> QED BY <2>1, <2>2, <2>3
<1>2. CASE anim_init
  <2>1. JobInv'
    BY <1>2 DEF anim_init, Phase, Ask, JobInv, Bare
  <2>2. WantInv'
    BY <1>2, <1>want DEF anim_init, Phase, Ask, WantInv, AddsUpdate
  <2>3. ListInv' /\ DoesInv'
    BY <1>2 DEF anim_init, Phase, ListInv, DoesInv, Bare
  <2> QED BY <2>1, <2>2, <2>3
<1>3. CASE Registers
  <2>1. jobs = <<>> /\ want[Main] = AddsUpdate /\ upd = "out" /\ call = "none"
    BY <1>3 DEF Registers, Phase, JobInv, WantInv, Bare
  <2>2. jobs' = <<Update>>
    BY <1>3, <2>1, OneJob DEF Registers, Added, AddsUpdate
  <2>3. JobInv'
    BY <1>3, <2>1, <2>2 DEF Registers, Phase, KeepAnims, Added, JobInv, Bare
  <2>4. WantInv'
    BY <1>3, <1>want DEF Registers, Phase, Added, WantInv
  <2>5. ListInv' /\ DoesInv'
    BY <1>3 DEF Registers, Phase, KeepAnims, ListInv, DoesInv, Bare
  <2> QED BY <2>3, <2>4, <2>5
<1>4. CASE Pong
  <2>1. UNCHANGED <<jobs, want, call, upd, running, does>>
    BY <1>4 DEF Pong, anim_push_context, anim_pop_context, workersVars
  <2>2. CASE anim_push_context
    <3>1. contexts' = <<list>>
        BY <2>2, OneJob DEF anim_push_context, ListInv
    <3>2. JobInv' /\ WantInv' /\ DoesInv'
        BY <2>1, <2>2 DEF anim_push_context, JobInv, WantInv, DoesInv, Bare
    <3>3. ListInv'
        BY <2>1, <2>2, <3>1 DEF anim_push_context, ListInv, Bare
    <3> QED BY <3>2, <3>3
  <2>3. CASE anim_pop_context
    <3>1. contexts' = <<>>
        BY <2>3, FrontOfOne DEF anim_pop_context, ListInv
    <3>2. JobInv' /\ WantInv' /\ DoesInv'
        BY <2>1, <2>3 DEF anim_pop_context, JobInv, WantInv, DoesInv, Bare
    <3>3. ListInv'
        BY <2>1, <2>3, <3>1 DEF anim_pop_context, ListInv, Bare
    <3> QED BY <3>2, <3>3
  <2> QED BY <1>4, <2>2, <2>3 DEF Pong
<1>5. CASE StopsInput
  <2>1. JobInv' /\ WantInv'
    BY <1>5 DEF StopsInput, Phase, KeepAnims, workersVars, JobInv, WantInv, Bare
  <2>2. ListInv' /\ DoesInv'
    BY <1>5 DEF StopsInput, Phase, KeepAnims, workersVars, ListInv, DoesInv, Bare
  <2> QED BY <2>1, <2>2
<1>6. CASE anim_stop
  <2>1. JobInv' /\ WantInv'
    BY <1>6 DEF anim_stop, Phase, workersVars, JobInv, WantInv, Bare
  <2>2. ListInv' /\ DoesInv'
    BY <1>6 DEF anim_stop, Phase, ListInv, DoesInv, Bare
  <2> QED BY <2>1, <2>2
<1>7. CASE Drained
  <2>1. JobInv'
    BY <1>7 DEF Drained, Phase, KeepAnims, Ask, JobInv, Bare
  <2>2. WantInv'
    BY <1>7, <1>want DEF Drained, Phase, Ask, WantInv, RemovesUpdate
  <2>3. ListInv' /\ DoesInv'
    BY <1>7 DEF Drained, Phase, KeepAnims, ListInv, DoesInv, Bare
  <2> QED BY <2>1, <2>2, <2>3
<1>8. CASE Unregisters
  <2>1. jobs = <<Update>> /\ want[Main] = RemovesUpdate
    BY <1>8 DEF Unregisters, Phase, JobInv, WantInv, Bare
  <2>2. jobs' = <<>>
    BY <1>8, <2>1, OneJob DEF Unregisters, Removed, RemovesUpdate
  <2>3. call = "none" /\ call' = "none"
    BY <1>8 DEF Unregisters, Removed, Locked, WorkersInv, WorkersTypeOK
  <2>4. upd = "out"
    BY <2>3 DEF JobInv, Update
  <2>5. JobInv'
    BY <1>8, <2>2, <2>3, <2>4 DEF Unregisters, Phase, KeepAnims, JobInv, Bare
  <2>6. WantInv'
    BY <1>8, <1>want DEF Unregisters, Phase, Removed, WantInv
  <2>7. ListInv' /\ DoesInv'
    BY <1>8 DEF Unregisters, Phase, KeepAnims, ListInv, DoesInv, Bare
  <2> QED BY <2>5, <2>6, <2>7
<1>9. CASE anim_list_clear
  <2>1. JobInv' /\ WantInv'
    BY <1>9 DEF anim_list_clear, Phase, workersVars, JobInv, WantInv, Bare
  <2>2. ListInv' /\ DoesInv'
    BY <1>9 DEF anim_list_clear, Phase, ListInv, DoesInv, Bare
  <2> QED BY <2>1, <2>2
<1>10. CASE StopsWorkers
  <2>1. JobInv'
    BY <1>10 DEF StopsWorkers, Phase, KeepAnims, workers_stop, JobInv, Bare
  <2>2. WantInv'
    BY <1>10, <1>want DEF StopsWorkers, Phase, workers_stop, WantInv
  <2>3. ListInv' /\ DoesInv'
    BY <1>10 DEF StopsWorkers, Phase, KeepAnims, ListInv, DoesInv, Bare
  <2> QED BY <2>1, <2>2, <2>3
<1>11. CASE WorkersEnded
  <2>1. JobInv'
    BY <1>11 DEF WorkersEnded, Phase, KeepAnims, Joined, JobInv, Bare
  <2>2. WantInv'
    BY <1>11, <1>want DEF WorkersEnded, Phase, Joined, WantInv
  <2>3. ListInv' /\ DoesInv'
    BY <1>11 DEF WorkersEnded, Phase, KeepAnims, ListInv, DoesInv, Bare
  <2> QED BY <2>1, <2>2, <2>3
<1> QED
    BY <1>1, <1>2, <1>3, <1>4, <1>5, <1>6, <1>7, <1>8, <1>9, <1>10, <1>11
    DEF Startup, Shutdown

LEMMA StepKeepsAnimInv == AnimInv /\ [Next]_vars => AnimInv'
<1> SUFFICES ASSUME AnimInv, [Next]_vars PROVE AnimInv'
    OBVIOUS
<1>1. WorkersInv'
    BY StepUsesWorkers, StepKeepsWorkersInv DEF AnimInv
<1>2. StopInv'
  <2>1. CASE UNCHANGED vars
    BY <2>1, AnimInvReads DEF AnimInv, StopInv, vars, animVars, workersVars
  <2>2. CASE Next
    BY <2>1, <2>2, RoundKeepsStopInv, UpdateKeepsStopInv, CallKeepsStopInv,
       MainKeepsStopInv DEF Next, Broken
  <2> QED BY <2>1, <2>2
<1> QED BY <1>1, <1>2 DEF AnimInv

LEMMA AnimInvariance == AnimSpec => []AnimInv
BY InitAnimInv, StepKeepsAnimInv, PTL DEF AnimSpec

\* The animations, and multirom_ui() with them, use the workers as Workers lets its threads
\* use them: every step is one of the workers or leaves them alone (animation.c:291-324,
\* multirom_ui.c:217-381).  So what is proved of Workers holds here.
THEOREM AnimationUsesWorkers == AnimSpec => WorkersSpec
<1>1. AnimInit => WorkersInit
    BY DEF AnimInit
<1> QED BY <1>1, StepUsesWorkers, AnimInvariance, PTL DEF AnimSpec, WorkersSpec

\* When anim_stop(1) has returned nothing is left of the animations and anim_update is not
\* running, for any threads, items and nodes (animation.c:301-324).
THEOREM StopIsClean == AnimSpec => []StopLeavesNothing
<1>1. AnimInv => StopLeavesNothing
    BY OneJob DEF AnimInv, StopInv, JobInv, ListInv, Bare, StopLeavesNothing, Range
<1> QED BY <1>1, AnimInvariance, PTL

-----------------------------------------------------------------------------
\* Lists without repetitions, as sets with an order.

Before(s, m, n) == \E j, k \in DOMAIN s : j < k /\ s[j] = m /\ s[k] = n

\* Every set of naturals has a least element.
LEMMA LeastNumber ==
    ASSUME NEW T, T \subseteq Nat, T # {}
    PROVE  \E n \in T : \A m \in T : n <= m
<1> DEFINE R == OpToRel(<, Nat)
<1>1. IsWellFoundedOn(R, Nat)
  BY NatLessThanWellFounded
<1>2. \A x, y \in Nat : x < y => <<x, y>> \in R
  BY DEF OpToRel
<1> HIDE DEF R
<1>3. PICK x \in T : \A y \in T : ~ (<<y, x>> \in R)
  BY <1>1, WFMin
<1>4. \A y \in T : y \in Nat /\ x \in Nat
  OBVIOUS
<1>5. \A y \in T : ~ (y < x)
  BY <1>2, <1>3, <1>4
<1>6. \A y \in T : x <= y
  BY <1>4, <1>5
<1> QED
  BY <1>6

\* A bounded set of naturals has a greatest element.
LEMMA GreatestNumber ==
    ASSUME NEW b \in Nat, NEW T, T \subseteq 0..b, T # {}
    PROVE  Max(T) \in T /\ \A m \in T : m <= Max(T)
<1> DEFINE D == {b - x : x \in T}
<1>0. \A x \in T : b - x \in Nat
  OBVIOUS
<1>1. D \subseteq Nat /\ D # {}
  BY <1>0
<1>2. PICK n \in D : \A m \in D : n <= m
  BY <1>1, LeastNumber
<1>3. PICK x \in T : n = b - x
  OBVIOUS
<1>4. \A y \in T : b - x <= b - y
  BY <1>2, <1>3
<1>5. \A y \in T : x \in Int /\ y \in Int /\ x >= y
  BY <1>4
<1>6. \A y \in T : Max(T) \in T /\ Max(T) >= y
  BY <1>5 DEF Max
<1> QED
  BY <1>5, <1>6

\* The places of a list that a set of them leaves, counted.
LEMMA Ranks ==
    ASSUME NEW L \in Nat, NEW K, K \subseteq 1..L
    PROVE  LET Rank(k) == Cardinality({m \in K : m <= k})
           IN  /\ IsFiniteSet(K) /\ Cardinality(K) \in Nat
               /\ \A k \in K : Rank(k) \in 1..Cardinality(K)
               /\ \A j, k \in K : j < k => Rank(j) < Rank(k)
               /\ \A n \in 1..Cardinality(K) : \E k \in K : Rank(k) = n
<1> DEFINE Rank(k) == Cardinality({m \in K : m <= k})
<1>1. IsFiniteSet(K) /\ Cardinality(K) \in Nat
  <2>1. IsFiniteSet(1..L)
    BY FS_Interval
  <2> QED
    BY <2>1, FS_Subset, FS_CardinalityType
<1>2. \A k \in K : IsFiniteSet({m \in K : m <= k}) /\ Rank(k) \in Nat /\ Rank(k) <= Cardinality(K)
  <2> SUFFICES ASSUME NEW k \in K
               PROVE  IsFiniteSet({m \in K : m <= k}) /\ Rank(k) \in Nat /\ Rank(k) <= Cardinality(K)
    OBVIOUS
  <2>1. {m \in K : m <= k} \in SUBSET K
    OBVIOUS
  <2> QED
    BY <1>1, <2>1, FS_Subset, FS_CardinalityType
<1>3. \A k \in K : Rank(k) # 0
  <2> SUFFICES ASSUME NEW k \in K, Rank(k) = 0 PROVE FALSE
    OBVIOUS
  <2>1. {m \in K : m <= k} = {}
    BY <1>2, FS_EmptySet
  <2>2. k \in {m \in K : m <= k}
    OBVIOUS
  <2> QED
    BY <2>1, <2>2
<1>4. \A j, k \in K : j < k => Rank(j) < Rank(k)
  <2> SUFFICES ASSUME NEW j \in K, NEW k \in K, j < k PROVE Rank(j) < Rank(k)
    OBVIOUS
  <2> DEFINE A == {m \in K : m <= j}
             B == {m \in K : m <= k}
  <2>1. /\ j \in Int /\ k \in Int /\ ~(k <= j) /\ k <= k
        /\ \A m \in K : m <= j => m <= k
    <3>1. \A m \in K : m \in Int
      OBVIOUS
    <3> QED
      BY <3>1
  <2>2. A \in SUBSET B /\ k \in B /\ k \notin A
    BY <2>1
  <2>3. IsFiniteSet(B) /\ Cardinality(B) \in Nat /\ Cardinality(A) \in Nat
    BY <1>2
  <2> HIDE DEF A, B
  <2>4. Cardinality(A) <= Cardinality(B) /\ Cardinality(A) # Cardinality(B)
    BY <2>2, <2>3, FS_Subset
  <2>5. Cardinality(A) < Cardinality(B)
    BY <2>3, <2>4
  <2> QED
    BY <2>5 DEF A, B
<1>5. \A k \in K : Rank(k) \in 1..Cardinality(K)
  BY <1>1, <1>2, <1>3
<1>6. ASSUME NEW n \in 1..Cardinality(K) PROVE \E k \in K : Rank(k) = n
  <2> DEFINE f == [k \in K |-> Rank(k)]
             c == Cardinality(K)
  <2> HIDE DEF Rank
  <2>1. f \in [K -> 1..c]
    BY <1>5
  <2>2. \A j, k \in K : f[j] = f[k] => j = k
    <3> SUFFICES ASSUME NEW j \in K, NEW k \in K, Rank(j) = Rank(k), j # k PROVE FALSE
      OBVIOUS
    <3>1. j < k \/ k < j
      OBVIOUS
    <3>2. Rank(j) < Rank(k) \/ Rank(k) < Rank(j)
      BY <1>4, <3>1
    <3>3. Rank(j) \in Int /\ Rank(k) \in Int
      BY <1>5
    <3> QED
      BY <3>2, <3>3
  <2>3. f \in Injection(K, 1..c)
    BY <2>1, <2>2 DEF Injection, IsInjective
  <2>4. IsFiniteSet(1..c) /\ Cardinality(1..c) = c
    BY <1>1, FS_Interval
  <2>5. f \in Surjection(K, 1..c)
    BY <2>3, <2>4, FS_Injection
  <2>6. \E k \in K : f[k] = n
    BY <2>5 DEF Surjection
  <2> QED
    BY <2>6
<1> QED
  BY <1>1, <1>4, <1>5, <1>6

\* Unlinked takes out what it is told to and keeps the rest in order.
LEMMA UnlinkedKeeps ==
    ASSUME NEW S, NEW s \in Seq(S), NEW ns, IsInjective(s)
    PROVE  LET r == Unlinked(s, ns)
           IN  /\ r \in Seq(S) /\ IsInjective(r)
               /\ Range(r) = Range(s) \ ns
               /\ \A m, n : m \notin ns /\ n \notin ns => (Before(r, m, n) <=> Before(s, m, n))
               /\ \A m, n : Before(r, m, n) => m \notin ns /\ n \notin ns
<1> DEFINE K == {k \in DOMAIN s : s[k] \notin ns}
           Rank(k) == Cardinality({m \in K : m <= k})
           c == Cardinality(K)
           Nth(n) == CHOOSE k \in K : Rank(k) = n
           r == Unlinked(s, ns)
<1>1. Len(s) \in Nat /\ DOMAIN s = 1..Len(s) /\ s \in [1..Len(s) -> S]
  BY LenProperties
<1>2. K \subseteq 1..Len(s) /\ \A k \in K : k \in Int /\ s[k] \in S
  BY <1>1
<1>3. r = [n \in 1..c |-> s[Nth(n)]]
  BY DEF Unlinked
<1>4. /\ c \in Nat
      /\ \A k \in K : Rank(k) \in 1..c
      /\ \A j, k \in K : j < k => Rank(j) < Rank(k)
      /\ \A n \in 1..c : \E k \in K : Rank(k) = n
  <2> HIDE DEF K
  <2> QED
    BY <1>1, <1>2, Ranks
<1>5. \A k \in K : k \in DOMAIN s /\ s[k] \notin ns
  OBVIOUS
<1>6. \A k \in DOMAIN s : s[k] \notin ns => k \in K
  OBVIOUS
<1> HIDE DEF K, Rank, c, r
<1>7. \A n \in 1..c : Nth(n) \in K /\ Rank(Nth(n)) = n
  BY <1>4
<1> HIDE DEF Nth
<1>8. \A k \in K : Nth(Rank(k)) = k
  <2> SUFFICES ASSUME NEW k \in K, Nth(Rank(k)) # k PROVE FALSE
    OBVIOUS
  <2>1. Rank(k) \in 1..c /\ Nth(Rank(k)) \in K /\ Rank(Nth(Rank(k))) = Rank(k)
    BY <1>4, <1>7
  <2>2. Nth(Rank(k)) < k \/ k < Nth(Rank(k))
    <3>1. \A i, j \in Int : i = j \/ i < j \/ j < i
      OBVIOUS
    <3> QED
      BY <1>2, <2>1, <3>1
  <2>3. Rank(k) < Rank(k)
    BY <1>4, <2>1, <2>2
  <2> QED
    BY <1>4, <2>1, <2>3
<1>9. \A m, n \in 1..c : m < n <=> Nth(m) < Nth(n)
  <2> SUFFICES ASSUME NEW m \in 1..c, NEW n \in 1..c PROVE m < n <=> Nth(m) < Nth(n)
    OBVIOUS
  <2>1. Nth(m) \in K /\ Nth(n) \in K /\ Rank(Nth(m)) = m /\ Rank(Nth(n)) = n
    BY <1>7
  <2>2. Nth(m) \in Int /\ Nth(n) \in Int
    BY <1>2, <2>1
  <2>6. m \in Int /\ n \in Int
    OBVIOUS
  <2>3. Nth(m) < Nth(n) => m < n
    BY <1>4, <2>1
  <2>4. Nth(n) < Nth(m) => n < m
    BY <1>4, <2>1
  <2>5. Nth(n) = Nth(m) => n = m
    BY <2>1
  <2>7. \A i, j \in Int : i = j \/ i < j \/ j < i
    OBVIOUS
  <2>8. \A i, j \in Int : i < j => i # j /\ ~(j < i)
    OBVIOUS
  <2> QED
    BY <2>2, <2>3, <2>4, <2>5, <2>6, <2>7, <2>8
<1>10. DOMAIN r = 1..c /\ \A n \in 1..c : r[n] = s[Nth(n)] /\ r[n] \in S /\ r[n] \notin ns
  BY <1>2, <1>3, <1>5, <1>7
<1>11. r \in Seq(S)
  <2>1. r = [n \in 1..c |-> r[n]]
    BY <1>3, <1>10
  <2>2. r \in [1..c -> S]
    BY <1>10, <2>1
  <2> QED
    BY <1>4, <2>2
<1>12. IsInjective(r)
  <2> SUFFICES ASSUME NEW m \in 1..c, NEW n \in 1..c, r[m] = r[n] PROVE m = n
    BY <1>10 DEF IsInjective
  <2>1. Nth(m) = Nth(n)
    BY <1>5, <1>7, <1>10 DEF IsInjective
  <2> QED
    BY <1>7, <2>1
<1>13. Range(r) = Range(s) \ ns
  <2>1. ASSUME NEW x \in Range(r) PROVE x \in Range(s) \ ns
    BY <1>5, <1>7, <1>10 DEF Range
  <2>2. ASSUME NEW x \in Range(s) \ ns PROVE x \in Range(r)
    <3>1. PICK k \in DOMAIN s : s[k] = x
      BY DEF Range
    <3>2. k \in K
      BY <1>6, <3>1
    <3>3. Rank(k) \in 1..c /\ r[Rank(k)] = x
      BY <1>4, <1>8, <1>10, <3>1, <3>2
    <3> QED
      BY <1>10, <3>3 DEF Range
  <2> QED
    BY <2>1, <2>2
<1>14. ASSUME NEW m, NEW n, m \notin ns, n \notin ns PROVE Before(r, m, n) <=> Before(s, m, n)
  <2>1. ASSUME Before(r, m, n) PROVE Before(s, m, n)
    <3>1. PICK j \in 1..c, k \in 1..c : j < k /\ r[j] = m /\ r[k] = n
      BY <1>10, <2>1 DEF Before
    <3>2. Nth(j) \in DOMAIN s /\ Nth(k) \in DOMAIN s /\ Nth(j) < Nth(k)
      BY <1>5, <1>7, <1>9, <3>1
    <3> QED
      BY <1>10, <3>1, <3>2 DEF Before
  <2>2. ASSUME Before(s, m, n) PROVE Before(r, m, n)
    <3>1. PICK j \in DOMAIN s, k \in DOMAIN s : j < k /\ s[j] = m /\ s[k] = n
      BY <2>2 DEF Before
    <3>2. j \in K /\ k \in K
      BY <1>6, <1>14, <3>1
    <3>3. Rank(j) \in 1..c /\ Rank(k) \in 1..c /\ Rank(j) < Rank(k)
      BY <1>4, <3>1, <3>2
    <3>4. r[Rank(j)] = m /\ r[Rank(k)] = n
      BY <1>8, <1>10, <3>1, <3>2, <3>3
    <3> QED
      BY <1>10, <3>3, <3>4 DEF Before
  <2> QED
    BY <2>1, <2>2
<1>15. \A m, n : Before(r, m, n) => m \notin ns /\ n \notin ns
  BY <1>10 DEF Before
<1> QED
  BY <1>11, <1>12, <1>13, <1>14, <1>15 DEF r

LEMMA AppendsLast ==
    ASSUME NEW S, NEW s \in Seq(S), NEW e \in S, IsInjective(s), e \notin Range(s)
    PROVE  LET r == Append(s, e)
           IN  /\ r \in Seq(S) /\ IsInjective(r)
               /\ Range(r) = Range(s) \cup {e}
               /\ \A m, n : Before(r, m, n) <=> Before(s, m, n) \/ (m \in Range(s) /\ n = e)
<1> DEFINE r == Append(s, e)
           l == Len(s)
<1>1. l \in Nat /\ DOMAIN s = 1..l /\ s \in [1..l -> S]
  BY LenProperties
<1>2. /\ r \in Seq(S) /\ DOMAIN r = 1..(l + 1) /\ r[l + 1] = e
      /\ \A i \in 1..l : r[i] = s[i]
  BY <1>1, AppendProperties, LenProperties
<1>3. \A i \in 1..(l + 1) : i \in 1..l \/ i = l + 1
  BY <1>1
<1>4. \A i \in 1..l : i \in 1..(l + 1) /\ i < l + 1 /\ i \in Int
  BY <1>1
<1>5. l + 1 \in 1..(l + 1)
  BY <1>1
<1>6. \A i \in 1..l : s[i] # e
  BY <1>1 DEF Range
<1> HIDE DEF r, l
<1>7. IsInjective(r)
  BY <1>1, <1>2, <1>3, <1>6 DEF IsInjective
<1>8. Range(r) = Range(s) \cup {e}
  <2>1. Range(r) = {r[i] : i \in 1..(l + 1)} /\ Range(s) = {s[i] : i \in 1..l}
    BY <1>1, <1>2 DEF Range
  <2> QED
    BY <1>2, <1>3, <1>4, <1>5, <2>1
<1>9. ASSUME NEW m, NEW n PROVE Before(r, m, n) <=> Before(s, m, n) \/ (m \in Range(s) /\ n = e)
  <2>1. ASSUME Before(r, m, n) PROVE Before(s, m, n) \/ (m \in Range(s) /\ n = e)
    <3>1. PICK j \in 1..(l + 1), k \in 1..(l + 1) : j < k /\ r[j] = m /\ r[k] = n
      BY <1>2, <2>1 DEF Before
    <3>2. j \in 1..l
      BY <1>1, <3>1
    <3>3. CASE k = l + 1
      BY <1>1, <1>2, <3>1, <3>2, <3>3 DEF Range
    <3>4. CASE k \in 1..l
      BY <1>1, <1>2, <3>1, <3>2, <3>4 DEF Before
    <3> QED
      BY <1>3, <3>3, <3>4
  <2>2. ASSUME Before(s, m, n) PROVE Before(r, m, n)
    BY <1>1, <1>2, <1>4, <2>2 DEF Before
  <2>3. ASSUME m \in Range(s), n = e PROVE Before(r, m, n)
    <3>1. PICK j \in 1..l : s[j] = m
      BY <1>1, <2>3 DEF Range
    <3>2. j \in 1..(l + 1) /\ j < l + 1 /\ r[j] = m
      BY <1>2, <1>4, <3>1
    <3> QED
      BY <1>2, <1>5, <2>3, <3>2 DEF Before
  <2> QED
    BY <2>1, <2>2, <2>3
<1> QED
  BY <1>2, <1>7, <1>8, <1>9 DEF r

\* Before is a linear order of the list.
LEMMA BeforeOrders ==
    ASSUME NEW S, NEW s \in Seq(S), IsInjective(s)
    PROVE  /\ \A m, n : Before(s, m, n) => m \in Range(s) /\ n \in Range(s) /\ m # n
           /\ \A m, n : Before(s, m, n) => ~Before(s, n, m)
           /\ \A m, n \in Range(s) : m # n => Before(s, m, n) \/ Before(s, n, m)
           /\ \A l, m, n : Before(s, l, m) /\ Before(s, m, n) => Before(s, l, n)
<1>1. Len(s) \in Nat /\ DOMAIN s = 1..Len(s)
  BY LenProperties
<1>2. \A i \in DOMAIN s : i \in Int
  BY <1>1
<1>3. \A i, k \in DOMAIN s : s[i] = s[k] => i = k
  BY DEF IsInjective
<1>4. \A m, n : Before(s, m, n) => m \in Range(s) /\ n \in Range(s) /\ m # n
  BY <1>2, <1>3 DEF Before, Range
<1>5. \A m, n : Before(s, m, n) => ~Before(s, n, m)
  BY <1>2, <1>3 DEF Before
<1>6. \A m, n \in Range(s) : m # n => Before(s, m, n) \/ Before(s, n, m)
  BY <1>2 DEF Before, Range
<1>7. ASSUME NEW l, NEW m, NEW n, Before(s, l, m), Before(s, m, n) PROVE Before(s, l, n)
  <2>1. PICK a \in DOMAIN s, b \in DOMAIN s : a < b /\ s[a] = l /\ s[b] = m
    BY <1>7 DEF Before
  <2>2. PICK x \in DOMAIN s, y \in DOMAIN s : x < y /\ s[x] = m /\ s[y] = n
    BY <1>7 DEF Before
  <2>3. b = x /\ a < y
    BY <1>2, <1>3, <2>1, <2>2
  <2> QED
    BY <2>1, <2>2, <2>3 DEF Before
<1> QED
  BY <1>4, <1>5, <1>6, <1>7

\* The one place of an element, which SelectInSeq finds.
LEMMA PlaceFound ==
    ASSUME NEW S, NEW s \in Seq(S), IsInjective(s), NEW k \in DOMAIN s,
           NEW n, s[k] = n
    PROVE  {i \in 1..Len(s) : s[i] = n} = {k} /\ Min({k}) = k
<1>1. DOMAIN s = 1..Len(s) /\ Len(s) \in Nat
  BY LenProperties
<1>2. {i \in 1..Len(s) : s[i] = n} = {k} /\ k \in Int
  BY <1>1 DEF IsInjective
<1> QED
  BY <1>2 DEF Min

LEMMA NextInList ==
    ASSUME list \in Seq(Nodes), IsInjective(list), NEW n \in Range(list)
    PROVE  /\ NextOf(n) = 0 => \A m \in Range(list) : m = n \/ Before(list, m, n)
           /\ NextOf(n) # 0 => /\ NextOf(n) \in Range(list) /\ NextOf(n) # n
                               /\ \A m : Before(list, m, NextOf(n)) <=> m = n \/ Before(list, m, n)
           /\ NextOf(n) \in Nodes \cup {0}
<1>1. DOMAIN list = 1..Len(list) /\ Len(list) \in Nat /\ \A k \in DOMAIN list : list[k] \in Nodes
  BY LenProperties
<1>2. PICK k \in DOMAIN list : list[k] = n
  BY DEF Range
<1>3. {i \in 1..Len(list) : list[i] = n} = {k} /\ Min({k}) = k
  BY <1>2, PlaceFound
<1>4. NextOf(n) = IF k = Len(list) THEN 0 ELSE list[k + 1]
  BY <1>3 DEF NextOf, SelectInSeq
<1>5. \A i, j \in DOMAIN list : list[i] = list[j] => i = j
  BY DEF IsInjective
<1>6. CASE k = Len(list)
  <2>1. NextOf(n) = 0 /\ 0 \notin Nodes
    BY <1>4, <1>6, AnimationAssumption
  <2>2. ASSUME NEW m \in Range(list), m # n PROVE Before(list, m, n)
    <3>1. PICK j \in DOMAIN list : list[j] = m
      BY DEF Range
    <3>2. j < k
      BY <1>1, <1>2, <1>6, <2>2, <3>1
    <3> QED
      BY <1>2, <3>1, <3>2 DEF Before
  <2> QED
    BY <2>1, <2>2
<1>7. CASE k # Len(list)
  <2>1. k + 1 \in DOMAIN list /\ NextOf(n) = list[k + 1]
    BY <1>1, <1>4, <1>7
  <2>2. NextOf(n) \in Range(list) /\ NextOf(n) \in Nodes /\ NextOf(n) # 0
    BY <1>1, <2>1, AnimationAssumption DEF Range
  <2>3. NextOf(n) # n
    BY <1>1, <1>2, <1>5, <2>1
  <2>4. ASSUME NEW m PROVE Before(list, m, NextOf(n)) <=> m = n \/ Before(list, m, n)
    <3>1. ASSUME Before(list, m, NextOf(n)) PROVE m = n \/ Before(list, m, n)
      <4>1. PICK i \in DOMAIN list, j \in DOMAIN list : i < j /\ list[i] = m /\ list[j] = NextOf(n)
        BY <3>1 DEF Before
      <4>2. j = k + 1
        BY <1>5, <2>1, <4>1
      <4>3. i = k \/ i < k
        BY <1>1, <4>1, <4>2
      <4> QED
        BY <1>2, <4>1, <4>3 DEF Before
    <3>2. ASSUME m = n PROVE Before(list, m, NextOf(n))
      BY <1>1, <1>2, <2>1, <3>2 DEF Before
    <3>3. ASSUME Before(list, m, n) PROVE Before(list, m, NextOf(n))
      <4>1. PICK i \in DOMAIN list, j \in DOMAIN list : i < j /\ list[i] = m /\ list[j] = n
        BY <3>3 DEF Before
      <4>2. j = k /\ i < k + 1
        BY <1>1, <1>2, <1>5, <4>1
      <4> QED
        BY <2>1, <4>1, <4>2 DEF Before
    <3> QED
      BY <3>1, <3>2, <3>3
  <2> QED
    BY <2>2, <2>3, <2>4
<1> QED
  BY <1>6, <1>7

LEMMA HeadFirst ==
    ASSUME list \in Seq(Nodes), IsInjective(list), list # <<>>
    PROVE  Head(list) \in Range(list) /\ \A m : ~Before(list, m, Head(list))
<1>1. DOMAIN list = 1..Len(list) /\ Len(list) \in Nat /\ Len(list) # 0
  BY LenProperties, EmptySeq
<1>2. 1 \in DOMAIN list /\ Head(list) = list[1] /\ \A j \in DOMAIN list : ~(j < 1)
  BY <1>1
<1> QED
  BY <1>2 DEF Range, Before, IsInjective

\* Who is behind the current animation has not been counted this round.
LEMMA NotCountedBehind ==
    ASSUME list \in Seq(Nodes), IsInjective(list), it \in Range(list), NEW n \in Range(list),
           NotCounted(n), upd # "out"
    PROVE  Before(list, it, n)
<1>1. PICK k \in DOMAIN list : list[k] = n
  BY DEF Range
<1>2. PICK j \in DOMAIN list : list[j] = it
  BY DEF Range
<1>3. {i \in 1..Len(list) : list[i] = n} = {k} /\ Min({k}) = k
  BY <1>1, PlaceFound
<1>4. {i \in 1..Len(list) : list[i] = it} = {j} /\ Min({j}) = j
  BY <1>2, PlaceFound
<1>5. j < k
  <2>1. k \in Int /\ j \in Int
    BY LenProperties
  <2> QED
    BY <1>3, <1>4, <2>1 DEF NotCounted, SelectInSeq
<1> QED
  BY <1>1, <1>2, <1>5 DEF Before

-----------------------------------------------------------------------------
\* The animations, their items and the order they wait in.

\* What a thread is doing on the animations.
Doings == {Idle} \cup [op : {"append"}, anim : AnimRecs]
                 \cup [op : {"cancel"}, item : Items, how : {"remove", "hide", "show"}]

ListsTyped ==
    /\ list \in Seq(Nodes) /\ IsInjective(list)
    /\ contexts \in Seq(Seq(Nodes)) /\ \A k \in DOMAIN contexts : IsInjective(contexts[k])
    /\ anim \in [Nodes -> AnimRecs]
    /\ upd \in Places /\ it \in Nodes \cup {0} /\ diff \in Diffs \cup {0}
    /\ does \in [Threads -> Doings]
    /\ items \in [Items -> {"shown", "hiding", "gone"}]
    /\ mishap \in {"none", "cancelled", "switched"}

\* The list, or the one put aside while pong has a context of its own.
Active == IF phase = "pong" THEN contexts[1] ELSE list

\* While pong runs nobody is in a call and its own list stays empty.
WalkInv ==
    /\ upd = "out" => it = 0
    /\ upd \notin {"out", "at"} => it # 0
    /\ it # 0 => it \in Range(list)
    /\ upd \in {"finishing", "adding"} => anim[it].kind = "dots"
    /\ upd \in Windows => anim[it].kind # "tab"
    /\ phase = "pong" => /\ list = <<>> /\ upd \in {"out", "at"}
                         /\ \A t \in Threads : does[t] = Idle

\* The thread t is in a call about the item i.
At(t, i) == \/ does[t].op = "append" /\ does[t].anim.item = i
            \/ does[t].op = "cancel" /\ does[t].item = i

\* An item is in the hands of one thread: its owner, and Main once the others have ended.
OwnInv ==
    \A t \in Threads : does[t] # Idle =>
        /\ \/ phase = "up" /\ \A i \in Items : At(t, i) => t = Owner[i]
           \/ phase = "closing" /\ t = Main
           \/ phase = "quiet" /\ t = Main /\ does[t].op = "cancel"
        /\ does[t].op = "cancel" /\ does[t].how # "remove" => does[t].item \in Cards
        /\ does[t].op = "cancel" => items[does[t].item] = "shown"

Finished(n) == upd = "remove" /\ it = n
Live == {n \in Range(Active) : ~Finished(n)}

\* What an animation says of its item.
Suits(a) ==
    /\ a.kind = "dots" => a.item \in Dots
    /\ a.kind \in {"select", "hide"} => a.item \in Cards
    /\ a.kind = "tab" => a.item = "none"
    /\ a.kind # "none"

\* A gone item has no animation and nobody at it; a hidden card has the one animation that
\* hides it, listed or about to be.
ItemInv ==
    /\ \A n \in Range(Active) : Suits(anim[n])
    /\ \A n \in Live : anim[n].kind = "hide" => items[anim[n].item] = "hiding"
    /\ \A t \in Threads : does[t].op = "append" =>
         /\ Suits(does[t].anim)
         /\ does[t].anim.kind = "hide" => items[does[t].anim.item] = "hiding"
    /\ \A i \in Items :
         /\ items[i] = "gone" => /\ \A n \in Live : anim[n].item # i
                                 /\ \A t \in Threads : ~At(t, i)
         /\ items[i] = "hiding" =>
              /\ i \in Cards
              /\ \A m, n \in Live : anim[m].item = i /\ anim[n].item = i => m = n
              /\ \A t \in Threads : At(t, i) => /\ does[t].op = "append"
                                                /\ \A n \in Live : anim[n].item # i

\* This round's time has been taken off m.
Counted(m) == upd # "out" /\ (it = 0 \/ Before(list, m, it) \/ (m = it /\ upd # "at"))

\* Whoever starts after offset waits for all that is left of m: less the time of the round
\* when it was taken off m alone.
Outlasts(offset, m) ==
    /\ anim[m].left <= offset
    /\ Counted(m) => \/ anim[m].left = 0
                     \/ offset > diff /\ anim[m].left <= offset - diff

WaitInv ==
    /\ \A m \in Range(Active) : anim[m].left = 0 => m = it /\ upd \notin {"out", "at"}
    /\ \A n \in Range(Active) : \A m \in anim[n].waits :
         /\ m \in Range(Active) /\ Before(Active, m, n)
         /\ anim[m].offset = 0 /\ anim[n].left = Duration
         /\ anim[m].left <= anim[n].offset
         /\ ~Counted(n) => Outlasts(anim[n].offset, m)
    /\ \A t \in Threads : does[t].op = "append" =>
         /\ does[t].anim.left = Duration
         /\ does[t].anim.waits # {} => does[t].anim.item \in Cards
         /\ \A m \in does[t].anim.waits \cap ForItem(does[t].anim.item) :
              anim[m].offset = 0 /\ Outlasts(does[t].anim.offset, m)

CalmInv == WalkInv /\ OwnInv /\ ItemInv /\ WaitInv
OrderInv == ListsTyped /\ running \in BOOLEAN /\ (mishap = "none" => CalmInv)

\* A record of an animation, taken apart.
LEMMA RecordsTyped ==
    /\ \A a \in AnimRecs : /\ a.kind \in Kinds \cup {"none"} /\ a.item \in Items \cup {"none"}
                           /\ a.offset \in Nat /\ a.left \in Nat /\ a.left <= Duration
                           /\ a.waits \subseteq Nodes
    /\ NoAnim \in AnimRecs
    /\ \A kind \in Kinds, i \in Items \cup {"none"}, offset \in Nat, waits \in SUBSET Nodes :
         Anim(kind, i, offset, waits) \in AnimRecs
    /\ Duration \in Nat /\ Duration > 0
    /\ \A d \in Diffs \cup {0} : d \in Nat
BY AnimationAssumption DEF AnimRecs, NoAnim, Anim

LEMMA RecordChanged ==
    ASSUME NEW a \in AnimRecs
    PROVE  /\ \A o \in Nat : [a EXCEPT !.offset = o] \in AnimRecs
           /\ \A l \in 0..Duration : [a EXCEPT !.left = l] \in AnimRecs
           /\ \A w \in SUBSET Nodes : [a EXCEPT !.waits = w] \in AnimRecs
BY DEF AnimRecs

LEMMA WithoutKeeps ==
    ASSUME anim \in [Nodes -> AnimRecs], NEW ns
    PROVE  /\ Without(ns) \in [Nodes -> AnimRecs]
           /\ \A n \in Nodes \ ns : /\ Without(ns)[n].kind = anim[n].kind
                                    /\ Without(ns)[n].item = anim[n].item
                                    /\ Without(ns)[n].offset = anim[n].offset
                                    /\ Without(ns)[n].left = anim[n].left
                                    /\ Without(ns)[n].waits = anim[n].waits \ ns
<1>1. ASSUME NEW n \in Nodes PROVE [anim[n] EXCEPT !.waits = @ \ ns] \in AnimRecs
  BY <1>1 DEF AnimRecs
<1> QED
  BY <1>1, RecordsTyped DEF Without, AnimRecs

\* A node is taken, and given the animation a.
LEMMA LinkedAdds ==
    ASSUME ListsTyped, NEW a \in AnimRecs, Linked(a)
    PROVE  \E n \in Nodes :
             /\ n \notin Used
             /\ anim' = [anim EXCEPT ![n] = a] /\ anim' \in [Nodes -> AnimRecs]
             /\ list' = Append(list, n)
             /\ list' \in Seq(Nodes) /\ IsInjective(list')
             /\ Range(list') = Range(list) \cup {n}
             /\ \A l, m : Before(list', l, m) <=> Before(list, l, m) \/ (l \in Range(list) /\ m = n)
<1>1. PICK n \in Unused : anim' = [anim EXCEPT ![n] = a] /\ list' = Append(list, n)
  BY DEF Linked
<1>2. n \in Nodes /\ n \notin Used /\ n \notin Range(list)
  BY DEF Unused, Used
<1>3. anim' \in [Nodes -> AnimRecs]
  BY <1>1, <1>2 DEF ListsTyped
<1>4. /\ list' \in Seq(Nodes) /\ IsInjective(list') /\ Range(list') = Range(list) \cup {n}
      /\ \A l, m : Before(list', l, m) <=> Before(list, l, m) \/ (l \in Range(list) /\ m = n)
  BY <1>1, <1>2, AppendsLast DEF ListsTyped
<1> QED
  BY <1>1, <1>2, <1>3, <1>4

LEMMA UpdateTyped == ASSUME AnimInv, ListsTyped, UpdateStep PROVE ListsTyped'
<1> USE DEF ListsTyped
<1>0. diff \in Nat /\ \A n \in Nodes : anim[n] \in AnimRecs
  BY RecordsTyped
<1>1. CASE UpdateBegins
  <2>1. it' \in Nodes \cup {0}
    <3>1. list # <<>> => Head(list) \in Nodes
      OBVIOUS
    <3> QED
      BY <1>1, <3>1 DEF UpdateBegins
  <2> QED
    BY <1>1, <2>1 DEF UpdateBegins, Quiet, Places
<1>2. CASE UpdateReturns
  BY <1>2 DEF UpdateReturns, Places
<1>3. ASSUME NEW n \in Nodes, NEW place \in Places, Current(place, n)
      PROVE  /\ UNCHANGED <<contexts, does, mishap>> /\ n \in Range(list)
             /\ NextOf(n) \in Nodes \cup {0} /\ it = n
  BY <1>3, NextInList DEF Current, Quiet
<1>4. ASSUME NEW n \in Nodes, Wait(n) PROVE ListsTyped'
  <2>1. (IF anim[n].offset > diff THEN anim[n].offset - diff ELSE 0) \in Nat
    BY <1>0, RecordsTyped
  <2>2. \A o \in Nat : [anim EXCEPT ![n].offset = o] \in [Nodes -> AnimRecs]
    <3>1. \A o \in Nat : [anim[n] EXCEPT !.offset = o] \in AnimRecs
      BY <1>0, RecordChanged
    <3>2. \A r \in AnimRecs : [anim EXCEPT ![n] = r] \in [Nodes -> AnimRecs]
      OBVIOUS
    <3> QED
      BY <3>1, <3>2
  <2>3. anim' \in [Nodes -> AnimRecs]
    BY <1>4, <2>1, <2>2 DEF Wait
  <2> QED
    BY <1>3, <1>4, <2>3 DEF Wait, Places
<1>5. ASSUME NEW n \in Nodes, Step(n) PROVE ListsTyped'
  <2>1. (IF anim[n].left > diff THEN anim[n].left - diff ELSE 0) \in 0..Duration
    BY <1>0, RecordsTyped
  <2>2. \A o \in 0..Duration : [anim EXCEPT ![n].left = o] \in [Nodes -> AnimRecs]
    <3>1. \A o \in 0..Duration : [anim[n] EXCEPT !.left = o] \in AnimRecs
      BY <1>0, RecordChanged
    <3>2. \A r \in AnimRecs : [anim EXCEPT ![n] = r] \in [Nodes -> AnimRecs]
      OBVIOUS
    <3> QED
      BY <3>1, <3>2
  <2>3. anim' \in [Nodes -> AnimRecs]
    BY <1>5, <2>1, <2>2 DEF Step
  <2>4. upd' \in Places
    BY <1>5 DEF Step, Places
  <2> QED
    BY <1>3, <1>5, <2>3, <2>4 DEF Step, Places
<1>6. ASSUME NEW n \in Nodes, OnStepReturns(n) \/ Continues(n) \/ OnFinished(n) PROVE ListsTyped'
  BY <1>3, <1>6 DEF OnStepReturns, Continues, OnFinished, Places
<1>7. ASSUME NEW n \in Nodes, Finishes(n) PROVE ListsTyped'
  <2>1. upd' \in {"finishing", "remove", "ending"}
    <3>1. CASE anim[n].kind = "dots"
      BY <1>7, <3>1 DEF Finishes
    <3>2. CASE anim[n].kind = "tab"
      BY <1>7, <3>2 DEF Finishes
    <3>3. CASE anim[n].kind # "dots" /\ anim[n].kind # "tab"
      BY <1>7, <3>3 DEF Finishes
    <3> QED
      BY <3>1, <3>2, <3>3
  <2> QED
    BY <1>3, <1>7, <2>1 DEF Finishes, Places
<1>8. ASSUME NEW n \in Nodes, AddsSuccessor(n) PROVE ListsTyped'
  <2>1. Anim("dots", anim[n].item, Gap, {}) \in AnimRecs
    BY <1>0, RecordsTyped, AnimationAssumption DEF Kinds
  <2>2. anim' \in [Nodes -> AnimRecs] /\ list' \in Seq(Nodes) /\ IsInjective(list')
    BY <1>8, <2>1, LinkedAdds DEF AddsSuccessor
  <2> QED
    BY <1>3, <1>8, <2>2 DEF AddsSuccessor, Places
<1>9. ASSUME NEW n \in Nodes, ItemFinished(n) PROVE ListsTyped'
  <2>1. items' \in [Items -> {"shown", "hiding", "gone"}]
    BY <1>9 DEF ItemFinished
  <2> QED
    BY <1>3, <1>9, <2>1 DEF ItemFinished, Places
<1>10. ASSUME NEW n \in Nodes, RemovesFinished(n) PROVE ListsTyped'
  <2>1. anim' \in [Nodes -> AnimRecs]
    BY <1>10, WithoutKeeps DEF RemovesFinished
  <2>2. list' \in Seq(Nodes) /\ IsInjective(list')
    BY <1>10, UnlinkedKeeps DEF RemovesFinished
  <2> QED
    BY <1>3, <1>10, <2>1, <2>2 DEF RemovesFinished, Places
<1> QED
  BY <1>1, <1>2, <1>4, <1>5, <1>6, <1>7, <1>8, <1>9, <1>10 DEF UpdateStep

\* What Put leaves a thread with.
LEMMA PutTyped ==
    ASSUME does \in [Threads -> Doings], NEW t \in Threads, NEW a \in AnimRecs, Put(t, a)
    PROVE  /\ does' \in [Threads -> Doings]
           /\ does'[t] = IF running THEN [op |-> "append", anim |-> a] ELSE Idle
           /\ \A u \in Threads \ {t} : does'[u] = does[u]
<1>1. (IF running THEN [op |-> "append", anim |-> a] ELSE Idle) \in Doings
  BY DEF Doings
<1> QED
  BY <1>1 DEF Put, Does

\* The new offset is no less than what is left of any animation of the item.
LEMMA OffsetOutlasts ==
    ASSUME ListsTyped, NEW i, \A n \in ForItem(i) : anim[n].offset = 0
    PROVE  LET offset == Max({0} \cup {anim[n].offset + anim[n].left : n \in ForItem(i)})
           IN  offset \in Nat /\ \A n \in ForItem(i) : anim[n].left <= offset
<1> DEFINE T == {0} \cup {anim[n].offset + anim[n].left : n \in ForItem(i)}
<1>1. \A n \in ForItem(i) : anim[n] \in AnimRecs
  BY DEF ForItem, ListsTyped, Range
<1>2. \A n \in ForItem(i) : anim[n].offset + anim[n].left = anim[n].left /\ anim[n].left \in 0..Duration
  BY <1>1, RecordsTyped
<1>3. T \subseteq 0..Duration /\ T # {} /\ Duration \in Nat
  BY <1>2, RecordsTyped
<1>4. \A n \in ForItem(i) : anim[n].left \in T
  BY <1>2
<1> HIDE DEF T
<1>5. Max(T) \in T /\ \A m \in T : m <= Max(T)
  BY <1>3, GreatestNumber
<1>6. Max(T) \in Nat /\ \A n \in ForItem(i) : anim[n].left <= Max(T)
  <2>1. Max(T) \in Nat
    <3>1. \A x \in T : x \in Nat
      BY <1>3
    <3> QED
      BY <1>5, <3>1
  <2>2. \A n \in ForItem(i) : anim[n].left <= Max(T)
    BY <1>4, <1>5
  <2> QED
    BY <2>1, <2>2
<1> QED
  BY <1>6 DEF T

LEMMA CallTyped ==
    ASSUME NEW t \in Threads, AnimInv, ListsTyped, mishap = "none", AnimCall(t)
    PROVE  ListsTyped'
<1> USE DEF ListsTyped
<1>0. \A i : ForItem(i) \subseteq Nodes
  BY DEF ForItem, Range
<1>1. ASSUME NEW i \in Items, Show(t, i) PROVE ListsTyped'
  BY <1>1 DEF Show
<1>2. ASSUME NEW i \in Items, item_anim_add(t, i) PROVE ListsTyped'
  <2>1. Anim(IF i \in Dots THEN "dots" ELSE "select", i, 0, {}) \in AnimRecs
    BY RecordsTyped DEF Kinds
  <2> QED
    BY <1>2, <2>1, PutTyped DEF item_anim_add
<1>3. ASSUME NEW i \in Items, item_anim_add_after(t, i) PROVE ListsTyped'
  <2> DEFINE offset == Max({0} \cup {anim[n].offset + anim[n].left : n \in ForItem(i)})
             waits == {n \in ForItem(i) : NotCounted(n)}
  <2>1. offset \in Nat
    BY <1>3, OffsetOutlasts DEF item_anim_add_after
  <2>2. waits \subseteq Nodes
    BY <1>0
  <2>3. Anim("select", i, offset, waits) \in AnimRecs
    <3> HIDE DEF offset, waits
    <3> QED
      BY <2>1, <2>2, RecordsTyped DEF Kinds
  <2>4. Put(t, Anim("select", i, offset, waits))
    BY <1>3 DEF item_anim_add_after
  <2>5. does' \in [Threads -> Doings]
    BY <2>3, <2>4, PutTyped
  <2> QED
    BY <1>3, <2>5 DEF item_anim_add_after
<1>4. ASSUME NEW i \in Items, NEW how \in {"remove", "hide", "show"}, Replace(t, i, how) PROVE ListsTyped'
  <2>1. [op |-> "cancel", item |-> i, how |-> how] \in Doings
    BY DEF Doings
  <2> QED
    BY <1>4, <2>1 DEF Replace, Does
<1>5. CASE call_anim_add(t)
  <2>1. Anim("tab", "none", 0, {}) \in AnimRecs
    BY RecordsTyped DEF Kinds
  <2> QED
    BY <1>5, <2>1, PutTyped DEF call_anim_add
<1>6. CASE anim_cancel(t)
  <2>1. PICK n \in Range(list) : list' = Unlinked(list, {n}) /\ anim' = Without({n})
    BY <1>6 DEF anim_cancel
  <2>2. anim' \in [Nodes -> AnimRecs] /\ list' \in Seq(Nodes) /\ IsInjective(list')
    BY <2>1, WithoutKeeps, UnlinkedKeeps
  <2> QED
    BY <1>6, <2>2 DEF anim_cancel
<1>7. CASE Appended(t)
  <2> DEFINE a == does[t].anim
             b == [a EXCEPT !.waits = @ \cap ForItem(a.item)]
  <2>1. a \in AnimRecs
    BY <1>7 DEF Appended, Doings, Idle
  <2>2. b \in AnimRecs
    BY <2>1 DEF AnimRecs
  <2>3. Linked(b)
    BY <1>7 DEF Appended
  <2>4. anim' \in [Nodes -> AnimRecs] /\ list' \in Seq(Nodes) /\ IsInjective(list')
    BY <2>2, <2>3, LinkedAdds
  <2>5. does' \in [Threads -> Doings]
    BY <1>7 DEF Appended, Does, Doings
  <2> QED
    BY <1>7, <2>4, <2>5 DEF Appended
<1>8. CASE Cancelled(t)
  <2>1. does[t].item \in Items /\ does[t].how \in {"remove", "hide", "show"}
    BY <1>8 DEF Cancelled, Doings, Idle
  <2>2. /\ anim' \in [Nodes -> AnimRecs] /\ list' \in Seq(Nodes) /\ IsInjective(list')
        /\ mishap' \in {"none", "cancelled", "switched"}
    BY <1>8, WithoutKeeps, UnlinkedKeeps DEF Cancelled, anim_cancel_for
  <2>3. items' \in [Items -> {"shown", "hiding", "gone"}]
    BY <1>8, <2>1 DEF Cancelled
  <2>4. /\ Anim("hide", does[t].item, 0, {}) \in AnimRecs
        /\ Anim("select", does[t].item, 0, {}) \in AnimRecs
    BY <2>1, RecordsTyped DEF Kinds
  <2>5. \/ Does(t, Idle)
        \/ Put(t, Anim("hide", does[t].item, 0, {}))
        \/ Put(t, Anim("select", does[t].item, 0, {}))
    BY <1>8 DEF Cancelled
  <2>6. does' \in [Threads -> Doings]
    BY <2>4, <2>5, PutTyped DEF Does, Doings
  <2> QED
    BY <1>8, <2>2, <2>3, <2>6 DEF Cancelled
<1> QED
  BY <1>1, <1>2, <1>3, <1>4, <1>5, <1>6, <1>7, <1>8 DEF AnimCall

LEMMA MainTyped ==
    ASSUME AnimInv, ListsTyped, mishap = "none", Startup \/ Pong \/ StopsInput \/ Shutdown
    PROVE  ListsTyped'
<1> USE DEF ListsTyped
<1>1. CASE anim_push_context
  <2>1. contexts = <<>>
    BY <1>1 DEF anim_push_context, AnimInv, StopInv, ListInv
  <2>2. contexts' = <<list>> /\ list' = <<>>
    BY <1>1, <2>1, OneJob DEF anim_push_context
  <2>3. IsInjective(<<>>) /\ <<>> \in Seq(Nodes)
    BY DEF IsInjective
  <2>4. contexts' \in Seq(Seq(Nodes)) /\ \A k \in DOMAIN contexts' : IsInjective(contexts'[k])
    <3>1. DOMAIN <<list>> = {1} /\ <<list>>[1] = list /\ <<list>> \in Seq(Seq(Nodes))
      OBVIOUS
    <3> QED
      BY <2>2, <3>1
  <2> QED
    BY <1>1, <2>2, <2>3, <2>4 DEF anim_push_context
<1>2. CASE anim_pop_context
  <2>1. PICK l : contexts = <<l>>
    BY <1>2 DEF anim_pop_context, AnimInv, StopInv, ListInv
  <2>2. contexts' = <<>> /\ list' = l
    BY <1>2, <2>1, FrontOfOne DEF anim_pop_context, Last
  <2>3. 1 \in DOMAIN contexts /\ contexts[1] = l
    BY <2>1
  <2>4. l \in Seq(Nodes) /\ IsInjective(l)
    BY <2>3
  <2>5. anim' \in [Nodes -> AnimRecs]
    BY <1>2, WithoutKeeps DEF anim_pop_context
  <2>6. <<>> \in Seq(Seq(Nodes)) /\ DOMAIN <<>> = {}
    OBVIOUS
  <2> QED
    BY <1>2, <2>2, <2>4, <2>5, <2>6 DEF anim_pop_context
<1>3. CASE anim_list_clear
  <2>1. anim' \in [Nodes -> AnimRecs]
    BY <1>3, WithoutKeeps DEF anim_list_clear
  <2>2. IsInjective(<<>>) /\ <<>> \in Seq(Nodes)
    BY DEF IsInjective
  <2> QED
    BY <1>3, <2>1, <2>2 DEF anim_list_clear
<1>4. CASE StartsWorkers \/ anim_init \/ Registers \/ StopsInput \/ anim_stop \/ Drained
           \/ Unregisters \/ StopsWorkers \/ WorkersEnded
  BY <1>4 DEF StartsWorkers, anim_init, Registers, StopsInput, anim_stop, Drained, Unregisters,
     StopsWorkers, WorkersEnded, KeepAnims
<1> QED
  BY <1>1, <1>2, <1>3, <1>4 DEF Startup, Pong, Shutdown

\* What a node in use can be: the active list has them all.
LEMMA UsedNodes ==
    ASSUME AnimInv, ListsTyped, CalmInv
    PROVE  /\ Active \in Seq(Nodes) /\ IsInjective(Active) /\ Range(Active) \subseteq Nodes
           /\ Used \ {0} = Range(Active)
           /\ Range(list) \subseteq Range(Active) /\ 0 \notin Range(Active)
<1>1. CASE phase # "pong"
  <2>1. contexts = <<>> /\ Active = list
    BY <1>1 DEF AnimInv, StopInv, ListInv, Active
  <2>2. it \in Range(list) \cup {0}
    BY DEF CalmInv, WalkInv
  <2>3. Used = Range(list) \cup {it}
    <3>1. DOMAIN contexts = {}
      BY <2>1
    <3>2. \A x : x \in Used <=> \/ x \in Range(list) \/ x = it
                            \/ \E k \in DOMAIN contexts : x \in Range(contexts[k])
      BY DEF Used
    <3> QED
      BY <3>1, <3>2
  <2>4. Range(list) \subseteq Nodes /\ 0 \notin Nodes
    BY AnimationAssumption DEF ListsTyped, Range
  <2> QED
    BY <2>1, <2>2, <2>3, <2>4 DEF ListsTyped
<1>2. CASE phase = "pong"
  <2>1. PICK l : contexts = <<l>>
    BY <1>2 DEF AnimInv, StopInv, ListInv
  <2>2. DOMAIN contexts = {1} /\ contexts[1] = l
    BY <2>1
  <2>3. Active = l /\ list = <<>> /\ Range(list) = {}
    BY <1>2, <2>2 DEF Active, CalmInv, WalkInv, Range
  <2>4. it = 0
    BY <2>3 DEF CalmInv, WalkInv
  <2>5. Used = Range(l) \cup {0}
    <3>1. \A x : x \in Used <=> \/ x \in Range(list) \/ x = it
                            \/ \E k \in DOMAIN contexts : x \in Range(contexts[k])
      BY DEF Used
    <3> QED
      BY <2>2, <2>3, <2>4, <3>1
  <2>6. l \in Seq(Nodes) /\ IsInjective(l)
    <3>1. 1 \in DOMAIN contexts
      BY <2>2
    <3>2. contexts \in Seq(Seq(Nodes)) /\ IsInjective(contexts[1])
      BY <3>1 DEF ListsTyped
    <3>3. contexts[1] \in Seq(Nodes)
      BY <3>1, <3>2
    <3> QED
      BY <2>2, <3>2, <3>3
  <2>7. Range(l) \subseteq Nodes /\ 0 \notin Nodes
    BY <2>6, AnimationAssumption DEF Range
  <2>8. Used \ {0} = Range(l)
    BY <2>5, <2>7
  <2> QED
    BY <2>3, <2>6, <2>7, <2>8
<1> QED
  BY <1>1, <1>2

-----------------------------------------------------------------------------
\* Animations and their items.

\* Animations go, keep what they are, and calls end.
LEMMA FewerKeepItems ==
    ASSUME ItemInv, Range(Active)' \subseteq Range(Active), Live' \subseteq Live,
           \A n \in Range(Active)' : /\ anim'[n].kind = anim[n].kind
                                     /\ anim'[n].item = anim[n].item,
           items' = items,
           \A t \in Threads : does'[t] = does[t] \/ does'[t] = Idle
    PROVE  ItemInv'
<1>0. Live' \subseteq Range(Active)'
  BY DEF Live
<1>1. /\ \A n \in Range(Active)' : Suits(anim'[n])
      /\ \A n \in Live' : anim'[n].kind = "hide" => items'[anim'[n].item] = "hiding"
  BY <1>0 DEF ItemInv, Suits
<1>2. \A t \in Threads : does'[t].op = "append" =>
         /\ Suits(does'[t].anim)
         /\ does'[t].anim.kind = "hide" => items'[does'[t].anim.item] = "hiding"
  BY DEF ItemInv, Idle
<1>3. \A t \in Threads : \A i : At(t, i)' => At(t, i) /\ does'[t] = does[t]
  BY DEF At, Idle
<1>4. ASSUME NEW i \in Items
      PROVE  /\ items'[i] = "gone" => /\ \A n \in Live' : anim'[n].item # i
                                      /\ \A t \in Threads : ~At(t, i)'
             /\ items'[i] = "hiding" =>
                  /\ i \in Cards
                  /\ \A m, n \in Live' : anim'[m].item = i /\ anim'[n].item = i => m = n
                  /\ \A t \in Threads : At(t, i)' => /\ does'[t].op = "append"
                                                     /\ \A n \in Live' : anim'[n].item # i
  BY <1>0, <1>3 DEF ItemInv
<1> QED
  BY <1>1, <1>2, <1>4 DEF ItemInv, Suits

-----------------------------------------------------------------------------
\* The walk of anim_update stays in the list.

LEMMA UpdateKeepsWalk ==
    ASSUME AnimInv, ListsTyped, CalmInv, UpdateStep
    PROVE  WalkInv'
<1> USE DEF CalmInv, WalkInv
<1>1. CASE UpdateBegins
  <2>1. list # <<>> => Head(list) \in Range(list)
    BY HeadFirst DEF ListsTyped
  <2>2. UNCHANGED <<list, does, phase, anim>> /\ upd' = "at" /\ (it' # 0 => it' \in Range(list))
    BY <1>1, <2>1 DEF UpdateBegins, Quiet
  <2> QED
    BY <2>2 DEF Windows
<1>2. CASE UpdateReturns
  BY <1>2 DEF UpdateReturns, Windows
<1>3. ASSUME NEW n \in Nodes, NEW place \in Places, Current(place, n)
      PROVE  /\ phase # "pong" /\ UNCHANGED <<does, phase>> /\ n \in Range(list) /\ it = n
             /\ upd = place /\ n # 0
             /\ NextOf(n) # 0 => NextOf(n) \in Range(list) \ {n}
  <2>1. phase # "pong"
    BY <1>3 DEF Current, Range
  <2>2. n # 0
    BY AnimationAssumption
  <2> QED
    BY <1>3, <2>1, <2>2, NextInList DEF Current, Quiet, ListsTyped
<1>4. ASSUME NEW n \in Nodes, Wait(n) \/ Continues(n) PROVE WalkInv'
  <2>1. Current("at", n) \/ Current("stepped", n)
    BY <1>4 DEF Wait, Continues
  <2>2. upd' = "at" /\ it' = NextOf(n) /\ list' = list
    BY <1>4 DEF Wait, Continues, Current
  <2> QED
    BY <1>3, <2>1, <2>2 DEF Places, Windows
<1>5. ASSUME NEW n \in Nodes, Step(n) PROVE WalkInv'
  <2>1. UNCHANGED <<list, it>> /\ anim'[n].kind = anim[n].kind
    BY <1>5 DEF Step, ListsTyped
  <2>2. upd' = IF anim[n].kind \in {"select", "hide"} THEN "stepping" ELSE "stepped"
    BY <1>5 DEF Step
  <2>3. Current("at", n)
    BY <1>5 DEF Step
  <2> QED
    BY <1>3, <2>1, <2>2, <2>3 DEF Places, Windows
<1>6. ASSUME NEW n \in Nodes, OnStepReturns(n) \/ OnFinished(n) PROVE WalkInv'
  <2>1. Current("stepping", n) \/ Current("finishing", n)
    BY <1>6 DEF OnStepReturns, OnFinished
  <2>2. UNCHANGED <<list, it, anim>>
    BY <1>6 DEF OnStepReturns, OnFinished
  <2>3. \/ upd' = "stepped"
        \/ upd = "finishing" /\ upd' \in {"adding", "ending"}
    BY <1>6 DEF OnStepReturns, OnFinished, Current
  <2> QED
    BY <1>3, <2>1, <2>2, <2>3 DEF Places, Windows
<1>7. ASSUME NEW n \in Nodes, Finishes(n) PROVE WalkInv'
  <2>1. UNCHANGED <<list, it, anim>> /\ Current("stepped", n)
    BY <1>7 DEF Finishes
  <2>2. \/ anim[n].kind = "dots" /\ upd' = "finishing"
        \/ anim[n].kind = "tab" /\ upd' = "remove"
        \/ anim[n].kind # "tab" /\ upd' = "ending"
    <3>1. CASE anim[n].kind = "dots"
      BY <1>7, <3>1 DEF Finishes
    <3>2. CASE anim[n].kind = "tab"
      BY <1>7, <3>2 DEF Finishes
    <3>3. CASE anim[n].kind # "dots" /\ anim[n].kind # "tab"
      BY <1>7, <3>3 DEF Finishes
    <3> QED
      BY <3>1, <3>2, <3>3
  <2> QED
    BY <1>3, <2>1, <2>2 DEF Places, Windows
<1>8. ASSUME NEW n \in Nodes, AddsSuccessor(n) PROVE WalkInv'
  <2>1. Current("adding", n) /\ it' = it /\ upd' = "ending"
    BY <1>8 DEF AddsSuccessor
  <2>2. n \in Range(list) /\ phase # "pong" /\ it = n /\ n \in Used /\ anim[n].kind = "dots"
    BY <1>3, <2>1 DEF Places, Used
  <2>3. Anim("dots", anim[n].item, Gap, {}) \in AnimRecs
    BY RecordsTyped, AnimationAssumption DEF Kinds, ListsTyped
  <2>4. Range(list) \subseteq Range(list') /\ anim'[n] = anim[n]
    BY <1>8, <2>2, <2>3, LinkedAdds DEF AddsSuccessor, ListsTyped
  <2> QED
    BY <1>3, <2>1, <2>2, <2>4 DEF Places, Windows
<1>9. ASSUME NEW n \in Nodes, ItemFinished(n) PROVE WalkInv'
  <2>1. Current("ending", n) /\ UNCHANGED <<list, it, anim>> /\ upd' = "remove"
    BY <1>9 DEF ItemFinished
  <2> QED
    BY <1>3, <2>1 DEF Places, Windows
<1>10. ASSUME NEW n \in Nodes, RemovesFinished(n) PROVE WalkInv'
  <2>1. Current("remove", n) /\ upd' = "at" /\ it' = NextOf(n) /\ list' = Unlinked(list, {n})
    BY <1>10 DEF RemovesFinished
  <2>2. Range(list') = Range(list) \ {n}
    BY <2>1, UnlinkedKeeps DEF ListsTyped
  <2> QED
    BY <1>3, <2>1, <2>2 DEF Places, Windows
<1> QED
  BY <1>1, <1>2, <1>4, <1>5, <1>6, <1>7, <1>8, <1>9, <1>10 DEF UpdateStep

\* What no call changes.  None is made while pong has a context of its own.
LEMMA CallFrame ==
    ASSUME NEW t \in Threads, ListsTyped, WalkInv, AnimCall(t)
    PROVE  /\ UNCHANGED <<upd, it, diff, phase, contexts, running>>
           /\ phase # "pong" /\ Active = list /\ Active' = list'
           /\ t \in DOMAIN does /\ does = [u \in Threads |-> does[u]]
<1>1. UNCHANGED <<upd, it, diff, phase, contexts, running>>
  BY DEF AnimCall, Show, item_anim_add, item_anim_add_after, Replace, call_anim_add,
         anim_cancel, Appended, Cancelled
<1>2. phase # "pong"
  <2>1. phase = "pong" => does[t] = Idle
    BY DEF WalkInv
  <2>2. Appended(t) \/ Cancelled(t) => does[t] # Idle
    BY DEF Appended, Cancelled, Idle
  <2>3. Appended(t) \/ Cancelled(t) \/ phase # "pong"
    BY DEF AnimCall, Show, item_anim_add, item_anim_add_after, Replace, call_anim_add,
           anim_cancel, MayUse, Destroying
  <2> QED
    BY <2>1, <2>2, <2>3
<1> QED
  BY <1>1, <1>2 DEF Active, ListsTyped

LEMMA CallKeepsWalk ==
    ASSUME NEW t \in Threads, AnimInv, ListsTyped, CalmInv, AnimCall(t), mishap = "none",
           mishap' = "none"
    PROVE  WalkInv'
<1> USE DEF CalmInv, WalkInv
<1>1. UNCHANGED <<upd, it, phase>>
  BY CallFrame
<1>2. phase # "pong"
  BY CallFrame
<1>3. CASE UNCHANGED <<list, anim>>
  BY <1>1, <1>2, <1>3
<1>4. CASE Appended(t)
  <2> DEFINE a == does[t].anim
             b == [a EXCEPT !.waits = @ \cap ForItem(a.item)]
  <2>1. a \in AnimRecs
    BY <1>4 DEF Appended, ListsTyped, Doings, Idle
  <2>2. b \in AnimRecs
    BY <2>1 DEF AnimRecs
  <2>3. Linked(b)
    BY <1>4 DEF Appended
  <2>4. Range(list) \subseteq Range(list') /\ \A m \in Used \cap Nodes : anim'[m] = anim[m]
    BY <2>2, <2>3, LinkedAdds DEF ListsTyped
  <2>5. it # 0 => it \in Used \cap Nodes
    BY DEF ListsTyped, Used
  <2>6. it # 0 => it \in Range(list') /\ anim'[it] = anim[it]
    BY <2>4, <2>5
  <2>7. upd \in Windows \cup {"finishing", "adding"} => it # 0
    BY DEF Windows
  <2> QED
    BY <1>1, <1>2, <2>6, <2>7
<1>5. ASSUME NEW ns, list' = Unlinked(list, ns), anim' = Without(ns), it # 0 => it \notin ns
      PROVE  WalkInv'
  <2>1. Range(list') = Range(list) \ ns
    BY <1>5, UnlinkedKeeps DEF ListsTyped
  <2>2. it # 0 => it \in Range(list') /\ anim'[it].kind = anim[it].kind
    BY <1>5, <2>1, WithoutKeeps DEF ListsTyped
  <2>7. upd \in Windows \cup {"finishing", "adding"} => it # 0
    BY DEF Windows
  <2> QED
    BY <1>1, <1>2, <2>2, <2>7
<1>6. CASE Cancelled(t)
  <2>1. running /\ ~UNCHANGED <<list, anim>> =>
           /\ ~AnimLocked /\ list' = Unlinked(list, ForItem(does[t].item))
           /\ anim' = Without(ForItem(does[t].item))
           /\ ~(upd \in Windows /\ it \in ForItem(does[t].item))
    BY <1>6 DEF Cancelled, anim_cancel_for
  <2>2. ~AnimLocked /\ it # 0 => upd \in Windows
    BY DEF AnimLocked, Windows, ListsTyped, Places
  <2> QED
    BY <1>3, <1>5, <1>6, <2>1, <2>2 DEF Cancelled, anim_cancel_for
<1>7. CASE anim_cancel(t)
  <2>1. PICK n \in Range(list) : /\ anim[n].kind = "tab" /\ list' = Unlinked(list, {n})
                                 /\ anim' = Without({n})
    BY <1>7 DEF anim_cancel
  <2>2. ~AnimLocked /\ it # 0 => upd \in Windows
    BY DEF AnimLocked, Windows, ListsTyped, Places
  <2> QED
    BY <1>5, <1>7, <2>1, <2>2 DEF anim_cancel
<1> QED
  BY <1>3, <1>4, <1>6, <1>7 DEF AnimCall, Show, item_anim_add, item_anim_add_after, Replace,
     call_anim_add

-----------------------------------------------------------------------------
\* An item is in the hands of one thread.

LEMMA OneHand ==
    ASSUME OwnInv, NEW t \in Threads, NEW u \in Threads, NEW i \in Items, At(t, i), At(u, i)
    PROVE  t = u
<1>1. does[t] # Idle /\ does[u] # Idle
  BY DEF At, Idle
<1> QED
  BY <1>1 DEF OwnInv

LEMMA UpdateKeepsOwn ==
    ASSUME ListsTyped, CalmInv, UpdateStep
    PROVE  OwnInv'
<1>1. UNCHANGED <<does, phase>>
  BY DEF UpdateStep, UpdateBegins, UpdateReturns, Wait, Step, OnStepReturns, Continues, Finishes,
         OnFinished, AddsSuccessor, ItemFinished, RemovesFinished, Current, Quiet
<1>2. \A i \in Items : items[i] = "shown" => items'[i] = "shown"
  <2>1. CASE items' = items
    BY <2>1
  <2>2. ASSUME NEW n \in Nodes, ItemFinished(n)
        PROVE  \A i \in Items : items[i] = "shown" => items'[i] = "shown"
    <3>1. CASE anim[n].kind # "hide"
      BY <2>2, <3>1 DEF ItemFinished
    <3>2. CASE anim[n].kind = "hide"
      <4>1. n \in Live
        <5>1. upd = "ending" /\ it = n /\ n \in Range(list)
          BY <2>2 DEF ItemFinished, Current
        <5>2. phase # "pong"
          BY <5>1 DEF CalmInv, WalkInv
        <5> QED
          BY <5>1, <5>2 DEF Live, Active, Finished
      <4>2. items[anim[n].item] = "hiding"
        BY <3>2, <4>1 DEF CalmInv, ItemInv
      <4>3. items' = [items EXCEPT ![anim[n].item] = "gone"]
        BY <2>2, <3>2 DEF ItemFinished
      <4> QED
        BY <4>2, <4>3 DEF ListsTyped
    <3> QED
      BY <3>1, <3>2
  <2> QED
    BY <2>1, <2>2 DEF UpdateStep, UpdateBegins, UpdateReturns, Wait, Step, OnStepReturns,
       Continues, Finishes, OnFinished, AddsSuccessor, RemovesFinished
<1>3. \A t \in Threads : does[t].op = "cancel" => does[t].item \in Items
  BY DEF ListsTyped, Doings, Idle
<1> QED
  BY <1>1, <1>2, <1>3 DEF CalmInv, OwnInv, At

LEMMA CallKeepsOwn ==
    ASSUME NEW t \in Threads, AnimInv, ListsTyped, CalmInv, AnimCall(t)
    PROVE  OwnInv'
<1>0. /\ phase' = phase /\ \A u \in Threads \ {t} : does'[u] = does[u]
      /\ t \in DOMAIN does /\ "none" \notin Items
  <2>1. phase' = phase /\ (does' = does \/ \E d : Does(t, d))
    BY DEF AnimCall, Show, item_anim_add, item_anim_add_after, Replace, call_anim_add,
           anim_cancel, Appended, Cancelled, Put
  <2>2. t \in DOMAIN does /\ does = [u \in Threads |-> does[u]]
    BY DEF ListsTyped
  <2> QED
    BY <2>1, <2>2, AnimationAssumption DEF Does
<1>1. ASSUME \A u \in Threads \ {t} : /\ does[u].op = "cancel"
                                      /\ items[does[u].item] = "shown"
                                      => items'[does[u].item] = "shown",
             does'[t] # Idle =>
               /\ \/ phase = "up" /\ \A i \in Items : At(t, i)' => t = Owner[i]
                  \/ phase = "closing" /\ t = Main
                  \/ phase = "quiet" /\ t = Main /\ does'[t].op = "cancel"
               /\ does'[t].op = "cancel" /\ does'[t].how # "remove" => does'[t].item \in Cards
               /\ does'[t].op = "cancel" => items'[does'[t].item] = "shown"
      PROVE  OwnInv'
  BY <1>0, <1>1 DEF CalmInv, OwnInv, At
<1>2. ASSUME NEW i \in Items, NEW a, MayUse(t, i), a.item = i, Put(t, a), items' = items
      PROVE  OwnInv'
  <2>1. does'[t] = Idle \/ does'[t] = [op |-> "append", anim |-> a]
    BY <1>0, <1>2 DEF Put, Does
  <2>2. \A j : At(t, j)' => j = i
    BY <1>2, <2>1 DEF At, Idle
  <2> QED
    BY <1>0, <1>1, <1>2, <2>1, <2>2 DEF MayUse
<1>3. ASSUME NEW i \in Items, Show(t, i) PROVE OwnInv'
  <2>1. does' = does /\ does[t] = Idle
    BY <1>3 DEF Show
  <2>2. \A j \in Items : items[j] = "shown" => items'[j] = "shown"
    BY <1>3 DEF Show, ListsTyped
  <2>3. \A u \in Threads : does[u].op = "cancel" => does[u].item \in Items
    BY DEF ListsTyped, Doings, Idle
  <2> QED
    BY <1>1, <2>1, <2>2, <2>3
<1>4. ASSUME NEW i \in Items, item_anim_add(t, i) \/ item_anim_add_after(t, i) PROVE OwnInv'
  <2>1. MayUse(t, i) /\ items' = items
    BY <1>4 DEF item_anim_add, item_anim_add_after
  <2>2. \E kind, offset, waits : Put(t, Anim(kind, i, offset, waits))
    BY <1>4 DEF item_anim_add, item_anim_add_after
  <2> QED
    BY <1>2, <2>1, <2>2 DEF Anim
<1>5. ASSUME NEW i \in Items, NEW how \in {"remove", "hide", "show"}, Replace(t, i, how)
      PROVE  OwnInv'
  <2>1. /\ does'[t] = [op |-> "cancel", item |-> i, how |-> how] /\ items' = items
        /\ how # "remove" => i \in Cards
        /\ MayUse(t, i) \/ (t = Main /\ Destroying(i, how))
    BY <1>0, <1>5 DEF Replace, Does
  <2>2. \A j : At(t, j)' => j = i
    BY <2>1 DEF At
  <2> QED
    BY <1>1, <2>1, <2>2 DEF MayUse, Destroying
<1>6. CASE call_anim_add(t)
  <2>1. Put(t, Anim("tab", "none", 0, {})) /\ phase = "up" /\ items' = items
    BY <1>6 DEF call_anim_add
  <2>2. does'[t] = Idle \/ does'[t] = [op |-> "append", anim |-> Anim("tab", "none", 0, {})]
    BY <1>0, <2>1 DEF Put, Does
  <2>3. \A j \in Items : ~At(t, j)'
    BY <1>0, <2>2 DEF At, Idle, Anim
  <2> QED
    BY <1>1, <2>1, <2>2, <2>3
<1>7. CASE anim_cancel(t) \/ Appended(t)
  <2>1. items' = items /\ does'[t] = Idle
    BY <1>0, <1>7 DEF anim_cancel, Appended, Does
  <2> QED
    BY <1>1, <2>1
<1>8. CASE Cancelled(t)
  <2> DEFINE i == does[t].item
  <2>1. does[t].op = "cancel" /\ i \in Items /\ At(t, i) /\ does[t] # Idle
    BY <1>8 DEF Cancelled, ListsTyped, Doings, Idle, At
  <2>2. items' = items \/ \E s : items' = [items EXCEPT ![i] = s]
    BY <1>8 DEF Cancelled
  <2>3. \A u \in Threads \ {t} : does[u].op = "cancel" => does[u].item # i
    BY <2>1, OneHand DEF CalmInv, At
  <2>4. \A u \in Threads \ {t} : does[u].op = "cancel" /\ items[does[u].item] = "shown"
                                 => items'[does[u].item] = "shown"
    <3>1. \A j \in Items : j # i => items'[j] = items[j]
      BY <2>2 DEF ListsTyped
    <3>2. \A u \in Threads : does[u].op = "cancel" => does[u].item \in Items
      BY DEF ListsTyped, Doings, Idle
    <3> QED
      BY <2>3, <3>1, <3>2
  <2>5. CASE does'[t] = Idle
    BY <1>1, <2>4, <2>5
  <2>6. CASE does'[t] # Idle
    <3>1. PICK kind \in {"hide", "select"} : Put(t, Anim(kind, i, 0, {}))
      BY <1>0, <1>8, <2>6 DEF Cancelled, Does
    <3>2. running /\ does'[t] = [op |-> "append", anim |-> Anim(kind, i, 0, {})]
      BY <1>0, <2>6, <3>1 DEF Put, Does
    <3>3. phase # "quiet"
      BY <3>2 DEF AnimInv, StopInv, ListInv
    <3>4. \A j : At(t, j)' => j = i
      BY <3>2 DEF At, Anim
    <3>5. \/ phase = "up" /\ t = Owner[i]
          \/ phase = "closing" /\ t = Main
      BY <2>1, <3>3 DEF CalmInv, OwnInv
    <3> QED
      BY <1>1, <2>4, <3>2, <3>4, <3>5
  <2> QED
    BY <2>5, <2>6
<1> QED
  BY <1>3, <1>4, <1>5, <1>6, <1>7, <1>8 DEF AnimCall

-----------------------------------------------------------------------------
\* Items keep to their animations.

\* The new animation n, of an item nobody else animates unless it may be animated.
LEMMA OneMoreKeepsItems ==
    ASSUME ItemInv, NEW n, NEW t \in Threads,
           Live' \subseteq Live \cup {n}, Range(Active)' \subseteq Range(Active) \cup {n},
           n \notin Range(Active),
           \A m \in Range(Active) : anim'[m] = anim[m],
           Suits(anim'[n]), items' = items,
           anim'[n].kind = "hide" => items[anim'[n].item] = "hiding",
           \A i \in Items : anim'[n].item = i =>
             /\ items[i] # "gone"
             /\ items[i] = "hiding" => /\ \A m \in Live : anim[m].item # i
                                       /\ \A u \in Threads : ~At(u, i)',
           \A u \in Threads : does'[u] = does[u] \/ does'[u] = Idle
    PROVE  ItemInv'
<1>0. Live \subseteq Range(Active) /\ Live' \subseteq Range(Active)'
  BY DEF Live
<1>1. /\ \A m \in Range(Active)' : Suits(anim'[m])
      /\ \A m \in Live' : anim'[m].kind = "hide" => items'[anim'[m].item] = "hiding"
  BY <1>0 DEF ItemInv
<1>2. \A u \in Threads : does'[u].op = "append" =>
         /\ Suits(does'[u].anim)
         /\ does'[u].anim.kind = "hide" => items'[does'[u].anim.item] = "hiding"
  BY DEF ItemInv, Idle
<1>3. \A u \in Threads : \A i : At(u, i)' => At(u, i) /\ does'[u] = does[u]
  BY DEF At, Idle
<1>4. ASSUME NEW i \in Items
      PROVE  /\ items'[i] = "gone" => /\ \A m \in Live' : anim'[m].item # i
                                      /\ \A u \in Threads : ~At(u, i)'
             /\ items'[i] = "hiding" =>
                  /\ i \in Cards
                  /\ \A m, l \in Live' : anim'[m].item = i /\ anim'[l].item = i => m = l
                  /\ \A u \in Threads : At(u, i)' => /\ does'[u].op = "append"
                                                     /\ \A m \in Live' : anim'[m].item # i
  <2>1. CASE anim'[n].item = i
    <3>1. items'[i] # "gone"
      BY <1>4, <2>1
    <3>2. ASSUME items'[i] = "hiding"
          PROVE  /\ i \in Cards
                 /\ \A m \in Live' : anim'[m].item = i => m = n
                 /\ \A u \in Threads : ~At(u, i)'
      <4>1. \A m \in Live : anim[m].item # i
        BY <1>4, <2>1, <3>2
      <4>2. \A m \in Live : anim'[m].item # i
        BY <1>0, <4>1
      <4>3. \A u \in Threads : ~At(u, i)'
        BY <1>4, <2>1, <3>2
      <4> QED
        BY <1>4, <3>2, <4>2, <4>3 DEF ItemInv
    <3> QED
      BY <3>1, <3>2
  <2>2. CASE anim'[n].item # i
    <3>1. \A m \in Live' : anim'[m].item = i => m \in Live /\ anim[m].item = i
      BY <1>0, <2>2
    <3> QED
      BY <1>3, <1>4, <3>1 DEF ItemInv
  <2> QED
    BY <2>1, <2>2
<1> QED
  BY <1>1, <1>2, <1>4 DEF ItemInv, Suits

LEMMA UpdateKeepsItems ==
    ASSUME AnimInv, ListsTyped, CalmInv, UpdateStep
    PROVE  ItemInv'
<1>0. ItemInv
  BY DEF CalmInv
<1>1. CASE UpdateBegins \/ UpdateReturns
  <2>1. UNCHANGED <<list, contexts, phase, anim, items, does>> /\ upd' \in {"out", "at"}
    BY <1>1 DEF UpdateBegins, UpdateReturns, Quiet
  <2>2. upd \in {"out", "at"}
    BY <1>1 DEF UpdateBegins, UpdateReturns
  <2>3. Range(Active)' = Range(Active) /\ Live' = Live
    BY <2>1, <2>2 DEF Active, Live, Finished
  <2> QED
    BY <1>0, <2>1, <2>3, FewerKeepItems
<1>2. ASSUME NEW n \in Nodes, NEW place \in Places, Current(place, n)
      PROVE  /\ phase # "pong" /\ UNCHANGED <<does, phase>> /\ n \in Range(list) /\ it = n
             /\ upd = place /\ Active = list /\ Active' = list'
             /\ place # "remove" => n \in Live
             /\ place # "remove" => Live = Range(list)
  <2>1. phase # "pong"
    BY <1>2 DEF Current, Range, CalmInv, WalkInv
  <2> QED
    BY <1>2, <2>1 DEF Current, Quiet, Active, Live, Finished
<1>3. ASSUME NEW n \in Nodes,
             \/ Wait(n) \/ Step(n) \/ OnStepReturns(n) \/ Continues(n) \/ Finishes(n)
             \/ OnFinished(n)
      PROVE  ItemInv'
  <2>1. PICK place \in Places \ {"remove"} : Current(place, n)
    BY <1>3 DEF Wait, Step, OnStepReturns, Continues, Finishes, OnFinished, Places
  <2>2. UNCHANGED <<list, items, does>>
    BY <1>2, <1>3, <2>1 DEF Wait, Step, OnStepReturns, Continues, Finishes, OnFinished
  <2>3. \A m \in Nodes : anim'[m].kind = anim[m].kind /\ anim'[m].item = anim[m].item
    <3>1. CASE anim' = anim
      BY <3>1
    <3>2. CASE Wait(n) \/ Step(n)
      <4>1. \E o : anim' = [anim EXCEPT ![n].offset = o] \/ anim' = [anim EXCEPT ![n].left = o]
        BY <3>2 DEF Wait, Step
      <4>3. PICK o : anim' = [anim EXCEPT ![n].offset = o] \/ anim' = [anim EXCEPT ![n].left = o]
        BY <4>1
      <4>4. anim'[n].kind = anim[n].kind /\ anim'[n].item = anim[n].item
        <5>1. anim[n] \in AnimRecs /\ anim \in [Nodes -> AnimRecs]
          BY DEF ListsTyped
        <5>2. CASE anim' = [anim EXCEPT ![n].offset = o]
          BY <5>1, <5>2 DEF AnimRecs
        <5>3. CASE anim' = [anim EXCEPT ![n].left = o]
          BY <5>1, <5>3 DEF AnimRecs
        <5> QED
          BY <4>3, <5>2, <5>3
      <4>5. \A m \in Nodes \ {n} : anim'[m] = anim[m]
        BY <4>3 DEF ListsTyped
      <4> QED
        BY <4>4, <4>5
    <3> QED
      BY <1>3, <3>1, <3>2 DEF OnStepReturns, Continues, Finishes, OnFinished
  <2>4. Range(list) \subseteq Nodes
    BY DEF ListsTyped, Range
  <2>5. Live' \subseteq Live /\ Range(Active)' = Range(Active)
    BY <1>2, <2>1, <2>2 DEF Live
  <2> QED
    BY <1>0, <1>2, <2>1, <2>2, <2>3, <2>4, <2>5, FewerKeepItems
<1>4. ASSUME NEW n \in Nodes, AddsSuccessor(n) PROVE ItemInv'
  <2> DEFINE a == Anim("dots", anim[n].item, Gap, {})
  <2>1. Current("adding", n) /\ "adding" \in Places /\ items' = items /\ upd' = "ending"
    BY <1>4 DEF AddsSuccessor, Places
  <2>2. anim[n].kind = "dots" /\ n \in Live /\ anim[n].item \in Dots /\ anim[n].item \in Items
    <3>1. n \in Live /\ n \in Range(Active) /\ anim[n].kind = "dots"
      BY <1>2, <2>1 DEF CalmInv, WalkInv
    <3> QED
      BY <1>0, <3>1 DEF ItemInv, Suits, Items
  <2>3. a \in AnimRecs
    BY <2>2, RecordsTyped, AnimationAssumption DEF Kinds
  <2>4. PICK p \in Nodes : /\ p \notin Used /\ anim' = [anim EXCEPT ![p] = a]
                           /\ Range(list') = Range(list) \cup {p}
    BY <1>4, <2>3, LinkedAdds DEF AddsSuccessor
  <2>5. /\ p \notin Range(Active) /\ anim'[p] = a
        /\ \A m \in Range(Active) : anim'[m] = anim[m]
    BY <2>4, UsedNodes DEF ListsTyped
  <2>6. /\ a.kind = "dots" /\ a.item = anim[n].item /\ Suits(a)
    BY <2>2 DEF Anim, Suits
  <2>7. items[a.item] # "gone" /\ items[a.item] # "hiding"
    BY <1>0, <2>2, <2>6, AnimationAssumption DEF ItemInv
  <2>8. Live' \subseteq Live \cup {p} /\ Range(Active)' = Range(Active) \cup {p}
    BY <1>2, <2>1, <2>4 DEF Live
  <2>9. \E t : t \in Threads
    BY AnimationAssumption
  <2> HIDE DEF a
  <2> QED
    BY <1>0, <1>2, <2>1, <2>5, <2>6, <2>7, <2>8, <2>9, OneMoreKeepsItems
<1>5. ASSUME NEW n \in Nodes, ItemFinished(n) PROVE ItemInv'
  <2>1. /\ Current("ending", n) /\ "ending" \in Places /\ UNCHANGED <<list, anim>>
        /\ it' = it /\ upd' = "remove"
    BY <1>5 DEF ItemFinished, Places
  <2>2. Live' = Live \ {n} /\ Range(Active)' = Range(Active) /\ n \in Live /\ UNCHANGED does
    BY <1>2, <2>1 DEF Live, Finished
  <2>3. CASE anim[n].kind # "hide"
    <3>1. items' = items
      BY <1>5, <2>3 DEF ItemFinished
    <3> QED
      BY <1>0, <2>1, <2>2, <3>1, FewerKeepItems
  <2>4. CASE anim[n].kind = "hide"
    <3> DEFINE i == anim[n].item
    <3>1. items[i] = "hiding" /\ i \in Cards /\ i \in Items
      BY <1>0, <2>2, <2>4 DEF ItemInv, Suits, Live, Items
    <3>2. items' = [items EXCEPT ![i] = "gone"]
      BY <1>5, <2>4 DEF ItemFinished
    <3>3. \A m \in Live' : anim[m].item # i
      BY <1>0, <2>2, <3>1 DEF ItemInv
    <3>4. \A t \in Threads : ~At(t, i)
      BY <1>0, <2>2, <3>1 DEF ItemInv
    <3>5. \A t \in Threads : \A j : At(t, j)' <=> At(t, j)
      BY <2>2 DEF At
    <3>6. \A j \in Items : items'[j] = IF j = i THEN "gone" ELSE items[j]
      BY <3>2 DEF ListsTyped
    <3>7. \A m \in Range(Active)' : Suits(anim'[m])
      BY <1>0, <2>1, <2>2 DEF ItemInv
    <3>8. \A m \in Live' : anim'[m].kind = "hide" => items'[anim'[m].item] = "hiding"
      <4>1. \A m \in Live' : anim[m].kind = "hide" => anim[m].item \in Items
        BY <1>0, <2>2 DEF ItemInv, Suits, Live, Items
      <4> QED
        BY <1>0, <2>1, <2>2, <3>3, <3>6, <4>1 DEF ItemInv
    <3>9. \A t \in Threads : does'[t].op = "append" =>
             /\ Suits(does'[t].anim)
             /\ does'[t].anim.kind = "hide" => items'[does'[t].anim.item] = "hiding"
      <4>1. \A t \in Threads : does[t].op = "append" => does[t].anim.item # i
        BY <3>4 DEF At
      <4>2. \A t \in Threads : does[t].op = "append" /\ does[t].anim.kind = "hide"
                               => does[t].anim.item \in Items
        BY <1>0 DEF ItemInv, Suits, Items
      <4> QED
        BY <1>0, <2>2, <3>6, <4>1, <4>2 DEF ItemInv
    <3>10. ASSUME NEW j \in Items
           PROVE  /\ items'[j] = "gone" => /\ \A m \in Live' : anim'[m].item # j
                                           /\ \A u \in Threads : ~At(u, j)'
                  /\ items'[j] = "hiding" =>
                       /\ j \in Cards
                       /\ \A m, l \in Live' : anim'[m].item = j /\ anim'[l].item = j => m = l
                       /\ \A u \in Threads : At(u, j)' => /\ does'[u].op = "append"
                                                          /\ \A m \in Live' : anim'[m].item # j
      BY <1>0, <2>1, <2>2, <3>3, <3>4, <3>5, <3>6, <3>10 DEF ItemInv
    <3> QED
      BY <3>7, <3>8, <3>9, <3>10 DEF ItemInv, Suits
  <2> QED
    BY <2>3, <2>4
<1>6. ASSUME NEW n \in Nodes, RemovesFinished(n) PROVE ItemInv'
  <2>1. /\ Current("remove", n) /\ "remove" \in Places /\ list' = Unlinked(list, {n})
        /\ anim' = Without({n}) /\ items' = items /\ upd' = "at"
    BY <1>6 DEF RemovesFinished, Places
  <2>2. Range(list') = Range(list) \ {n} /\ Range(list) \subseteq Nodes
    <3>1. Range(list') = Range(list) \ {n}
      BY <2>1, UnlinkedKeeps DEF ListsTyped
    <3>2. Range(list) \subseteq Nodes
      BY DEF ListsTyped, Range
    <3> QED
      BY <3>1, <3>2
  <2>3. \A m \in Range(list') : anim'[m].kind = anim[m].kind /\ anim'[m].item = anim[m].item
    BY <2>1, <2>2, WithoutKeeps DEF ListsTyped
  <2>4. Live' \subseteq Live /\ Range(Active)' \subseteq Range(Active)
    BY <1>2, <2>1, <2>2 DEF Live, Finished
  <2> QED
    BY <1>0, <1>2, <2>1, <2>3, <2>4, FewerKeepItems
<1> QED
  BY <1>1, <1>3, <1>4, <1>5, <1>6 DEF UpdateStep

\* A thread enters, or goes on with, a call about an item that is shown.
LEMMA CallOnShownKeepsItems ==
    ASSUME ItemInv, NEW t \in Threads, Range(Active)' \subseteq Range(Active), Live' \subseteq Live,
           \A n \in Range(Active)' : /\ anim'[n].kind = anim[n].kind
                                     /\ anim'[n].item = anim[n].item,
           items' = items,
           \A u \in Threads \ {t} : does'[u] = does[u],
           does'[t].op = "append" => Suits(does'[t].anim) /\ does'[t].anim.kind # "hide",
           \A i \in Items : At(t, i)' => items[i] = "shown"
    PROVE  ItemInv'
<1>0. Live' \subseteq Range(Active)'
  BY DEF Live
<1>1. /\ \A n \in Range(Active)' : Suits(anim'[n])
      /\ \A n \in Live' : anim'[n].kind = "hide" => items'[anim'[n].item] = "hiding"
  BY <1>0 DEF ItemInv, Suits
<1>2. \A u \in Threads : does'[u].op = "append" =>
         /\ Suits(does'[u].anim)
         /\ does'[u].anim.kind = "hide" => items'[does'[u].anim.item] = "hiding"
  BY DEF ItemInv
<1>3. \A u \in Threads \ {t} : \A i : At(u, i)' => At(u, i)
  BY DEF At
<1>4. ASSUME NEW i \in Items
      PROVE  /\ items'[i] = "gone" => /\ \A n \in Live' : anim'[n].item # i
                                      /\ \A u \in Threads : ~At(u, i)'
             /\ items'[i] = "hiding" =>
                  /\ i \in Cards
                  /\ \A m, n \in Live' : anim'[m].item = i /\ anim'[n].item = i => m = n
                  /\ \A u \in Threads : At(u, i)' => /\ does'[u].op = "append"
                                                     /\ \A n \in Live' : anim'[n].item # i
  <2>1. items[i] # "shown" => ~At(t, i)'
    BY <1>4
  <2> QED
    BY <1>0, <1>3, <1>4, <2>1 DEF ItemInv
<1> QED
  BY <1>1, <1>2, <1>4 DEF ItemInv, Suits

LEMMA CallKeepsItems ==
    ASSUME NEW t \in Threads, AnimInv, ListsTyped, CalmInv, AnimCall(t)
    PROVE  ItemInv'
<1>0. ItemInv /\ OwnInv
  BY DEF CalmInv
<1>1. UNCHANGED <<upd, it, phase, contexts, running>>
  BY CallFrame DEF CalmInv
<1>2. phase # "pong" /\ Active = list /\ Active' = list'
  BY CallFrame DEF CalmInv
<1>3. \A n : Finished(n)' <=> Finished(n)
  BY <1>1 DEF Finished
<1>4. Range(list') \subseteq Range(list) =>
         Range(Active)' \subseteq Range(Active) /\ Live' \subseteq Live
  BY <1>2, <1>3 DEF Live
<1>5. t \in DOMAIN does /\ does = [u \in Threads |-> does[u]]
  BY CallFrame DEF CalmInv
<1>6. ASSUME NEW a, Put(t, a), Suits(a), a.kind # "hide", UNCHANGED <<list, anim, items>>,
             \A i \in Items : a.item = i => items[i] = "shown"
      PROVE  ItemInv'
  <2>1. /\ does'[t] = Idle \/ does'[t] = [op |-> "append", anim |-> a]
        /\ \A u \in Threads \ {t} : does'[u] = does[u]
    BY <1>5, <1>6 DEF Put, Does
  <2>2. \A i \in Items : At(t, i)' => items[i] = "shown"
    BY <1>6, <2>1 DEF At, Idle
  <2>3. does'[t].op = "append" => Suits(does'[t].anim) /\ does'[t].anim.kind # "hide"
    BY <1>6, <2>1 DEF Idle, Suits
  <2>4. Range(Active)' \subseteq Range(Active) /\ Live' \subseteq Live
    BY <1>4, <1>6
  <2> QED
    BY <1>0, <1>6, <2>1, <2>2, <2>3, <2>4, CallOnShownKeepsItems
<1>7. ASSUME NEW i \in Items, Show(t, i) PROVE ItemInv'
  <2>1. UNCHANGED <<list, anim, does>> /\ items[i] = "gone" /\ items' = [items EXCEPT ![i] = "shown"]
    BY <1>7 DEF Show
  <2>2. \A j \in Items : items'[j] = IF j = i THEN "shown" ELSE items[j]
    BY <2>1 DEF ListsTyped
  <2>3. Range(Active)' = Range(Active) /\ Live' = Live
    BY <1>2, <1>3, <2>1 DEF Live
  <2>4. /\ \A n \in Live : anim[n].item # i
        /\ \A u \in Threads : ~At(u, i)
    BY <1>0, <2>1 DEF ItemInv
  <2>5. \A u \in Threads : \A j : At(u, j)' <=> At(u, j)
    BY <2>1 DEF At
  <2>6. \A m \in Range(Active)' : Suits(anim'[m])
    BY <1>0, <2>1, <2>3 DEF ItemInv
  <2>7. \A m \in Live' : anim'[m].kind = "hide" => items'[anim'[m].item] = "hiding"
    <3>1. \A m \in Live' : anim[m].kind = "hide" => anim[m].item \in Items
      BY <1>0, <2>3 DEF ItemInv, Suits, Live, Items
    <3> QED
      BY <1>0, <2>1, <2>2, <2>3, <2>4, <3>1 DEF ItemInv
  <2>8. \A u \in Threads : does'[u].op = "append" =>
           /\ Suits(does'[u].anim)
           /\ does'[u].anim.kind = "hide" => items'[does'[u].anim.item] = "hiding"
    <3>1. \A u \in Threads : does[u].op = "append" => does[u].anim.item # i
      BY <2>4 DEF At
    <3>2. \A u \in Threads : does[u].op = "append" /\ does[u].anim.kind = "hide"
                             => does[u].anim.item \in Items
      BY <1>0 DEF ItemInv, Suits, Items
    <3> QED
      BY <1>0, <2>1, <2>2, <3>1, <3>2 DEF ItemInv
  <2>9. ASSUME NEW j \in Items
        PROVE  /\ items'[j] = "gone" => /\ \A m \in Live' : anim'[m].item # j
                                        /\ \A u \in Threads : ~At(u, j)'
               /\ items'[j] = "hiding" =>
                    /\ j \in Cards
                    /\ \A m, l \in Live' : anim'[m].item = j /\ anim'[l].item = j => m = l
                    /\ \A u \in Threads : At(u, j)' => /\ does'[u].op = "append"
                                                       /\ \A m \in Live' : anim'[m].item # j
    BY <1>0, <2>1, <2>2, <2>3, <2>5, <2>9 DEF ItemInv
  <2> QED
    BY <2>6, <2>7, <2>8, <2>9 DEF ItemInv, Suits
<1>8. ASSUME NEW i \in Items, item_anim_add(t, i) PROVE ItemInv'
  <2> DEFINE a == Anim(IF i \in Dots THEN "dots" ELSE "select", i, 0, {})
  <2>1. Put(t, a) /\ items[i] = "shown" /\ UNCHANGED <<list, anim, items>>
    BY <1>8 DEF item_anim_add, MayUse
  <2>2. Suits(a) /\ a.kind # "hide" /\ a.item = i
    BY DEF Suits, Anim, Items
  <2> HIDE DEF a
  <2> QED
    BY <1>6, <2>1, <2>2
<1>9. ASSUME NEW i \in Items, item_anim_add_after(t, i) PROVE ItemInv'
  <2>1. PICK offset, waits : Put(t, Anim("select", i, offset, waits))
    BY <1>9 DEF item_anim_add_after
  <2>2. i \in Cards /\ items[i] = "shown" /\ UNCHANGED <<list, anim, items>>
    BY <1>9 DEF item_anim_add_after, MayUse
  <2>3. /\ Suits(Anim("select", i, offset, waits))
        /\ Anim("select", i, offset, waits).kind # "hide"
        /\ Anim("select", i, offset, waits).item = i
    BY <2>2 DEF Suits, Anim
  <2> QED
    BY <1>6, <2>1, <2>2, <2>3
<1>10. ASSUME NEW i \in Items, NEW how \in {"remove", "hide", "show"}, Replace(t, i, how)
       PROVE  ItemInv'
  <2>1. /\ does'[t] = [op |-> "cancel", item |-> i, how |-> how]
        /\ \A u \in Threads \ {t} : does'[u] = does[u]
        /\ UNCHANGED <<list, anim, items>> /\ items[i] = "shown"
    BY <1>5, <1>10 DEF Replace, Does, MayUse, Destroying
  <2>2. \A j \in Items : At(t, j)' => items[j] = "shown"
    BY <2>1 DEF At
  <2> QED
    BY <1>0, <1>4, <2>1, <2>2, CallOnShownKeepsItems
<1>11. CASE call_anim_add(t)
  <2> DEFINE a == Anim("tab", "none", 0, {})
  <2>1. Put(t, a) /\ UNCHANGED <<list, anim, items>>
    BY <1>11 DEF call_anim_add
  <2>2. Suits(a) /\ a.kind # "hide" /\ a.item = "none" /\ "none" \notin Items
    BY AnimationAssumption DEF Suits, Anim
  <2> HIDE DEF a
  <2> QED
    BY <1>6, <2>1, <2>2
<1>12. ASSUME NEW ns, list' = Unlinked(list, ns), anim' = Without(ns)
       PROVE  /\ Range(list') = Range(list) \ ns
              /\ \A n \in Range(list') : anim'[n].kind = anim[n].kind /\ anim'[n].item = anim[n].item
  <2>1. Range(list') = Range(list) \ ns
    BY <1>12, UnlinkedKeeps DEF ListsTyped
  <2>2. Range(list) \subseteq Nodes
    BY DEF ListsTyped, Range
  <2> QED
    BY <1>12, <2>1, <2>2, WithoutKeeps DEF ListsTyped
<1>13. CASE anim_cancel(t)
  <2>1. PICK n \in Range(list) : list' = Unlinked(list, {n}) /\ anim' = Without({n})
    BY <1>13 DEF anim_cancel
  <2> QED
    BY <1>0, <1>2, <1>4, <1>12, <1>13, <2>1, FewerKeepItems DEF anim_cancel
<1>14. CASE Appended(t)
  <2> DEFINE a == does[t].anim
             b == [a EXCEPT !.waits = @ \cap ForItem(a.item)]
  <2>1. a \in AnimRecs /\ does[t].op = "append"
    BY <1>14 DEF Appended, ListsTyped, Doings, Idle
  <2>2. b \in AnimRecs /\ b.kind = a.kind /\ b.item = a.item
    BY <2>1 DEF AnimRecs
  <2>3. Linked(b)
    BY <1>14 DEF Appended
  <2>4. PICK p \in Nodes : /\ p \notin Used /\ anim' = [anim EXCEPT ![p] = b]
                           /\ Range(list') = Range(list) \cup {p}
    BY <2>2, <2>3, LinkedAdds
  <2>5. /\ p \notin Range(Active) /\ anim'[p] = b
        /\ \A m \in Range(Active) : anim'[m] = anim[m]
    BY <2>4, UsedNodes DEF ListsTyped
  <2>6. /\ Suits(a) /\ (a.kind = "hide" => items[a.item] = "hiding")
        /\ \A i : a.item = i => At(t, i)
    BY <1>0, <2>1 DEF ItemInv, At
  <2>7. Suits(b)
    BY <2>2, <2>6 DEF Suits
  <2>8. Live' \subseteq Live \cup {p} /\ Range(Active)' = Range(Active) \cup {p}
    BY <1>2, <1>3, <2>4 DEF Live
  <2>9. /\ items' = items /\ does'[t] = Idle
        /\ \A u \in Threads \ {t} : does'[u] = does[u]
    BY <1>5, <1>14 DEF Appended, Does
  <2>10. ASSUME NEW i \in Items, b.item = i
         PROVE  /\ items[i] # "gone"
                /\ items[i] = "hiding" => /\ \A m \in Live : anim[m].item # i
                                          /\ \A u \in Threads : ~At(u, i)'
    <3>1. At(t, i)
      BY <2>2, <2>6, <2>10
    <3>2. \A u \in Threads \ {t} : ~At(u, i)
      BY <1>0, <2>10, <3>1, OneHand
    <3>3. \A u \in Threads : ~At(u, i)'
      BY <2>9, <3>2 DEF At, Idle
    <3> QED
      BY <1>0, <2>10, <3>1, <3>3 DEF ItemInv
  <2> HIDE DEF a, b
  <2> QED
    BY <1>0, <2>2, <2>5, <2>6, <2>7, <2>8, <2>9, <2>10, OneMoreKeepsItems
<1>15. CASE Cancelled(t)
  <2> DEFINE i == does[t].item
  <2>1. /\ does[t].op = "cancel" /\ i \in Items /\ At(t, i) /\ items[i] = "shown" /\ does[t] # Idle
        /\ does[t].how # "remove" => i \in Cards
    <3>1. does[t].op = "cancel" /\ i \in Items /\ does[t] # Idle
      BY <1>15 DEF Cancelled, ListsTyped, Doings, Idle
    <3> QED
      BY <1>0, <3>1 DEF At, OwnInv
  <2>2. \A u \in Threads \ {t} : ~At(u, i)
    BY <1>0, <2>1, OneHand
  <2>3. /\ Range(list') \subseteq Range(list)
        /\ \A n \in Range(list') : /\ anim'[n].kind = anim[n].kind /\ anim'[n].item = anim[n].item
                                   /\ anim[n].item # i
    <3>1. CASE running
      <4>1. list' = Unlinked(list, ForItem(i)) /\ anim' = Without(ForItem(i))
        BY <1>15, <3>1 DEF Cancelled, anim_cancel_for
      <4> QED
        BY <1>12, <4>1 DEF ForItem
    <3>2. CASE ~running
      <4>1. phase \notin {"up", "closing"}
        BY <3>2 DEF AnimInv, StopInv, ListInv
      <4>2. phase = "quiet"
        BY <1>0, <2>1, <4>1 DEF OwnInv
      <4>3. list = <<>> /\ list' = list
        BY <1>15, <3>2, <4>2 DEF AnimInv, StopInv, ListInv, Bare, Cancelled, anim_cancel_for
      <4> QED
        BY <4>3 DEF Range
    <3> QED
      BY <3>1, <3>2
  <2>4. Range(Active)' \subseteq Range(Active) /\ Live' \subseteq Live /\ Live' \subseteq Range(list')
    BY <1>2, <1>4, <2>3 DEF Live
  <2>5. CASE does[t].how = "show"
    <3> DEFINE a == Anim("select", i, 0, {})
    <3>1. Put(t, a) /\ items' = items
      BY <1>15, <2>5 DEF Cancelled
    <3>2. Suits(a) /\ a.kind # "hide" /\ a.item = i
      BY <2>1, <2>5 DEF Suits, Anim
    <3>3. /\ does'[t] = Idle \/ does'[t] = [op |-> "append", anim |-> a]
          /\ \A u \in Threads \ {t} : does'[u] = does[u]
      BY <1>5, <3>1 DEF Put, Does
    <3> HIDE DEF a
    <3>4. \A j \in Items : At(t, j)' => items[j] = "shown"
      BY <2>1, <3>2, <3>3 DEF At, Idle
    <3>5. does'[t].op = "append" => Suits(does'[t].anim) /\ does'[t].anim.kind # "hide"
      BY <3>2, <3>3 DEF Idle, Suits
    <3> QED
      BY <1>0, <1>2, <2>3, <2>4, <3>1, <3>3, <3>4, <3>5, CallOnShownKeepsItems
  <2>6. CASE does[t].how \in {"remove", "hide"}
    <3> DEFINE a == Anim("hide", i, 0, {})
               s == IF does[t].how = "remove" THEN "gone" ELSE "hiding"
    <3>1. /\ items' = [items EXCEPT ![i] = s]
          /\ \/ s = "gone" /\ Does(t, Idle)
             \/ s = "hiding" /\ Put(t, a) /\ i \in Cards
      BY <1>15, <2>1, <2>6 DEF Cancelled
    <3>2. Suits(a) <=> i \in Cards
      BY DEF Suits, Anim
    <3>3. /\ \/ does'[t] = Idle
             \/ /\ does'[t] = [op |-> "append", anim |-> a]
                /\ s = "hiding" /\ i \in Cards
          /\ \A u \in Threads \ {t} : does'[u] = does[u]
      BY <1>5, <3>1 DEF Put, Does
    <3>4. \A j \in Items : items'[j] = IF j = i THEN s ELSE items[j]
      BY <3>1 DEF ListsTyped
    <3>5. a.item = i /\ a.kind = "hide" /\ s \in {"gone", "hiding"} /\ (s = "hiding" => i \in Cards)
      BY <2>1 DEF Anim
    <3> HIDE DEF a, s
    <3>6. \A j : At(t, j)' => j = i /\ does'[t].op = "append" /\ s = "hiding"
      BY <3>3, <3>5 DEF At, Idle
    <3>7. \A u \in Threads \ {t} : \A j : At(u, j)' => At(u, j) /\ j # i
      BY <2>2, <3>3 DEF At
    <3>8. \A m \in Range(Active)' : Suits(anim'[m])
      BY <1>0, <1>2, <2>3 DEF ItemInv, Suits
    <3>9. \A m \in Live' : anim'[m].kind = "hide" => items'[anim'[m].item] = "hiding"
      <4>1. \A m \in Live' : anim[m].kind = "hide" => anim[m].item \in Items
        BY <1>0, <2>4 DEF ItemInv, Suits, Live, Items
      <4> QED
        BY <1>0, <2>3, <2>4, <3>4, <4>1 DEF ItemInv
    <3>10. \A u \in Threads : does'[u].op = "append" =>
             /\ Suits(does'[u].anim)
             /\ does'[u].anim.kind = "hide" => items'[does'[u].anim.item] = "hiding"
      <4>1. does'[t].op = "append" => /\ Suits(does'[t].anim)
                                      /\ items'[does'[t].anim.item] = "hiding"
        BY <2>1, <3>2, <3>3, <3>4, <3>5 DEF Idle
      <4>2. \A u \in Threads \ {t} : does[u].op = "append" => does[u].anim.item # i
        BY <2>2 DEF At
      <4>3. \A u \in Threads : does[u].op = "append" /\ does[u].anim.kind = "hide"
                               => does[u].anim.item \in Items
        BY <1>0 DEF ItemInv, Suits, Items
      <4> QED
        BY <1>0, <3>3, <3>4, <4>1, <4>2, <4>3 DEF ItemInv
    <3>11. ASSUME NEW j \in Items
           PROVE  /\ items'[j] = "gone" => /\ \A m \in Live' : anim'[m].item # j
                                           /\ \A u \in Threads : ~At(u, j)'
                  /\ items'[j] = "hiding" =>
                       /\ j \in Cards
                       /\ \A m, l \in Live' : anim'[m].item = j /\ anim'[l].item = j => m = l
                       /\ \A u \in Threads : At(u, j)' => /\ does'[u].op = "append"
                                                          /\ \A m \in Live' : anim'[m].item # j
      <4>1. \A m \in Live' : anim'[m].item = anim[m].item /\ anim[m].item # i /\ m \in Live
        BY <2>3, <2>4
      <4>2. CASE j = i
        BY <3>4, <3>5, <3>6, <3>7, <3>11, <4>1, <4>2
      <4>3. CASE j # i
        BY <1>0, <3>3, <3>4, <3>6, <3>7, <3>11, <4>1, <4>3 DEF ItemInv
      <4> QED
        BY <4>2, <4>3
    <3> QED
      BY <3>8, <3>9, <3>10, <3>11 DEF ItemInv, Suits
  <2> QED
    BY <1>15, <2>5, <2>6 DEF Cancelled
<1> QED
  BY <1>7, <1>8, <1>9, <1>10, <1>11, <1>13, <1>14, <1>15 DEF AnimCall

-----------------------------------------------------------------------------
\* Who waits, waits for all of it.

\* Animations go, and the others keep their places in the round, or the round is over.
LEMMA FewerKeepWaits ==
    ASSUME WaitInv, Range(Active)' \subseteq Range(Active),
           \A m, n \in Range(Active)' : Before(Active, m, n) => Before(Active, m, n)',
           \A n \in Range(Active)' : /\ anim'[n].item = anim[n].item
                                     /\ anim'[n].offset = anim[n].offset
                                     /\ anim'[n].left = anim[n].left
                                     /\ anim'[n].waits \subseteq anim[n].waits \cap Range(Active)'
                                     /\ anim[n].left = 0 => n = it' /\ upd' \notin {"out", "at"},
           \/ \A n \in Range(Active)' : ~Counted(n)'
           \/ diff' = diff /\ \A n \in Range(Active)' : Counted(n)' <=> Counted(n),
           \A t \in Threads : does'[t].op = "append" =>
             \/ does'[t].anim.left = Duration /\ does'[t].anim.waits = {}
             \/ /\ does'[t] = does[t]
                /\ Range(list)' \subseteq Range(list) \cap Range(Active)'
    PROVE  WaitInv'
<1>1. \A n \in Range(Active)' : n \in Range(Active)
  OBVIOUS
<1>2. \A m \in Range(Active)' : anim'[m].left = 0 => m = it' /\ upd' \notin {"out", "at"}
  OBVIOUS
<1>4. ASSUME NEW n \in Range(Active)', NEW m \in anim'[n].waits
      PROVE  /\ m \in Range(Active)' /\ Before(Active, m, n)'
             /\ anim'[m].offset = 0 /\ anim'[n].left = Duration
             /\ anim'[m].left <= anim'[n].offset
             /\ ~Counted(n)' => Outlasts(anim[n].offset, m)'
  <2>1. m \in anim[n].waits /\ m \in Range(Active)'
    OBVIOUS
  <2>2. /\ m \in Range(Active) /\ Before(Active, m, n)
        /\ anim[m].offset = 0 /\ anim[n].left = Duration
        /\ anim[m].left <= anim[n].offset
        /\ ~Counted(n) => Outlasts(anim[n].offset, m)
    BY <1>1, <2>1 DEF WaitInv
  <2>3. ~Counted(n)' => Outlasts(anim[n].offset, m)'
    <3>1. CASE \A k \in Range(Active)' : ~Counted(k)'
      BY <2>1, <2>2, <3>1 DEF Outlasts
    <3>2. CASE diff' = diff /\ \A k \in Range(Active)' : Counted(k)' <=> Counted(k)
      BY <2>1, <2>2, <3>2 DEF Outlasts
    <3> QED
      BY <3>1, <3>2
  <2> QED
    BY <2>1, <2>2, <2>3
<1>5. ASSUME NEW t \in Threads, does'[t].op = "append"
      PROVE  /\ does'[t].anim.left = Duration
             /\ does'[t].anim.waits # {} => does'[t].anim.item \in Cards
             /\ \A m \in (does[t].anim.waits \cap ForItem(does[t].anim.item))' :
                  anim'[m].offset = 0 /\ Outlasts(does[t].anim.offset, m)'
  <2>1. CASE does'[t].anim.left = Duration /\ does'[t].anim.waits = {}
    BY <2>1
  <2>2. CASE does'[t] = does[t] /\ Range(list)' \subseteq Range(list) \cap Range(Active)'
    <3>1. \A m \in ForItem(does[t].anim.item)' :
             m \in Range(Active)' /\ m \in ForItem(does[t].anim.item)
      BY <2>2 DEF ForItem
    <3>2. /\ does[t].anim.left = Duration
          /\ does[t].anim.waits # {} => does[t].anim.item \in Cards
          /\ \A m \in does[t].anim.waits \cap ForItem(does[t].anim.item) :
               anim[m].offset = 0 /\ Outlasts(does[t].anim.offset, m)
      BY <1>5, <2>2 DEF WaitInv
    <3>3. ASSUME NEW m \in (does[t].anim.waits \cap ForItem(does[t].anim.item))'
          PROVE  anim'[m].offset = 0 /\ Outlasts(does[t].anim.offset, m)'
      <4>1. /\ m \in Range(Active)' /\ anim[m].offset = 0
            /\ Outlasts(does[t].anim.offset, m)
        BY <2>2, <3>1, <3>2, <3>3
      <4>2. CASE \A k \in Range(Active)' : ~Counted(k)'
        BY <2>2, <4>1, <4>2 DEF Outlasts
      <4>3. CASE diff' = diff /\ \A k \in Range(Active)' : Counted(k)' <=> Counted(k)
        BY <2>2, <4>1, <4>3 DEF Outlasts
      <4> QED
        BY <4>1, <4>2, <4>3
    <3> QED
      BY <2>2, <3>2, <3>3
  <2> QED
    BY <1>5, <2>1, <2>2
<1> QED
  BY <1>2, <1>4, <1>5 DEF WaitInv

\* The animation b is put last, behind those it waits for.
LEMMA OneMoreKeepsWaits ==
    ASSUME AnimInv, ListsTyped, CalmInv, phase # "pong", phase' = phase,
           NEW b \in AnimRecs, b.left = Duration, Linked(b),
           UNCHANGED <<it, diff>>,
           \/ upd = "out" /\ upd' = "out"
           \/ upd \notin {"out", "at"} /\ upd' \notin {"out", "at"},
           \A m \in b.waits : m \in Range(list) /\ anim[m].offset = 0 /\ Outlasts(b.offset, m),
           \A t \in Threads : does'[t].op = "append" =>
             /\ does'[t] = does[t]
             /\ does[t].anim.waits # {} => does[t].anim.item # b.item
    PROVE  WaitInv'
<1>1. WaitInv /\ WalkInv
  BY DEF CalmInv
<1>2. PICK p \in Nodes :
        /\ p \notin Used /\ anim' = [anim EXCEPT ![p] = b]
        /\ Range(list') = Range(list) \cup {p}
        /\ \A l, m : Before(list', l, m) <=> Before(list, l, m) \/ (l \in Range(list) /\ m = p)
  BY LinkedAdds
<1>3. /\ Active = list /\ Active' = list' /\ it # p /\ p \notin Range(list)
      /\ anim'[p] = b /\ \A m \in Range(list) : anim'[m] = anim[m]
      /\ b.left # 0
  <2>1. Active = list /\ Active' = list'
    BY DEF Active
  <2>2. it # p /\ p \notin Range(list)
    BY <1>2 DEF Used
  <2>3. Range(list) \subseteq Nodes
    BY DEF ListsTyped, Range
  <2> QED
    BY <1>2, <2>1, <2>2, <2>3, RecordsTyped DEF ListsTyped
<1>4. \A m \in Range(list) : Counted(m)' <=> Counted(m)
  <2>1. upd # "out" => it # 0
    BY <1>1 DEF WalkInv
  <2> QED
    BY <1>2, <1>3, <2>1 DEF Counted
<1>5. ASSUME NEW m \in Range(list), NEW o, Outlasts(o, m)
      PROVE  /\ anim'[m].left <= o
             /\ Counted(m)' => \/ anim'[m].left = 0
                               \/ o > diff' /\ anim'[m].left <= o - diff'
  <2>1. diff' = diff /\ anim'[m] = anim[m] /\ (Counted(m)' <=> Counted(m))
    BY <1>3, <1>4, <1>5
  <2>2. /\ anim[m].left <= o
        /\ Counted(m) => \/ anim[m].left = 0
                         \/ o > diff /\ anim[m].left <= o - diff
    BY <1>5 DEF Outlasts
  <2> QED
    BY <2>1, <2>2
<1>6. \A m \in Range(Active)' : anim'[m].left = 0 => m = it' /\ upd' \notin {"out", "at"}
  <2>1. \A m \in Range(list) : anim[m].left = 0 => m = it /\ upd \notin {"out", "at"}
    BY <1>1, <1>3 DEF WaitInv
  <2> QED
    BY <1>2, <1>3, <2>1
<1>7. ASSUME NEW n \in Range(Active)', NEW m \in anim'[n].waits
      PROVE  /\ m \in Range(Active)' /\ Before(Active, m, n)'
             /\ anim'[m].offset = 0 /\ anim'[n].left = Duration
             /\ anim'[m].left <= anim'[n].offset
             /\ ~Counted(n)' => Outlasts(anim[n].offset, m)'
  <2>1. CASE n = p
    BY <1>2, <1>3, <1>5, <2>1 DEF Outlasts
  <2>2. CASE n \in Range(list)
    <3>1. m \in anim[n].waits
      BY <1>3, <2>2
    <3>2. /\ m \in Range(list) /\ Before(list, m, n)
          /\ anim[m].offset = 0 /\ anim[n].left = Duration
          /\ anim[m].left <= anim[n].offset
          /\ ~Counted(n) => Outlasts(anim[n].offset, m)
      BY <1>1, <1>3, <2>2, <3>1 DEF WaitInv
    <3>3. ~Counted(n)' => Outlasts(anim[n].offset, m)'
      BY <1>3, <1>4, <1>5, <2>2, <3>2 DEF Outlasts
    <3> QED
      BY <1>2, <1>3, <2>2, <3>2, <3>3
  <2> QED
    BY <1>2, <1>3, <2>1, <2>2
<1>8. ASSUME NEW t \in Threads, does'[t].op = "append"
      PROVE  /\ does'[t].anim.left = Duration
             /\ does'[t].anim.waits # {} => does'[t].anim.item \in Cards
             /\ \A m \in (does[t].anim.waits \cap ForItem(does[t].anim.item))' :
                  anim'[m].offset = 0 /\ Outlasts(does[t].anim.offset, m)'
  <2>1. does'[t] = does[t] /\ does[t].op = "append"
    BY <1>8
  <2>2. /\ does[t].anim.left = Duration
        /\ does[t].anim.waits # {} => does[t].anim.item \in Cards
        /\ \A m \in does[t].anim.waits \cap ForItem(does[t].anim.item) :
             anim[m].offset = 0 /\ Outlasts(does[t].anim.offset, m)
    BY <1>1, <2>1 DEF WaitInv
  <2>3. ASSUME NEW m \in (does[t].anim.waits \cap ForItem(does[t].anim.item))'
        PROVE  anim'[m].offset = 0 /\ Outlasts(does[t].anim.offset, m)'
    <3>1. m \in does[t].anim.waits /\ m \in Range(list') /\ anim'[m].item = does[t].anim.item
      BY <2>1, <2>3 DEF ForItem
    <3>2. m # p
      BY <1>3, <1>8, <3>1
    <3>3. m \in Range(list) /\ m \in ForItem(does[t].anim.item)
      BY <1>2, <1>3, <3>1, <3>2 DEF ForItem
    <3>4. anim[m].offset = 0 /\ Outlasts(does[t].anim.offset, m)
      BY <2>2, <3>1, <3>3
    <3> QED
      BY <1>3, <1>5, <2>1, <3>3, <3>4 DEF Outlasts
  <2> QED
    BY <2>1, <2>2, <2>3
<1> QED
  BY <1>6, <1>7, <1>8 DEF WaitInv

LEMMA UpdateKeepsWaits ==
    ASSUME AnimInv, ListsTyped, CalmInv, UpdateStep
    PROVE  WaitInv'
<1>0. WaitInv /\ WalkInv /\ ItemInv
  BY DEF CalmInv
<1>1. \A t \in Threads : does'[t] = does[t]
  BY DEF UpdateStep, UpdateBegins, UpdateReturns, Wait, Step, OnStepReturns, Continues, Finishes,
         OnFinished, AddsSuccessor, ItemFinished, RemovesFinished, Current, Quiet
<1>typed. /\ \A n \in Range(Active) : anim[n] \in AnimRecs /\ n \in Nodes
          /\ Range(list) \subseteq Range(Active)
          /\ \A n \in Range(Active) : /\ anim[n].offset \in Nat /\ anim[n].left \in Nat
                                      /\ anim[n].left <= Duration
          /\ diff \in Nat
  <2>1. Range(Active) \subseteq Nodes /\ Range(list) \subseteq Range(Active)
    BY UsedNodes
  <2> QED
    BY <2>1, RecordsTyped DEF ListsTyped
\* Nothing waits for more than itself, and what waits is a list in order.
<1>waits. \A n \in Range(Active) : \A m \in anim[n].waits :
             m \in Range(Active) /\ Before(Active, m, n) /\ anim[n].waits \subseteq Range(Active)
  BY <1>0 DEF WaitInv
<1>2. CASE UpdateReturns
  <2>1. UNCHANGED <<list, contexts, phase, anim>> /\ upd' = "out" /\ upd = "at"
    BY <1>2 DEF UpdateReturns
  <2>2. Active' = Active
    BY <2>1 DEF Active
  <2>3. \A n \in Range(Active)' : ~Counted(n)'
    BY <2>1 DEF Counted
  <2>4. \A n \in Range(Active) : anim[n].left # 0
    BY <1>0, <2>1 DEF WaitInv
  <2> QED
    BY <1>0, <1>1, <1>typed, <1>waits, <2>1, <2>2, <2>3, <2>4, FewerKeepWaits
<1>3. CASE UpdateBegins
  <2>1. /\ UNCHANGED <<list, contexts, phase, anim, does>> /\ upd' = "at" /\ upd = "out"
        /\ it' = IF list = <<>> THEN 0 ELSE Head(list)
    BY <1>3 DEF UpdateBegins, Quiet
  <2>2. Active' = Active
    BY <2>1 DEF Active
  <2>3. \A n \in Range(Active) : anim[n].left # 0
    BY <1>0, <2>1 DEF WaitInv
  <2>4. CASE phase # "pong"
    <3>1. ASSUME NEW n \in Range(list) PROVE ~Counted(n)'
      <4>1. list # <<>>
        BY <3>1 DEF Range
      <4>2. it' = Head(list) /\ it' \in Range(list) /\ ~Before(list, n, it')
        BY <2>1, <4>1, HeadFirst DEF ListsTyped
      <4>3. it' # 0
        BY <4>2, AnimationAssumption DEF ListsTyped, Range
      <4> QED
        BY <2>1, <4>2, <4>3 DEF Counted
    <3>2. Active = list
      BY <2>4 DEF Active
    <3> QED
      BY <1>0, <1>1, <1>typed, <1>waits, <2>1, <2>2, <2>3, <3>1, <3>2, FewerKeepWaits
  <2>5. CASE phase = "pong"
    <3>1. it' = 0 /\ \A t \in Threads : does'[t].op # "append"
      BY <1>0, <2>1, <2>5 DEF WalkInv, Idle
    <3>2. \A n : Counted(n)'
      BY <2>1, <3>1 DEF Counted
    <3>3. \A m \in Range(Active)' : anim'[m].left # 0
      BY <2>1, <2>2, <2>3
    <3>4. \A n \in Range(Active)' : \A m \in anim'[n].waits :
             /\ m \in Range(Active)' /\ Before(Active, m, n)'
             /\ anim'[m].offset = 0 /\ anim'[n].left = Duration
             /\ anim'[m].left <= anim'[n].offset
      BY <1>0, <2>1, <2>2 DEF WaitInv
    <3> QED
      BY <3>1, <3>2, <3>3, <3>4 DEF WaitInv
  <2> QED
    BY <2>4, <2>5
<1>4. ASSUME NEW n \in Nodes, NEW place \in Places, Current(place, n)
      PROVE  /\ phase # "pong" /\ UNCHANGED <<does, phase>> /\ n \in Range(list) /\ it = n /\ n # 0
             /\ upd = place /\ Active = list /\ Active' = list' /\ n \in Range(Active)
             /\ \A m \in Range(list) : Counted(m) <=> Before(list, m, n) \/ (m = n /\ upd # "at")
             /\ \A m \in Range(list) : m # n => anim[m].left # 0
  <2>1. phase # "pong" /\ n # 0 /\ upd # "out"
    BY <1>0, <1>4, AnimationAssumption DEF Current, Range, WalkInv
  <2>2. /\ UNCHANGED <<does, phase>> /\ n \in Range(list) /\ it = n /\ upd = place
        /\ Active = list /\ Active' = list'
    BY <1>4, <2>1 DEF Current, Quiet, Active
  <2> QED
    BY <1>0, <2>1, <2>2 DEF Counted, WaitInv
<1>5. ASSUME NEW n \in Nodes, NEW place \in Places \ {"at", "out"}, Current(place, n),
             UNCHANGED <<list, anim, it, diff>>, upd' \notin {"at", "out"}
      PROVE  WaitInv'
  <2>1. \A m \in Range(list) : Counted(m)' <=> Counted(m)
    BY <1>4, <1>5 DEF Counted
  <2> QED
    BY <1>0, <1>1, <1>4, <1>5, <1>typed, <1>waits, <2>1, FewerKeepWaits
<1>6. ASSUME NEW n \in Nodes, OnStepReturns(n) \/ Finishes(n) \/ OnFinished(n) \/ ItemFinished(n)
      PROVE  WaitInv'
  <2>1. PICK place \in {"stepping", "stepped", "finishing", "ending"} : Current(place, n)
    BY <1>6 DEF OnStepReturns, Finishes, OnFinished, ItemFinished
  <2>2. UNCHANGED <<list, anim, it, diff>> /\ upd' \notin {"at", "out"}
    <3>1. CASE Finishes(n)
      <4>1. CASE anim[n].kind = "dots"
        BY <3>1, <4>1 DEF Finishes
      <4>2. CASE anim[n].kind = "tab"
        BY <3>1, <4>2 DEF Finishes
      <4>3. CASE anim[n].kind # "dots" /\ anim[n].kind # "tab"
        BY <3>1, <4>3 DEF Finishes
      <4> QED
        BY <4>1, <4>2, <4>3
    <3> QED
      BY <1>6, <3>1 DEF OnStepReturns, OnFinished, ItemFinished
  <2>3. place \in Places \ {"at", "out"}
    BY DEF Places
  <2> QED
    BY <1>5, <2>1, <2>2, <2>3
<1>7. ASSUME NEW n \in Nodes, Continues(n) PROVE WaitInv'
  <2>1. /\ Current("stepped", n) /\ "stepped" \in Places /\ anim[n].left > 0
        /\ upd' = "at" /\ it' = NextOf(n) /\ UNCHANGED <<list, anim, diff>>
    BY <1>7 DEF Continues, Places
  <2>2. \A m \in Range(list) : Counted(m)' <=> Counted(m)
    BY <1>4, <2>1, NextInList, BeforeOrders DEF ListsTyped, Counted
  <2>3. \A m \in Range(list) : anim[m].left # 0
    BY <1>4, <2>1
  <2> QED
    BY <1>0, <1>1, <1>4, <1>typed, <1>waits, <2>1, <2>2, <2>3, FewerKeepWaits
<1>8. ASSUME NEW n \in Nodes, AddsSuccessor(n) PROVE WaitInv'
  <2> DEFINE a == Anim("dots", anim[n].item, Gap, {})
  <2>1. /\ Current("adding", n) /\ "adding" \in Places /\ upd' = "ending" /\ Linked(a)
        /\ UNCHANGED <<it, diff>>
    BY <1>8 DEF AddsSuccessor, Places
  <2>2. /\ phase # "pong" /\ phase' = phase /\ n \in Range(Active) /\ anim[n].kind = "dots"
        /\ does' = does /\ upd = "adding"
    BY <1>0, <1>4, <2>1 DEF WalkInv
  <2>3. anim[n].item \in Dots /\ anim[n].item \in Items
    BY <1>0, <2>2 DEF ItemInv, Suits, Items
  <2>4. a \in AnimRecs /\ a.left = Duration /\ a.waits = {} /\ a.item = anim[n].item
    <3>1. a \in AnimRecs
      BY <2>3, RecordsTyped, AnimationAssumption DEF Kinds
    <3> QED
      BY <3>1 DEF Anim
  <2>5. \A t \in Threads : does[t].op = "append" /\ does[t].anim.waits # {}
                           => does[t].anim.item # anim[n].item
    BY <1>0, <2>3, AnimationAssumption DEF WaitInv
  <2> HIDE DEF a
  <2> QED
    BY <2>1, <2>2, <2>4, <2>5, OneMoreKeepsWaits
<1>9. ASSUME NEW n \in Nodes, RemovesFinished(n) PROVE WaitInv'
  <2>1. /\ Current("remove", n) /\ "remove" \in Places /\ list' = Unlinked(list, {n})
        /\ anim' = Without({n}) /\ upd' = "at" /\ it' = NextOf(n) /\ diff' = diff
    BY <1>9 DEF RemovesFinished, Places
  <2>2. /\ Range(list') = Range(list) \ {n}
        /\ \A l, m : l # n /\ m # n => (Before(list', l, m) <=> Before(list, l, m))
        /\ Range(list') \subseteq Nodes \ {n}
    <3>1. /\ Range(list') = Range(list) \ {n}
          /\ \A l, m : l \notin {n} /\ m \notin {n} => (Before(list', l, m) <=> Before(list, l, m))
      <4> DEFINE ns == {n}
      <4>1. list' = Unlinked(list, ns)
        BY <2>1
      <4> HIDE DEF ns
      <4>2. /\ Range(list') = Range(list) \ ns
            /\ \A l, m : l \notin ns /\ m \notin ns => (Before(list', l, m) <=> Before(list, l, m))
        BY <4>1, UnlinkedKeeps DEF ListsTyped
      <4> QED
        BY <4>2 DEF ns
    <3>2. Range(list) \subseteq Nodes
      BY <1>typed
    <3>3. \A l : l \notin {n} <=> l # n
      OBVIOUS
    <3>4. Range(list') = Range(list) \ {n} /\ Range(list') \subseteq Nodes \ {n}
      BY <3>1, <3>2
    <3>5. \A l, m : l # n /\ m # n => (Before(list', l, m) <=> Before(list, l, m))
      BY <3>1, <3>3
    <3> QED
      BY <3>4, <3>5
  <2>3. \A m \in Range(list') : /\ anim'[m].item = anim[m].item
                                /\ anim'[m].offset = anim[m].offset
                                /\ anim'[m].left = anim[m].left
                                /\ anim'[m].waits = anim[m].waits \ {n}
    <3>1. \A m \in Nodes \ {n} : /\ Without({n})[m].item = anim[m].item
                                 /\ Without({n})[m].offset = anim[m].offset
                                 /\ Without({n})[m].left = anim[m].left
                                 /\ Without({n})[m].waits = anim[m].waits \ {n}
      BY WithoutKeeps DEF ListsTyped
    <3> QED
      BY <2>1, <2>2, <3>1
  <2>4. \A m \in Range(list') : Counted(m)' <=> Counted(m)
    <3>1. NextOf(n) = 0 => \A m \in Range(list) : m = n \/ Before(list, m, n)
      BY <1>4, <2>1, NextInList DEF ListsTyped
    <3>2. NextOf(n) # 0 => /\ NextOf(n) \in Range(list) /\ NextOf(n) # n
                           /\ \A m : Before(list, m, NextOf(n)) <=> m = n \/ Before(list, m, n)
      BY <1>4, <2>1, NextInList DEF ListsTyped
    <3> QED
      BY <1>4, <2>1, <2>2, <3>1, <3>2 DEF Counted
  <2>5. \A m \in Range(list') : anim[m].left # 0
    BY <1>4, <2>1, <2>2
  <2>6. Active = list /\ Active' = list' /\ Range(list') \subseteq Range(list)
    BY <1>4, <2>1, <2>2
  <2>7. \A m \in Range(list') : anim'[m].waits \subseteq anim[m].waits \cap Range(list')
    BY <1>waits, <2>2, <2>3, <2>6
  <2>8. \A l, m \in Range(list') : Before(list, l, m) => Before(list', l, m)
    BY <2>2
  <2> QED
    BY <1>0, <1>1, <2>1, <2>3, <2>4, <2>5, <2>6, <2>7, <2>8, FewerKeepWaits
\* What is after the current animation is after this round's time.
<1>10. ASSUME NEW n \in Nodes, Current("at", n),
              \A m \in Range(Active) : /\ anim'[m].waits = anim[m].waits
                                       /\ anim'[m].item = anim[m].item
                                       /\ m # n => anim'[m] = anim[m],
              list' = list, diff' = diff,
              \A m \in Range(list) : Counted(m)' <=> Counted(m) \/ m = n,
              anim'[n].left = 0 => n = it' /\ upd' \notin {"out", "at"},
              anim[n].waits # {} => anim'[n].left = Duration,
              \A m \in anim[n].waits : anim[m].left <= anim'[n].offset,
              \/ anim[n].offset > 0
              \/ /\ anim'[n].offset = 0
                 /\ \A o \in Nat : anim[n].left <= o =>
                      /\ anim'[n].left <= o
                      /\ anim'[n].left = 0 \/ (o > diff /\ anim'[n].left <= o - diff)
       PROVE  WaitInv'
  <2>0. "at" \in Places
    BY DEF Places
  <2>1. /\ phase # "pong" /\ Active = list /\ Active' = list /\ n \in Range(list) /\ ~Counted(n)
        /\ upd = "at" /\ it = n
        /\ does' = does
    BY <1>4, <1>10, <2>0, BeforeOrders DEF ListsTyped
  <2>2. \A m \in Range(Active)' : anim'[m].left = 0 => m = it' /\ upd' \notin {"out", "at"}
    BY <1>4, <1>10, <2>0, <2>1
  <2>3. ASSUME NEW o \in Nat, NEW m \in Range(list), anim[m].offset = 0, Outlasts(o, m)
        PROVE  /\ anim'[m].offset = 0 /\ anim'[m].left <= o
               /\ Counted(m)' => anim'[m].left = 0 \/ (o > diff' /\ anim'[m].left <= o - diff')
    <3>1. CASE m = n
      BY <1>10, <2>1, <2>3, <3>1, <1>typed DEF Outlasts
    <3>2. CASE m # n
      BY <1>10, <2>1, <2>3, <3>2 DEF Outlasts
    <3> QED
      BY <3>1, <3>2
  <2>4. ASSUME NEW k \in Range(Active)', NEW m \in anim'[k].waits
        PROVE  /\ m \in Range(Active)' /\ Before(Active, m, k)'
               /\ anim'[m].offset = 0 /\ anim'[k].left = Duration
               /\ anim'[m].left <= anim'[k].offset
               /\ ~Counted(k)' => Outlasts(anim[k].offset, m)'
    <3>1. k \in Range(list) /\ m \in anim[k].waits
      BY <1>10, <2>1
    <3>2. /\ m \in Range(list) /\ Before(list, m, k)
          /\ anim[m].offset = 0 /\ anim[k].left = Duration
          /\ anim[m].left <= anim[k].offset
          /\ ~Counted(k) => Outlasts(anim[k].offset, m)
          /\ anim[k].offset \in Nat
      BY <1>0, <1>typed, <2>1, <3>1 DEF WaitInv
    <3>3. CASE k = n
      <4>1. m # n
        BY <2>1, <3>2, <3>3, BeforeOrders DEF ListsTyped
      <4>2. Counted(k)'
        BY <1>10, <3>1, <3>3
      <4> QED
        BY <1>10, <2>1, <3>1, <3>2, <3>3, <4>1, <4>2
    <3>4. CASE k # n
      <4>1. anim'[k] = anim[k]
        BY <1>10, <2>1, <3>1, <3>4
      <4>2. CASE Counted(k)
        <5>1. m # n
          <6>1. Before(list, k, n)
            BY <1>4, <1>10, <2>0, <2>1, <3>1, <3>4, <4>2
          <6> QED
            BY <2>1, <3>2, <6>1, BeforeOrders DEF ListsTyped
        <5>2. anim'[m] = anim[m] /\ Counted(k)'
          BY <1>10, <2>1, <3>1, <3>2, <4>2, <5>1
        <5> QED
          BY <2>1, <3>2, <4>1, <5>2
      <4>3. CASE ~Counted(k)
        BY <2>1, <2>3, <3>2, <4>1, <4>3 DEF Outlasts
      <4> QED
        BY <4>2, <4>3
    <3> QED
      BY <3>3, <3>4
  <2>5. ASSUME NEW t \in Threads, does'[t].op = "append"
        PROVE  /\ does'[t].anim.left = Duration
               /\ does'[t].anim.waits # {} => does'[t].anim.item \in Cards
               /\ \A m \in (does[t].anim.waits \cap ForItem(does[t].anim.item))' :
                    anim'[m].offset = 0 /\ Outlasts(does[t].anim.offset, m)'
    <3>1. /\ does[t].anim.left = Duration
          /\ does[t].anim.waits # {} => does[t].anim.item \in Cards
          /\ \A m \in does[t].anim.waits \cap ForItem(does[t].anim.item) :
               anim[m].offset = 0 /\ Outlasts(does[t].anim.offset, m)
      BY <1>0, <2>1, <2>5 DEF WaitInv
    <3>2. does[t].anim.offset \in Nat
      BY <2>1, <2>5, RecordsTyped DEF ListsTyped, Doings, Idle
    <3>3. ASSUME NEW m \in (does[t].anim.waits \cap ForItem(does[t].anim.item))'
          PROVE  anim'[m].offset = 0 /\ Outlasts(does[t].anim.offset, m)'
      <4>1. m \in Range(list) /\ m \in does[t].anim.waits \cap ForItem(does[t].anim.item)
        BY <1>10, <2>1, <3>3 DEF ForItem
      <4>2. anim[m].offset = 0 /\ Outlasts(does[t].anim.offset, m)
        BY <3>1, <4>1
      <4> QED
        BY <2>1, <2>3, <3>2, <4>1, <4>2 DEF Outlasts
    <3> QED
      BY <2>1, <3>1, <3>3
  <2> QED
    BY <2>2, <2>4, <2>5 DEF WaitInv
<1>11. ASSUME NEW n \in Nodes, Wait(n) PROVE WaitInv'
  <2> DEFINE o == IF anim[n].offset > diff THEN anim[n].offset - diff ELSE 0
  <2>1. /\ Current("at", n) /\ "at" \in Places /\ anim[n].offset > 0
        /\ anim' = [anim EXCEPT ![n].offset = o]
        /\ upd' = "at" /\ it' = NextOf(n) /\ UNCHANGED <<list, diff>>
    BY <1>11 DEF Wait, Places, Current
  <2>2. anim[n] \in AnimRecs /\ anim \in [Nodes -> AnimRecs]
    BY DEF ListsTyped
  <2>3. /\ anim'[n].waits = anim[n].waits /\ anim'[n].item = anim[n].item
        /\ anim'[n].left = anim[n].left /\ anim'[n].offset = o
        /\ \A m \in Nodes \ {n} : anim'[m] = anim[m]
    <3> HIDE DEF o
    <3> QED
      BY <2>1, <2>2 DEF AnimRecs
  <2>4. \A m \in Range(Active) : /\ anim'[m].waits = anim[m].waits
                                 /\ anim'[m].item = anim[m].item
                                 /\ m # n => anim'[m] = anim[m]
    BY <1>typed, <2>3
  <2>5. \A m \in Range(list) : Counted(m)' <=> Counted(m) \/ m = n
    <3>1. NextOf(n) = 0 => \A m \in Range(list) : m = n \/ Before(list, m, n)
      BY <1>4, <2>1, NextInList DEF ListsTyped
    <3>2. NextOf(n) # 0 => \A m : Before(list, m, NextOf(n)) <=> m = n \/ Before(list, m, n)
      BY <1>4, <2>1, NextInList DEF ListsTyped
    <3> QED
      BY <1>4, <2>1, <3>1, <3>2 DEF Counted
  <2>6. n \in Range(Active) /\ upd = "at" /\ it = n
    BY <1>4, <2>1
  <2>7. anim'[n].left # 0
    BY <1>0, <2>3, <2>6 DEF WaitInv
  <2>8. anim[n].waits # {} => anim'[n].left = Duration
    BY <1>0, <2>3, <2>6 DEF WaitInv
  <2>9. ASSUME NEW m \in anim[n].waits PROVE anim[m].left <= anim'[n].offset
    <3>1. /\ m \in Range(list) /\ Before(list, m, n)
          /\ ~Counted(n) => Outlasts(anim[n].offset, m)
      BY <1>0, <1>4, <2>1, <2>6 DEF WaitInv
    <3>2. ~Before(list, n, n)
      BY BeforeOrders DEF ListsTyped
    <3>3. Counted(m) /\ ~Counted(n) /\ m # n
      BY <1>4, <2>1, <2>6, <3>1, <3>2
    <3>4. anim[m].left # 0
      BY <1>4, <2>1, <3>1, <3>3
    <3> QED
      BY <2>3, <3>1, <3>3, <3>4 DEF Outlasts
  <2> HIDE DEF o
  <2> QED
    BY <1>10, <2>1, <2>4, <2>5, <2>7, <2>8, <2>9
<1>12. ASSUME NEW n \in Nodes, Step(n) PROVE WaitInv'
  <2> DEFINE l == IF anim[n].left > diff THEN anim[n].left - diff ELSE 0
  <2>1. /\ Current("at", n) /\ "at" \in Places /\ anim[n].offset = 0
        /\ anim' = [anim EXCEPT ![n].left = l]
        /\ upd' \in {"stepping", "stepped"} /\ UNCHANGED <<it, list, diff>>
    BY <1>12 DEF Step, Places
  <2>2. anim[n] \in AnimRecs /\ anim \in [Nodes -> AnimRecs]
    BY DEF ListsTyped
  <2>3. /\ anim'[n].waits = anim[n].waits /\ anim'[n].item = anim[n].item
        /\ anim'[n].left = l /\ anim'[n].offset = 0
        /\ \A m \in Nodes \ {n} : anim'[m] = anim[m]
    <3> HIDE DEF l
    <3> QED
      BY <2>1, <2>2 DEF AnimRecs
  <2>4. \A m \in Range(Active) : /\ anim'[m].waits = anim[m].waits
                                 /\ anim'[m].item = anim[m].item
                                 /\ m # n => anim'[m] = anim[m]
    BY <1>typed, <2>3
  <2>5. \A m \in Range(list) : Counted(m)' <=> Counted(m) \/ m = n
    BY <1>4, <2>1 DEF Counted
  <2>6. n \in Range(Active) /\ upd = "at" /\ it = n
    BY <1>4, <2>1
  <2>7. anim[n].waits = {}
    <3> SUFFICES ASSUME NEW m \in anim[n].waits PROVE FALSE
      OBVIOUS
    <3>1. /\ m \in Range(list) /\ Before(list, m, n)
          /\ ~Counted(n) => Outlasts(anim[n].offset, m)
      BY <1>0, <1>4, <2>1, <2>6 DEF WaitInv
    <3>2. ~Before(list, n, n)
      BY BeforeOrders DEF ListsTyped
    <3>3. Counted(m) /\ ~Counted(n) /\ m # n
      BY <1>4, <2>1, <2>6, <3>1, <3>2
    <3>4. anim[m].left # 0
      BY <1>4, <2>1, <3>1, <3>3
    <3>5. anim[m].left \in Nat /\ anim[m].left <= 0
      BY <1>typed, <2>1, <3>1, <3>3 DEF Outlasts
    <3> QED
      BY <3>4, <3>5
  <2>8. \A o \in Nat : anim[n].left <= o =>
          anim'[n].left <= o /\ (anim'[n].left = 0 \/ (o > diff /\ anim'[n].left <= o - diff))
    <3>1. anim[n].left \in Nat /\ diff \in Nat
      BY <1>typed, <2>6
    <3> QED
      BY <2>3, <3>1
  <2>9. anim'[n].left = 0 => n = it' /\ upd' \notin {"out", "at"}
    BY <2>1, <2>6
  <2> HIDE DEF l
  <2> QED
    BY <1>10, <2>1, <2>3, <2>4, <2>5, <2>7, <2>8, <2>9
<1> QED
  BY <1>2, <1>3, <1>6, <1>7, <1>8, <1>9, <1>11, <1>12 DEF UpdateStep

LEMMA CallKeepsWaits ==
    ASSUME NEW t \in Threads, AnimInv, ListsTyped, CalmInv, AnimCall(t), mishap = "none",
           mishap' = "none"
    PROVE  WaitInv'
<1>0. WaitInv /\ WalkInv /\ ItemInv /\ OwnInv
  BY DEF CalmInv
<1>1. UNCHANGED <<upd, it, diff, phase, contexts, running>>
  BY <1>0, CallFrame
<1>2. phase # "pong" /\ Active = list /\ Active' = list'
  BY <1>0, CallFrame
<1>3. t \in DOMAIN does /\ does = [u \in Threads |-> does[u]]
  BY <1>0, CallFrame
<1>4. /\ Range(list) \subseteq Nodes
      /\ \A n \in Range(list) : anim[n].waits \subseteq Range(list)
      /\ \A n \in Range(list) : anim[n].left = 0 => n = it /\ upd \notin {"out", "at"}
  <2>1. Range(list) \subseteq Nodes
    BY DEF ListsTyped, Range
  <2> QED
    BY <1>0, <1>2, <2>1 DEF WaitInv
<1>5. ASSUME UNCHANGED <<list, anim>>, \A u \in Threads \ {t} : does'[u] = does[u],
             does'[t].op = "append" => does'[t].anim.left = Duration /\ does'[t].anim.waits = {}
      PROVE  WaitInv'
  <2>1. \A m : Counted(m)' <=> Counted(m)
    BY <1>1, <1>5 DEF Counted
  <2> QED
    BY <1>0, <1>1, <1>2, <1>4, <1>5, <2>1, FewerKeepWaits
<1>6. ASSUME NEW ns, list' = Unlinked(list, ns), anim' = Without(ns), it # 0 => it \notin ns,
             \A u \in Threads \ {t} : does'[u] = does[u],
             does'[t].op = "append" => does'[t].anim.left = Duration /\ does'[t].anim.waits = {}
      PROVE  WaitInv'
  <2>1. /\ Range(list') = Range(list) \ ns
        /\ \A l, m : l \notin ns /\ m \notin ns => (Before(list', l, m) <=> Before(list, l, m))
    BY <1>6, UnlinkedKeeps DEF ListsTyped
  <2>2. \A m \in Range(list') : m \in Range(list) /\ m \in Nodes \ ns
    BY <1>4, <2>1
  <2>3. \A m \in Nodes \ ns : /\ Without(ns)[m].item = anim[m].item
                              /\ Without(ns)[m].offset = anim[m].offset
                              /\ Without(ns)[m].left = anim[m].left
                              /\ Without(ns)[m].waits = anim[m].waits \ ns
    BY WithoutKeeps DEF ListsTyped
  <2>4. \A m \in Range(list') : /\ anim'[m].item = anim[m].item
                                /\ anim'[m].offset = anim[m].offset
                                /\ anim'[m].left = anim[m].left
                                /\ anim'[m].waits = anim[m].waits \ ns
    BY <1>6, <2>2, <2>3
  <2>5. \A m \in Range(list') : Counted(m)' <=> Counted(m)
    BY <1>1, <1>6, <2>1, <2>2 DEF Counted
  <2>6. \A m \in Range(list') : anim'[m].waits \subseteq anim[m].waits \cap Range(list')
    BY <1>4, <2>1, <2>2, <2>4
  <2>7. \A l, m \in Range(list') : Before(list, l, m) => Before(list', l, m)
    BY <2>1, <2>2
  <2>8. \A m \in Range(list') : anim[m].left = 0 => m = it' /\ upd' \notin {"out", "at"}
    BY <1>1, <1>4, <2>2
  <2> QED
    BY <1>0, <1>1, <1>2, <1>6, <2>2, <2>4, <2>5, <2>6, <2>7, <2>8, FewerKeepWaits
<1>7. ASSUME NEW a, Put(t, a), a.left = Duration, a.waits = {}
      PROVE  /\ \A u \in Threads \ {t} : does'[u] = does[u]
             /\ does'[t].op = "append" =>
                  does'[t].anim.left = Duration /\ does'[t].anim.waits = {}
  BY <1>3, <1>7 DEF Put, Does, Idle
<1>8. ASSUME NEW d, Does(t, d), d.op # "append"
      PROVE  /\ \A u \in Threads \ {t} : does'[u] = does[u]
             /\ does'[t].op = "append" =>
                  does'[t].anim.left = Duration /\ does'[t].anim.waits = {}
  BY <1>3, <1>8 DEF Does
<1>9. ASSUME NEW i \in Items, Show(t, i) PROVE WaitInv'
  BY <1>5, <1>9 DEF Show, Idle
<1>10. ASSUME NEW i \in Items, item_anim_add(t, i) PROVE WaitInv'
  <2> DEFINE a == Anim(IF i \in Dots THEN "dots" ELSE "select", i, 0, {})
  <2>1. Put(t, a) /\ UNCHANGED <<list, anim>>
    BY <1>10 DEF item_anim_add
  <2>2. a.left = Duration /\ a.waits = {}
    BY DEF Anim
  <2> HIDE DEF a
  <2> QED
    BY <1>5, <1>7, <2>1, <2>2
<1>11. CASE call_anim_add(t)
  <2> DEFINE a == Anim("tab", "none", 0, {})
  <2>1. Put(t, a) /\ UNCHANGED <<list, anim>>
    BY <1>11 DEF call_anim_add
  <2>2. a.left = Duration /\ a.waits = {}
    BY DEF Anim
  <2> HIDE DEF a
  <2> QED
    BY <1>5, <1>7, <2>1, <2>2
<1>12. ASSUME NEW i \in Items, NEW how \in {"remove", "hide", "show"}, Replace(t, i, how)
       PROVE  WaitInv'
  <2>1. Does(t, [op |-> "cancel", item |-> i, how |-> how]) /\ UNCHANGED <<list, anim>>
    BY <1>12 DEF Replace
  <2> QED
    BY <1>5, <1>8, <2>1
<1>13. ASSUME NEW i \in Items, item_anim_add_after(t, i) PROVE WaitInv'
  <2> DEFINE offset == Max({0} \cup {anim[n].offset + anim[n].left : n \in ForItem(i)})
             waits == {n \in ForItem(i) : NotCounted(n)}
             a == Anim("select", i, offset, waits)
  <2>1. /\ Put(t, a) /\ i \in Cards /\ ~AnimLocked /\ UNCHANGED <<list, anim>>
        /\ \A n \in ForItem(i) : anim[n].offset = 0
    BY <1>13 DEF item_anim_add_after
  <2>2. \A n \in ForItem(i) : anim[n].left <= offset
    BY <2>1, OffsetOutlasts
  <2>3. waits \subseteq ForItem(i) /\ \A n \in waits : n \in Range(list) /\ NotCounted(n)
    BY DEF ForItem
  <2>4. a.left = Duration /\ a.waits = waits /\ a.item = i /\ a.offset = offset
    BY DEF Anim
  <2> HIDE DEF offset, waits, a
  <2>5. ASSUME NEW n \in waits PROVE ~Counted(n)
    <3>1. upd = "out" \/ upd \in Windows
      BY <2>1 DEF AnimLocked, Windows, ListsTyped, Places
    <3>2. CASE upd = "out"
      BY <3>2 DEF Counted
    <3>3. CASE upd \in Windows
      <4>1. it # 0 /\ it \in Range(list) /\ upd # "out"
        BY <1>0, <3>3 DEF WalkInv, Windows
      <4>2. Before(list, it, n)
        BY <2>3, <4>1, NotCountedBehind DEF ListsTyped
      <4> QED
        BY <4>1, <4>2, BeforeOrders DEF Counted, ListsTyped
    <3> QED
      BY <3>1, <3>2, <3>3
  <2>6. \A u \in Threads \ {t} : does'[u] = does[u]
    BY <1>3, <2>1 DEF Put, Does
  <2>7. does'[t] = Idle \/ does'[t] = [op |-> "append", anim |-> a]
    BY <1>3, <2>1 DEF Put, Does
  <2>8. /\ \A m : Counted(m)' <=> Counted(m)
        /\ \A o, m : Outlasts(o, m) <=> /\ anim'[m].left <= o
                                        /\ Counted(m)' => \/ anim'[m].left = 0
                                                          \/ o > diff' /\ anim'[m].left <= o - diff'
        /\ \A j : ForItem(j)' = ForItem(j)
    BY <1>1, <2>1 DEF Counted, Outlasts, ForItem
  <2>9. \A m \in Range(Active)' : anim'[m].left = 0 => m = it' /\ upd' \notin {"out", "at"}
    BY <1>1, <1>2, <1>4, <2>1
  <2>10. \A n \in Range(Active)' : \A m \in anim'[n].waits :
           /\ m \in Range(Active)' /\ Before(Active, m, n)'
           /\ anim'[m].offset = 0 /\ anim'[n].left = Duration
           /\ anim'[m].left <= anim'[n].offset
           /\ ~Counted(n)' => Outlasts(anim[n].offset, m)'
    BY <1>0, <1>2, <2>1, <2>8 DEF WaitInv, Outlasts
  <2>11. ASSUME NEW u \in Threads, does'[u].op = "append"
         PROVE  /\ does'[u].anim.left = Duration
                /\ does'[u].anim.waits # {} => does'[u].anim.item \in Cards
                /\ \A m \in (does[u].anim.waits \cap ForItem(does[u].anim.item))' :
                     anim'[m].offset = 0 /\ Outlasts(does[u].anim.offset, m)'
    <3>1. CASE u # t
      <4>1. does'[u] = does[u]
        BY <2>6, <3>1
      <4>2. /\ does[u].anim.left = Duration
            /\ does[u].anim.waits # {} => does[u].anim.item \in Cards
            /\ \A m \in does[u].anim.waits \cap ForItem(does[u].anim.item) :
                 anim[m].offset = 0 /\ Outlasts(does[u].anim.offset, m)
        BY <1>0, <2>11, <4>1 DEF WaitInv
      <4> QED
        BY <2>1, <2>8, <4>1, <4>2 DEF Outlasts
    <3>2. CASE u = t
      <4>1. does'[u].anim = a
        BY <2>7, <2>11, <3>2 DEF Idle
      <4>2. ASSUME NEW m \in (does[u].anim.waits \cap ForItem(does[u].anim.item))'
            PROVE  anim'[m].offset = 0 /\ Outlasts(does[u].anim.offset, m)'
        <5>1. m \in waits /\ m \in ForItem(i)
          BY <2>3, <2>4, <4>1, <4>2
        <5>2. ~Counted(m)' /\ anim'[m].left <= offset /\ anim'[m].offset = 0
          BY <2>1, <2>2, <2>5, <2>8, <5>1
        <5> QED
          BY <2>4, <4>1, <5>2 DEF Outlasts
      <4> QED
        BY <2>1, <2>4, <4>1, <4>2
    <3> QED
      BY <3>1, <3>2
  <2> QED
    BY <2>9, <2>10, <2>11 DEF WaitInv
<1>14. CASE Appended(t)
  <2> DEFINE a == does[t].anim
             b == [a EXCEPT !.waits = @ \cap ForItem(a.item)]
  <2>1. a \in AnimRecs /\ does[t].op = "append" /\ ~AnimLocked /\ does[t] # Idle
    BY <1>14 DEF Appended, ListsTyped, Doings, Idle
  <2>2. /\ b \in AnimRecs /\ b.left = a.left /\ b.item = a.item /\ b.offset = a.offset
        /\ b.waits = a.waits \cap ForItem(a.item)
    BY <2>1 DEF AnimRecs
  <2>3. Linked(b) /\ Does(t, Idle)
    BY <1>14 DEF Appended
  <2>4. /\ a.left = Duration
        /\ \A m \in a.waits \cap ForItem(a.item) : anim[m].offset = 0 /\ Outlasts(a.offset, m)
    BY <1>0, <2>1 DEF WaitInv
  <2>5. \A m \in ForItem(a.item) : m \in Range(list)
    BY DEF ForItem
  <2>6. upd = "out" \/ upd \in Windows
    BY <2>1 DEF AnimLocked, Windows, ListsTyped, Places
  <2>7. ASSUME NEW u \in Threads, does'[u].op = "append"
        PROVE  /\ does'[u] = does[u]
               /\ does[u].anim.waits # {} => does[u].anim.item # b.item
    <3>1. u # t /\ does'[u] = does[u]
      BY <1>3, <2>3, <2>7 DEF Does, Idle
    <3>2. does[u].anim.waits # {} => does[u].anim.item \in Items
      BY <1>0, <2>7, <3>1 DEF WaitInv, Items
    <3>3. ASSUME does[u].anim.item \in Items, does[u].anim.item = b.item PROVE FALSE
      <4>1. At(u, does[u].anim.item) /\ At(t, does[u].anim.item)
        BY <2>1, <2>2, <2>7, <3>1, <3>3 DEF At
      <4> QED
        BY <1>0, <3>1, <3>3, <4>1, OneHand
    <3> QED
      BY <3>1, <3>2, <3>3
  <2>8. upd \notin {"out", "at"} \/ upd = "out"
    BY <2>6 DEF Windows
  <2> HIDE DEF a, b
  <2> QED
    BY <1>1, <1>2, <2>2, <2>3, <2>4, <2>5, <2>7, <2>8, OneMoreKeepsWaits
<1>15. CASE Cancelled(t)
  <2> DEFINE i == does[t].item
  <2>1. \/ Does(t, Idle)
        \/ Put(t, Anim("hide", i, 0, {}))
        \/ Put(t, Anim("select", i, 0, {}))
    BY <1>15 DEF Cancelled
  <2>2. /\ \A u \in Threads \ {t} : does'[u] = does[u]
        /\ does'[t].op = "append" => does'[t].anim.left = Duration /\ does'[t].anim.waits = {}
    BY <1>7, <1>8, <2>1 DEF Anim, Idle
  <2>3. \/ UNCHANGED <<list, anim>>
        \/ /\ ~AnimLocked /\ list' = Unlinked(list, ForItem(i)) /\ anim' = Without(ForItem(i))
           /\ ~(upd \in Windows /\ it \in ForItem(i))
    BY <1>15 DEF Cancelled, anim_cancel_for
  <2>4. ~AnimLocked /\ it # 0 => upd \in Windows
    BY <1>0 DEF AnimLocked, Windows, ListsTyped, Places, WalkInv
  <2> QED
    BY <1>5, <1>6, <2>2, <2>3, <2>4
<1>16. CASE anim_cancel(t)
  <2>1. PICK n \in Range(list) : /\ anim[n].kind = "tab" /\ list' = Unlinked(list, {n})
                                 /\ anim' = Without({n})
    BY <1>16 DEF anim_cancel
  <2>2. ~AnimLocked /\ it # 0 => upd \in Windows
    BY <1>0 DEF AnimLocked, Windows, ListsTyped, Places, WalkInv
  <2>3. it # 0 => it # n
    BY <1>0, <1>16, <2>1, <2>2 DEF WalkInv, anim_cancel
  <2>4. does' = does /\ does[t] = Idle
    BY <1>16 DEF anim_cancel
  <2> QED
    BY <1>6, <2>1, <2>3, <2>4 DEF Idle
<1> QED
  BY <1>9, <1>10, <1>11, <1>12, <1>13, <1>14, <1>15, <1>16 DEF AnimCall

-----------------------------------------------------------------------------
\* The steps of multirom_ui() change no animation that is left.

LEMMA MainKeepsCalm ==
    ASSUME AnimInv, ListsTyped, CalmInv, Startup \/ Pong \/ StopsInput \/ Shutdown,
           mishap = "none", mishap' = "none"
    PROVE  CalmInv'
<1>0. WaitInv /\ WalkInv /\ ItemInv /\ OwnInv
  BY DEF CalmInv
<1>1. UNCHANGED <<does, items, it, upd, diff>>
  BY DEF Startup, StartsWorkers, anim_init, Registers, Pong, anim_push_context, anim_pop_context,
         StopsInput, Shutdown, anim_stop, Drained, Unregisters, anim_list_clear, StopsWorkers,
         WorkersEnded, KeepAnims
<1>2. \/ anim_push_context \/ anim_pop_context \/ anim_list_clear
      \/ UNCHANGED <<list, contexts, anim>> /\ phase # "pong" /\ phase' # "pong"
  BY DEF Startup, StartsWorkers, anim_init, Registers, Pong, StopsInput, Shutdown, anim_stop,
         Drained, Unregisters, StopsWorkers, WorkersEnded, KeepAnims, Phase
\* A thread that is in a call after the step is Main, in the phases it may be in one.
<1>3. /\ phase' = "pong" => phase = "up"
      /\ \A t \in Threads : does[t] # Idle =>
           \/ phase = phase' /\ phase = "up"
           \/ phase = "closing" /\ phase' = "closing"
           \/ t = Main /\ phase = "quiet" /\ phase' = "quiet"
           \/ phase = "up" /\ phase' = "pong"
  <2>1. CASE StartsWorkers \/ anim_init \/ Registers \/ Drained \/ Unregisters \/ WorkersEnded
             \/ anim_list_clear
    BY <1>0, <2>1 DEF StartsWorkers, anim_init, Registers, Drained, Unregisters, WorkersEnded,
       anim_list_clear, Phase, OwnInv
  <2>2. CASE anim_push_context
    BY <1>0, <2>2 DEF anim_push_context, OwnInv
  <2>3. CASE anim_pop_context
    BY <1>0, <2>3 DEF anim_pop_context, WalkInv
  <2>4. CASE StopsInput
    BY <2>4 DEF StopsInput, Phase
  <2>5. CASE anim_stop \/ StopsWorkers
    <3>1. \A t \in Threads \ {Main} : does[t] = Idle
      BY <2>5 DEF anim_stop, StopsWorkers, Phase, AnimInv, StopInv, DoesInv
    <3>2. does[Main] = Idle /\ phase' # "pong"
      BY <2>5 DEF anim_stop, StopsWorkers, Phase
    <3> QED
      BY <3>1, <3>2
  <2> QED
    BY <2>1, <2>2, <2>3, <2>4, <2>5 DEF Startup, Pong, Shutdown
\* The context is switched, and the list cleared, between two rounds.
<1>4. anim_push_context \/ anim_pop_context \/ anim_list_clear => upd = "out" /\ it = 0
  <2>1. CASE anim_push_context
    <3>1. upd \notin Windows /\ ~AnimLocked
      BY <2>1 DEF anim_push_context, Busy
    <3> QED
      BY <1>0, <3>1 DEF AnimLocked, Windows, ListsTyped, Places, WalkInv
  <2>2. CASE anim_pop_context
    <3>1. phase = "pong" /\ ~AnimLocked
      BY <2>2 DEF anim_pop_context
    <3> QED
      BY <1>0, <3>1 DEF AnimLocked, WalkInv
  <2>3. CASE anim_list_clear
    BY <1>0, <2>3 DEF anim_list_clear, Phase, AnimInv, StopInv, JobInv, Bare, WalkInv
  <2> QED
    BY <2>1, <2>2, <2>3
<1>5. anim_push_context => \A t \in Threads : does[t] = Idle
  BY DEF anim_push_context, Busy
<1>6. /\ Range(Active)' \subseteq Range(Active)
      /\ \A m, n \in Range(Active)' : Before(Active, m, n) => Before(Active, m, n)'
      /\ \A n \in Range(Active)' : anim'[n] = anim[n]
      /\ Range(list)' \subseteq Range(Active)'
  <2>1. CASE UNCHANGED <<list, contexts, anim>> /\ phase # "pong" /\ phase' # "pong"
    BY <2>1 DEF Active
  <2>2. CASE anim_push_context
    <3>1. contexts' = <<list>> /\ list' = <<>> /\ phase = "up" /\ phase' = "pong" /\ anim' = anim
      BY <2>2, OneJob DEF anim_push_context, AnimInv, StopInv, ListInv
    <3>2. Active' = list /\ Active = list /\ Range(list') = {}
      BY <3>1 DEF Active, Range
    <3> QED
      BY <3>1, <3>2
  <2>3. CASE anim_pop_context
    <3>1. PICK l : contexts = <<l>>
      BY <2>3 DEF anim_pop_context, AnimInv, StopInv, ListInv
    <3>2. list' = l /\ phase = "pong" /\ phase' = "up" /\ anim' = Without(Range(list))
      BY <2>3, <3>1 DEF anim_pop_context, Last
    <3>3. Active = l /\ Active' = l
      BY <3>1, <3>2 DEF Active
    <3>4. Range(list) = {}
      BY <1>0, <3>2 DEF WalkInv, Range
    <3>5. \A n \in Nodes : Without({})[n] = anim[n]
      <4>1. \A n \in Nodes : [anim[n] EXCEPT !.waits = @ \ {}] = anim[n]
        <5> SUFFICES ASSUME NEW n \in Nodes PROVE [anim[n] EXCEPT !.waits = @ \ {}] = anim[n]
          OBVIOUS
        <5>1. anim[n] \in AnimRecs /\ anim[n].waits \ {} = anim[n].waits
          BY DEF ListsTyped
        <5> QED
          BY <5>1 DEF AnimRecs
      <4> QED
        BY <4>1 DEF Without
    <3>6. Range(Active) \subseteq Nodes
      BY UsedNodes
    <3> QED
      BY <3>2, <3>3, <3>4, <3>5, <3>6
  <2>4. CASE anim_list_clear
    <3>1. list' = <<>> /\ phase' = "quiet"
      BY <2>4 DEF anim_list_clear, Phase
    <3>2. Range(Active)' = {} /\ Range(list)' = {}
      BY <3>1 DEF Active, Range
    <3> QED
      BY <3>2
  <2> QED
    BY <1>2, <2>1, <2>2, <2>3, <2>4
<1>7. WalkInv'
  <2>1. CASE UNCHANGED <<list, contexts, anim>> /\ phase # "pong" /\ phase' # "pong"
    BY <1>0, <1>1, <2>1 DEF WalkInv
  <2>2. CASE anim_push_context \/ anim_pop_context \/ anim_list_clear
    <3>1. anim_push_context => list' = <<>>
      BY DEF anim_push_context
    <3>2. (anim_pop_context \/ anim_list_clear) => phase' # "pong"
      BY DEF anim_pop_context, anim_list_clear, Phase
    <3> QED
      BY <1>1, <1>4, <1>5, <2>2, <3>1, <3>2 DEF WalkInv, Windows
  <2> QED
    BY <1>2, <2>1, <2>2
<1>8. OwnInv'
  <2>1. ASSUME NEW t \in Threads, does'[t] # Idle
        PROVE  phase' = phase
    BY <1>0, <1>1, <1>3, <1>5, <2>1 DEF anim_push_context, OwnInv, Startup, StartsWorkers, anim_init,
       Registers, Pong, anim_pop_context, StopsInput, Shutdown, anim_stop, Drained, Unregisters,
       anim_list_clear, StopsWorkers, WorkersEnded, Phase
  <2> QED
    BY <1>0, <1>1, <2>1 DEF OwnInv, At
<1>9. ItemInv'
  <2>1. \A n : Finished(n)' <=> Finished(n)
    BY <1>1 DEF Finished
  <2>2. Live' \subseteq Live
    BY <1>6, <2>1 DEF Live
  <2> QED
    BY <1>0, <1>1, <1>6, <2>2, FewerKeepItems
<1>10. WaitInv'
  <2>1. \/ \A n \in Range(Active)' : ~Counted(n)'
        \/ diff' = diff /\ \A n \in Range(Active)' : Counted(n)' <=> Counted(n)
    <3>1. CASE UNCHANGED <<list, contexts, anim>>
      BY <1>1, <3>1 DEF Counted
    <3>2. CASE upd = "out"
      BY <1>1, <3>2 DEF Counted
    <3> QED
      BY <1>2, <1>4, <3>1, <3>2
  <2>2. \A t \in Threads : does'[t].op = "append" =>
           does'[t] = does[t] /\ Range(list)' \subseteq Range(list) \cap Range(Active)'
    <3>1. ASSUME NEW t \in Threads, does'[t].op = "append" PROVE Range(list)' \subseteq Range(list)
      <4>1. does[t] # Idle
        BY <1>1, <3>1 DEF Idle
      <4>2. CASE UNCHANGED <<list, contexts, anim>>
        BY <4>2
      <4>3. CASE anim_push_context \/ anim_list_clear
        BY <4>3 DEF anim_push_context, anim_list_clear, Range
      <4>4. CASE anim_pop_context
        BY <1>0, <4>1, <4>4 DEF anim_pop_context, WalkInv
      <4> QED
        BY <1>2, <4>2, <4>3, <4>4
    <3> QED
      BY <1>1, <1>6, <3>1
  <2>3. \A n \in Range(Active) : /\ anim[n].left = 0 => n = it /\ upd \notin {"out", "at"}
                                 /\ anim[n].waits \subseteq Range(Active)
    BY <1>0 DEF WaitInv
  <2>4. \A n \in Range(Active)' : anim'[n].waits \subseteq anim[n].waits \cap Range(Active)'
    <3>1. CASE anim_list_clear
      BY <3>1 DEF anim_list_clear, Phase, Active, Range
    <3>2. CASE ~anim_list_clear
      <4>1. Range(Active)' = Range(Active)
        <5>1. CASE UNCHANGED <<list, contexts, anim>> /\ phase # "pong" /\ phase' # "pong"
          BY <5>1 DEF Active
        <5>2. CASE anim_push_context
          BY <5>2, OneJob DEF anim_push_context, AnimInv, StopInv, ListInv, Active
        <5>3. CASE anim_pop_context
          <6>1. PICK l : contexts = <<l>>
            BY <5>3 DEF anim_pop_context, AnimInv, StopInv, ListInv
          <6> QED
            BY <5>3, <6>1 DEF anim_pop_context, Active, Last
        <5> QED
          BY <1>2, <3>2, <5>1, <5>2, <5>3
      <4> QED
        BY <1>6, <2>3, <4>1
    <3> QED
      BY <3>1, <3>2
  <2> QED
    BY <1>0, <1>1, <1>6, <2>1, <2>2, <2>3, <2>4, FewerKeepWaits
<1> QED
  BY <1>7, <1>8, <1>9, <1>10 DEF CalmInv

LEMMA InitOrderInv == AnimInit => OrderInv
<1> SUFFICES ASSUME AnimInit PROVE OrderInv
  OBVIOUS
<1> USE DEF AnimInit
<1>1. ListsTyped
  <2>1. <<>> \in Seq(Nodes) /\ IsInjective(<<>>) /\ <<>> \in Seq(Seq(Nodes)) /\ DOMAIN <<>> = {}
    BY DEF IsInjective
  <2>2. anim \in [Nodes -> AnimRecs]
    BY RecordsTyped
  <2>3. does \in [Threads -> Doings] /\ items \in [Items -> {"shown", "hiding", "gone"}]
    BY DEF Doings
  <2> QED
    BY <2>1, <2>2, <2>3 DEF ListsTyped, Places
<1>2. \A t \in Threads : does[t] = Idle /\ does[t].op = "idle"
  BY DEF Idle
<1>3. phase = "down" /\ list = <<>> /\ Active = list /\ Range(Active) = {} /\ Range(list) = {}
  BY DEF Active, Range
<1>4. WalkInv /\ OwnInv
  BY <1>2 DEF WalkInv, OwnInv, Windows
<1>5. ItemInv
  BY <1>2, <1>3 DEF ItemInv, Live, At, Idle
<1>6. WaitInv
  BY <1>2, <1>3 DEF WaitInv
<1> QED
  BY <1>1, <1>4, <1>5, <1>6 DEF OrderInv, CalmInv

LEMMA StepKeepsOrderInv == AnimInv /\ OrderInv /\ [Next]_vars => OrderInv'
<1> SUFFICES ASSUME AnimInv, OrderInv, [Next]_vars PROVE OrderInv'
  OBVIOUS
<1>0. ListsTyped /\ running \in BOOLEAN
  BY DEF OrderInv
<1>1. CASE UNCHANGED animVars
  <2>1. ListsTyped' /\ running' \in BOOLEAN
    BY <1>0, <1>1 DEF animVars, ListsTyped
  <2>2. Active' = Active /\ \A n : Finished(n)' <=> Finished(n)
    BY <1>1 DEF animVars, Active, Finished
  <2>3. /\ Live' = Live /\ \A t, i : At(t, i)' <=> At(t, i)
        /\ \A i : ForItem(i)' = ForItem(i)
        /\ \A m : Counted(m)' <=> Counted(m)
    BY <1>1, <2>2 DEF animVars, Live, At, ForItem, Counted
  <2>4. \A o, m : Outlasts(o, m)' <=> Outlasts(o, m)
    BY <1>1, <2>3 DEF animVars, Outlasts
  <2>5. mishap = "none" => CalmInv
    BY DEF OrderInv
  <2>6. WalkInv => WalkInv'
    BY <1>1 DEF animVars, WalkInv
  <2>7. OwnInv => OwnInv'
    BY <1>1, <2>3 DEF animVars, OwnInv
  <2>8. ItemInv => ItemInv'
    BY <1>1, <2>2, <2>3 DEF animVars, ItemInv, Suits
  <2>9. WaitInv => WaitInv'
    BY <1>1, <2>2, <2>3, <2>4 DEF animVars, WaitInv
  <2> QED
    BY <1>1, <2>1, <2>5, <2>6, <2>7, <2>8, <2>9 DEF animVars, OrderInv, CalmInv
<1>2. CASE Round \/ Broken \/ UNCHANGED vars
  BY <1>1, <1>2 DEF Round, Broken, vars
<1>3. ASSUME mishap = "none", UpdateStep PROVE OrderInv'
  <2>1. CalmInv
    BY <1>3 DEF OrderInv
  <2>2. ListsTyped'
    BY <1>0, <1>3, UpdateTyped
  <2>3. running' = running
    BY <1>3 DEF UpdateStep, UpdateBegins, UpdateReturns, Wait, Step, OnStepReturns, Continues,
       Finishes, OnFinished, AddsSuccessor, ItemFinished, RemovesFinished, Current, Quiet
  <2>4. WalkInv' /\ OwnInv' /\ ItemInv' /\ WaitInv'
    BY <1>0, <1>3, <2>1, UpdateKeepsWalk, UpdateKeepsOwn, UpdateKeepsItems, UpdateKeepsWaits
  <2> QED
    BY <1>0, <2>2, <2>3, <2>4 DEF OrderInv, CalmInv
<1>4. ASSUME mishap = "none", NEW t \in Threads, AnimCall(t) PROVE OrderInv'
  <2>1. CalmInv
    BY <1>4 DEF OrderInv
  <2>2. ListsTyped'
    BY <1>0, <1>4, CallTyped
  <2>3. running' = running
    BY <1>4 DEF AnimCall, Show, item_anim_add, item_anim_add_after, Replace, call_anim_add,
       anim_cancel, Appended, Cancelled
  <2>4. mishap' = "none" => WalkInv' /\ OwnInv' /\ ItemInv' /\ WaitInv'
    BY <1>0, <1>4, <2>1, CallKeepsWalk, CallKeepsOwn, CallKeepsItems, CallKeepsWaits
  <2> QED
    BY <1>0, <2>2, <2>3, <2>4 DEF OrderInv, CalmInv
<1>5. ASSUME mishap = "none", Startup \/ Pong \/ StopsInput \/ Shutdown PROVE OrderInv'
  <2>1. CalmInv
    BY <1>5 DEF OrderInv
  <2>2. ListsTyped'
    BY <1>0, <1>5, MainTyped
  <2>3. running' \in BOOLEAN
    <3>1. running' \in {running, TRUE, FALSE}
      BY <1>5 DEF Startup, StartsWorkers, anim_init, Registers, Pong, anim_push_context,
         anim_pop_context, StopsInput, Shutdown, anim_stop, Drained, Unregisters, anim_list_clear,
         StopsWorkers, WorkersEnded, KeepAnims
    <3> QED
      BY <1>0, <3>1
  <2>4. mishap' = "none" => CalmInv'
    BY <1>0, <1>5, <2>1, MainKeepsCalm
  <2> QED
    BY <2>2, <2>3, <2>4 DEF OrderInv
<1> QED
  BY <1>2, <1>3, <1>4, <1>5 DEF Next

LEMMA OrderInvariance == AnimSpec => []OrderInv
BY InitOrderInv, StepKeepsOrderInv, AnimInvariance, PTL DEF AnimSpec

\* Types, for every configuration; anim_update is at work only in its call.
THEOREM AnimationTyped == AnimSpec => []AnimTypeOK
<1>1. AnimInv /\ OrderInv => AnimTypeOK
  <2> SUFFICES ASSUME AnimInv, OrderInv PROVE AnimTypeOK
    OBVIOUS
  <2>1. WorkersTypeOK
    BY DEF AnimInv, WorkersInv
  <2>2. upd # "out" => call = Update
    BY DEF AnimInv, StopInv, JobInv
  <2>3. \A t \in Threads : does[t].op \in {"idle", "append", "cancel"}
    BY DEF OrderInv, ListsTyped, Doings, Idle
  <2> QED
    BY <2>1, <2>2, <2>3 DEF OrderInv, ListsTyped, AnimTypeOK
<1> QED BY <1>1, AnimInvariance, OrderInvariance, PTL

\* As long as no callback lost its animation under it, what will step again is on an item
\* that exists: whoever frees an item has cancelled for it, and the animation that frees a
\* hidden card is the last of it (framebuffer.c:547, animation.c:349, notification_card.c:494).
THEOREM NothingStepsOnFreed == AnimSpec => []NoStepOnFreedItem
<1>1. AnimInv /\ OrderInv => NoStepOnFreedItem
  <2> SUFFICES ASSUME AnimInv, OrderInv, mishap = "none", NEW n \in Used \ {0},
                      anim[n].item # "none", items[anim[n].item] = "gone"
               PROVE  upd = "remove" /\ it = n
    BY DEF NoStepOnFreedItem
  <2>1. CalmInv /\ ListsTyped
    BY DEF OrderInv
  <2>2. n \in Range(Active) /\ n \in Nodes
    BY <2>1, UsedNodes
  <2>3. anim[n].item \in Items
    BY <2>1, <2>2, RecordsTyped DEF ListsTyped
  <2>4. n \notin Live
    BY <2>1, <2>3 DEF CalmInv, ItemInv
  <2> QED
    BY <2>2, <2>4 DEF Live, Finished
<1> QED BY <1>1, AnimInvariance, OrderInvariance, PTL

\* An animation put after others of its item has not started while one of them is left,
\* whatever the times between the rounds and wherever the list was when it was put there
\* (animation.c:462-490).
THEOREM StartsAfterOthers == AnimSpec => []AfterWaits
<1>1. OrderInv => AfterWaits
  <2> SUFFICES ASSUME OrderInv, mishap = "none", NEW n \in Range(list), anim[n].left < Duration,
                      NEW m \in anim[n].waits
               PROVE  FALSE
    BY DEF AfterWaits
  <2>1. WaitInv /\ WalkInv
    BY DEF OrderInv, CalmInv
  <2>2. list # <<>>
    BY DEF Range
  <2>3. n \in Range(Active)
    BY <2>1, <2>2 DEF WalkInv, Active
  <2>4. anim[n].left = Duration
    BY <2>1, <2>3 DEF WaitInv
  <2> QED
    BY <2>4, RecordsTyped
<1> QED BY <1>1, OrderInvariance, PTL
===============================================================================
