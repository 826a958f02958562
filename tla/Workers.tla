------------------------------- MODULE Workers -------------------------------
(***************************************************************************)
(* lib/workers.c: one thread that calls a list of registered jobs about    *)
(* every 10 ms.  It holds the mutex of the list for the whole round, the   *)
(* calls included; the other threads take it to add and to remove a job.   *)
(* A job is a callback with its data.                                      *)
(***************************************************************************)
EXTENDS Naturals, Sequences, SequencesExt

CONSTANTS
    Threads,    \* the threads that use the workers
    Jobs,       \* what they register
    OneShot,    \* the jobs whose callback returns 1: called once, then dropped
    MaxJobs     \* bound: jobs registered and about to be

ASSUME WorkersAssumption ==
    /\ OneShot \subseteq Jobs
    /\ MaxJobs \in Nat \ {0}
    /\ "none" \notin Jobs

VARIABLES
    run,        \* worker_thread.run
    jobs,       \* worker_thread.workers
    worker,     \* where the thread is
    at,         \* w, its place in the list
    call,       \* the job whose callback runs, or "none"
    want,       \* what each other thread is doing
    called,     \* history: the jobs called in this round
    gone        \* history: the jobs a thread removed and no thread added since

workersVars == <<run, jobs, worker, at, call, want, called, gone>>

Free == [op |-> "free"]
Wants == {Free, [op |-> "join"]} \cup [op : {"add", "remove"}, job : Jobs]

\* Locked_ForList: the mutex is given up around the callbacks.
Locked_ForList == worker = "walk"

\* The worker holds the mutex.  The other threads' critical sections are one step each.
Locked == worker \in {"walk", "call"}

WorkersInit ==
    /\ run = FALSE
    /\ jobs = <<>>
    /\ worker = "none"
    /\ at = 1
    /\ call = "none"
    /\ want = [t \in Threads |-> Free]
    /\ called = <<>>
    /\ gone = {}

-----------------------------------------------------------------------------
\* The calls of the other threads.  Each looks at run before it takes the mutex, and a
\* refused call does nothing.

workers_start(t) ==
    /\ want[t] = Free
    /\ ~run /\ worker = "none"
    /\ run' = TRUE
    /\ worker' = "check"
    /\ UNCHANGED <<jobs, at, call, want, called, gone>>

workers_stop(t) ==
    /\ want[t] = Free
    /\ run
    /\ run' = FALSE
    /\ want' = [want EXCEPT ![t] = [op |-> "join"]]
    /\ UNCHANGED <<jobs, worker, at, call, called, gone>>

\* pthread_join returns, and the list is cleared without the mutex.
Joined(t) ==
    /\ want[t].op = "join"
    /\ worker = "ended"
    /\ worker' = "none"
    /\ jobs' = <<>>
    /\ want' = [want EXCEPT ![t] = Free]
    /\ UNCHANGED <<run, at, call, called, gone>>

Ask(t, op, j) ==
    /\ want[t] = Free
    /\ run
    /\ want' = [want EXCEPT ![t] = [op |-> op, job |-> j]]
    /\ UNCHANGED <<run, jobs, worker, at, call, called, gone>>

Adding == {t \in Threads : want[t].op = "add"}

\* The callers of a job that stays look at a flag of theirs (the scroll mark, the enabled
\* key actions, anim_list.running) and register it once; a OneShot job is registered as
\* often as its key is tapped.
workers_add(t, j) ==
    /\ j \notin OneShot => /\ j \notin Range(jobs)
                           /\ \A u \in Adding : want[u].job # j
    /\ Len(jobs) + Cardinality(Adding) < MaxJobs
    /\ Ask(t, "add", j)

workers_remove(t, j) ==
    /\ j \notin OneShot
    /\ Ask(t, "remove", j)

Added(t) ==
    /\ want[t].op = "add"
    /\ ~Locked
    /\ jobs' = Append(jobs, want[t].job)
    /\ gone' = gone \ {want[t].job}
    /\ want' = [want EXCEPT ![t] = Free]
    /\ UNCHANGED <<run, worker, at, call, called>>

\* The first match is removed.
Removed(t) ==
    /\ want[t].op = "remove"
    /\ ~Locked
    /\ jobs' = RemoveFirst(jobs, want[t].job)
    /\ gone' = gone \cup {want[t].job}
    /\ want' = [want EXCEPT ![t] = Free]
    /\ UNCHANGED <<run, worker, at, call, called>>

-----------------------------------------------------------------------------
\* worker_thread_work.

\* while(t->run), read without the mutex; a round that has begun is finished.
Check ==
    /\ worker = "check"
    /\ worker' = IF run THEN "lock" ELSE "ended"
    /\ UNCHANGED <<run, jobs, at, call, want, called, gone>>

Lock ==
    /\ worker = "lock"
    /\ worker' = "walk"
    /\ UNCHANGED <<run, jobs, at, call, want, called, gone>>

Call ==
    /\ worker = "walk" /\ at <= Len(jobs)
    /\ worker' = "call"
    /\ call' = jobs[at]
    /\ called' = Append(called, jobs[at])
    /\ UNCHANGED <<run, jobs, at, want, gone>>

\* Return_Keeps leaves the job marked as running.
Return_Keeps ==
    /\ worker = "call"
    /\ at' = at + 1
    /\ worker' = "walk"
    /\ UNCHANGED <<run, jobs, call, want, called, gone>>

\* Return_Skips moves on after it dropped a job.
Return_Skips ==
    /\ worker = "call"
    /\ jobs' = IF call \in OneShot THEN RemoveAt(jobs, at) ELSE jobs
    /\ at' = at + 1
    /\ worker' = "walk"
    /\ call' = "none"
    /\ UNCHANGED <<run, want, called, gone>>

\* A callback that returned 1 is dropped, and w stays: the next job has moved there.
Return ==
    /\ worker = "call"
    /\ IF call \in OneShot
       THEN /\ jobs' = RemoveAt(jobs, at)
            /\ UNCHANGED at
       ELSE /\ at' = at + 1
            /\ UNCHANGED jobs
    /\ worker' = "walk"
    /\ call' = "none"
    /\ UNCHANGED <<run, want, called, gone>>

\* Unlock_Loops starts the next round without a look at run.
Unlock_Loops ==
    /\ worker = "walk" /\ at > Len(jobs)
    /\ worker' = "lock"
    /\ at' = 1 /\ called' = <<>>
    /\ UNCHANGED <<run, jobs, call, want, gone>>

\* The mutex is given up, and the thread sleeps until the next round.
Unlock ==
    /\ worker = "walk" /\ at > Len(jobs)
    /\ worker' = "check"
    /\ at' = 1 /\ called' = <<>>
    /\ UNCHANGED <<run, jobs, call, want, gone>>

ClientStep(t) ==
    \/ workers_start(t) \/ workers_stop(t) \/ Joined(t)
    \/ \E j \in Jobs : workers_add(t, j) \/ workers_remove(t, j)
    \/ Added(t) \/ Removed(t)

WorkerStep == Check \/ Lock \/ Call \/ Return \/ Unlock

WorkersNext == WorkerStep \/ \E t \in Threads : ClientStep(t)

WorkersSpec == WorkersInit /\ [][WorkersNext]_workersVars

\* The worker goes on: its callbacks return.  So does a thread in pthread_join.
FairWorkersSpec ==
    /\ WorkersSpec
    /\ WF_workersVars(WorkerStep)
    /\ \A t \in Threads : WF_workersVars(Joined(t))

-----------------------------------------------------------------------------
\* Types, and the place of the worker: a callback runs for the job it was taken from.
WorkersTypeOK ==
    /\ run \in BOOLEAN
    /\ jobs \in Seq(Jobs)
    /\ worker \in {"none", "check", "lock", "walk", "call", "ended"}
    /\ at \in Nat \ {0}
    /\ call \in Jobs \cup {"none"}
    /\ want \in [Threads -> Wants]
    /\ called \in Seq(Jobs)
    /\ gone \in SUBSET Jobs
    /\ (worker = "call") <=> (call # "none")

\* A job that a thread removed is not registered and its callback is not running once the
\* call has returned: listview_destroy and anim_stop free the callback's data after it
\* (workers.c:123, listview.c:95, animation.c:319).
RemovedIsQuiet == \A j \in gone : j \notin Range(jobs) /\ call # j

\* The first n jobs of the list s are what stays of the calls c, in their order: each was
\* called once, and nothing else was that has not dropped out.
Served(s, n, c) ==
    \E place \in [1..n -> 1..Len(c)] :
        /\ \A i, k \in 1..n : i < k => place[i] < place[k]
        /\ \A i \in 1..n : s[i] = c[place[i]] /\ s[i] \notin OneShot
        /\ \A m \in 1..Len(c) : c[m] \in OneShot \/ \E i \in 1..n : place[i] = m

\* When a round ends, every job registered was called in it, once and in order, whichever
\* jobs dropped out of the list on the way (workers.c:64-70).
RoundServesAll == worker = "walk" /\ at > Len(jobs) => Served(jobs, Len(jobs), called)

\* workers_stop returns, whatever jobs there are: the flag is looked at in every round
\* (workers.c:57, workers.c:101).
StopReturns == \A t \in Threads : want[t].op = "join" ~> want[t] = Free
=============================================================================
