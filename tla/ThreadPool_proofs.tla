------------------------- MODULE ThreadPool_proofs -------------------------
(***************************************************************************)
(* For any limits, any number of tasks and any idle time: @threads are the *)
(* threads that run, @busy_threads those with a task, and there are never  *)
(* more than max_threads nor, before the shutdown, fewer than min_threads. *)
(* No task gets lost or runs twice, no thread sleeps over work, and a      *)
(* clean shutdown queues the tokens that end all threads.                  *)
(***************************************************************************)
EXTENDS ThreadPool, FiniteSetTheorems, TLAPS

\* A :shutdown in the queue means that the pool is shut down.
TokensAfterShutdown ==
    ~shutdown => \A i \in 1..Len(queue) : queue[i] # Shutdown

\* The lower limit is not inductive by itself: a thread that pops :shutdown
\* leaves whatever the number of threads.
IInv == TypeOK /\ WithinLimits /\ TokensAfterShutdown

-----------------------------------------------------------------------------
(* Lemmas about the set of threads *)

LEMMA ThreadsFinite ==
    ASSUME TypeOK
    PROVE  /\ threads \subseteq Threads /\ IsFiniteSet(threads) /\ Cardinality(threads) \in Nat
           /\ min_threads \in Nat
<1>1. threads \subseteq Threads
  BY DEF TypeOK
<1>2. min_threads \in Nat
  BY ThreadPoolAssumption DEF TypeOK
<1> QED
  BY <1>1, <1>2, FS_Subset, FS_CardinalityType, ThreadPoolAssumption

\* spawn_thread has an identity to give while the pool is below its maximum.
LEMMA FreshOne ==
    ASSUME TypeOK, Cardinality(threads) < MaxThreads
    PROVE  \E t \in Threads \ threads : Fresh(1) = {t}
<1>1. threads # Threads
  BY ThreadPoolAssumption, ThreadsFinite, FS_CardinalityType
<1>2. PICK t \in Threads \ threads : TRUE
  BY <1>1, ThreadsFinite
<1>3. {t} \in SUBSET (Threads \ threads) /\ Cardinality({t}) = 1
  BY FS_Singleton
<1>4. Fresh(1) \in SUBSET (Threads \ threads) /\ Cardinality(Fresh(1)) = 1
  BY <1>3 DEF Fresh
<1>5. IsFiniteSet(Fresh(1))
  BY <1>4, FS_Subset, ThreadPoolAssumption
<1>6. PICK u : Fresh(1) = {u}
  BY <1>4, <1>5, FS_Singleton
<1> QED
  BY <1>4, <1>6

LEMMA FreshNone == Fresh(0) = {}
<1>1. {} \in SUBSET (Threads \ threads) /\ Cardinality({}) = 0
  BY FS_EmptySet
<1>2. Fresh(0) \in SUBSET (Threads \ threads) /\ Cardinality(Fresh(0)) = 0
  BY <1>1 DEF Fresh
<1>3. IsFiniteSet(Fresh(0))
  BY <1>2, FS_Subset, ThreadPoolAssumption
<1> QED
  BY <1>2, <1>3, FS_EmptySet

\* What a step may do to the set of threads without breaking a limit.
LEMMA LimitsKept ==
    ASSUME TypeOK, WithinLimits, shutdown => shutdown', UNCHANGED min_threads,
           \/ threads' = threads
           \/ /\ Cardinality(threads) < MaxThreads
              /\ \E u \in Threads \ threads : threads' = threads \cup {u}
           \/ /\ Cardinality(threads) > min_threads \/ shutdown
              /\ \E u \in threads : threads' = threads \ {u}
    PROVE  WithinLimits'
<1>1. CASE threads' = threads
  BY <1>1 DEF WithinLimits
<1>2. ASSUME Cardinality(threads) < MaxThreads, NEW u \in Threads \ threads,
             threads' = threads \cup {u}
      PROVE  WithinLimits'
  <2>1. Cardinality(threads') = Cardinality(threads) + 1
    BY <1>2, ThreadsFinite, FS_AddElement
  <2> QED
    BY <1>2, <2>1, ThreadsFinite, ThreadPoolAssumption DEF WithinLimits
<1>3. ASSUME Cardinality(threads) > min_threads \/ shutdown, NEW u \in threads,
             threads' = threads \ {u}
      PROVE  WithinLimits'
  <2>1. Cardinality(threads') = Cardinality(threads) - 1
    BY <1>3, ThreadsFinite, FS_RemoveElement
  <2> QED
    BY <1>3, <2>1, ThreadsFinite, ThreadPoolAssumption DEF WithinLimits
<1> QED
  BY <1>1, <1>2, <1>3

-----------------------------------------------------------------------------
(* The steps *)

LEMMA InitIInv == Init => IInv
<1> SUFFICES ASSUME NEW n \in MinThreads, NEW S \in SUBSET Threads,
                    Cardinality(S) = n, min_threads = n, queue = <<>>, threads = S, busy_threads = {}, shutdown = FALSE,
                    at = [t \in Threads |-> IF t \in S THEN "loop" ELSE "ended"],
                    work = [t \in Threads |-> None],
                    post = [k \in Tasks |-> "new"], unclean = FALSE
             PROVE  IInv
  BY DEF Init
<1>1. TypeOK
  <2>1. queue \in Seq(Tasks \cup {Shutdown})
    OBVIOUS
  <2> QED
    BY <2>1 DEF TypeOK
<1>2. WithinLimits
  BY ThreadPoolAssumption DEF WithinLimits
<1>3. TokensAfterShutdown
  BY DEF TokensAfterShutdown
<1> QED
  BY <1>1, <1>2, <1>3 DEF IInv

LEMMA CheckStep == ASSUME IInv, NEW k \in Tasks, Check(k) PROVE IInv'
BY DEF IInv, Check, TypeOK, WithinLimits, TokensAfterShutdown

LEMMA EnqueueStep == ASSUME IInv, NEW k \in Tasks, Enqueue(k) PROVE IInv'
<1> USE DEF IInv
<1>1. \/ threads' = threads
      \/ /\ Cardinality(threads) < MaxThreads
         /\ \E u \in Threads \ threads : threads' = threads \cup {u}
  <2>1. CASE threads = {}
    <3>1. Cardinality(threads) < MaxThreads
      BY <2>1, FS_EmptySet, ThreadPoolAssumption
    <3> QED
      BY <2>1, <3>1, FreshOne DEF Enqueue, NeedsThread
  <2>2. CASE threads # {}
    BY <2>2, FreshNone DEF Enqueue, NeedsThread
  <2> QED
    BY <2>1, <2>2
<1>2. WithinLimits'
  <2>1. (shutdown => shutdown') /\ UNCHANGED min_threads
    BY DEF Enqueue
  <2> QED
    BY <1>1, <2>1, LimitsKept
<1>3. threads' \subseteq Threads /\ threads \subseteq threads'
  BY <1>1, ThreadsFinite
<1>4. queue' \in Seq(Tasks \cup {Shutdown}) /\ TokensAfterShutdown'
  <2>1. queue \in Seq(Tasks \cup {Shutdown}) /\ queue' = Append(queue, k) /\ shutdown' = shutdown
    BY DEF Enqueue, TypeOK
  <2> QED
    BY <2>1, ThreadPoolAssumption DEF TokensAfterShutdown
<1>5. PICK stay \in Signalled :
        at' = [t \in Threads |-> IF t \in threads' \ threads THEN "loop"
                                 ELSE IF t \in Waiting \ stay THEN "woken" ELSE at[t]]
  BY DEF Enqueue
<1>6. at' \in [Threads -> {"loop", "waiting", "woken", "work", "ended"}]
  BY <1>5 DEF TypeOK
<1>7. threads' = {t \in Threads : at'[t] # "ended"}
  BY <1>3, <1>5 DEF TypeOK, Waiting
<1>8. busy_threads' = {t \in Threads : at'[t] = "work"}
  BY <1>3, <1>5 DEF TypeOK, Waiting, Enqueue
<1>9. work' \in [Threads -> Tasks \cup {None}] /\ unclean' \in BOOLEAN /\ shutdown' \in BOOLEAN
  BY DEF TypeOK, Enqueue
<1>10. min_threads' \in MinThreads
  BY DEF TypeOK, Enqueue
<1>11. post' \in [Tasks -> {"new", "checked", "refused", "posted", "done"}]
  BY DEF TypeOK, Enqueue
<1> QED
  BY <1>2, <1>4, <1>6, <1>7, <1>8, <1>9, <1>10, <1>11 DEF TypeOK

LEMMA StopStep == ASSUME IInv, Stop PROVE IInv'
<1> USE DEF IInv
<1>1. queue' \in Seq(Tasks \cup {Shutdown})
  <2>1. queue \in Seq(Tasks \cup {Shutdown}) /\ Tokens \in Nat
    BY ThreadsFinite DEF TypeOK, Tokens
  <2>2. [i \in 1..Tokens |-> Shutdown] \in Seq(Tasks \cup {Shutdown})
    BY <2>1
  <2> QED
    BY <2>1, <2>2 DEF Stop
<1>2. TypeOK'
  BY <1>1 DEF Stop, TypeOK, Waiting
<1> QED
  BY <1>2 DEF Stop, WithinLimits, TokensAfterShutdown

\* The queue after a pop, and what was popped.
LEMMA PopQueue ==
    ASSUME IInv, queue # <<>>
    PROVE  /\ Tail(queue) \in Seq(Tasks \cup {Shutdown})
           /\ Head(queue) \in Tasks \cup {Shutdown}
           /\ ~shutdown => Head(queue) # Shutdown
           /\ ~shutdown => \A i \in 1..Len(Tail(queue)) : Tail(queue)[i] # Shutdown
BY DEF IInv, TypeOK, TokensAfterShutdown

\* A thread that runs and leaves with End keeps the types.
LEMMA EndTypes ==
    ASSUME TypeOK, NEW t \in Threads, at[t] \in {"loop", "woken"}, End(t),
           UNCHANGED <<min_threads, busy_threads, work, shutdown, post, unclean>>,
           queue' \in Seq(Tasks \cup {Shutdown})
    PROVE  TypeOK' /\ t \in threads /\ threads' = threads \ {t}
BY DEF TypeOK, End

LEMMA TakeStep ==
    ASSUME IInv, NEW t \in Threads, at[t] \in {"loop", "woken"}, Take(t),
           UNCHANGED <<min_threads, shutdown, post, unclean>>
    PROVE  IInv'
<1> USE DEF IInv
<1>1. /\ queue # <<>> /\ queue' = Tail(queue)
      /\ queue' \in Seq(Tasks \cup {Shutdown}) /\ TokensAfterShutdown'
  BY PopQueue DEF Take, TokensAfterShutdown
<1>2. CASE Head(queue) = Shutdown /\ End(t) /\ UNCHANGED <<busy_threads, work>>
  <2>1. shutdown
    BY <1>1, <1>2, PopQueue
  <2>2. TypeOK' /\ t \in threads /\ threads' = threads \ {t}
    BY <1>1, <1>2, EndTypes
  <2> QED
    BY <1>1, <2>1, <2>2, LimitsKept
<1>3. CASE Head(queue) # Shutdown
  <2> DEFINE busy == busy_threads \cup {t}
             new  == IF Grows(Tail(queue), busy) THEN Fresh(1) ELSE {}
  <2>1. /\ busy_threads' = busy
        /\ work' = [work EXCEPT ![t] = Head(queue)]
        /\ threads' = threads \cup new
        /\ at' = [u \in Threads |-> IF u = t THEN "work"
                                    ELSE IF u \in new THEN "loop" ELSE at[u]]
    BY <1>3 DEF Take
  <2>2. \/ new = {}
        \/ /\ Cardinality(threads) < MaxThreads
           /\ \E u \in Threads \ threads : new = {u}
    BY FreshOne DEF Grows
  <2>3. t \in threads /\ new \subseteq Threads \ threads
    BY <2>2 DEF TypeOK
  <2> HIDE DEF new
  <2>4. WithinLimits'
    <3>1. \/ threads' = threads
          \/ /\ Cardinality(threads) < MaxThreads
             /\ \E u \in Threads \ threads : threads' = threads \cup {u}
      BY <2>1, <2>2
    <3> QED
      BY <3>1, LimitsKept
  <2>5. at' \in [Threads -> {"loop", "waiting", "woken", "work", "ended"}]
    BY <2>1 DEF TypeOK
  <2>6. threads' = {u \in Threads : at'[u] # "ended"}
    BY <2>1, <2>3 DEF TypeOK
  <2>7. busy_threads' = {u \in Threads : at'[u] = "work"}
    BY <2>1, <2>3 DEF TypeOK
  <2>8. work' \in [Threads -> Tasks \cup {None}]
    BY <1>1, <1>3, <2>1, PopQueue DEF TypeOK
  <2> QED
    BY <1>1, <2>4, <2>5, <2>6, <2>7, <2>8 DEF TypeOK
<1> QED
  BY <1>2, <1>3 DEF Take

LEMMA IterateStep == ASSUME IInv, NEW t \in Threads, Iterate(t) PROVE IInv'
<1>1. CASE Take(t)
  BY <1>1, TakeStep DEF Iterate
<1>2. CASE at' = [at EXCEPT ![t] = "waiting"] /\ UNCHANGED <<queue, threads, busy_threads, work>>
  BY <1>2 DEF Iterate, IInv, TypeOK, WithinLimits, TokensAfterShutdown
<1> QED
  BY <1>1, <1>2 DEF Iterate

LEMMA ResumeStep == ASSUME IInv, NEW t \in Threads, Resume(t) PROVE IInv'
<1>1. CASE Take(t)
  BY <1>1, TakeStep DEF Resume
<1>2. CASE MayEnd /\ End(t) /\ UNCHANGED <<queue, busy_threads, work>>
  <2>1. TypeOK' /\ t \in threads /\ threads' = threads \ {t}
    BY <1>2, EndTypes DEF Resume, IInv, TypeOK
  <2>2. WithinLimits'
    BY <1>2, <2>1, LimitsKept DEF Resume, IInv, MayEnd
  <2> QED
    BY <1>2, <2>1, <2>2 DEF Resume, IInv, TokensAfterShutdown
<1>3. CASE at' = [at EXCEPT ![t] = "loop"] /\ UNCHANGED <<queue, threads, busy_threads, work>>
  BY <1>3 DEF Resume, IInv, TypeOK, WithinLimits, TokensAfterShutdown
<1> QED
  BY <1>1, <1>2, <1>3 DEF Resume

LEMMA WakeUpStep == ASSUME IInv, NEW t \in Threads, WakeUp(t) PROVE IInv'
BY DEF WakeUp, IInv, TypeOK, WithinLimits, TokensAfterShutdown

LEMMA FinishStep == ASSUME IInv, NEW t \in Threads, Finish(t) PROVE IInv'
<1>1. TypeOK'
  BY DEF Finish, IInv, TypeOK
<1> QED
  BY <1>1 DEF Finish, IInv, WithinLimits, TokensAfterShutdown

LEMMA NextIInv == IInv /\ [Next]_vars => IInv'
<1> SUFFICES ASSUME IInv, [Next]_vars PROVE IInv'
  OBVIOUS
<1>1. CASE UNCHANGED vars
  BY <1>1 DEF IInv, TypeOK, WithinLimits, TokensAfterShutdown, vars
<1>2. ASSUME NEW k \in Tasks, Check(k) \/ Enqueue(k) PROVE IInv'
  BY <1>2, CheckStep, EnqueueStep
<1>3. ASSUME NEW t \in Threads, ThreadLoop(t) \/ WakeUp(t) \/ Finish(t) PROVE IInv'
  BY <1>3, IterateStep, ResumeStep, WakeUpStep, FinishStep DEF ThreadLoop
<1> QED
  BY <1>1, <1>2, <1>3, StopStep DEF Next

LEMMA SpecIInv == Spec => []IInv
BY InitIInv, NextIInv, PTL DEF Spec

-----------------------------------------------------------------------------
(* What becomes of a task *)

Queued(k) == \E i \in 1..Len(queue) : queue[i] = k

\* A task that post has queued waits in the queue or runs in a thread, never
\* both, never twice, until it is done; no other task does
\* (thread_pool.rb:47-59, 128-169).
TasksKept ==
    /\ \A k \in Tasks : post[k] = "posted" <=> Queued(k) \/ \E t \in Threads : work[t] = k
    /\ \A i, j \in 1..Len(queue) : queue[i] = queue[j] => i = j \/ queue[i] = Shutdown
    /\ \A t \in Threads : work[t] # None => ~Queued(work[t]) /\ \A u \in Threads : work[u] = work[t] => u = t
    /\ \A t \in Threads : work[t] # None <=> at[t] = "work"

Awake == {t \in Threads : at[t] \in {"loop", "woken"}}

\* Nobody sleeps over work: as long as a thread waits for a signal, there are as
\* many threads on their way to the queue as it has tasks, and one with a task
\* never finds the pool without a thread (the signal of post and the checks
\* around the wait, thread_pool.rb:47-59, 128-169).
NobodySleepsOverWork ==
    ~shutdown => /\ Waiting # {} => Len(queue) <= Cardinality(Awake)
                 /\ queue # <<>> => threads \ Waiting # {}

\* After a clean shutdown the queue holds one :shutdown for each thread that is
\* left, and none of them waits for a signal (thread_pool.rb:87-94).
TokenForEachThread ==
    shutdown /\ ~unclean =>
        /\ Len(queue) = Cardinality(threads) /\ \A i \in 1..Len(queue) : queue[i] = Shutdown
        /\ Waiting = {}

-----------------------------------------------------------------------------
(* Every task is in one place *)

\* The first of the queue is popped: it was there once.
LEMMA PopTasks ==
    ASSUME IInv, TasksKept, queue # <<>>, queue' = Tail(queue)
    PROVE  /\ \A k : Queued(k) <=> k = Head(queue) \/ Queued(k)'
           /\ \A k : k = Head(queue) /\ k # Shutdown => ~Queued(k)'
           /\ \A i, j \in 1..Len(queue') : queue'[i] = queue'[j] => i = j \/ queue'[i] = Shutdown
<1>1. /\ queue \in Seq(Tasks \cup {Shutdown}) /\ Len(queue) \in Nat \ {0} /\ Len(queue') = Len(queue) - 1
      /\ Head(queue) = queue[1] /\ \A i \in 1..Len(queue') : queue'[i] = queue[i + 1]
  BY DEF IInv, TypeOK
<1>2. \A i, j \in 1..Len(queue) : queue[i] = queue[j] => i = j \/ queue[i] = Shutdown
  BY DEF TasksKept
<1>3. ASSUME NEW k, Queued(k) PROVE k = Head(queue) \/ Queued(k)'
  <2>1. PICK i \in 1..Len(queue) : queue[i] = k
    BY <1>3 DEF Queued
  <2>2. CASE i = 1
    BY <1>1, <2>1, <2>2
  <2>3. CASE i # 1
    <3>1. i - 1 \in 1..Len(queue') /\ queue'[i - 1] = k
      BY <1>1, <2>1, <2>3
    <3> QED
      BY <3>1 DEF Queued
  <2> QED
    BY <2>2, <2>3
<1>4. ASSUME NEW k, Queued(k)' PROVE Queued(k) /\ (k = Head(queue) => k = Shutdown)
  <2>1. PICK i \in 1..Len(queue') : queue'[i] = k
    BY <1>4 DEF Queued
  <2>2. i + 1 \in 1..Len(queue) /\ queue[i + 1] = k /\ 1 \in 1..Len(queue) /\ i + 1 # 1
    BY <1>1, <2>1
  <2> QED
    BY <1>1, <1>2, <2>2 DEF Queued
<1>5. Queued(Head(queue))
  BY <1>1 DEF Queued
<1>6. ASSUME NEW i \in 1..Len(queue'), NEW j \in 1..Len(queue'), queue'[i] = queue'[j]
      PROVE  i = j \/ queue'[i] = Shutdown
  <2>1. i + 1 \in 1..Len(queue) /\ j + 1 \in 1..Len(queue) /\ queue[i + 1] = queue[j + 1]
    BY <1>1, <1>6
  <2>2. i + 1 = j + 1 \/ queue[i + 1] = Shutdown
    BY <1>2, <2>1
  <2> QED
    BY <1>1, <2>1, <2>2
<1> QED
  BY <1>3, <1>4, <1>5, <1>6

\* A pop hands a task from the queue to a thread that has none.
LEMMA TakeKeepsTasks ==
    ASSUME IInv, TasksKept, NEW t \in Threads, at[t] \in {"loop", "woken"}, Take(t), UNCHANGED post
    PROVE  TasksKept'
<1>1. /\ queue # <<>> /\ queue' = Tail(queue) /\ Head(queue) \in Tasks \cup {Shutdown}
      /\ Shutdown \notin Tasks /\ None \notin Tasks /\ work \in [Threads -> Tasks \cup {None}]
      /\ at \in [Threads -> {"loop", "waiting", "woken", "work", "ended"}]
  BY PopQueue, ThreadPoolAssumption DEF Take, IInv, TypeOK
<1>2. /\ \A k : Queued(k) <=> k = Head(queue) \/ Queued(k)'
      /\ \A k : k = Head(queue) /\ k # Shutdown => ~Queued(k)'
      /\ \A i, j \in 1..Len(queue') : queue'[i] = queue'[j] => i = j \/ queue'[i] = Shutdown
  BY <1>1, PopTasks
<1>3. work[t] = None /\ at[t] # "work"
  BY DEF TasksKept
<1>4. CASE Head(queue) = Shutdown /\ End(t) /\ UNCHANGED <<busy_threads, work>>
  <2>1. \A k \in Tasks : Queued(k)' <=> Queued(k)
    BY <1>1, <1>2, <1>4
  <2>2. \A u \in Threads : at'[u] = "work" <=> at[u] = "work"
    BY <1>1, <1>3, <1>4 DEF End
  <2>3. ASSUME NEW u \in Threads, work'[u] # None PROVE ~Queued(work[u])'
    <3>1. work[u] \in Tasks /\ ~Queued(work[u]) /\ work'[u] = work[u]
      BY <1>1, <1>4, <2>3 DEF TasksKept
    <3>2. \A k : k = work[u] => ~Queued(k)'
      BY <2>1, <3>1
    <3> QED
      BY <3>1, <3>2, <1>4
  <2> QED
    BY <1>1, <1>2, <1>4, <2>1, <2>2, <2>3 DEF TasksKept
<1>5. CASE Head(queue) # Shutdown
  <2> DEFINE k0 == Head(queue)
             new == threads' \ threads
  <2>1. /\ work' = [work EXCEPT ![t] = k0] /\ k0 \in Tasks
        /\ \A u \in Threads : at'[u] = "work" <=> at[u] = "work" \/ u = t
    <3>1. Take(t) /\ Head(queue) # Shutdown
      BY <1>5
    <3>2. k0 \in Tasks
      BY <1>1, <1>5
    <3>3. ASSUME NEW u \in Threads PROVE at'[u] = "work" <=> at[u] = "work" \/ u = t
      <4> DEFINE grown == IF Grows(Tail(queue), busy_threads \cup {t}) THEN Fresh(1) ELSE {}
      <4>1. at' = [v \in Threads |-> IF v = t THEN "work" ELSE IF v \in grown THEN "loop" ELSE at[v]]
        BY <3>1 DEF Take
      <4>2. grown \subseteq Threads \ threads
        BY FreshOne DEF Grows, IInv
      <4>3. \A v \in Threads \ threads : at[v] # "work"
        BY DEF IInv, TypeOK
      <4> HIDE DEF grown
      <4> QED
        BY <4>1, <4>2, <4>3
    <3> QED
      BY <3>1, <3>2, <3>3 DEF Take
  <2> HIDE DEF k0
  <2>2. /\ \A k : Queued(k) <=> k = k0 \/ Queued(k)'
        /\ \A k : k = k0 => ~Queued(k)'
    BY <1>2, <1>5 DEF k0
  <2>3. \A u \in Threads : work'[u] = IF u = t THEN k0 ELSE work[u]
    BY <1>1, <2>1
  <2>4. \A u \in Threads : work[u] # None => work[u] # k0
    BY <2>2 DEF TasksKept
  <2>5. \A k \in Tasks : post'[k] = "posted" <=> Queued(k)' \/ \E u \in Threads : work'[u] = k
    <3> SUFFICES ASSUME NEW k \in Tasks
                 PROVE  post[k] = "posted" <=> Queued(k)' \/ \E u \in Threads : work'[u] = k
      OBVIOUS
    <3>1. post[k] = "posted" <=> Queued(k) \/ \E u \in Threads : work[u] = k
      BY DEF TasksKept
    <3>2. (\E u \in Threads : work'[u] = k) <=> k = k0 \/ \E u \in Threads : work[u] = k
      BY <1>1, <1>3, <2>3
    <3> QED
      BY <2>2, <3>1, <3>2
  <2>6. ASSUME NEW u \in Threads, work'[u] # None
        PROVE  (\A k : k = work'[u] => ~Queued(k)') /\ \A v \in Threads : work'[v] = work'[u] => v = u
    <3>1. CASE u = t
      BY <3>1, <1>1, <2>1, <2>2, <2>3, <2>4
    <3>2. CASE u # t
      <4>1. work'[u] = work[u] /\ work[u] # None /\ work[u] # k0 /\ ~Queued(work[u])
        BY <3>2, <2>3, <2>4, <2>6 DEF TasksKept
      <4>2. \A k : k = work'[u] => ~Queued(k)'
        BY <4>1, <2>2
      <4>3. \A v \in Threads : work'[v] = work'[u] => v = u
        BY <4>1, <2>3 DEF TasksKept
      <4> QED
        BY <4>2, <4>3
    <3> QED
      BY <3>1, <3>2
  <2>7. \A u \in Threads : work'[u] # None <=> at'[u] = "work"
    BY <1>1, <2>1, <2>3 DEF TasksKept
  <2>8. \A u \in Threads : work'[u] # None => ~Queued(work[u])'
    BY <2>6
  <2> QED
    BY <1>2, <2>5, <2>6, <2>7, <2>8 DEF TasksKept
<1> QED
  BY <1>4, <1>5 DEF Take

\* A step that leaves queue, work and post alone, and starts or ends no task.
LEMMA RestKeepsTasks ==
    ASSUME TasksKept, UNCHANGED <<queue, work, post>>, \A t \in Threads : at'[t] = "work" <=> at[t] = "work"
    PROVE  TasksKept'
BY DEF TasksKept, Queued

LEMMA CheckKeepsTasks == ASSUME IInv, TasksKept, NEW k \in Tasks, Check(k) PROVE TasksKept'
<1>1. \A l \in Tasks : post'[l] = "posted" <=> post[l] = "posted"
  BY DEF Check, IInv, TypeOK
<1> QED
  BY <1>1 DEF Check, TasksKept, Queued

\* post queues a task that is in no place yet.
LEMMA EnqueueKeepsTasks == ASSUME IInv, TasksKept, NEW k \in Tasks, Enqueue(k) PROVE TasksKept'
<1>1. /\ queue \in Seq(Tasks \cup {Shutdown}) /\ queue' = Append(queue, k) /\ work' = work
      /\ post[k] = "checked" /\ post' = [post EXCEPT ![k] = "posted"]
      /\ post \in [Tasks -> {"new", "checked", "refused", "posted", "done"}]
      /\ Shutdown \notin Tasks /\ None \notin Tasks /\ work \in [Threads -> Tasks \cup {None}]
  BY ThreadPoolAssumption DEF Enqueue, IInv, TypeOK
<1>2. /\ Len(queue) \in Nat /\ Len(queue') = Len(queue) + 1 /\ queue'[Len(queue) + 1] = k
      /\ \A i \in 1..Len(queue) : queue'[i] = queue[i]
  BY <1>1
<1>3. \A l : Queued(l)' <=> Queued(l) \/ l = k
  BY <1>2 DEF Queued
<1>4. ~Queued(k) /\ \A t \in Threads : work[t] # k
  BY <1>1 DEF TasksKept
<1>5. \A t \in Threads : at'[t] = "work" <=> at[t] = "work"
  <2>1. PICK stay \in Signalled :
          at' = [t \in Threads |-> IF t \in threads' \ threads THEN "loop"
                                   ELSE IF t \in Waiting \ stay THEN "woken" ELSE at[t]]
    BY DEF Enqueue
  <2>2. \A t \in threads' \ threads : t \in Threads => at[t] # "work"
    BY DEF IInv, TypeOK
  <2> QED
    BY <2>1, <2>2 DEF Waiting
<1>6. \A l \in Tasks : post'[l] = "posted" <=> Queued(l)' \/ \E t \in Threads : work'[t] = l
  BY <1>1, <1>3, <1>4 DEF TasksKept
<1>7. \A i, j \in 1..Len(queue') : queue'[i] = queue'[j] => i = j \/ queue'[i] = Shutdown
  BY <1>2, <1>4 DEF TasksKept, Queued
<1>8. \A t \in Threads : work'[t] # None => ~Queued(work[t])'
  BY <1>1, <1>3, <1>4 DEF TasksKept
<1> QED
  BY <1>1, <1>5, <1>6, <1>7, <1>8 DEF TasksKept

\* The queue after shutdown: the same tasks, and then a :shutdown for each thread.
LEMMA StopQueue ==
    ASSUME IInv, Stop
    PROVE  /\ Tokens \in Nat /\ Len(queue) \in Nat /\ Len(queue') = Len(queue) + Tokens
           /\ \A i \in 1..Len(queue) : queue'[i] = queue[i]
           /\ \A i \in 1..Len(queue') : i > Len(queue) => queue'[i] = Shutdown
<1> DEFINE tokens == [i \in 1..Tokens |-> Shutdown]
<1>1. queue \in Seq(Tasks \cup {Shutdown}) /\ Tokens \in Nat
  BY ThreadsFinite DEF IInv, TypeOK, Tokens
<1>2. tokens \in Seq({Shutdown}) /\ Len(tokens) = Tokens /\ \A i \in 1..Tokens : tokens[i] = Shutdown
  BY <1>1
<1>3. queue' = queue \o tokens
  BY DEF Stop
<1> HIDE DEF tokens
<1>0. queue \in Seq(Tasks \cup {Shutdown}) /\ tokens \in Seq(Tasks \cup {Shutdown})
  BY <1>1, <1>2
<1>4. Len(queue \o tokens) = Len(queue) + Tokens
  BY <1>0, <1>2
<1>5. \A i \in 1..Len(queue) : (queue \o tokens)[i] = queue[i]
  BY <1>0, <1>2
<1>6. /\ Len(queue) \in Nat /\ Len(queue') = Len(queue) + Tokens
      /\ \A i \in 1..Len(queue) : queue'[i] = queue[i]
      /\ \A i \in 1..Tokens : queue'[Len(queue) + i] = tokens[i]
  <2>1. Len(queue) \in Nat /\ \A i \in 1..Tokens : (queue \o tokens)[Len(queue) + i] = tokens[i]
    BY <1>0, <1>2
  <2> QED
    BY <2>1, <1>3, <1>4, <1>5
<1>7. ASSUME NEW i \in 1..Len(queue'), i > Len(queue) PROVE queue'[i] = Shutdown
  <2>1. i - Len(queue) \in 1..Tokens /\ Len(queue) + (i - Len(queue)) = i
    BY <1>1, <1>6, <1>7
  <2> QED
    BY <1>2, <1>6, <2>1
<1> QED
  BY <1>1, <1>6, <1>7

LEMMA StopKeepsTasks == ASSUME IInv, TasksKept, Stop PROVE TasksKept'
<1>1. /\ Shutdown \notin Tasks /\ None \notin Tasks /\ work \in [Threads -> Tasks \cup {None}]
      /\ work' = work /\ post' = post /\ at' = [t \in Threads |-> IF t \in Waiting THEN "woken" ELSE at[t]]
  BY ThreadPoolAssumption DEF Stop, IInv, TypeOK
<1>2. \A k \in Tasks : Queued(k)' <=> Queued(k)
  BY <1>1, StopQueue DEF Queued
<1>3. \A i, j \in 1..Len(queue') : queue'[i] = queue'[j] => i = j \/ queue'[i] = Shutdown
  BY StopQueue DEF TasksKept
<1>4. \A t \in Threads : work'[t] # None => ~Queued(work[t])'
  BY <1>1, <1>2 DEF TasksKept
<1> QED
  BY <1>1, <1>2, <1>3, <1>4 DEF TasksKept, Waiting

\* A task is done: its thread has none any more.
LEMMA FinishKeepsTasks == ASSUME IInv, TasksKept, NEW t \in Threads, Finish(t) PROVE TasksKept'
<1> DEFINE k == work[t]
<1>1. /\ None \notin Tasks /\ work \in [Threads -> Tasks \cup {None}] /\ at[t] = "work" /\ k # None
      /\ queue' = queue /\ work' = [work EXCEPT ![t] = None] /\ post' = [post EXCEPT ![k] = "done"]
      /\ at' = [at EXCEPT ![t] = "loop"] /\ at \in [Threads -> {"loop", "waiting", "woken", "work", "ended"}]
      /\ post \in [Tasks -> {"new", "checked", "refused", "posted", "done"}]
  BY ThreadPoolAssumption DEF Finish, IInv, TypeOK, TasksKept
<1>2. k \in Tasks /\ ~Queued(k) /\ \A u \in Threads : work[u] = k => u = t
  BY <1>1 DEF TasksKept
<1> HIDE DEF k
<1>3. \A l : Queued(l)' <=> Queued(l)
  BY <1>1 DEF Queued
<1>4. \A u \in Threads : work'[u] = IF u = t THEN None ELSE work[u]
  BY <1>1
<1>5. work[t] = k
  BY DEF k
<1>6. \A l \in Tasks : post'[l] = "posted" <=> Queued(l)' \/ \E u \in Threads : work'[u] = l
  BY <1>1, <1>2, <1>3, <1>4, <1>5 DEF TasksKept
<1>7. \A u \in Threads : work'[u] # None => ~Queued(work[u])' /\ \A v \in Threads : work'[v] = work'[u] => v = u
  BY <1>3, <1>4 DEF TasksKept
<1>8. \A u \in Threads : work'[u] # None <=> at'[u] = "work"
  BY <1>1, <1>4 DEF TasksKept
<1>9. \A i, j \in 1..Len(queue') : queue'[i] = queue'[j] => i = j \/ queue'[i] = Shutdown
  BY <1>1 DEF TasksKept
<1> QED
  BY <1>6, <1>7, <1>8, <1>9 DEF TasksKept

LEMMA NextKeepsTasks == ASSUME IInv, TasksKept, [Next]_vars PROVE TasksKept'
<1>1. CASE UNCHANGED vars
  BY <1>1, RestKeepsTasks DEF vars
<1>2. ASSUME NEW k \in Tasks, Check(k) \/ Enqueue(k) PROVE TasksKept'
  BY <1>2, CheckKeepsTasks, EnqueueKeepsTasks
<1>3. ASSUME NEW t \in Threads, ThreadLoop(t) PROVE TasksKept'
  <2>1. CASE at[t] \in {"loop", "woken"} /\ Take(t) /\ UNCHANGED post
    BY <2>1, TakeKeepsTasks
  <2>2. CASE /\ at[t] \in {"loop", "woken"} /\ UNCHANGED <<queue, work, post>>
             /\ \E a \in {"waiting", "ended", "loop"} : at' = [at EXCEPT ![t] = a]
    <3>1. at \in [Threads -> {"loop", "waiting", "woken", "work", "ended"}]
      BY DEF IInv, TypeOK
    <3>2. \A u \in Threads : at'[u] = "work" <=> at[u] = "work"
      BY <2>2, <3>1
    <3> QED
      BY <2>2, <3>2, RestKeepsTasks
  <2> QED
    BY <1>3, <2>1, <2>2 DEF ThreadLoop, Iterate, Resume, End
<1>4. ASSUME NEW t \in Threads, WakeUp(t) PROVE TasksKept'
  <2>1. \A u \in Threads : at'[u] = "work" <=> at[u] = "work"
    BY <1>4 DEF WakeUp, IInv, TypeOK
  <2> QED
    BY <1>4, <2>1, RestKeepsTasks DEF WakeUp
<1>5. ASSUME NEW t \in Threads, Finish(t) PROVE TasksKept'
  BY <1>5, FinishKeepsTasks
<1> QED
  BY <1>1, <1>2, <1>3, <1>4, <1>5, StopKeepsTasks DEF Next

-----------------------------------------------------------------------------
(* Nobody sleeps over work *)

LEMMA AwakeFinite ==
    ASSUME NEW S \in SUBSET Threads
    PROVE  /\ IsFiniteSet(S) /\ Cardinality(S) \in Nat
           /\ \A T \in SUBSET S : Cardinality(T) <= Cardinality(S)
           /\ \A t \in S : Cardinality(S \ {t}) = Cardinality(S) - 1
           /\ \A t \in Threads \ S : Cardinality(S \cup {t}) = Cardinality(S) + 1
BY FS_Subset, FS_CardinalityType, FS_RemoveElement, FS_AddElement, ThreadPoolAssumption

\* A step that queues nothing, lets nobody go to sleep and takes no thread from
\* its way to the queue.
LEMMA RestSleeps ==
    ASSUME IInv, NobodySleepsOverWork, shutdown => shutdown', queue' = queue,
           Waiting' \subseteq Waiting, Awake \subseteq Awake', threads \subseteq threads'
    PROVE  NobodySleepsOverWork'
<1> SUFFICES ASSUME ~shutdown' PROVE NobodySleepsOverWork'
  BY DEF NobodySleepsOverWork
<1>1. /\ Waiting # {} => Len(queue) <= Cardinality(Awake)
      /\ queue # <<>> => threads \ Waiting # {}
  BY DEF NobodySleepsOverWork
<1>2. Awake' \in SUBSET Threads /\ Awake \in SUBSET Threads
  BY DEF Awake
<1>3. Cardinality(Awake) <= Cardinality(Awake') /\ Cardinality(Awake) \in Nat /\ Cardinality(Awake') \in Nat
  BY <1>2, AwakeFinite
<1>4. Len(queue) \in Nat
  BY DEF IInv, TypeOK
<1> QED
  BY <1>1, <1>3, <1>4 DEF NobodySleepsOverWork

LEMMA EnqueueSleeps == ASSUME IInv, NobodySleepsOverWork, NEW k \in Tasks, Enqueue(k) PROVE NobodySleepsOverWork'
<1> SUFFICES ASSUME ~shutdown PROVE NobodySleepsOverWork'
  BY DEF NobodySleepsOverWork, Enqueue
<1>1. PICK stay \in Signalled :
        at' = [t \in Threads |-> IF t \in threads' \ threads THEN "loop"
                                 ELSE IF t \in Waiting \ stay THEN "woken" ELSE at[t]]
  BY DEF Enqueue
<1>2. threads \subseteq threads' /\ \A t \in Threads \ threads : at[t] = "ended"
  BY DEF Enqueue, IInv, TypeOK
<1>3. /\ queue \in Seq(Tasks \cup {Shutdown}) /\ queue' = Append(queue, k)
      /\ at \in [Threads -> {"loop", "waiting", "woken", "work", "ended"}]
  BY DEF Enqueue, IInv, TypeOK
<1>4. Len(queue') = Len(queue) + 1 /\ Len(queue) \in Nat
  BY <1>3
<1>5. CASE Waiting = {}
  <2>1. Waiting' = {}
    BY <1>1, <1>2, <1>5 DEF Waiting
  <2>2. threads' # {}
    <3>1. CASE threads = {}
      <4>1. Cardinality(threads) < MaxThreads
        BY <3>1, FS_EmptySet, ThreadPoolAssumption
      <4> QED
        BY <3>1, <4>1, FreshOne DEF Enqueue, NeedsThread, IInv
    <3> QED
      BY <3>1, <1>2
  <2> QED
    BY <2>1, <2>2 DEF NobodySleepsOverWork
<1>6. CASE Waiting # {}
  <2>1. PICK t \in Waiting : stay = Waiting \ {t}
    BY <1>1, <1>6 DEF Signalled
  <2>2. t \in Threads /\ at[t] = "waiting" /\ t \notin Awake /\ t \in threads
    BY <1>2, <1>3 DEF Waiting, Awake
  <2>3. Awake \cup {t} \subseteq Awake'
    BY <1>1, <1>2, <1>3, <2>1, <2>2 DEF Awake, Waiting
  <2>4. Awake \in SUBSET Threads /\ Awake' \in SUBSET Threads
    BY DEF Awake
  <2>5. Cardinality(Awake') >= Cardinality(Awake) + 1 /\ Cardinality(Awake) \in Nat /\ Cardinality(Awake') \in Nat
    BY <2>2, <2>3, <2>4, AwakeFinite
  <2>6. Len(queue) <= Cardinality(Awake)
    BY <1>6 DEF NobodySleepsOverWork
  <2>7. t \in threads' \ Waiting'
    BY <1>2, <2>2, <2>3 DEF Awake, Waiting
  <2> QED
    BY <1>4, <2>5, <2>6, <2>7 DEF NobodySleepsOverWork
<1> QED
  BY <1>5, <1>6

\* A pop: one task less, and one thread less on its way to the queue.
LEMMA TakeSleeps ==
    ASSUME IInv, NobodySleepsOverWork, NEW t \in Threads, at[t] \in {"loop", "woken"}, Take(t), UNCHANGED shutdown
    PROVE  NobodySleepsOverWork'
<1> SUFFICES ASSUME ~shutdown PROVE NobodySleepsOverWork'
  BY DEF NobodySleepsOverWork
<1>1. /\ queue # <<>> /\ queue' = Tail(queue) /\ Head(queue) # Shutdown
      /\ queue \in Seq(Tasks \cup {Shutdown})
      /\ at \in [Threads -> {"loop", "waiting", "woken", "work", "ended"}]
  BY PopQueue DEF Take, IInv, TypeOK
<1>2. Len(queue') = Len(queue) - 1 /\ Len(queue) \in Nat
  BY <1>1
<1> DEFINE grown == IF Grows(Tail(queue), busy_threads \cup {t}) THEN Fresh(1) ELSE {}
<1>3. /\ threads' = threads \cup grown
      /\ at' = [v \in Threads |-> IF v = t THEN "work" ELSE IF v \in grown THEN "loop" ELSE at[v]]
  BY <1>1 DEF Take
<1>4. grown \subseteq Threads \ threads
  BY FreshOne DEF Grows, IInv
<1>5. t \in threads /\ \A v \in Threads \ threads : at[v] = "ended"
  BY DEF IInv, TypeOK
<1> HIDE DEF grown
<1>6. Waiting' = Waiting /\ Awake \ {t} \subseteq Awake' /\ t \in Awake /\ t \in threads' \ Waiting'
  BY <1>1, <1>3, <1>4, <1>5 DEF Waiting, Awake
<1>7. Awake \in SUBSET Threads /\ Awake' \in SUBSET Threads
  BY DEF Awake
<1>8. Cardinality(Awake') >= Cardinality(Awake) - 1 /\ Cardinality(Awake) \in Nat /\ Cardinality(Awake') \in Nat
  BY <1>6, <1>7, AwakeFinite
<1> QED
  BY <1>2, <1>6, <1>8 DEF NobodySleepsOverWork

LEMMA NextSleeps == ASSUME IInv, NobodySleepsOverWork, [Next]_vars PROVE NobodySleepsOverWork'
<1>0. at \in [Threads -> {"loop", "waiting", "woken", "work", "ended"}]
  BY DEF IInv, TypeOK
<1>1. CASE UNCHANGED vars
  BY <1>1, RestSleeps DEF vars, Waiting, Awake
<1>2. ASSUME NEW k \in Tasks, Check(k) PROVE NobodySleepsOverWork'
  BY <1>2, RestSleeps DEF Check, Waiting, Awake
<1>3. ASSUME NEW k \in Tasks, Enqueue(k) PROVE NobodySleepsOverWork'
  BY <1>3, EnqueueSleeps
<1>4. ASSUME Stop PROVE NobodySleepsOverWork'
  BY <1>4 DEF Stop, NobodySleepsOverWork
<1>5. ASSUME NEW t \in Threads, ThreadLoop(t) PROVE NobodySleepsOverWork'
  <2>1. CASE at[t] \in {"loop", "woken"} /\ Take(t) /\ UNCHANGED shutdown
    BY <2>1, TakeSleeps
  <2>2. CASE queue = <<>> /\ queue' = queue
    <3>1. Awake' \in SUBSET Threads
      BY DEF Awake
    <3>2. Cardinality(Awake') \in Nat
      BY <3>1, AwakeFinite
    <3>3. Len(queue') = 0
      BY <2>2
    <3> QED
      BY <2>2, <3>2, <3>3 DEF NobodySleepsOverWork
  <2> QED
    BY <1>5, <2>1, <2>2 DEF ThreadLoop, Iterate, Resume
<1>6. ASSUME NEW t \in Threads, WakeUp(t) \/ Finish(t) PROVE NobodySleepsOverWork'
  <2>1. /\ \E a \in {"woken", "loop"} : at' = [at EXCEPT ![t] = a]
        /\ at[t] \in {"waiting", "work"} /\ UNCHANGED <<shutdown, queue, threads>>
    BY <1>6 DEF WakeUp, Finish
  <2>2. Waiting' \subseteq Waiting /\ Awake \subseteq Awake'
    BY <1>0, <2>1 DEF Waiting, Awake
  <2> QED
    BY <2>1, <2>2, RestSleeps
<1> QED
  BY <1>1, <1>2, <1>3, <1>4, <1>5, <1>6 DEF Next

-----------------------------------------------------------------------------
(* After a clean shutdown *)

LEMMA RestTokens ==
    ASSUME TokenForEachThread, UNCHANGED <<queue, threads, shutdown, unclean>>, Waiting' \subseteq Waiting
    PROVE  TokenForEachThread'
BY DEF TokenForEachThread

\* shutdown wakes everybody, and queues as many as there are threads.
LEMMA StopTokens == ASSUME IInv, Stop PROVE TokenForEachThread'
<1> SUFFICES ASSUME ~unclean'
             PROVE  /\ Len(queue') = Cardinality(threads') /\ \A i \in 1..Len(queue') : queue'[i] = Shutdown
                    /\ Waiting' = {}
  BY DEF TokenForEachThread
<1>1. queue = <<>> /\ threads' = threads
  BY DEF Stop
<1>2. Len(queue') = Cardinality(threads) /\ \A i \in 1..Len(queue') : queue'[i] = Shutdown
  BY <1>1, StopQueue DEF Tokens
<1>3. Waiting' = {}
  BY DEF Stop, Waiting
<1> QED
  BY <1>1, <1>2, <1>3

\* A thread that pops its :shutdown takes itself away with it.
LEMMA TakeTokens ==
    ASSUME IInv, TokenForEachThread, NEW t \in Threads, at[t] \in {"loop", "woken"}, Take(t), UNCHANGED <<shutdown, unclean>>
    PROVE  TokenForEachThread'
<1> SUFFICES ASSUME shutdown, ~unclean PROVE TokenForEachThread'
  BY DEF TokenForEachThread
<1>1. /\ queue # <<>> /\ queue' = Tail(queue) /\ queue \in Seq(Tasks \cup {Shutdown})
      /\ \A i \in 1..Len(queue) : queue[i] = Shutdown
      /\ Len(queue) = Cardinality(threads) /\ Waiting = {}
  BY DEF Take, IInv, TypeOK, TokenForEachThread
<1>2. Head(queue) = Shutdown /\ Len(queue') = Len(queue) - 1 /\ \A i \in 1..Len(queue') : queue'[i] = Shutdown
  BY <1>1
<1>3. End(t)
  BY <1>2 DEF Take
<1>4. t \in threads /\ threads' = threads \ {t} /\ threads \in SUBSET Threads
  BY <1>3 DEF End, IInv, TypeOK
<1>5. Cardinality(threads') = Cardinality(threads) - 1
  BY <1>4, AwakeFinite
<1>6. Waiting' = {}
  BY <1>1, <1>3 DEF End, Waiting, IInv, TypeOK
<1> QED
  BY <1>1, <1>2, <1>5, <1>6 DEF TokenForEachThread

LEMMA NextTokens == ASSUME IInv, TokenForEachThread, [Next]_vars PROVE TokenForEachThread'
<1>0. at \in [Threads -> {"loop", "waiting", "woken", "work", "ended"}]
  BY DEF IInv, TypeOK
<1>1. CASE UNCHANGED vars
  BY <1>1, RestTokens DEF vars, Waiting
<1>2. ASSUME NEW k \in Tasks, Check(k) PROVE TokenForEachThread'
  BY <1>2, RestTokens DEF Check, Waiting
<1>3. ASSUME NEW k \in Tasks, Enqueue(k) PROVE TokenForEachThread'
  BY <1>3 DEF Enqueue, TokenForEachThread
<1>4. ASSUME NEW t \in Threads, ThreadLoop(t) PROVE TokenForEachThread'
  <2>1. CASE at[t] \in {"loop", "woken"} /\ Take(t) /\ UNCHANGED <<shutdown, unclean>>
    BY <2>1, TakeTokens
  <2>2. CASE queue = <<>> /\ at[t] \in {"loop", "woken"} /\ UNCHANGED <<shutdown, unclean>>
    <3>1. t \in threads /\ threads \in SUBSET Threads
      BY <2>2 DEF IInv, TypeOK
    <3>2. Cardinality(threads) # 0
      BY <3>1, FS_EmptySet, AwakeFinite
    <3>3. Len(queue) = 0
      BY <2>2
    <3> QED
      BY <2>2, <3>2, <3>3 DEF TokenForEachThread
  <2> QED
    BY <1>4, <2>1, <2>2 DEF ThreadLoop, Iterate, Resume
<1>5. ASSUME NEW t \in Threads, WakeUp(t) \/ Finish(t) PROVE TokenForEachThread'
  <2>1. /\ \E a \in {"woken", "loop"} : at' = [at EXCEPT ![t] = a]
        /\ UNCHANGED <<shutdown, unclean, queue, threads>>
    BY <1>5 DEF WakeUp, Finish
  <2>2. Waiting' \subseteq Waiting
    BY <1>0, <2>1 DEF Waiting
  <2> QED
    BY <2>1, <2>2, RestTokens
<1> QED
  BY <1>1, <1>2, <1>3, <1>4, <1>5, StopTokens DEF Next

-----------------------------------------------------------------------------
(* All together *)

LEMMA InitPool == Init => TasksKept /\ NobodySleepsOverWork /\ TokenForEachThread
<1> SUFFICES ASSUME Init PROVE TasksKept /\ NobodySleepsOverWork /\ TokenForEachThread
  OBVIOUS
<1>1. queue = <<>> /\ shutdown = FALSE /\ Len(queue) = 0
  BY DEF Init
<1>2. \A k : ~Queued(k)
  BY <1>1 DEF Queued
<1>3. (\A t \in Threads : work[t] = None /\ at[t] # "work") /\ \A k \in Tasks : post[k] = "new"
  BY DEF Init
<1>4. TasksKept
  BY <1>1, <1>2, <1>3, ThreadPoolAssumption DEF TasksKept
<1>5. Waiting = {}
  BY DEF Init, Waiting
<1> QED
  BY <1>1, <1>4, <1>5 DEF NobodySleepsOverWork, TokenForEachThread

\* The four hold together in every reachable state.
LEMMA PoolInvariance == Spec => [](IInv /\ TasksKept /\ NobodySleepsOverWork /\ TokenForEachThread)
<1> DEFINE Inv == IInv /\ TasksKept /\ NobodySleepsOverWork /\ TokenForEachThread
<1>1. Init => Inv
  BY InitIInv, InitPool
<1>2. Inv /\ [Next]_vars => Inv'
  BY NextIInv, NextKeepsTasks, NextSleeps, NextTokens
<1> QED
  BY <1>1, <1>2, PTL DEF Spec

-----------------------------------------------------------------------------
(* Theorems *)

\* @threads are the threads that run and @busy_threads those with a task.
THEOREM PoolTypeCorrect == Spec => []TypeOK
<1>1. IInv => TypeOK
  BY DEF IInv
<1> QED
  BY <1>1, SpecIInv, PTL

\* "It maintains a minimum number of threads and can scale up to a maximum
\* number" (thread_pool.rb:5).
THEOREM PoolWithinLimits == Spec => []WithinLimits
<1>1. IInv => WithinLimits
  BY DEF IInv
<1> QED
  BY <1>1, SpecIInv, PTL

\* TasksKept: a task that post has queued waits in the queue or runs in one
\* thread until it is done, and no other task does (thread_pool.rb:47-59,
\* 128-169), whatever threads end, are started or wake up meanwhile.
THEOREM AcceptedTaskIsKept == Spec => []TasksKept
BY PoolInvariance, PTL

\* NobodySleepsOverWork: no signal is lost between a look at the queue and the
\* wait (thread_pool.rb:57, 143-153), the reason why an accepted task runs.
THEOREM NobodySleeps == Spec => []NobodySleepsOverWork
BY PoolInvariance, PTL

\* TokenForEachThread: shutdown queues as many :shutdown as there are threads
\* to end (thread_pool.rb:87-94), the reason why a clean shutdown ends them all.
THEOREM TokensSuffice == Spec => []TokenForEachThread
BY PoolInvariance, PTL
=============================================================================
