----------------------------- MODULE ThreadPool -----------------------------
(***************************************************************************)
(* lib/scheduler/thread_pool.rb: threads that take tasks from a queue.     *)
(* Every access to the pool is inside one Mutex, so a synchronized block,  *)
(* or its part before or after ConditionVariable#wait, is one step.        *)
(***************************************************************************)
EXTENDS Naturals, Sequences, FiniteSets

CONSTANTS
    Threads,        \* identities for threads, used again after a thread ended
    Tasks,          \* blocks given to post, each by a thread of its own
    MinThreads,     \* the values min_threads may be given
    MaxThreads      \* @max_threads

None == "none"
Shutdown == "shutdown"

ASSUME ThreadPoolAssumption ==
    /\ MaxThreads \in Nat \ {0} /\ MinThreads \subseteq 0..MaxThreads
    /\ IsFiniteSet(Threads) /\ Cardinality(Threads) >= MaxThreads
    /\ None \notin Tasks /\ Shutdown \notin Tasks

VARIABLES
    min_threads,    \* @min_threads
    queue,          \* @queue: tasks, and :shutdown
    threads,        \* @threads
    busy_threads,   \* @busy_threads
    shutdown,       \* @shutdown
    at,             \* where each thread is in thread_loop
    work,           \* the task each thread runs, None without one
    post,           \* where each task is: "new", "checked", "refused", "posted", "done"
    unclean         \* (history) tasks waited at the shutdown or were posted after it

vars == <<min_threads, queue, threads, busy_threads, shutdown, at, work, post, unclean>>

\* the first n identities that no thread has now
Fresh(n) == CHOOSE S \in SUBSET (Threads \ threads) : Cardinality(S) = n

Init ==
    \E n \in MinThreads, S \in SUBSET Threads :
        /\ Cardinality(S) = n
        /\ min_threads = n
        /\ queue = <<>>
        /\ threads = S
        /\ busy_threads = {}
        /\ shutdown = FALSE
        /\ at = [t \in Threads |-> IF t \in S THEN "loop" ELSE "ended"]
        /\ work = [t \in Threads |-> None]
        /\ post = [k \in Tasks |-> "new"]
        /\ unclean = FALSE

Waiting == {t \in Threads : at[t] = "waiting"}

-----------------------------------------------------------------------------
(* post and shutdown *)

\* post looks at the flag in one synchronized block ...
Check(k) ==
    /\ post[k] = "new"
    /\ post' = [post EXCEPT ![k] = IF shutdown THEN "refused" ELSE "checked"]
    /\ UNCHANGED <<min_threads, queue, threads, busy_threads, shutdown, at, work, unclean>>

Signalled_Never_M == {Waiting}

\* @new_work.signal: one of the waiting threads is left out of those that
\* go on waiting
Signalled == IF Waiting = {} THEN {{}} ELSE {Waiting \ {t} : t \in Waiting}

\* a thread is started when there is none
NeedsThread == IF threads = {} THEN 1 ELSE 0

\* ... and queues the block in another
Enqueue(k) ==
    /\ post[k] = "checked"
    /\ post' = [post EXCEPT ![k] = "posted"]
    /\ queue' = Append(queue, k)
    /\ threads' = threads \cup Fresh(NeedsThread)
    /\ \E stay \in Signalled :
         at' = [t \in Threads |-> IF t \in threads' \ threads THEN "loop"
                                  ELSE IF t \in Waiting \ stay THEN "woken" ELSE at[t]]
    /\ unclean' = (unclean \/ shutdown)
    /\ UNCHANGED <<min_threads, busy_threads, shutdown, work>>

Tokens_OneShort_M == Cardinality(threads) - 1

\* shutdown queues one :shutdown for each thread
Tokens == Cardinality(threads)

Stop ==
    /\ ~shutdown
    /\ shutdown' = TRUE
    /\ queue' = queue \o [i \in 1..Tokens |-> Shutdown]
    /\ at' = [t \in Threads |-> IF t \in Waiting THEN "woken" ELSE at[t]]
    /\ unclean' = (queue # <<>>)
    /\ UNCHANGED <<min_threads, threads, busy_threads, work, post>>

-----------------------------------------------------------------------------
(* thread_loop *)

End_StaysListed_M(t) ==
    /\ threads' = threads
    /\ at' = [at EXCEPT ![t] = "ended"]

\* the thread leaves the pool
End(t) ==
    /\ threads' = threads \ {t}
    /\ at' = [at EXCEPT ![t] = "ended"]

MayEnd_OffByOne_M == Cardinality(threads) >= min_threads

\* an idle thread ends when the pool has more than it must keep
MayEnd == Cardinality(threads) > min_threads

\* more work, nobody idle, and room for one more thread
Grows(rest, busy) ==
    /\ rest # <<>>
    /\ Cardinality(threads) < MaxThreads
    /\ Cardinality(busy) = Cardinality(threads)

\* the part of the block that deals with what was popped
Take(t) ==
    LET rest == Tail(queue)
        busy == busy_threads \cup {t}
        new  == IF Grows(rest, busy) THEN Fresh(1) ELSE {}
    IN  /\ queue # <<>>
        /\ queue' = rest
        /\ \/ /\ Head(queue) = Shutdown
              /\ End(t)
              /\ UNCHANGED <<busy_threads, work>>
           \/ /\ Head(queue) # Shutdown
              /\ busy_threads' = busy
              /\ work' = [work EXCEPT ![t] = Head(queue)]
              /\ threads' = threads \cup new
              /\ at' = [u \in Threads |-> IF u = t THEN "work"
                                          ELSE IF u \in new THEN "loop" ELSE at[u]]

\* the block from its beginning: work, or the wait for a signal
Iterate(t) ==
    /\ at[t] = "loop"
    /\ \/ Take(t)
       \/ /\ queue = <<>>
          /\ at' = [at EXCEPT ![t] = "waiting"]
          /\ UNCHANGED <<queue, threads, busy_threads, work>>
    /\ UNCHANGED <<min_threads, shutdown, post, unclean>>

\* idle_time is over, or the thread wakes without reason
WakeUp(t) ==
    /\ at[t] = "waiting"
    /\ at' = [at EXCEPT ![t] = "woken"]
    /\ UNCHANGED <<min_threads, queue, threads, busy_threads, shutdown, work, post, unclean>>

\* the block after the wait
Resume(t) ==
    /\ at[t] = "woken"
    /\ \/ Take(t)
       \/ /\ queue = <<>>
          /\ MayEnd
          /\ End(t)
          /\ UNCHANGED <<queue, busy_threads, work>>
       \/ /\ queue = <<>>
          /\ ~MayEnd
          /\ at' = [at EXCEPT ![t] = "loop"]
          /\ UNCHANGED <<queue, threads, busy_threads, work>>
    /\ UNCHANGED <<min_threads, shutdown, post, unclean>>

\* the task returned or raised, and the ensure takes the thread out of the busy
Finish(t) ==
    /\ at[t] = "work"
    /\ post' = [post EXCEPT ![work[t]] = "done"]
    /\ work' = [work EXCEPT ![t] = None]
    /\ busy_threads' = busy_threads \ {t}
    /\ at' = [at EXCEPT ![t] = "loop"]
    /\ UNCHANGED <<min_threads, queue, threads, shutdown, unclean>>

-----------------------------------------------------------------------------
ThreadLoop(t) == Iterate(t) \/ Resume(t)

Next ==
    \/ Stop
    \/ \E k \in Tasks : Check(k) \/ Enqueue(k)
    \/ \E t \in Threads : ThreadLoop(t) \/ WakeUp(t) \/ Finish(t)

Spec == Init /\ [][Next]_vars

\* Ruby schedules every thread, and a post that passed the check goes on.
Scheduling ==
    /\ \A t \in Threads : WF_vars(ThreadLoop(t))
    /\ \A k \in Tasks : WF_vars(Enqueue(k))

\* Tasks end.  idle_time may be as long as one likes, so nothing is assumed of
\* WakeUp.
FairSpec == Spec /\ Scheduling /\ \A t \in Threads : WF_vars(Finish(t))

-----------------------------------------------------------------------------
(* Properties *)

\* @threads are the threads that run, and @busy_threads those with a task.
TypeOK ==
    /\ min_threads \in MinThreads
    /\ queue \in Seq(Tasks \cup {Shutdown})
    /\ at \in [Threads -> {"loop", "waiting", "woken", "work", "ended"}]
    /\ threads = {t \in Threads : at[t] # "ended"}
    /\ busy_threads = {t \in Threads : at[t] = "work"}
    /\ work \in [Threads -> Tasks \cup {None}]
    /\ post \in [Tasks -> {"new", "checked", "refused", "posted", "done"}]
    /\ shutdown \in BOOLEAN /\ unclean \in BOOLEAN

\* "It maintains a minimum number of threads and can scale up to a maximum
\* number" (thread_pool.rb:5): threads that time out together do not all leave,
\* and threads that see the same queue do not all spawn another.
WithinLimits ==
    /\ Cardinality(threads) <= MaxThreads
    /\ ~shutdown => Cardinality(threads) >= min_threads

\* A task that was accepted before the shutdown runs, whatever the idle time:
\* no signal is lost between a thread's look at the queue and its wait, and no
\* thread leaves a task behind (thread_pool.rb:47-59, 128-169).
AcceptedTaskRuns ==
    \A k \in Tasks : (post[k] = "posted" /\ ~shutdown) ~> (post[k] = "done")

\* A pool that is shut down with no task in its queue, and gets none that had
\* passed the check before, ends all its threads (thread_pool.rb:87-94).
CleanShutdownEnds == shutdown ~> (threads = {} \/ unclean)

=============================================================================
