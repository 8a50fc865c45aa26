----------------------------- MODULE TopicPosts -----------------------------
(***************************************************************************)
(* The posts of one topic: how PostCreator numbers a reply, and the        *)
(* requests that meet it in Postgres (like, delete, recover, edit, close). *)
(*                                                                         *)
(* Postgres runs at READ COMMITTED: a statement sees what was committed    *)
(* when it began; an UPDATE takes the row's lock, waits for whoever has    *)
(* it, and keeps it until its transaction ends.  What a transaction writes *)
(* is kept with its request and reaches the tables when it commits.  The   *)
(* topic's DistributedMutex is the LeaseLock it implements.                *)
(***************************************************************************)
EXTENDS Integers, Sequences, FiniteSets, FiniteSetsExt, SequencesExt

CONSTANTS
    Requests,       \* concurrent requests, one operation each
    Ops,            \* the operations they may be
    MaxNumber,      \* bound on post numbers
    InitialPosts,   \* the posts of the topic at the start: a function on 1..n
    Validity,       \* validity of the topic's mutex
    MaxClock        \* bound on the clock

TopicRow == 0
Rows == {TopicRow} \cup 1..MaxNumber
Nobody == "nobody"
Kinds == {"reply", "close", "like", "destroy", "recover", "reset"}

ASSUME TopicPostsAssumption ==
    /\ Nobody \notin Requests
    /\ MaxNumber \in Nat
    /\ \A o \in Ops : o.kind \in Kinds
    /\ \A n \in DOMAIN InitialPosts :
          InitialPosts[n] \in [state : {"live", "trashed"}, whisper : BOOLEAN,
                              parents : SUBSET (1..MaxNumber)]

VARIABLES
    clock, until, holders,  \* the mutex "topic_id_..."
    posts,      \* table posts: number -> [state, whisper, parents]
    topic,      \* the row of topics: highest_post_number, highest_staff_post_number
    owner,      \* who holds the lock of each row
    req,        \* each request: its operation, where it is, what it has read and written
    overran     \* (history) the mutex has expired under a creation at work

mutexVars == <<clock, until, holders>>
vars == <<mutexVars, posts, topic, owner, req, overran>>

Mutex == INSTANCE LeaseLock WITH Procs <- Requests

NoPost == [state |-> "none", whisper |-> FALSE, parents |-> {}]
NoOp == [kind |-> "none"]
Idle == [op |-> NoOp, pc |-> "idle", number |-> 0, whisper |-> FALSE,
         cols |-> <<>>, todo |-> <<>>, linked |-> {}, result |-> "none"]

-----------------------------------------------------------------------------
(* What statements read *)

Used == {n \in 1..MaxNumber : posts[n].state # "none"}
Live == {n \in 1..MaxNumber : posts[n].state = "live"}
Regular == {n \in Live : ~posts[n].whisper}

Highest(S) == IF S = {} THEN 0 ELSE Max(S)

\* reset_highest's sub-selects
Counters == [highest |-> Highest(Regular), staff |-> Highest(Live)]

\* an UPDATE of topics sets some columns and leaves the others
Overwrite(row, cols) == [c \in DOMAIN row |-> IF c \in DOMAIN cols THEN cols[c] ELSE row[c]]

-----------------------------------------------------------------------------
(* Row locks *)

Take(r, row) ==
    /\ owner[row] \in {Nobody, r}
    /\ owner' = [owner EXCEPT ![row] = r]

FreeRows(r) == owner' = [row \in Rows |-> IF owner[row] = r THEN Nobody ELSE owner[row]]

At(r, pc) == req[r].pc = pc
Kind(r) == req[r].op.kind

\* the row the request's next statement must lock, if any
NextRow(r) ==
    CASE At(r, "lock_reply_to") /\ req[r].op.to \in Live -> {req[r].op.to}
      [] At(r, "update_post") -> {req[r].op.post}
      [] /\ At(r, "update_replied") /\ req[r].todo # <<>> /\ ~req[r].whisper
         /\ Head(req[r].todo) \in Live
                               -> {Head(req[r].todo)}
      [] req[r].pc \in {"next_post_number", "update_topic", "write_counters"} -> {TopicRow}
      [] OTHER -> {}

WaitsForRowOf(r) == {owner[row] : row \in NextRow(r)} \ {Nobody, r}

-----------------------------------------------------------------------------
Init ==
    /\ clock = 0
    /\ Mutex!Init
    /\ posts = [n \in 1..MaxNumber |->
                   IF n \in DOMAIN InitialPosts THEN InitialPosts[n] ELSE NoPost]
    /\ topic = Counters
    /\ owner = [row \in Rows |-> Nobody]
    /\ req = [r \in Requests |-> Idle]
    /\ overran = FALSE

Go(r, pc) == req' = [req EXCEPT ![r].pc = pc]

\* where each operation begins, after its mutex, after its commit
FirstStep(kind) ==
    CASE kind = "reply"   -> "mutex"
      [] kind = "close"   -> "update_topic"
      [] kind = "reset"   -> "reset_highest"
      [] OTHER            -> "update_post"

\* a request arrives; the post it is about is there
Start(r) ==
    /\ At(r, "idle")
    /\ \E o \in Ops :
          /\ o.kind \in {"like", "destroy"} => o.post \in Live
          /\ o.kind = "recover" => o.post \in Used \ Live
          /\ o.kind = "reply" => o.to \in Used \cup {0}
          /\ req' = [req EXCEPT ![r] = [Idle EXCEPT !.op = o, !.pc = FirstStep(o.kind),
                                        !.whisper = (o.kind = "reply" /\ o.whisper)]]
    /\ UNCHANGED <<mutexVars, posts, topic, owner, overran>>

-----------------------------------------------------------------------------
(* PostCreator#transaction and create *)

\* DistributedMutex.synchronize("topic_id_...")
LockMutex(r) ==
    /\ At(r, "mutex")
    /\ until' = clock + Validity
    /\ Mutex!Grant(r)
    /\ Go(r, IF Kind(r) = "reply" THEN "lock_reply_to" ELSE "select_max")
    /\ UNCHANGED <<posts, topic, owner, overran>>

LockReplyTo_NoLock_M(r) ==
    /\ At(r, "lock_reply_to")
    /\ Go(r, "select_max")
    /\ UNCHANGED <<mutexVars, posts, topic, owner, overran>>

\* set_reply_info: SELECT ... FOR UPDATE of the post replied to, unless it is
\* deleted; a reply to a whisper is a whisper
LockReplyTo(r) ==
    LET to == req[r].op.to
    IN  /\ At(r, "lock_reply_to")
        /\ \/ to \notin Live /\ UNCHANGED owner /\ Go(r, "select_max")
           \/ /\ to \in Live
              /\ Take(r, to)
              /\ req' = [req EXCEPT ![r].pc = "select_max",
                                    ![r].whisper = @ \/ posts[to].whisper]
        /\ UNCHANGED <<mutexVars, posts, topic, overran>>

MaxPostNumber_IgnoresDeleted_M == Highest(Live)

\* SELECT coalesce(max(post_number),0) FROM posts, deleted ones included
MaxPostNumber == Highest(Used)

Following_Twice_M(n) == n + 2

Following(n) == n + 1

SelectMax(r) ==
    /\ At(r, "select_max")
    /\ MaxPostNumber < MaxNumber
    /\ req' = [req EXCEPT ![r].number = Following(MaxPostNumber),
                          ![r].pc = "next_post_number"]
    /\ UNCHANGED <<mutexVars, posts, topic, owner, overran>>

Columns_Whisper_M(r) == [highest |-> req[r].number, staff |-> req[r].number]

Columns_OffByOne_M(r) == [highest |-> req[r].number + 1, staff |-> req[r].number + 1]

\* the columns next_post_number sets: a whisper only counts for staff
Columns(r) ==
    IF req[r].whisper THEN [staff |-> req[r].number]
    ELSE [highest |-> req[r].number, staff |-> req[r].number]

\* UPDATE topics SET highest_staff_post_number = max + 1 ...
NextPostNumber(r) ==
    /\ At(r, "next_post_number")
    /\ Take(r, TopicRow)
    /\ req' = [req EXCEPT ![r].cols = Columns(r), ![r].pc = "insert_post"]
    /\ UNCHANGED <<mutexVars, posts, topic, overran>>

\* close: the mutex is released inside the outer transaction; reply: after
\* its own transaction
AfterPost(r) == IF Kind(r) = "close" THEN "release_mutex" ELSE "commit"

\* the quoted posts in their order, then the post replied to
Replied(r) ==
    IF Kind(r) = "reply"
    THEN req[r].op.quotes \o (IF req[r].op.to = 0 THEN <<>> ELSE <<req[r].op.to>>)
    ELSE <<>>

InsertPost_Retry_M(r) ==
    /\ At(r, "insert_post")
    /\ req[r].number \notin Used
    /\ req' = [req EXCEPT ![r].todo = Replied(r), ![r].pc = "update_replied"]
    /\ UNCHANGED <<mutexVars, posts, topic, owner, overran>>

\* INSERT INTO posts: the unique index on (topic_id, post_number) decides.
\* (Nobody else can be inserting: the row of topics is locked.)
InsertPost(r) ==
    /\ At(r, "insert_post")
    /\ IF req[r].number \in Used
       THEN req' = [req EXCEPT ![r].result = "not_unique", ![r].pc = AfterPost(r)]
       ELSE req' = [req EXCEPT ![r].todo = Replied(r), ![r].pc = "update_replied"]
    /\ UNCHANGED <<mutexVars, posts, topic, owner, overran>>

\* save_reply_relationships, or remove_associated_replies of a deletion: one
\* UPDATE of reply_count per post that is still there (none for a whisper)
UpdateReplied(r) ==
    /\ At(r, "update_replied")
    /\ \/ /\ req[r].todo = <<>>
          /\ Go(r, AfterPost(r))
          /\ UNCHANGED owner
       \/ /\ req[r].todo # <<>>
          /\ req' = [req EXCEPT ![r].todo = Tail(@),
                                ![r].linked = @ \cup ({Head(req[r].todo)} \cap Live)]
          /\ IF NextRow(r) = {} THEN UNCHANGED owner
             ELSE \E row \in NextRow(r) : Take(r, row)
    /\ UNCHANGED <<mutexVars, posts, topic, overran>>

\* the end of DistributedMutex.synchronize, after an exception too
ReleaseMutex(r) ==
    /\ At(r, "release_mutex")
    /\ IF r \in holders THEN Mutex!Release(r) ELSE UNCHANGED mutexVars
    /\ Go(r, IF Kind(r) = "close" THEN "commit" ELSE "done")
    /\ UNCHANGED <<posts, topic, owner, overran>>

-----------------------------------------------------------------------------
(* The other requests *)

\* like: UPDATE posts SET like_count; delete: trash! sets deleted_at
UpdatePost(r) ==
    /\ At(r, "update_post")
    /\ Kind(r) \in {"like", "destroy"}
    /\ Take(r, req[r].op.post)
    /\ Go(r, IF Kind(r) = "like" THEN "update_topic" ELSE "last_post")
    /\ UNCHANGED <<mutexVars, posts, topic, overran>>

\* make_previous_post_the_last_one: the SELECT of last_post
LastPost(r) == Highest(Regular \ {req[r].op.post})

\* its number is saved with the topic, if that changes the loaded object
SelectLastPost(r) ==
    /\ At(r, "last_post")
    /\ \E cols \in {<<>>, [highest |-> LastPost(r)]} :
          req' = [req EXCEPT ![r].cols = IF LastPost(r) = 0 THEN <<>> ELSE cols,
                             ![r].pc = "update_topic"]
    /\ UNCHANGED <<mutexVars, posts, topic, owner, overran>>

\* like: update_action_counts; close: UPDATE topics SET closed; delete:
\* topic.save! and mark_topic_changed
UpdateTopic(r) ==
    /\ At(r, "update_topic")
    /\ Take(r, TopicRow)
    /\ CASE Kind(r) = "like"  -> Go(r, "commit")
         [] Kind(r) = "close" -> Go(r, "mutex")
         [] OTHER -> req' = [req EXCEPT ![r].todo = SetToSeq(posts[req[r].op.post].parents),
                                        ![r].pc = "update_replied"]
    /\ UNCHANGED <<mutexVars, posts, topic, overran>>

\* recover: staff_recovered runs outside a transaction
RecoverPost(r) ==
    LET n == req[r].op.post
    IN  /\ At(r, "update_post")
        /\ Kind(r) = "recover"
        /\ owner[n] = Nobody
        /\ posts' = [posts EXCEPT ![n].state = "live"]
        /\ Go(r, "reset_highest")
        /\ UNCHANGED <<mutexVars, topic, owner, overran>>

\* Topic.reset_highest: the statement begins and its sub-selects see what is
\* committed now ...
ResetHighest(r) ==
    /\ At(r, "reset_highest")
    /\ req' = [req EXCEPT ![r].cols = Counters, ![r].pc = "write_counters"]
    /\ UNCHANGED <<mutexVars, posts, topic, owner, overran>>

\* ... and it writes once it gets the row of topics
WriteCounters(r) ==
    /\ At(r, "write_counters")
    /\ owner[TopicRow] = Nobody
    /\ topic' = req[r].cols
    /\ Go(r, "done")
    /\ UNCHANGED <<mutexVars, posts, owner, overran>>

\* the rows of posts a committing request leaves behind
PostsAfter(r) ==
    LET n == req[r].number
        p == req[r].op.post
    IN  CASE Kind(r) \in {"reply", "close"} ->
                [posts EXCEPT ![n] = [state |-> "live", whisper |-> req[r].whisper,
                                      parents |-> req[r].linked]]
          [] Kind(r) = "destroy" ->
                [posts EXCEPT ![p].state = "trashed", ![p].parents = {}]
          [] OTHER -> posts

AfterCommit(r) ==
    CASE Kind(r) = "reply"   -> "release_mutex"
      [] Kind(r) = "destroy" -> "reset_highest"
      [] OTHER               -> "done"

\* COMMIT, or ROLLBACK when a statement failed
EndTransaction(r) ==
    /\ At(r, "commit")
    /\ IF req[r].result = "none"
       THEN /\ posts' = PostsAfter(r)
            /\ topic' = Overwrite(topic, req[r].cols)
       ELSE UNCHANGED <<posts, topic>>
    /\ FreeRows(r)
    /\ Go(r, AfterCommit(r))
    /\ UNCHANGED <<mutexVars, overran>>

-----------------------------------------------------------------------------
(* Postgres, the clock, and death *)

\* Postgres finds a cycle of row locks and aborts one of its transactions
DeadlockVictim(r) ==
    /\ \E S \in SUBSET Requests :
          r \in S /\ \A q \in S : WaitsForRowOf(q) \cap S # {}
    /\ FreeRows(r)
    /\ req' = [req EXCEPT ![r].result = "deadlock",
                          ![r].pc = IF r \in holders THEN "release_mutex" ELSE "done"]
    /\ UNCHANGED <<mutexVars, posts, topic, overran>>

\* the worker is killed: its transaction rolls back, its mutex stays until it expires
Kill(r) ==
    /\ req[r].pc \notin {"idle", "done"}
    /\ FreeRows(r)
    /\ IF r \in holders THEN Mutex!Abandon(r) ELSE UNCHANGED mutexVars
    /\ req' = [req EXCEPT ![r].result = "killed", ![r].pc = "done"]
    /\ UNCHANGED <<posts, topic, overran>>

Tick ==
    /\ clock < MaxClock
    /\ Mutex!Tick
    /\ overran' = (overran \/ \E r \in holders \ holders' : ~At(r, "release_mutex"))
    /\ UNCHANGED <<posts, topic, owner, req>>

Step(r) ==
    \/ LockMutex(r)
    \/ LockReplyTo(r)
    \/ SelectMax(r)
    \/ NextPostNumber(r)
    \/ InsertPost(r)
    \/ UpdateReplied(r)
    \/ ReleaseMutex(r)
    \/ UpdatePost(r)
    \/ SelectLastPost(r)
    \/ UpdateTopic(r)
    \/ RecoverPost(r)
    \/ ResetHighest(r)
    \/ WriteCounters(r)
    \/ EndTransaction(r)

Next ==
    \/ Tick
    \/ \E r \in Requests : Start(r) \/ Step(r) \/ DeadlockVictim(r) \/ Kill(r)

Spec == Init /\ [][Next]_vars

-----------------------------------------------------------------------------
(* Properties *)

Pcs == {"idle", "mutex", "lock_reply_to", "select_max", "next_post_number",
        "insert_post", "update_replied", "commit", "release_mutex", "update_post",
        "last_post", "update_topic", "reset_highest", "write_counters", "done"}

\* Types; a row is locked only by a request inside a transaction.
TypeOK ==
    /\ holders \subseteq Requests /\ overran \in BOOLEAN
    /\ \A n \in 1..MaxNumber : posts[n].state \in {"none", "live", "trashed"}
    /\ topic \in [highest : 0..MaxNumber, staff : 0..MaxNumber]
    /\ \A r \in Requests :
          /\ req[r].pc \in Pcs
          /\ (\E row \in Rows : owner[row] = r) => req[r].pc \notin {"idle", "done"}
    /\ \A row \in Rows : owner[row] \in Requests \cup {Nobody}

\* "post_number is monotonically increasing with no gaps" (post_creator.rb:395):
\* a post that appears in the topic has the number after the last one ever
\* used there, whoever ran in between, failed, was killed or overran.
NextNumber ==
    [][\A n \in 1..MaxNumber :
          posts[n].state = "none" /\ posts'[n].state # "none" => n = Highest(Used) + 1]_posts

\* "so we serialize creation to avoid needing rollbacks" (post_creator.rb:396):
\* no creation runs into the unique index.
NoRollback == \A r \in Requests : req[r].result # "not_unique"

\* It is so, although the mutex changes hands by release, by the death of its
\* holder or by expiring behind it, until it expires under a creation that is
\* still at work, or somebody closes the topic (topic_status_updater.rb:12).
CreationsSucceed ==
    ~overran /\ (\A r \in Requests : Kind(r) # "close") => NoRollback

\* set_reply_info locks the post replied to before the topic, as likes do, "so
\* that we can update the replied to post later without causing a deadlock"
\* (post_creator.rb:311): a circle of row locks goes through a request that
\* updates some other post after it locked the topic, a quoted one (post.rb:1225)
\* or a parent of a deleted reply (post_destroyer.rb:462).  A post that was
\* deleted when set_reply_info would have locked it, and is recovered since,
\* is such a post too.
Recovered(n) == \E r \in Requests : Kind(r) = "recover" /\ req[r].op.post = n

OutOfOrder(r) ==
    /\ At(r, "update_replied")
    /\ Kind(r) = "reply" /\ Head(req[r].todo) = req[r].op.to => Recovered(req[r].op.to)

DeadlocksNeedQuoteOrDeletion ==
    \A S \in SUBSET Requests :
        S # {} /\ (\A r \in S : WaitsForRowOf(r) \cap S # {}) => \E r \in S : OutOfOrder(r)

AtRest == \A r \in Requests : req[r].pc \in {"idle", "done"}

\* When no request is at work, the counters of the topic are the numbers of
\* its last posts ("If a post is deleted we have to update our highest post
\* counters", topic.rb:991).
CountersSettle == AtRest => topic = Counters

\* They are when nobody ran reset_highest: what replies, whispers and likes do
\* to the counters adds up in every order, also after kills and deadlocks
\* (topic.rb:870-895).
CreationsCount ==
    (\A r \in Requests : Kind(r) \notin {"destroy", "recover", "reset"}) => CountersSettle

\* Every request ends: cycles of row locks are broken by Postgres, a wait for
\* the mutex by the end of its holder or of its validity.
EveryRequestEnds == \A r \in Requests : (req[r].pc # "idle") ~> At(r, "done")
=============================================================================
